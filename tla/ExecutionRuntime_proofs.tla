----------------------- MODULE ExecutionRuntime_proofs -----------------------
(***************************************************************************)
(* What the run of ExecutionRuntime shows for two processes and two        *)
(* leases, proved for any processes, allocations, recipes, and any number  *)
(* of leases, caught failures and payload updates.                         *)
(*                                                                         *)
(* The argument: the valid lease, the registered lease and the invocation  *)
(* that executes the recipe are each the latest of their process, so where *)
(* a guard finds a registered lease, it is its own.  What it reads there   *)
(* was staged for its task, or is a late request that does not fit.        *)
(***************************************************************************)
EXTENDS ExecutionRuntime, TLAPS

Latest(i) == \A j \in DOMAIN inv : j > i => inv[j].w # inv[i].w
HasEarlier(i) == \E j \in 1..(i - 1) : inv[j].w = inv[i].w

(* Only the invocation acquired last can hold the valid lease. *)
OwnerIsLast == owner \in {None, Len(inv)}

(* A process has registered at most its latest invocation. *)
RegisteredIsLatest ==
    \A w \in Worker, l \in DOMAIN inv : leases[w] = l => inv[l].w = w /\ Latest(l)

(* What holds of each invocation.  Only a process's latest one stages and guards. *)
StagingIsLatest(i) == inv[i].pc \in {"stage", "guard"} => Latest(i)

TaskInRange(i) ==
    /\ inv[i].pc = "stage" => inv[i].task \in 1..(Len(Needs) + 1)
    /\ inv[i].pc \in {"guard", "running", "yield", "failed"} => inv[i].task \in Task

(* A task runs, and yields, on its own invocation's lease. *)
OnOwnLease(i) == inv[i].pc \in {"running", "yield"} => inv[i].by = i

BlockedStays(i) ==
    /\ inv[i].refused => inv[i].blocked
    /\ inv[i].blocked => inv[i].pc \notin {"running", "yield"}

RegisteredWhileValid(i) ==
    owner = i /\ inv[i].pc # "ended" /\ ~inv[i].lost /\ ~inv[i].blocked => leases[inv[i].w] = i

(* What a guard reads covers the task, or is a late request that does not fit. *)
StagedForGuard(i) ==
    inv[i].pc = "guard" /\ leases[inv[i].w] = i /\ ~inv[i].blocked =>
        /\ inv[i].demand \in Nat
        /\ \/ inv[i].demand >= Needs[inv[i].task]
           \/ inv[i].demand > Alloc[inv[i].w] /\ HasEarlier(i)

ReadCoversTask(i) ==
    inv[i].pc = "running" => /\ inv[i].read \in Nat
                             /\ inv[i].read >= Needs[inv[i].task]
                             /\ inv[i].read <= Alloc[inv[i].w]

YieldIsNeeded(i) ==
    inv[i].pc = "yield" /\ owner = i =>
        /\ inv[i].demand \in Nat
        /\ inv[i].demand > Alloc[inv[i].w]
        /\ inv[i].demand >= Needs[inv[i].task] \/ HasEarlier(i)

InvocationInv(i) ==
    /\ StagingIsLatest(i)
    /\ TaskInRange(i)
    /\ OnOwnLease(i)
    /\ BlockedStays(i)
    /\ RegisteredWhileValid(i)
    /\ StagedForGuard(i)
    /\ ReadCoversTask(i)
    /\ YieldIsNeeded(i)

HandoffInv ==
    handoff # <<>> =>
        /\ handoff.by \in DOMAIN inv /\ handoff.task \in Task /\ handoff.demand \in Nat
        /\ handoff.demand > Alloc[inv[handoff.by].w]
        /\ handoff.demand >= Needs[handoff.task] \/ HasEarlier(handoff.by)

RuntimeInv ==
    /\ TypeOK
    /\ OwnerIsLast
    /\ RegisteredIsLatest
    /\ \A i \in DOMAIN inv : InvocationInv(i)
    /\ HandoffInv
    /\ ChildrenBelongToTheirTask

-----------------------------------------------------------------------------
(* Facts about the data. *)

(* Replacing one invocation keeps the others and their order. *)
LEMMA ReplaceInvocation ==
  ASSUME NEW s \in Seq(Invocations), NEW i \in DOMAIN s, NEW e \in Invocations
  PROVE  /\ [s EXCEPT ![i] = e] \in Seq(Invocations)
         /\ Len([s EXCEPT ![i] = e]) = Len(s)
         /\ DOMAIN [s EXCEPT ![i] = e] = DOMAIN s
         /\ [s EXCEPT ![i] = e][i] = e
         /\ \A j \in DOMAIN s : j # i => [s EXCEPT ![i] = e][j] = s[j]
  OBVIOUS

(* While the invocations stay in their processes, so do their orders. *)
LEMMA SameOrder ==
  ASSUME DOMAIN inv' = DOMAIN inv, \A j \in DOMAIN inv : inv'[j].w = inv[j].w,
         inv \in Seq(Invocations), NEW i \in DOMAIN inv
  PROVE  (Latest(i)' <=> Latest(i)) /\ (HasEarlier(i)' <=> HasEarlier(i))
<1>1. Latest(i)' <=> Latest(i)
  BY DEF Latest
<1>2. i \in 1..Len(inv) /\ DOMAIN inv = 1..Len(inv)
  OBVIOUS
<1>3. 1..(i - 1) \subseteq DOMAIN inv
  BY <1>2
<1> QED
  BY <1>1, <1>3 DEF HasEarlier

(* The types of an invocation's parts, and of what the runtime's map holds. *)
LEMMA Types ==
  ASSUME TypeOK
  PROVE  /\ inv \in Seq(Invocations) /\ DOMAIN inv = 1..Len(inv)
         /\ \A i \in DOMAIN inv : inv[i] \in Invocations /\ inv[i].w \in Worker
         /\ \A w \in Worker : leases[w] # None => leases[w] \in DOMAIN inv
<1>1. inv \in Seq(Invocations) /\ leases \in [Worker -> 0..Len(inv)]
  BY DEF TypeOK
<1>2. \A i \in DOMAIN inv : inv[i] \in Invocations
  BY <1>1
<1>3. \A i \in DOMAIN inv : inv[i].w \in Worker
  BY <1>2 DEF Invocations
<1> QED
  BY <1>1, <1>2, <1>3 DEF None

(* The types of an invocation's fields. *)
LEMMA Fields ==
  ASSUME NEW e \in Invocations
  PROVE  /\ e.w \in Worker /\ e.task \in Nat /\ e.catches \in Nat /\ e.lost \in BOOLEAN
         /\ e.seen \in Payloads /\ e.by \in Nat /\ e.read \in Demands /\ e.demand \in Demands
         /\ e.blocked \in BOOLEAN /\ e.refused \in BOOLEAN
  BY DEF Invocations

(* Two latest invocations of one process are the same. *)
LEMMA LatestIsUnique ==
  ASSUME inv \in Seq(Invocations), NEW i \in DOMAIN inv, NEW j \in DOMAIN inv,
         inv[i].w = inv[j].w, Latest(i), Latest(j)
  PROVE  i = j
  BY DEF Latest

(* A guard that finds a registered lease finds its own invocation's. *)
LEMMA RegisteredIsOwn ==
  ASSUME RuntimeInv, NEW i \in DOMAIN inv, Latest(i), leases[inv[i].w] # None
  PROVE  leases[inv[i].w] = i
<1> DEFINE l == leases[inv[i].w]
<1>1. l \in DOMAIN inv /\ inv[l].w = inv[i].w /\ Latest(l) /\ inv \in Seq(Invocations)
  BY Types DEF RuntimeInv, RegisteredIsLatest
<1> QED
  BY <1>1, LatestIsUnique

(* The invocation with the valid lease is the latest of its process. *)
LEMMA OwnerIsLatest ==
  ASSUME RuntimeInv, NEW i \in DOMAIN inv, owner = i
  PROVE  Latest(i)
  BY Types DEF RuntimeInv, OwnerIsLast, Latest, None

-----------------------------------------------------------------------------
(* A step of one invocation.  A late request of it may replace the demand   *)
(* of a later one, by a demand that does not fit.                           *)
LateRequest(j, e) ==
    /\ e = [inv[j] EXCEPT !.demand = e.demand]
    /\ e.demand \in Nat /\ e.demand > Alloc[inv[j].w]
    /\ HasEarlier(j)

LEMMA LocalStep ==
  ASSUME RuntimeInv, TypeOK', NEW i \in DOMAIN inv,
         DOMAIN inv' = DOMAIN inv, inv'[i].w = inv[i].w,
         \A j \in DOMAIN inv : j # i => inv'[j] = inv[j] \/ LateRequest(j, inv'[j]),
         owner' \in {owner, None},
         \A w \in Worker : \/ leases'[w] = leases[w]
                           \/ leases[w] = i /\ leases'[w] = None
                           \/ w = inv[i].w /\ leases'[w] = i /\ owner = i,
         InvocationInv(i)'
  PROVE  /\ OwnerIsLast' /\ RegisteredIsLatest'
         /\ \A j \in DOMAIN inv' : InvocationInv(j)'
         /\ UNCHANGED handoff => HandoffInv'
<1>1. /\ inv \in Seq(Invocations) /\ inv' \in Seq(Invocations) /\ Len(inv') = Len(inv)
      /\ \A j \in DOMAIN inv : inv[j] \in Invocations
  BY Types DEF RuntimeInv, TypeOK
<1>2. \A j \in DOMAIN inv : j # i =>
        /\ inv'[j].w = inv[j].w /\ inv'[j].pc = inv[j].pc /\ inv'[j].task = inv[j].task
        /\ inv'[j].by = inv[j].by /\ inv'[j].read = inv[j].read /\ inv'[j].lost = inv[j].lost
        /\ inv'[j].blocked = inv[j].blocked /\ inv'[j].refused = inv[j].refused
        /\ \/ inv'[j].demand = inv[j].demand
           \/ inv'[j].demand \in Nat /\ inv'[j].demand > Alloc[inv[j].w] /\ HasEarlier(j)
  BY <1>1 DEF LateRequest, Invocations
<1>3. \A j \in DOMAIN inv : (Latest(j)' <=> Latest(j)) /\ (HasEarlier(j)' <=> HasEarlier(j))
  BY <1>1, <1>2, SameOrder
<1>4. OwnerIsLast'
  BY <1>1 DEF RuntimeInv, OwnerIsLast
<1>5. RegisteredIsLatest'
  <2> SUFFICES ASSUME NEW w \in Worker, NEW l \in DOMAIN inv, leases'[w] = l
               PROVE  inv'[l].w = w /\ Latest(l)'
    BY DEF RegisteredIsLatest
  <2>1. CASE leases'[w] = leases[w]
    BY <2>1, <1>2, <1>3 DEF RuntimeInv, RegisteredIsLatest
  <2>2. CASE w = inv[i].w /\ leases'[w] = i /\ owner = i
    BY <2>2, <1>3, OwnerIsLatest
  <2> QED
    BY <2>1, <2>2, <1>1 DEF None
<1>6. ASSUME NEW j \in DOMAIN inv, j # i PROVE InvocationInv(j)'
  <2>1. InvocationInv(j)
    BY DEF RuntimeInv
  <2>2. StagingIsLatest(j)' /\ TaskInRange(j)' /\ OnOwnLease(j)' /\ BlockedStays(j)' /\ ReadCoversTask(j)'
    BY <1>2, <1>3, <1>6, <2>1
    DEF InvocationInv, StagingIsLatest, TaskInRange, OnOwnLease, BlockedStays, ReadCoversTask
  <2>3. inv[j].w \in Worker /\ j # None
    BY Types DEF RuntimeInv, None
  <2>4. RegisteredWhileValid(j)'
    BY <1>2, <1>6, <2>1, <2>3 DEF InvocationInv, RegisteredWhileValid
  <2>5. StagedForGuard(j)'
    BY <1>2, <1>3, <1>6, <2>1, <2>3 DEF InvocationInv, StagedForGuard
  <2>6. YieldIsNeeded(j)'
    BY <1>2, <1>3, <1>6, <2>1, <2>3 DEF InvocationInv, YieldIsNeeded
  <2> QED
    BY <2>2, <2>4, <2>5, <2>6 DEF InvocationInv
<1>7. ASSUME UNCHANGED handoff PROVE HandoffInv'
  BY <1>2, <1>3, <1>7 DEF RuntimeInv, HandoffInv
<1> QED
  BY <1>4, <1>5, <1>6, <1>7
-----------------------------------------------------------------------------
(* One lemma per action of an invocation. *)

(* A step that replaces invocation i by e keeps the state well typed and the order of invocations. *)
LEMMA LocalView ==
  ASSUME TypeOK, NEW i \in DOMAIN inv, NEW e \in Invocations, inv' = [inv EXCEPT ![i] = e],
         e.by \in 0..Len(inv), e.w = inv[i].w,
         done' \in 0..Len(Needs), over' \in BOOLEAN, owner' \in {owner, None}, payload' \in Payloads, updates' \in Nat,
         leases' \in {leases, Forget(i), [leases EXCEPT ![inv[i].w] = i]}
  PROVE  /\ TypeOK' /\ DOMAIN inv' = DOMAIN inv /\ inv'[i] = e
         /\ \A j \in DOMAIN inv : j # i => inv'[j] = inv[j]
         /\ (Latest(i)' <=> Latest(i)) /\ (HasEarlier(i)' <=> HasEarlier(i))
<1>1. /\ inv \in Seq(Invocations) /\ inv[i].w \in Worker /\ i \in 1..Len(inv)
      /\ leases \in [Worker -> 0..Len(inv)] /\ owner \in 0..Len(inv) /\ \A j \in DOMAIN inv : inv[j].by \in 0..Len(inv)
  BY Types DEF TypeOK
<1>2. /\ inv' \in Seq(Invocations) /\ Len(inv') = Len(inv) /\ DOMAIN inv' = DOMAIN inv /\ inv'[i] = e
      /\ \A j \in DOMAIN inv : j # i => inv'[j] = inv[j]
  BY <1>1, ReplaceInvocation
<1>3. leases' \in [Worker -> 0..Len(inv)]
  BY <1>1 DEF Forget, None
<1>4. owner' \in 0..Len(inv)
  BY <1>1 DEF None
<1>5. \A j \in DOMAIN inv' : inv'[j].by \in 0..Len(inv')
  BY <1>1, <1>2
<1>6. \A j \in DOMAIN inv : inv'[j].w = inv[j].w
  BY <1>2
<1>7. (Latest(i)' <=> Latest(i)) /\ (HasEarlier(i)' <=> HasEarlier(i))
  BY <1>1, <1>2, <1>6, SameOrder
<1> QED
  BY <1>2, <1>3, <1>4, <1>5, <1>7 DEF TypeOK

(* Forgetting an invocation changes no other registration. *)
LEMMA ForgetOnly ==
  ASSUME TypeOK, NEW i \in DOMAIN inv, leases' \in {leases, Forget(i)}
  PROVE  \A w \in Worker : leases'[w] = leases[w] \/ (leases[w] = i /\ leases'[w] = None)
  BY Types DEF Forget, TypeOK

(* What every action's lemma starts from. *)
LEMMA Start ==
  ASSUME RuntimeInv, NEW i \in DOMAIN inv
  PROVE  /\ TypeOK /\ inv[i] \in Invocations /\ inv[i].w \in Worker /\ i # None
         /\ InvocationInv(i) /\ leases[inv[i].w] \in 0..Len(inv) /\ inv[i].by \in 0..Len(inv)
  BY Types DEF RuntimeInv, None, TypeOK

(* An invocation ends: nothing is claimed of it any more. *)
LEMMA EndStep ==
  ASSUME RuntimeInv, NEW i \in DOMAIN inv, inv' = Goto(i, "ended"), done' \in 0..Len(Needs), over' \in BOOLEAN,
         owner' \in {owner, None}, payload' \in Payloads, leases' \in {leases, Forget(i)},
         UNCHANGED <<updates, child>>, UNCHANGED handoff \/ HandoffInv'
  PROVE  RuntimeInv'
<1> DEFINE e == [inv[i] EXCEPT !.pc = "ended"]
<1>1. TypeOK /\ inv[i] \in Invocations /\ InvocationInv(i) /\ inv[i].by \in 0..Len(inv)
  BY Start
<1>2. e \in Invocations /\ e.by \in 0..Len(inv) /\ e.w = inv[i].w /\ updates' \in Nat
  BY <1>1 DEF TypeOK, Invocations
<1>3. /\ TypeOK' /\ DOMAIN inv' = DOMAIN inv /\ inv'[i] = e
      /\ \A j \in DOMAIN inv : j # i => inv'[j] = inv[j]
  BY <1>1, <1>2, LocalView DEF Goto
<1>4. InvocationInv(i)'
  BY <1>1, <1>3
  DEF InvocationInv, StagingIsLatest, TaskInRange, OnOwnLease, BlockedStays, RegisteredWhileValid, StagedForGuard,
      ReadCoversTask, YieldIsNeeded, Invocations
<1>5. \A w \in Worker : leases'[w] = leases[w] \/ (leases[w] = i /\ leases'[w] = None)
  BY <1>1, ForgetOnly
<1> QED
  BY <1>2, <1>3, <1>4, <1>5, LocalStep DEF RuntimeInv, ChildrenBelongToTheirTask

(* An invocation fails, by itself or because its handoff was refused: then it is blocked. *)
LEMMA FailStep ==
  ASSUME RuntimeInv, NEW i \in DOMAIN inv, NEW b \in BOOLEAN, NEW r \in BOOLEAN, inv[i].pc \in {"guard", "running", "yield"},
         inv' = [inv EXCEPT ![i] = [inv[i] EXCEPT !.pc = "failed", !.blocked = b, !.refused = r]],
         inv[i].blocked => b, r => b,
         leases' \in {leases, Forget(i)}, leases' # leases => b,
         owner' \in {owner, None}, payload' \in Payloads, UNCHANGED <<done, over, updates, handoff, child>>
  PROVE  RuntimeInv'
<1> DEFINE e == [inv[i] EXCEPT !.pc = "failed", !.blocked = b, !.refused = r]
<1>1. TypeOK /\ inv[i] \in Invocations /\ InvocationInv(i) /\ inv[i].by \in 0..Len(inv) /\ i # None
  BY Start
<1>2. e \in Invocations /\ e.by \in 0..Len(inv) /\ e.w = inv[i].w
  BY <1>1 DEF TypeOK, Invocations
<1>3. /\ TypeOK' /\ DOMAIN inv' = DOMAIN inv /\ inv'[i] = e
      /\ \A j \in DOMAIN inv : j # i => inv'[j] = inv[j]
  BY <1>1, <1>2, LocalView DEF TypeOK
<1>4. InvocationInv(i)'
  BY <1>1, <1>3
  DEF InvocationInv, StagingIsLatest, TaskInRange, OnOwnLease, BlockedStays, RegisteredWhileValid, StagedForGuard,
      ReadCoversTask, YieldIsNeeded, Invocations
<1>5. \A w \in Worker : leases'[w] = leases[w] \/ (leases[w] = i /\ leases'[w] = None)
  BY <1>1, ForgetOnly
<1> QED
  BY <1>2, <1>3, <1>4, <1>5, LocalStep DEF RuntimeInv, ChildrenBelongToTheirTask

(* The heartbeat: a refreshed snapshot and a registration, or the news of a lost lease. *)
LEMMA RenewStep == ASSUME RuntimeInv, NEW i \in DOMAIN inv, Renew(i) PROVE RuntimeInv'
<1>1. TypeOK /\ inv[i] \in Invocations /\ inv[i].w \in Worker /\ i # None /\ InvocationInv(i) /\ inv[i].by \in 0..Len(inv)
  BY Start
<1>2. UNCHANGED <<done, over, owner, payload, updates, handoff, child>> /\ inv[i].pc # "ended" /\ ~inv[i].lost
  BY DEF Renew
<1>3. CASE owner = i /\ inv' = [inv EXCEPT ![i].seen = payload] /\ leases' = [leases EXCEPT ![inv[i].w] = i]
  <2> DEFINE e == [inv[i] EXCEPT !.seen = payload]
  <2>1. e \in Invocations /\ e.by \in 0..Len(inv) /\ e.w = inv[i].w
    BY <1>1 DEF TypeOK, Invocations
  <2>2. /\ TypeOK' /\ DOMAIN inv' = DOMAIN inv /\ inv'[i] = e
        /\ \A j \in DOMAIN inv : j # i => inv'[j] = inv[j]
        /\ (Latest(i)' <=> Latest(i)) /\ (HasEarlier(i)' <=> HasEarlier(i))
    BY <1>1, <1>2, <1>3, <2>1, LocalView DEF TypeOK
  <2>3. leases'[inv[i].w] = i /\ (leases[inv[i].w] = i \/ inv[i].blocked)
    BY <1>1, <1>2, <1>3 DEF InvocationInv, RegisteredWhileValid, TypeOK
  <2>4. InvocationInv(i)'
    BY <1>1, <1>2, <2>2, <2>3
    DEF InvocationInv, StagingIsLatest, TaskInRange, OnOwnLease, BlockedStays, RegisteredWhileValid, StagedForGuard,
        ReadCoversTask, YieldIsNeeded, Invocations
  <2>5. \A w \in Worker : leases'[w] = leases[w] \/ (w = inv[i].w /\ leases'[w] = i /\ owner = i)
    BY <1>1, <1>3 DEF TypeOK
  <2> QED
    BY <1>2, <2>1, <2>2, <2>4, <2>5, LocalStep DEF RuntimeInv, ChildrenBelongToTheirTask
<1>4. CASE owner # i /\ inv' = [inv EXCEPT ![i].lost = TRUE] /\ leases' = Forget(i)
  <2> DEFINE e == [inv[i] EXCEPT !.lost = TRUE]
  <2>1. e \in Invocations /\ e.by \in 0..Len(inv) /\ e.w = inv[i].w
    BY <1>1 DEF TypeOK, Invocations
  <2>2. /\ TypeOK' /\ DOMAIN inv' = DOMAIN inv /\ inv'[i] = e
        /\ \A j \in DOMAIN inv : j # i => inv'[j] = inv[j]
        /\ (Latest(i)' <=> Latest(i)) /\ (HasEarlier(i)' <=> HasEarlier(i))
    BY <1>1, <1>2, <1>4, <2>1, LocalView DEF TypeOK
  <2>3. \A w \in Worker : leases'[w] = leases[w] \/ (leases[w] = i /\ leases'[w] = None)
    BY <1>1, <1>4, ForgetOnly
  <2>4. leases'[inv[i].w] = i => leases[inv[i].w] = i
    BY <1>1, <2>3
  <2>5. InvocationInv(i)'
    BY <1>1, <1>2, <1>4, <2>2, <2>4
    DEF InvocationInv, StagingIsLatest, TaskInRange, OnOwnLease, BlockedStays, RegisteredWhileValid, StagedForGuard,
        ReadCoversTask, YieldIsNeeded, Invocations
  <2> QED
    BY <1>2, <2>1, <2>2, <2>3, <2>5, LocalStep DEF RuntimeInv, ChildrenBelongToTheirTask
<1> QED
  BY <1>3, <1>4 DEF Renew

(* The deferred cleanup of an invocation that has ended. *)
LEMMA CleanupStep == ASSUME RuntimeInv, NEW i \in DOMAIN inv, Cleanup(i) PROVE RuntimeInv'
<1>1. TypeOK /\ inv[i] \in Invocations /\ inv \in Seq(Invocations) /\ inv[i].pc = "ended"
  BY Start DEF Cleanup, TypeOK
<1>2. inv' = Goto(i, "ended")
  BY <1>1 DEF Cleanup, Goto, Invocations
<1> QED
  BY <1>1, <1>2, EndStep DEF Cleanup, TypeOK

(* The recipe stages what its current node requires. *)
LEMMA StageNodeStep == ASSUME RuntimeInv, NEW i \in DOMAIN inv, StageNode(i) PROVE RuntimeInv'
<1> DEFINE d == IF leases[inv[i].w] = None THEN inv[i].demand ELSE Needs[inv[i].task]
           e == [inv[i] EXCEPT !.demand = d, !.pc = "guard"]
<1>1. TypeOK /\ inv[i] \in Invocations /\ inv[i].w \in Worker /\ i # None /\ InvocationInv(i) /\ inv[i].by \in 0..Len(inv)
  BY Start
<1>2. /\ inv[i].pc = "stage" /\ inv[i].task \in Task /\ Needs[inv[i].task] \in Nat
      /\ UNCHANGED <<done, over, owner, payload, leases, updates, handoff, child>>
  BY RuntimeAssumption DEF StageNode, Task
<1>3. Latest(i) /\ (leases[inv[i].w] # None => leases[inv[i].w] = i)
  BY <1>1, <1>2, RegisteredIsOwn DEF InvocationInv, StagingIsLatest
<1>4. inv' = [inv EXCEPT ![i] = e]
  BY <1>1, <1>3 DEF StageNode, Stage, Invocations, TypeOK
<1>5. e \in Invocations /\ e.by \in 0..Len(inv) /\ e.w = inv[i].w
  BY <1>1, <1>2 DEF Invocations, Demands
<1>6. /\ TypeOK' /\ DOMAIN inv' = DOMAIN inv /\ inv'[i] = e
      /\ \A j \in DOMAIN inv : j # i => inv'[j] = inv[j]
      /\ (Latest(i)' <=> Latest(i)) /\ (HasEarlier(i)' <=> HasEarlier(i))
  BY <1>1, <1>2, <1>4, <1>5, LocalView DEF TypeOK
<1>7. InvocationInv(i)'
  BY <1>1, <1>2, <1>3, <1>6
  DEF InvocationInv, StagingIsLatest, TaskInRange, OnOwnLease, BlockedStays, RegisteredWhileValid, StagedForGuard,
      ReadCoversTask, YieldIsNeeded, Invocations
<1> QED
  BY <1>2, <1>5, <1>6, <1>7, LocalStep DEF RuntimeInv, ChildrenBelongToTheirTask

(* The guard fails, yields or runs the task. *)
LEMMA GuardStep == ASSUME RuntimeInv, NEW i \in DOMAIN inv, Guard(i) PROVE RuntimeInv'
<1>1. /\ TypeOK /\ inv[i] \in Invocations /\ inv[i].w \in Worker /\ i # None /\ i \in 0..Len(inv)
      /\ InvocationInv(i) /\ inv[i].by \in 0..Len(inv)
  BY Start, Types
<1>2. inv[i].pc = "guard" /\ UNCHANGED <<done, over, owner, payload, leases, updates, handoff, child>>
  BY DEF Guard
<1>3. Latest(i) /\ (leases[inv[i].w] # None => leases[inv[i].w] = i)
  BY <1>1, <1>2, RegisteredIsOwn DEF InvocationInv, StagingIsLatest
<1>4. CASE inv' = Goto(i, "failed")
  <2>1. inv' = [inv EXCEPT ![i] = [inv[i] EXCEPT !.pc = "failed", !.blocked = inv[i].blocked, !.refused = inv[i].refused]]
    BY <1>1, <1>4 DEF Goto, Invocations
  <2>2. inv[i].blocked \in BOOLEAN /\ inv[i].refused \in BOOLEAN /\ (inv[i].refused => inv[i].blocked)
    BY <1>1 DEF Invocations, InvocationInv, BlockedStays
  <2> QED
    BY <1>1, <1>2, <2>1, <2>2, FailStep DEF TypeOK
<1>5. CASE /\ inv' = [inv EXCEPT ![i] = [inv[i] EXCEPT !.pc = "running", !.by = i, !.read = inv[i].demand]]
          /\ leases[inv[i].w] = i /\ ~inv[i].blocked /\ Fits(inv[i].demand, inv[i].w)
  <2> DEFINE e == [inv[i] EXCEPT !.pc = "running", !.by = i, !.read = inv[i].demand]
  <2>0. inv[i].demand \in Demands /\ i \in Nat /\ Len(inv) \in Nat
    BY <1>1, Fields DEF TypeOK
  <2>1. e \in Invocations /\ e.by \in 0..Len(inv) /\ e.w = inv[i].w
    BY <1>1, <2>0 DEF Invocations
  <2>2. /\ TypeOK' /\ DOMAIN inv' = DOMAIN inv /\ inv'[i] = e
        /\ \A j \in DOMAIN inv : j # i => inv'[j] = inv[j]
        /\ (Latest(i)' <=> Latest(i)) /\ (HasEarlier(i)' <=> HasEarlier(i))
    BY <1>1, <1>2, <1>5, <2>1, LocalView DEF TypeOK
  <2>3. /\ inv[i].demand \in Nat /\ inv[i].demand # NoDemand /\ Alloc[inv[i].w] \in Nat
        /\ inv[i].demand >= Needs[inv[i].task] \/ (inv[i].demand > Alloc[inv[i].w] /\ HasEarlier(i))
    BY <1>1, <1>2, <1>5, RuntimeAssumption DEF InvocationInv, StagedForGuard
  <2>4. inv[i].task \in Task /\ Needs[inv[i].task] \in Nat
    BY <1>1, <1>2, RuntimeAssumption DEF InvocationInv, TaskInRange, Task
  <2>5. /\ e.pc = "running" /\ e.by = i /\ e.task = inv[i].task /\ e.read = inv[i].demand /\ e.demand = inv[i].demand
        /\ ~e.blocked /\ (e.refused <=> inv[i].refused)
    BY <1>1, <1>5 DEF Invocations
  <2>6. InvocationInv(i)'
    <3>1. StagingIsLatest(i)' /\ TaskInRange(i)' /\ OnOwnLease(i)' /\ RegisteredWhileValid(i)' /\ StagedForGuard(i)'
      BY <1>2, <1>5, <2>1, <2>2, <2>4, <2>5
      DEF StagingIsLatest, TaskInRange, OnOwnLease, RegisteredWhileValid, StagedForGuard
    <3>2. BlockedStays(i)'
      BY <1>1, <1>5, <2>2, <2>5 DEF InvocationInv, BlockedStays
    <3>3. ReadCoversTask(i)' /\ YieldIsNeeded(i)'
      <4>1. inv[i].demand <= Alloc[inv[i].w]
        BY <1>5, <2>3 DEF Fits
      <4>2. inv'[i].demand = inv[i].demand /\ inv'[i].read = inv[i].demand /\ inv'[i].w = inv[i].w
            /\ inv'[i].task = inv[i].task /\ inv'[i].pc = "running"
        BY <2>1, <2>2, <2>5
      <4> QED
        BY <2>2, <2>3, <2>4, <4>1, <4>2 DEF ReadCoversTask, YieldIsNeeded
    <3> QED
      BY <3>1, <3>2, <3>3 DEF InvocationInv
  <2> QED
    BY <1>2, <2>1, <2>2, <2>6, LocalStep DEF RuntimeInv, ChildrenBelongToTheirTask
<1>6. CASE /\ inv' = [inv EXCEPT ![i] = [inv[i] EXCEPT !.pc = "yield", !.by = i, !.read = inv[i].demand]]
          /\ leases[inv[i].w] = i /\ ~inv[i].blocked /\ ~Fits(inv[i].demand, inv[i].w)
  <2> DEFINE e == [inv[i] EXCEPT !.pc = "yield", !.by = i, !.read = inv[i].demand]
  <2>0. inv[i].demand \in Demands /\ i \in Nat /\ Len(inv) \in Nat
    BY <1>1, Fields DEF TypeOK
  <2>1. e \in Invocations /\ e.by \in 0..Len(inv) /\ e.w = inv[i].w
    BY <1>1, <2>0 DEF Invocations
  <2>2. /\ TypeOK' /\ DOMAIN inv' = DOMAIN inv /\ inv'[i] = e
        /\ \A j \in DOMAIN inv : j # i => inv'[j] = inv[j]
        /\ (Latest(i)' <=> Latest(i)) /\ (HasEarlier(i)' <=> HasEarlier(i))
    BY <1>1, <1>2, <1>6, <2>1, LocalView DEF TypeOK
  <2>3. /\ inv[i].demand \in Nat /\ inv[i].demand # NoDemand /\ Alloc[inv[i].w] \in Nat
        /\ inv[i].demand >= Needs[inv[i].task] \/ (inv[i].demand > Alloc[inv[i].w] /\ HasEarlier(i))
    BY <1>1, <1>2, <1>6, RuntimeAssumption DEF InvocationInv, StagedForGuard
  <2>4. inv[i].task \in Task /\ Needs[inv[i].task] \in Nat
    BY <1>1, <1>2, RuntimeAssumption DEF InvocationInv, TaskInRange, Task
  <2>5. /\ e.pc = "yield" /\ e.by = i /\ e.task = inv[i].task /\ e.read = inv[i].demand /\ e.demand = inv[i].demand
        /\ ~e.blocked /\ (e.refused <=> inv[i].refused)
    BY <1>1, <1>6 DEF Invocations
  <2>6. InvocationInv(i)'
    <3>1. StagingIsLatest(i)' /\ TaskInRange(i)' /\ OnOwnLease(i)' /\ RegisteredWhileValid(i)' /\ StagedForGuard(i)'
      BY <1>2, <1>6, <2>1, <2>2, <2>4, <2>5
      DEF StagingIsLatest, TaskInRange, OnOwnLease, RegisteredWhileValid, StagedForGuard
    <3>2. BlockedStays(i)'
      BY <1>1, <1>6, <2>2, <2>5 DEF InvocationInv, BlockedStays
    <3>3. ReadCoversTask(i)' /\ YieldIsNeeded(i)'
      <4>1. inv[i].demand > Alloc[inv[i].w]
        BY <1>6, <2>3 DEF Fits
      <4>2. inv'[i].demand = inv[i].demand /\ inv'[i].read = inv[i].demand /\ inv'[i].w = inv[i].w
            /\ inv'[i].task = inv[i].task /\ inv'[i].pc = "yield"
        BY <2>1, <2>2, <2>5
      <4> QED
        BY <2>2, <2>3, <2>4, <4>1, <4>2 DEF ReadCoversTask, YieldIsNeeded
    <3> QED
      BY <3>1, <3>2, <3>3 DEF InvocationInv
  <2> QED
    BY <1>2, <2>1, <2>2, <2>6, LocalStep DEF RuntimeInv, ChildrenBelongToTheirTask
<1> QED
  BY <1>1, <1>3, <1>4, <1>5, <1>6 DEF Guard, Invocations

(* The task ends: with a result, without one, or with a request for another environment. *)
LEMMA TaskEndsStep == ASSUME RuntimeInv, NEW i \in DOMAIN inv, TaskEnds(i) PROVE RuntimeInv'
<1> DEFINE k == inv[i].task
           d == Negotiate(inv[i].read, Asks[k])
           l == leases[inv[i].w]
<1>1. /\ TypeOK /\ inv[i] \in Invocations /\ inv[i].w \in Worker /\ i # None /\ InvocationInv(i)
      /\ inv[i].by \in 0..Len(inv)
  BY Start
<1>2. inv[i].pc = "running" /\ UNCHANGED <<over, owner, payload, leases, updates, handoff, child>>
  BY DEF TaskEnds
<1>3. /\ k \in Task /\ Needs[k] \in Nat /\ Asks[k] \in Nat /\ Alloc[inv[i].w] \in Nat
      /\ inv[i].read \in Nat /\ inv[i].read >= Needs[k] /\ ~inv[i].blocked
  <2>1. k \in Task /\ inv[i].read \in Nat /\ inv[i].read >= Needs[k] /\ ~inv[i].blocked
    BY <1>1, <1>2 DEF InvocationInv, TaskInRange, ReadCoversTask, BlockedStays
  <2>2. Needs[k] \in Nat /\ Asks[k] \in Nat
    <3>1. k \in 1..Len(Needs) /\ Needs \in Seq(Nat) /\ Asks \in Seq(Nat) /\ Len(Asks) = Len(Needs)
      BY <2>1, RuntimeAssumption DEF Task
    <3> HIDE DEF k
    <3> QED
      BY <3>1
  <2>3. Alloc[inv[i].w] \in Nat
    BY <1>1, RuntimeAssumption
  <2> QED
    BY <2>1, <2>2, <2>3
<1>4. CASE owner = i /\ done' = k /\ inv' = [inv EXCEPT ![i].pc = "stage", ![i].task = k + 1]
  <2> DEFINE e == [inv[i] EXCEPT !.pc = "stage", !.task = k + 1]
  <2>1. e \in Invocations /\ e.by \in 0..Len(inv) /\ e.w = inv[i].w /\ inv' = [inv EXCEPT ![i] = e] /\ done' \in 0..Len(Needs)
    <3>1. k \in 1..Len(Needs) /\ Len(Needs) \in Nat /\ k + 1 \in Nat
      BY <1>3, RuntimeAssumption DEF Task
    <3>2. e \in Invocations /\ e.by = inv[i].by /\ e.w = inv[i].w
      BY <1>1, <3>1 DEF Invocations
    <3>3. inv' = [inv EXCEPT ![i] = e]
      BY <1>1, <1>4 DEF Invocations
    <3>4. done' \in 0..Len(Needs)
      BY <1>4, <3>1
    <3> QED
      BY <1>1, <3>2, <3>3, <3>4
  <2>2. /\ TypeOK' /\ DOMAIN inv' = DOMAIN inv /\ inv'[i] = e
        /\ \A j \in DOMAIN inv : j # i => inv'[j] = inv[j]
        /\ (Latest(i)' <=> Latest(i)) /\ (HasEarlier(i)' <=> HasEarlier(i))
    BY <1>1, <1>2, <2>1, LocalView DEF TypeOK
  <2>3. Latest(i) /\ k + 1 \in 1..(Len(Needs) + 1)
    BY <1>3, <1>4, OwnerIsLatest, RuntimeAssumption DEF Task
  <2>4. InvocationInv(i)'
    BY <1>1, <1>2, <2>2, <2>3
    DEF InvocationInv, StagingIsLatest, TaskInRange, OnOwnLease, BlockedStays, RegisteredWhileValid, StagedForGuard,
        ReadCoversTask, YieldIsNeeded, Invocations
  <2> QED
    BY <1>2, <2>1, <2>2, <2>4, LocalStep DEF RuntimeInv, ChildrenBelongToTheirTask
<1>5. CASE inv' = Goto(i, "ended") /\ UNCHANGED done
  BY <1>1, <1>2, <1>5, EndStep DEF TypeOK
<1>6. CASE inv' = Goto(i, "failed") /\ UNCHANGED done
  <2>1. inv' = [inv EXCEPT ![i] = [inv[i] EXCEPT !.pc = "failed", !.blocked = inv[i].blocked, !.refused = inv[i].refused]]
    BY <1>1, <1>6 DEF Goto, Invocations
  <2>2. inv[i].blocked \in BOOLEAN /\ inv[i].refused \in BOOLEAN /\ (inv[i].refused => inv[i].blocked)
    BY <1>1 DEF Invocations, InvocationInv, BlockedStays
  <2> QED
    BY <1>1, <1>2, <1>6, <2>1, <2>2, FailStep DEF TypeOK
<1>7. CASE /\ Asks[k] > Alloc[inv[i].w] /\ ~inv[i].lost /\ UNCHANGED done
           /\ inv' = [Stage(inv, inv[i].w, d) EXCEPT ![i].pc = "yield"]
  <2>1. d \in Nat /\ d > Alloc[inv[i].w] /\ d >= Needs[k]
    BY <1>3, <1>7 DEF Negotiate
  <2>2. CASE l \in {None, i}
    <3> DEFINE e == [inv[i] EXCEPT !.pc = "yield", !.demand = IF l = None THEN inv[i].demand ELSE d]
    <3>1. e \in Invocations /\ e.by \in 0..Len(inv) /\ e.w = inv[i].w
      BY <1>1, <2>1 DEF Invocations, Demands
    <3>2. inv' = [inv EXCEPT ![i] = e]
      BY <1>1, <1>7, <2>2 DEF Stage, Invocations, TypeOK
    <3>3. /\ TypeOK' /\ DOMAIN inv' = DOMAIN inv /\ inv'[i] = e
          /\ \A j \in DOMAIN inv : j # i => inv'[j] = inv[j]
          /\ (Latest(i)' <=> Latest(i)) /\ (HasEarlier(i)' <=> HasEarlier(i))
      BY <1>1, <1>2, <1>7, <3>1, <3>2, LocalView DEF TypeOK
    <3>4. owner = i => e.demand = d
      BY <1>1, <1>2, <1>3, <1>7 DEF InvocationInv, RegisteredWhileValid, Invocations
    <3>5. e.pc = "yield" /\ e.by = i /\ e.task = k /\ ~e.blocked /\ ~e.refused
      BY <1>1, <1>2, <1>3 DEF InvocationInv, OnOwnLease, BlockedStays, Invocations
    <3>6. RegisteredWhileValid(i)'
      BY <1>1, <1>2, <1>3, <3>3 DEF InvocationInv, RegisteredWhileValid, Invocations
    <3>7. InvocationInv(i)'
      BY <1>2, <1>3, <2>1, <3>1, <3>3, <3>4, <3>5, <3>6
      DEF InvocationInv, StagingIsLatest, TaskInRange, OnOwnLease, BlockedStays, StagedForGuard, ReadCoversTask, YieldIsNeeded
    <3> QED
      BY <1>2, <3>1, <3>3, <3>7, LocalStep DEF RuntimeInv, ChildrenBelongToTheirTask
  <2>3. CASE l \notin {None, i}
    <3> DEFINE e == [inv[i] EXCEPT !.pc = "yield"]
               f == [inv[l] EXCEPT !.demand = d]
               mid == [inv EXCEPT ![l] = f]
    <3>1. /\ l \in DOMAIN inv /\ inv[l].w = inv[i].w /\ Latest(l) /\ inv[l] \in Invocations /\ inv \in Seq(Invocations)
          /\ \A j \in DOMAIN inv : inv[j].by \in 0..Len(inv) /\ DOMAIN inv = 1..Len(inv)
      BY <1>1, <2>3, Types DEF RuntimeInv, RegisteredIsLatest, TypeOK
    <3>2. e \in Invocations /\ e.w = inv[i].w /\ f \in Invocations /\ f.w = inv[l].w /\ e.by = inv[i].by /\ f.by = inv[l].by
      BY <1>1, <2>1, <3>1 DEF Invocations, Demands
    <3>3. i < l /\ HasEarlier(l)
      BY <2>3, <3>1 DEF Latest, HasEarlier
    <3>4. mid \in Seq(Invocations) /\ Len(mid) = Len(inv) /\ DOMAIN mid = DOMAIN inv /\ mid[l] = f
          /\ \A j \in DOMAIN inv : j # l => mid[j] = inv[j]
      BY <3>1, <3>2, ReplaceInvocation
    <3>5. inv' = [mid EXCEPT ![i] = e]
      BY <1>7, <2>3, <3>1, <3>4 DEF Stage
    <3>6. inv' \in Seq(Invocations) /\ Len(inv') = Len(inv) /\ DOMAIN inv' = DOMAIN inv /\ inv'[i] = e
          /\ \A j \in DOMAIN inv : j # i => inv'[j] = mid[j]
      <4>1. i \in DOMAIN mid
        BY <3>4
      <4> HIDE DEF mid, e
      <4> QED
        BY <3>2, <3>4, <3>5, <4>1, ReplaceInvocation
    <3>7. inv'[l] = f /\ \A j \in DOMAIN inv : j \notin {i, l} => inv'[j] = inv[j]
      BY <3>3, <3>4, <3>6
    <3>8. \A j \in DOMAIN inv : inv'[j].w = inv[j].w /\ inv'[j].by = inv[j].by
      BY <3>2, <3>6, <3>7
    <3>9. TypeOK'
      BY <1>1, <1>2, <1>7, <3>1, <3>6, <3>8 DEF TypeOK
    <3>10. f.demand = d
      BY <3>1 DEF Invocations
    <3>11. LateRequest(l, inv'[l])
      BY <2>1, <3>1, <3>3, <3>7, <3>10 DEF LateRequest
    <3>12. owner # i
      BY <1>1, <1>2, <1>3, <1>7, <2>3 DEF InvocationInv, RegisteredWhileValid
    <3>13. e.pc = "yield" /\ e.by = i /\ e.task = k /\ ~e.blocked /\ ~e.refused
      BY <1>1, <1>2, <1>3 DEF InvocationInv, OnOwnLease, BlockedStays, Invocations
    <3>14. InvocationInv(i)'
      BY <1>2, <1>3, <3>6, <3>12, <3>13
      DEF InvocationInv, StagingIsLatest, TaskInRange, OnOwnLease, BlockedStays, StagedForGuard, ReadCoversTask,
          YieldIsNeeded, RegisteredWhileValid
    <3> QED
      BY <1>2, <3>6, <3>7, <3>8, <3>9, <3>11, <3>14, LocalStep DEF RuntimeInv, ChildrenBelongToTheirTask
  <2> QED
    BY <2>2, <2>3
<1> QED
  BY <1>4, <1>5, <1>6, <1>7 DEF TaskEnds

(* What a handoff publishes is a payload. *)
LEMMA UpdatedType ==
  ASSUME TypeOK, NEW l \in DOMAIN inv
  PROVE  Updated(l) \in Payloads
<1>1. payload \in Payloads /\ inv[l].demand \in Demands
  BY Types, Fields DEF TypeOK
<1>2. payload.rev \in Nat
  BY <1>1 DEF Payloads
<1>3. [demand |-> inv[l].demand, rev |-> payload.rev + 1] \in Payloads
  BY <1>1, <1>2 DEF Payloads
<1> QED
  BY <1>1, <1>3 DEF Updated

(* A handoff is acknowledged, or its outcome is an error and the invocation is blocked. *)
LEMMA YieldStep == ASSUME RuntimeInv, NEW i \in DOMAIN inv, Yield(i) PROVE RuntimeInv'
<1>1. TypeOK /\ inv[i] \in Invocations /\ i # None /\ InvocationInv(i) /\ inv \in Seq(Invocations)
  BY Start, Types
<1>2. inv[i].pc = "yield" /\ inv[i].by = i /\ Updated(i) \in Payloads /\ UNCHANGED <<done, over, updates, child>>
  BY <1>1, UpdatedType DEF Yield, InvocationInv, OnOwnLease
<1>3. CASE /\ Accepts(i, i) /\ owner' = None /\ payload' = Updated(i)
           /\ handoff' = [by |-> i, task |-> inv[i].task, demand |-> inv[i].demand]
           /\ inv' = Goto(i, "ended") /\ leases' = Forget(i)
  <2>1. /\ inv[i].demand \in Nat /\ inv[i].demand > Alloc[inv[i].w] /\ inv[i].task \in Task
        /\ inv[i].demand >= Needs[inv[i].task] \/ HasEarlier(i)
    BY <1>1, <1>2, <1>3 DEF InvocationInv, YieldIsNeeded, TaskInRange, Accepts
  <2> DEFINE e == [inv[i] EXCEPT !.pc = "ended"]
  <2>2. e \in Invocations /\ e.w = inv[i].w /\ inv' = [inv EXCEPT ![i] = e]
    BY <1>1, <1>3 DEF Invocations, Goto
  <2>3. DOMAIN inv' = DOMAIN inv /\ \A j \in DOMAIN inv : inv'[j].w = inv[j].w
    BY <1>1, <2>2, ReplaceInvocation
  <2>4. HasEarlier(i)' <=> HasEarlier(i)
    BY <1>1, <2>3, SameOrder
  <2>5. handoff'.by = i /\ handoff'.task = inv[i].task /\ handoff'.demand = inv[i].demand
    BY <1>3
  <2>6. HandoffInv'
    BY <2>1, <2>3, <2>4, <2>5 DEF HandoffInv
  <2> QED
    BY <1>1, <1>2, <1>3, <2>6, EndStep DEF TypeOK
<1>4. CASE /\ owner' \in {owner, None} /\ payload' \in {payload, Updated(i)}
           /\ inv' = [Goto(i, "failed") EXCEPT ![i].blocked = TRUE, ![i].refused = TRUE]
           /\ leases' \in {leases, Forget(i)} /\ UNCHANGED handoff
  <2>1. inv' = [inv EXCEPT ![i] = [inv[i] EXCEPT !.pc = "failed", !.blocked = TRUE, !.refused = TRUE]]
    BY <1>1, <1>4 DEF Goto, Invocations
  <2>2. payload' \in Payloads
    BY <1>1, <1>2, <1>4 DEF TypeOK
  <2> QED
    BY <1>1, <1>2, <1>4, <2>1, <2>2, FailStep
<1> QED
  BY <1>2, <1>3, <1>4 DEF Yield

(* An ordinary reschedule ends the invocation. *)
LEMMA RescheduleStep == ASSUME RuntimeInv, NEW i \in DOMAIN inv, Reschedule(i) PROVE RuntimeInv'
<1>1. TypeOK /\ Updated(i) \in Payloads
  BY Start, UpdatedType
<1> QED
  BY <1>1, EndStep DEF Reschedule, TypeOK

(* A caught failure leads to another task of the same invocation. *)
LEMMA RecipeCatchesStep == ASSUME RuntimeInv, NEW i \in DOMAIN inv, RecipeCatches(i) PROVE RuntimeInv'
<1> DEFINE e == [inv[i] EXCEPT !.pc = "stage", !.catches = inv[i].catches + 1]
<1>1. TypeOK /\ inv[i] \in Invocations /\ i # None /\ InvocationInv(i) /\ inv[i].by \in 0..Len(inv)
  BY Start
<1>2. inv[i].pc = "failed" /\ Latest(i) /\ UNCHANGED <<done, over, owner, payload, leases, updates, handoff, child>>
  BY DEF RecipeCatches, Latest
<1>3. e \in Invocations /\ e.by \in 0..Len(inv) /\ e.w = inv[i].w /\ inv' = [inv EXCEPT ![i] = e]
  <2>1. inv[i].catches + 1 \in Nat
    BY <1>1, Fields
  <2>2. e \in Invocations /\ e.by = inv[i].by /\ e.w = inv[i].w
    BY <1>1, <2>1 DEF Invocations
  <2>3. inv' = [inv EXCEPT ![i] = e]
    BY <1>1 DEF RecipeCatches, Invocations
  <2> QED
    BY <1>1, <2>2, <2>3
<1>4. /\ TypeOK' /\ DOMAIN inv' = DOMAIN inv /\ inv'[i] = e
      /\ \A j \in DOMAIN inv : j # i => inv'[j] = inv[j]
      /\ (Latest(i)' <=> Latest(i)) /\ (HasEarlier(i)' <=> HasEarlier(i))
  BY <1>1, <1>2, <1>3, LocalView DEF TypeOK
<1>5. inv[i].task \in 1..(Len(Needs) + 1)
  BY <1>1, <1>2, RuntimeAssumption DEF InvocationInv, TaskInRange, Task
<1>6. InvocationInv(i)'
  BY <1>1, <1>2, <1>4, <1>5
  DEF InvocationInv, StagingIsLatest, TaskInRange, OnOwnLease, BlockedStays, RegisteredWhileValid, StagedForGuard,
      ReadCoversTask, YieldIsNeeded, Invocations
<1> QED
  BY <1>2, <1>3, <1>4, <1>6, LocalStep DEF RuntimeInv, ChildrenBelongToTheirTask

(* The recipe ends. *)
LEMMA CompleteStep == ASSUME RuntimeInv, NEW i \in DOMAIN inv, Complete(i) PROVE RuntimeInv'
<1>1. TypeOK
  BY Start
<1> QED
  BY <1>1, EndStep DEF Complete, TypeOK

(* A child is submitted on the task's own lease. *)
LEMMA SubmitChildStep == ASSUME RuntimeInv, NEW i \in DOMAIN inv, SubmitChild(i) PROVE RuntimeInv'
<1>1. UNCHANGED <<done, over, owner, payload, inv, leases, updates, handoff>> /\ child'.by = child'.on
  BY Start DEF SubmitChild, InvocationInv, OnOwnLease
<1> QED
  BY <1>1
  DEF RuntimeInv, TypeOK, OwnerIsLast, RegisteredIsLatest, HandoffInv, ChildrenBelongToTheirTask, Latest, HasEarlier,
      InvocationInv, StagingIsLatest, TaskInRange, OnOwnLease, BlockedStays, RegisteredWhileValid, StagedForGuard,
      ReadCoversTask, YieldIsNeeded

-----------------------------------------------------------------------------
(* The steps that are not an invocation's. *)

(* A process acquires the job: the new invocation is the latest of all, and its process's earlier ones no longer stage. *)
LEMMA AcquireStep == ASSUME RuntimeInv, NEW v \in Worker, Acquire(v) PROVE RuntimeInv'
<1> DEFINE e == [w |-> v, pc |-> "stage", task |-> done + 1, catches |-> 0, lost |-> FALSE, seen |-> payload,
                 by |-> None, read |-> NoDemand, demand |-> NoDemand, blocked |-> FALSE, refused |-> FALSE]
<1>1. /\ TypeOK /\ inv \in Seq(Invocations) /\ DOMAIN inv = 1..Len(inv) /\ Len(inv) \in Nat /\ owner = None
      /\ leases \in [Worker -> 0..Len(inv)] /\ \A i \in DOMAIN inv : inv[i].by \in 0..Len(inv)
  BY Types DEF RuntimeInv, Acquire, TypeOK
<1>n. PICK n \in Nat : n = Len(inv) + 1
  BY <1>1
<1>2. /\ inv' = Append(inv, e) /\ owner' = n /\ leases' = [leases EXCEPT ![v] = n]
      /\ \A j \in DOMAIN inv : inv[j].w = v => inv[j].pc \in {"running", "ended"}
      /\ UNCHANGED <<done, over, payload, updates, handoff, child>>
  BY <1>n DEF Acquire
<1>3. done + 1 \in 1..(Len(Needs) + 1) /\ payload \in Payloads
  BY <1>1, RuntimeAssumption DEF TypeOK
<1>4. e \in Invocations
  BY <1>3 DEF Invocations, Demands, None
<1>5. /\ inv' \in Seq(Invocations) /\ Len(inv') = n /\ DOMAIN inv' = 1..n /\ inv'[n] = e
      /\ \A j \in DOMAIN inv : inv'[j] = inv[j]
  <2> HIDE DEF e
  <2> QED
    BY <1>n, <1>1, <1>2, <1>4
<1>6. TypeOK'
  <2>1. leases' \in [Worker -> 0..Len(inv')]
    BY <1>n, <1>1, <1>2, <1>5
  <2>2. \A i \in DOMAIN inv' : inv'[i].by \in 0..Len(inv')
    BY <1>n, <1>1, <1>5 DEF None
  <2> QED
    BY <1>n, <1>1, <1>2, <1>5, <2>1, <2>2 DEF TypeOK
<1>7. \A j \in DOMAIN inv : j # n /\ j < n /\ (Latest(j)' <=> Latest(j) /\ inv[j].w # v) /\ (HasEarlier(j)' <=> HasEarlier(j))
  <2> SUFFICES ASSUME NEW j \in DOMAIN inv
               PROVE  j # n /\ j < n /\ (Latest(j)' <=> Latest(j) /\ inv[j].w # v) /\ (HasEarlier(j)' <=> HasEarlier(j))
    OBVIOUS
  <2>1. j \in Nat /\ j # n /\ j < n /\ 1..(j - 1) \subseteq DOMAIN inv /\ inv'[n].w = v
    BY <1>n, <1>1, <1>5
  <2>2. \A k \in DOMAIN inv' : k = n \/ k \in DOMAIN inv
    BY <1>n, <1>1, <1>5
  <2>3. n \in DOMAIN inv' /\ DOMAIN inv \subseteq DOMAIN inv'
    BY <1>n, <1>1, <1>5
  <2>4. Latest(j)' <=> Latest(j) /\ inv[j].w # v
    <3> HIDE DEF e
    <3> QED
      BY <1>5, <2>1, <2>2, <2>3 DEF Latest
  <2>5. HasEarlier(j)' <=> HasEarlier(j)
    BY <1>5, <2>1 DEF HasEarlier
  <2> QED
    BY <2>1, <2>4, <2>5
<1>8. Latest(n)'
  BY <1>n, <1>1, <1>5 DEF Latest
<1>9. OwnerIsLast'
  BY <1>2, <1>5 DEF OwnerIsLast
<1>10. RegisteredIsLatest'
  <2> SUFFICES ASSUME NEW w \in Worker, NEW l \in DOMAIN inv', leases'[w] = l
               PROVE  inv'[l].w = w /\ Latest(l)'
    BY DEF RegisteredIsLatest
  <2>1. CASE w = v
    <3>1. l = n
      BY <1>n, <1>1, <1>2, <2>1
    <3> QED
      BY <1>5, <1>8, <2>1, <3>1
  <2>2. CASE w # v
    <3>1. leases[w] = l /\ l \in DOMAIN inv
      BY <1>n, <1>1, <1>2, <1>5, <2>2
    <3> QED
      BY <1>5, <1>7, <2>2, <3>1 DEF RuntimeInv, RegisteredIsLatest
  <2> QED
    BY <2>1, <2>2
<1>11. ASSUME NEW j \in DOMAIN inv PROVE InvocationInv(j)'
  <2>1. InvocationInv(j) /\ inv'[j] = inv[j] /\ (HasEarlier(j)' <=> HasEarlier(j)) /\ owner' # j /\ j # None
    BY <1>n, <1>1, <1>2, <1>5, <1>7 DEF RuntimeInv, None
  <2>2. StagingIsLatest(j)'
    BY <1>2, <1>7, <2>1 DEF InvocationInv, StagingIsLatest
  <2>3. inv[j].w \in Worker
    BY <1>1, Types
  <2>4. StagedForGuard(j)'
    BY <1>n, <1>1, <1>2, <1>7, <2>1, <2>3 DEF InvocationInv, StagedForGuard
  <2>5. RegisteredWhileValid(j)' /\ YieldIsNeeded(j)'
    BY <2>1 DEF RegisteredWhileValid, YieldIsNeeded
  <2>6. TaskInRange(j)' /\ OnOwnLease(j)' /\ BlockedStays(j)' /\ ReadCoversTask(j)'
    BY <2>1 DEF InvocationInv, TaskInRange, OnOwnLease, BlockedStays, ReadCoversTask
  <2> QED
    BY <2>2, <2>4, <2>5, <2>6 DEF InvocationInv
<1>12. InvocationInv(n)'
  <2>1. leases'[v] = n
    BY <1>1, <1>2
  <2> QED
    BY <1>3, <1>5, <1>8, <2>1
    DEF InvocationInv, StagingIsLatest, TaskInRange, OnOwnLease, BlockedStays, RegisteredWhileValid, StagedForGuard,
        ReadCoversTask, YieldIsNeeded
<1>13. HandoffInv'
  BY <1>n, <1>1, <1>2, <1>5, <1>7 DEF RuntimeInv, HandoffInv
<1>14. \A j \in DOMAIN inv' : InvocationInv(j)'
  BY <1>n, <1>1, <1>5, <1>11, <1>12
<1> QED
  BY <1>2, <1>6, <1>9, <1>10, <1>13, <1>14 DEF RuntimeInv, ChildrenBelongToTheirTask

(* A step that leaves the invocations and registrations alone, and can only take the valid lease away. *)
LEMMA OutsideStep ==
  ASSUME RuntimeInv, owner' \in {owner, None}, payload' \in Payloads, updates' \in Nat,
         UNCHANGED <<done, over, inv, leases, handoff, child>>
  PROVE  RuntimeInv'
<1>1. TypeOK' /\ OwnerIsLast'
  BY Types DEF RuntimeInv, TypeOK, OwnerIsLast, None
<1>2. \A j \in DOMAIN inv : (Latest(j)' <=> Latest(j)) /\ (HasEarlier(j)' <=> HasEarlier(j)) /\ j # None
  BY Types DEF RuntimeInv, Latest, HasEarlier, None
<1>3. RegisteredIsLatest'
  BY <1>2 DEF RuntimeInv, RegisteredIsLatest
<1>4. ASSUME NEW j \in DOMAIN inv PROVE InvocationInv(j)'
  BY <1>2, <1>4
  DEF RuntimeInv, InvocationInv, StagingIsLatest, TaskInRange, OnOwnLease, BlockedStays, RegisteredWhileValid,
      StagedForGuard, ReadCoversTask, YieldIsNeeded
<1>5. HandoffInv'
  BY <1>2 DEF RuntimeInv, HandoffInv
<1> QED
  BY <1>1, <1>3, <1>4, <1>5 DEF RuntimeInv, ChildrenBelongToTheirTask

(* JobDB takes the lease away. *)
LEMMA ExpireStep == ASSUME RuntimeInv, Expire PROVE RuntimeInv'
  BY OutsideStep DEF Expire, RuntimeInv, TypeOK

(* Another client rewrites the payload. *)
LEMMA UpdatePayloadStep == ASSUME RuntimeInv, UpdatePayload PROVE RuntimeInv'
<1>1. payload \in Payloads /\ updates \in Nat
  BY DEF RuntimeInv, TypeOK
<1>2. payload.rev \in Nat
  BY <1>1 DEF Payloads
<1>3. payload' \in Payloads /\ updates' \in Nat
  BY <1>1, <1>2 DEF UpdatePayload, Payloads, Demands
<1> QED
  BY <1>3, OutsideStep DEF UpdatePayload

-----------------------------------------------------------------------------
(* The theorems. *)

(* Before the job is acquired there is no invocation, lease or handoff. *)
LEMMA RuntimeInit == Init => RuntimeInv
<1> SUFFICES ASSUME Init PROVE RuntimeInv
  OBVIOUS
<1>1. inv = <<>> /\ DOMAIN inv = {} /\ Len(inv) = 0 /\ inv \in Seq(Invocations)
  BY DEF Init
<1>2. payload \in Payloads /\ leases \in [Worker -> 0..Len(inv)]
  BY <1>1 DEF Init, Payloads, Demands, None
<1>3. done \in 0..Len(Needs)
  BY RuntimeAssumption DEF Init
<1>4. TypeOK
  <2>1. owner \in 0..Len(inv) /\ updates \in Nat
    BY <1>1 DEF Init, None
  <2>2. over \in BOOLEAN
    BY DEF Init
  <2> QED
    BY <1>1, <1>2, <1>3, <2>1, <2>2 DEF TypeOK
<1> QED
  BY <1>1, <1>4 DEF RuntimeInv, Init, OwnerIsLast, RegisteredIsLatest, HandoffInv, ChildrenBelongToTheirTask

(* Every step of the processes, JobDB and other clients keeps the invariant. *)
LEMMA RuntimeStep == RuntimeInv /\ [Next]_vars => RuntimeInv'
<1> SUFFICES ASSUME RuntimeInv, [Next]_vars PROVE RuntimeInv'
  OBVIOUS
<1>1. CASE UNCHANGED vars
  BY <1>1, OutsideStep DEF vars, RuntimeInv, TypeOK
<1>2. ASSUME NEW w \in Worker, Acquire(w) PROVE RuntimeInv'
  BY <1>2, AcquireStep
<1>3. ASSUME NEW i \in DOMAIN inv, Step(i) PROVE RuntimeInv'
  BY <1>3, RenewStep, CleanupStep, StageNodeStep, GuardStep, TaskEndsStep, YieldStep, RescheduleStep, RecipeCatchesStep,
     CompleteStep, SubmitChildStep DEF Step
<1> QED
  BY <1>1, <1>2, <1>3, ExpireStep, UpdatePayloadStep DEF Next

(* The inductive invariant holds in every reachable state. *)
THEOREM RuntimeInvariant == Spec => []RuntimeInv
  BY RuntimeInit, RuntimeStep, PTL DEF Spec

(* The runtime's state keeps the shape its code gives it: every lease the  *)
(* process's map names, and every lease a task runs on, was acquired.      *)
THEOREM RuntimeTypeCorrect == Spec => []TypeOK
<1>1. RuntimeInv => TypeOK
  BY DEF RuntimeInv
<1> QED
  BY <1>1, RuntimeInvariant, PTL

(* A task is started only by a process whose allocation reaches what its    *)
(* node requires (guardedTask.Run), however leases are lost and regained.   *)
THEOREM EveryTaskRunsWhereItFits == Spec => []TaskRunsWhereItFits
<1>1. RuntimeInv => TaskRunsWhereItFits
  <2> SUFFICES ASSUME RuntimeInv, NEW i \in DOMAIN inv, inv[i].pc = "running"
               PROVE  Alloc[inv[i].w] >= Needs[inv[i].task]
    BY DEF TaskRunsWhereItFits
  <2>1. inv[i].w \in Worker /\ inv[i].task \in Task /\ inv[i].read \in Nat /\ inv[i].read >= Needs[inv[i].task]
        /\ inv[i].read <= Alloc[inv[i].w]
    BY Start DEF InvocationInv, TaskInRange, ReadCoversTask
  <2>2. Alloc[inv[i].w] \in Nat /\ Needs[inv[i].task] \in Nat
    BY <2>1, RuntimeAssumption DEF Task
  <2> QED
    BY <2>1, <2>2
<1> QED
  BY <1>1, RuntimeInvariant, PTL

(* An invocation whose handoff was rejected or uncertain starts no task any *)
(* more, whatever its recipe catches and its heartbeat renews.              *)
THEOREM RefusedInvocationsStayBlocked == Spec => []BlockedRunsNothing
<1>1. RuntimeInv => BlockedRunsNothing
  BY DEF RuntimeInv, BlockedRunsNothing, InvocationInv, BlockedStays
<1> QED
  BY <1>1, RuntimeInvariant, PTL

(* A late cleanup of an earlier invocation never unregisters the valid      *)
(* lease (Runtime.forget compares the registration with its own).           *)
THEOREM ValidLeasesStayRegistered == Spec => []ValidLeaseIsRegistered
<1>1. RuntimeInv => ValidLeaseIsRegistered
  BY DEF RuntimeInv, ValidLeaseIsRegistered, InvocationInv, RegisteredWhileValid
<1> QED
  BY <1>1, RuntimeInvariant, PTL

(* An acknowledged handoff publishes a demand its process could not meet,   *)
(* and one that covers the task unless an earlier invocation interfered.    *)
THEOREM EveryHandoffIsNeeded == Spec => []HandoffIsNeeded
<1>1. RuntimeInv => HandoffIsNeeded
  BY RuntimeAssumption DEF RuntimeInv, HandoffIsNeeded, HandoffInv, HasEarlier
<1> QED
  BY <1>1, RuntimeInvariant, PTL

(* A child job is submitted under its own task's lease                      *)
(* (submitOnCurrentLease), never under a later one of the same process.     *)
THEOREM EveryChildBelongsToItsTask == Spec => []ChildrenBelongToTheirTask
<1>1. RuntimeInv => ChildrenBelongToTheirTask
  BY DEF RuntimeInv
<1> QED
  BY <1>1, RuntimeInvariant, PTL
=============================================================================
