---------------------------- MODULE TaskExecution ----------------------------
(***************************************************************************)
(* A worker's attempt at a task, from its recorded input to its outcome    *)
(* (pkg/worker/ops: taskWorker.RunTask, opExecutor.doPrepared), with the   *)
(* services it uses on its host: the source cache for the extension op it  *)
(* invokes (SelectorCache), the tool cache (ToolEnvironment), and the      *)
(* store of the objects its body publishes (pkg/objects).  The manifest in *)
(* the source decides which packages and which default secrets the         *)
(* invocation needs.                                                       *)
(***************************************************************************)
EXTENDS SelectorCache, ToolEnvironment

CONSTANTS
    Invocation(_), \* what a task's recorded input invokes: see TaskAssumption
    Depends(_),    \* the packages that the manifest of a commit declares
    Defaults(_),   \* the secrets that its input defaults name
    MaxTroubles    \* bound: failures, timeouts, crashes, moved refs and cleaned caches

ASSUME TaskAssumption ==
    /\ \A t \in Task :
          /\ Invocation(t).pin \in Commit \cup {None}          \* ResolvedRefs
          /\ Invocation(t).workspace \in Seq(Entry)            \* the workspace's own packages
          /\ Invocation(t).allowed \subseteq UNION {Defaults(k) : k \in Commit}   \* default secrets it may read
          /\ Invocation(t).attempts \in Nat \ {0}       \* its retry policy
          /\ Invocation(t).objects \in Seq(STRING)             \* the contents its body publishes, concurrently
    /\ \A k \in Commit : Depends(k) \in Seq(Entry)
    /\ MaxTroubles \in Nat

VARIABLES
    run,       \* per task: its current attempt
    pubs,      \* per task: the body's publications, and the store's sealed artifacts
    outcome,   \* per task: what JobDB recorded last
    attempt,   \* per task: attempts that failed
    troubles   \* what went wrong so far, up to MaxTroubles

execVars == <<home, run, pubs, outcome, attempt>>
vars == <<cacheVars, toolVars, execVars, troubles>>

NoRun == [pc |-> "idle", commit |-> None, manifest |-> None, secrets |-> {}]
Slots(t) == DOMAIN Invocation(t).objects
NewStore(t) == [slot |-> [i \in Slots(t) |-> "new"], artifacts |-> <<>>]
NoOutcome == [result |-> "none", refs |-> {}, artifacts |-> <<>>]

Init ==
    /\ HostInit
    /\ CacheInit
    /\ ToolInit
    /\ run = [t \in Task |-> NoRun]
    /\ pubs = [t \in Task |-> NewStore(t)]
    /\ outcome = [t \in Task |-> NoOutcome]
    /\ attempt = [t \in Task |-> 0]
    /\ troubles = 0

-----------------------------------------------------------------------------
At(t, pc) == run[t].pc = pc
Goto(t, pc) == run' = [run EXCEPT ![t].pc = pc]
Finished(t) == At(t, "over")

(* References that the body returns: those of its publications that succeeded. *)
Published(t) == {Invocation(t).objects[i] : i \in {j \in Slots(t) : pubs[t].slot[j] = "done"}}

(* The attempt's outcome carries its sealed artifacts, whether it failed or not; the worker tries again. *)
Finish(t, ok) ==
    /\ outcome' = [outcome EXCEPT ![t] = [result |-> IF ok THEN "ok" ELSE "failed",
                                          refs |-> Published(t), artifacts |-> pubs[t].artifacts]]
    /\ attempt' = [attempt EXCEPT ![t] = IF ok THEN @ ELSE @ + 1]
    /\ run' = [run EXCEPT ![t] = IF ok \/ attempt[t] + 1 = Invocation(t).attempts THEN [NoRun EXCEPT !.pc = "over"] ELSE NoRun]
    /\ pubs' = [pubs EXCEPT ![t] = NewStore(t)]
    /\ Leave({t})
    /\ res' = [res EXCEPT ![t] = NoResolve]
    /\ tool' = [tool EXCEPT ![t] = NoPrepare]
    /\ UNCHANGED <<remote, source, flight, entry, lock, troubles>>

-----------------------------------------------------------------------------
StartTask(t) ==
    /\ At(t, "idle")
    /\ \E p \in Process : Claim(t, p)
    /\ Goto(t, "resolve")
    /\ StartResolve(t, Invocation(t).pin)
    /\ UNCHANGED <<toolVars, pubs, outcome, attempt, troubles>>

(* Only the repository's own input policy counts for what a manifest's defaults read. *)
AuthorizeDefaultSecrets(t, manifest) == Defaults(manifest) \subseteq Invocation(t).allowed

(* Then configuration, secrets and the workspace are restored: nothing that another task sees. *)
LoadManifest(t) ==
    LET commit == res[t].commit
        manifest == source[commit] IN
    /\ At(t, "resolve") /\ Resolving(t, "ok")
    /\ DirExists(commit)
    /\ AuthorizeDefaultSecrets(t, manifest)
    /\ run' = [run EXCEPT ![t] = [pc |-> "setup", commit |-> commit, manifest |-> manifest,
                                  secrets |-> Defaults(manifest)]]
    /\ res' = [res EXCEPT ![t] = NoResolve]
    /\ UNCHANGED <<remote, source, flight, toolVars, home, pubs, outcome, attempt, troubles>>

(* The source was cleaned in between, or its defaults name a secret that is not allowed. *)
ResolveInvocationFails(t) ==
    /\ At(t, "resolve")
    /\ \/ Resolving(t, "err")
       \/ Resolving(t, "ok") /\ ~DirExists(res[t].commit)
       \/ Resolving(t, "ok") /\ DirExists(res[t].commit) /\ ~AuthorizeDefaultSecrets(t, source[res[t].commit])
    /\ Finish(t, FALSE)

Scopes(t) == <<Invocation(t).workspace, Depends(run[t].manifest)>>

(* Mutant: a source that was lost is resolved from the selector again. *)
SelectorAgain(t) == Invocation(t).pin

(* The selector that was resolved: it names the commit. *)
ResolvedSelector(t) == run[t].commit

SetUpSource(t) ==
    /\ At(t, "setup") /\ ~DirExists(run[t].commit)
    /\ Goto(t, "refetch")
    /\ StartResolve(t, ResolvedSelector(t))
    /\ UNCHANGED <<toolVars, home, pubs, outcome, attempt, troubles>>

(* The manifest that was loaded stays authoritative, the directory is the one resolved last. *)
SetUpTools(t) ==
    /\ \/ At(t, "setup") /\ DirExists(run[t].commit) /\ run' = [run EXCEPT ![t].pc = "tools"]
       \/ At(t, "refetch") /\ Resolving(t, "ok")
          /\ run' = [run EXCEPT ![t].pc = "tools", ![t].commit = res[t].commit]
    /\ res' = [res EXCEPT ![t] = NoResolve]
    /\ StartPrepare(t, Scopes(t))
    /\ UNCHANGED <<remote, source, flight, home, pubs, outcome, attempt, troubles>>

SetUpFails(t) ==
    /\ \/ At(t, "refetch") /\ Resolving(t, "err")
       \/ At(t, "tools") /\ tool[t].pc = "err"
    /\ Finish(t, FALSE)

StartBody(t) ==
    /\ At(t, "tools") /\ tool[t].pc = "ready"
    /\ Goto(t, "body")
    /\ UNCHANGED <<cacheVars, toolVars, home, pubs, outcome, attempt, troubles>>

-----------------------------------------------------------------------------
(* A publication writes and seals its archive, and then registers it.  The  *)
(* body publishes from several goroutines.                                  *)
Seal(t, i) ==
    /\ At(t, "body") /\ pubs[t].slot[i] = "new"
    /\ pubs' = [pubs EXCEPT ![t].slot[i] = "sealed"]
    /\ UNCHANGED <<cacheVars, toolVars, home, run, outcome, attempt, troubles>>

(* Mutant: whoever sealed an archive adds it. *)
AddEvery(t, digest) == pubs[t].artifacts \o <<digest>>

AddArtifact(t, digest) ==
    IF digest \in Range(pubs[t].artifacts) THEN pubs[t].artifacts ELSE pubs[t].artifacts \o <<digest>>

Register(t, i) ==
    /\ At(t, "body") /\ pubs[t].slot[i] = "sealed"
    /\ pubs' = [pubs EXCEPT ![t] = [slot |-> [@.slot EXCEPT ![i] = "done"],
                                    artifacts |-> AddArtifact(t, Invocation(t).objects[i])]]
    /\ UNCHANGED <<cacheVars, toolVars, home, run, outcome, attempt, troubles>>

BodyEnds(t) ==
    /\ At(t, "body")
    /\ \A i \in Slots(t) : pubs[t].slot[i] \in {"done", "failed"}
    /\ Finish(t, \A i \in Slots(t) : pubs[t].slot[i] = "done")

TaskStep(t) ==
    \/ StartTask(t) \/ LoadManifest(t) \/ ResolveInvocationFails(t)
    \/ SetUpSource(t) \/ SetUpTools(t) \/ SetUpFails(t) \/ StartBody(t)
    \/ \E i \in Slots(t) : Seal(t, i) \/ Register(t, i)
    \/ BodyEnds(t)
    \/ CacheStep(t) /\ UNCHANGED <<toolVars, execVars, troubles>>
    \/ ToolStep(t) /\ UNCHANGED <<cacheVars, execVars, troubles>>

-----------------------------------------------------------------------------
(* What may go wrong: git, the network, an installer, the task's deadline. *)
SealFails(t, i) ==
    /\ At(t, "body") /\ pubs[t].slot[i] = "new"
    /\ pubs' = [pubs EXCEPT ![t].slot[i] = "failed"]
    /\ UNCHANGED <<home, run, outcome, attempt>>

Fault(t) ==
    /\ \/ /\ LsRemoteFails(t) \/ FetchFails(t)
          /\ UNCHANGED <<toolVars, execVars>>
       \/ /\ LockCancelled(t) \/ InstallFails(t)
          /\ UNCHANGED <<cacheVars, execVars>>
       \/ /\ \E i \in Slots(t) : SealFails(t, i)
          /\ UNCHANGED <<cacheVars, toolVars>>

Crash(p) ==
    /\ TasksOf(p) # {}
    /\ Leave(TasksOf(p))
    /\ CacheCrash(p)
    /\ ToolCrash(p)
    /\ run' = [t \in Task |-> IF t \in TasksOf(p) THEN NoRun ELSE run[t]]
    /\ pubs' = [t \in Task |-> IF t \in TasksOf(p) THEN NewStore(t) ELSE pubs[t]]
    /\ UNCHANGED <<outcome, attempt>>

Outside ==
    /\ \/ /\ MoveRef \/ \E k \in Commit : EvictSource(k)
          /\ UNCHANGED toolVars
       \/ /\ \E e \in Entry : Damage(e)
          /\ UNCHANGED cacheVars
    /\ UNCHANGED execVars

Trouble ==
    /\ troubles < MaxTroubles
    /\ troubles' = troubles + 1
    /\ \/ \E t \in Task : Fault(t)
       \/ \E p \in Process : Crash(p)
       \/ Outside

Next == (\E t \in Task : TaskStep(t)) \/ Trouble

Spec == Init /\ [][Next]_vars /\ \A t \in Task : WF_vars(TaskStep(t))

-----------------------------------------------------------------------------
(* What a name is bound to: the package of the closest scope that exports it. *)
Exporting(scope, x) == {scope[j] : j \in {k \in DOMAIN scope : x \in Exports(scope[k])}}

ClosestPackage(scopes, x) ==
    LET levels == {i \in DOMAIN scopes : Exporting(scopes[i], x) # {}} IN
    IF levels = {} THEN {} ELSE Exporting(scopes[Max(levels)], x)

(* A body's source directory, unless it was cleaned meanwhile, holds the     *)
(* commit that was resolved and whose manifest decided on tools and secrets, *)
(* whatever happened to the ref, the cache and the other tasks in between.   *)
BodyHasItsSource ==
    \A t \in Task : At(t, "body") =>
        LET commit == run[t].commit IN
        /\ run[t].manifest = commit
        /\ source[commit] \in {commit, None}
        /\ Invocation(t).pin \in {commit, None}
        /\ run[t].secrets = Defaults(commit) /\ run[t].secrets \subseteq Invocation(t).allowed
        /\ Range(Depends(commit)) \subseteq tool[t].got

(* A name that a body can run is the closest scope's. *)
BodyRunsClosestTools ==
    \A t \in Task : At(t, "body") =>
        \A x \in Executable, e \in Entry :
            tool[t].bound[x] = e <=> ClosestPackage(<<Invocation(t).workspace, Depends(run[t].commit)>>, x) = {e}

(* A body runs what was prepared for it: the source, and the tools. *)
BodyRunsWhatWasPrepared == BodyHasItsSource /\ BodyRunsClosestTools

(* A package that a task was given is installed completely, and stays so     *)
(* until somebody damages the cache from outside: no installation by another *)
(* process, interrupted or not, replaces it under a running body.            *)
ToolsStayWhole ==
    \A t \in Task : \A e \in tool[t].got \ tool[t].spoiled : entry[e] = [files |-> "whole", manifest |-> TRUE]

(* Every reference that a body or an outcome holds resolves to exactly one   *)
(* artifact of the outcome, also when goroutines publish the same content at *)
(* once, when the attempt fails half way, or when it is a later attempt.     *)
ObjectsResolve ==
    \A t \in Task :
        /\ \A digest \in Published(t) : Cardinality({i \in DOMAIN pubs[t].artifacts : pubs[t].artifacts[i] = digest}) = 1
        /\ outcome[t].refs = Range(outcome[t].artifacts) /\ IsInjective(outcome[t].artifacts)
        /\ outcome[t].result = "ok" => outcome[t].refs = Range(Invocation(t).objects)

(* Every task ends, however the tasks of a host share its in-flight fetches  *)
(* and the locks of the tool cache.                                          *)
TasksEnd == \A t \in Task : <>[]Finished(t)
=============================================================================
