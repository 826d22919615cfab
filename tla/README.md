# c2j: TLA+ models, checks and proofs

c2j executes recipes (trees of ops, sequences and state machines) as durable jobs on JobDB,
each task in a fresh Git checkout on whichever worker has the job's lease.
This directory models the parts of that execution that several actors, failures and replays
make hard to test. JobDB itself is not in this repository: where a model needs it, it is
described by how the code here uses it, and marked external in `PROJECT.json`.

## 1. Inventory

| Component | State | Operations | Hard behaviour | Correct when |
|---|---|---|---|---|
| Recipe executor (`pkg/worker/compiler`, `pkg/template`) | call stack of scopes, frames of a scope, completion position, published outputs, JobDB history | run a body, decide (accept, time out, catch, retry, fail), handle a catch, publish, route | crash at any step and replay; retries inside retries; catch versus timeout | only accepted outputs are visible, once; replay asks for what was recorded |
| Snapshot forwarding (`artifact_job_context.go`, `workspace.go`, `gitstate`) | commit context per workspace, thin packs per forwarder, initial restores | run a task, enter a scope or a workspace, accept, fail, retry, rethrow | half of the forwarder is copied per frame, half shared | every task can restore its workspace's commit; snapshots stay in their workspace |
| Git publication (`pkg/git/squashrebasemerge`) | recorded publication state, the remote branch | squash, rebase, check ancestry, push, probe | lost push responses, concurrent publishers, outside writers, retries | a success is on the branch, a change lands once, history is only extended |
| Execution runtime (`pkg/executionruntime`, `pkg/execution`) | registered lease per job, staged demand, block, client payload | acquire, renew, stage, guard, yield, reschedule, complete, submit a child | lease expiry and reacquisition by the same process, uncertain handoffs, stale snapshots | tasks run only where they fit; a late cleanup or task never touches its successor |
| Child recipes and groups (`pkg/ops/recipe`) | children's records, job IDs and goals | start, await, collect, aggregate | partial starts, lost submissions, retries of a start, goals reached by a restarted child | a child exists once; the output describes JobDB; no child is left unattended |
| Child broker (`pkg/childbroker`) | jobs started for a task | submit over HTTP, list, close | lost answers, closing while a call runs | every acknowledged child is recorded |
| Object store (`pkg/objects`) | published digests of a task | publish, seal, register | concurrent equal publications, failed attempts | every reference resolves to one artifact |
| Selector cache (`pkg/git/selectorcache`) | calls in flight, directories per commit | resolve, fetch, publish by rename | joined calls, a ref that moves, several processes, cleaning | a directory holds the commit it is named after |
| Tool environments (`pkg/toolenv`) | installed packages, file locks, bindings | lock, check, remove, install, bind | several processes, interrupted installs | a package that was given stays whole; the closest scope's package is bound |
| Task worker (`pkg/worker/ops`) | an attempt: resolved invocation, manifest, secrets, tools | run a task from its recorded input | every service above can change while the attempt is prepared | a body runs what was prepared for it; tasks end |
| Input forms (`pkg/input`) | the waiting request, its alternate, recorded answers, event streams | prepare, autofill, answer, complete unanswered, cancel, stream | people, autofill, the alternate, timeouts and cancellation race; late answers | an answer is used for the request it was written for; replies are true |
| Stories (`pkg/story/live`) | the tree of a run and its stack | follow the executor's calls and states | retries, routes, handled catches, replays | the story shows what ran, below the calls that ran it |
| Recipe language, templates, CEL, permissions, secrets, submission requests, inspection, CLI, configuration | documents and views | parse, evaluate, render | none that interleaves | not modelled (section 8) |

Interactions: the executor stages each node's requirements with the execution runtime, then asks
JobDB for the task; the guarded task worker checks the allocation and runs the op in a checkout
that the forwarder's snapshot restores; the op's result, with its new snapshot, is recorded by
JobDB, read back by the forwarder and the executor, and published by the scope that accepts it.
Publication ops are ordinary ops whose tasks also write a remote branch. Child-starting ops submit
through JobDB, or through a broker that a command's process calls. The task worker resolves an
extension's source in the selector cache, prepares its tools in the tool cache, and gives the body
an object store. Input ops suspend the job until an answer is recorded. The story's executor wraps
the recipe executor and sees every call it makes.

## 2. Plan

Done: `RecipeScope`, `RecipeStory` on top of it, `WorkspaceForwarding`, `GitPublication` and the
abstract `SharedBranch` it implements, `ExecutionRuntime`, `ChildGroup` (groups and the broker),
`InputForms`, and `TaskExecution`, which composes `SelectorCache` and `ToolEnvironment` on a
`WorkerHost`; and a module of proofs for each of them (section 6). Every invariant that a run checks
is also a theorem, and so is the refinement of `SharedBranch`.

Left, in this order:

1. An abstract specification of publication (a node's slot holds what its scope was accepted with)
   that `RecipeScope` implements.
2. Restarts with a context patch and multi-step ops as further actions of `RecipeScope`.

## 3. Modules

**`RecipeScope`** models `executeNodeScope` (`execution_scope.go:82-359`) and the bodies it runs.
The executor is one serial thread: `at` is the node whose scope call is on top and `act[n]` holds
that call's local variables (`next`, `last`, the frame being filled, the attempt). `frames[n]` is
the map `frames`, `written[n]` the completion position, `outputs[n]` the slot in the enclosing map
with its `.runs`. `log` is JobDB's history and `pos` how much of it this process has replayed.
A state machine that declares a catch wraps each state in a policy scope
(`statemachine_compiler.go:128-155`), which is a node of kind "policy" here. The actions follow
the call: `StartBody`, `RunTask` or `CallKid`, `Resume`, `FinishBody`, then JobDB's `Decide`,
the clause's `Handle`, and `Settle` or `FailScope` after `DoScope`. `Crash` loses everything but
`log`. An output's value is the position of the history at which it was prepared, so outputs of
different attempts differ. A recipe is given by constants, and `TreeAssumption` says what the
loader guarantees of it.

**`WorkspaceForwarding`** models what a task restores and records. `commit` is the commit context
of each workspace, shared by every view of it (`UpdateGitState`); `stack` holds one forwarder per
open scope frame, with `lastThinpack` and the root artifacts by value; `packs` and `initial` are
the two maps that all forks share. `LeaveScope` covers every scope end that saved a frame;
`RetryScope` forks again from the enclosing forwarder; `RethrowScope` is a `fail` clause, which
saves no frame. The result rule (`resultArtifacts`) is that of a forwarder in scoped mode, the one
`withNodeWorkspace` and jobs with workspaces use.

**`GitPublication`** models one branch and the ops that publish to it: the three-task chain
(`chain.go`), `squash` followed by the standalone `merge` (`separate.go`), and the chain of a
workspace created empty. A commit is its set of ancestors and its author; Git's own behaviour
(fast-forward check, lease on an absent branch) is `PushAllowed`. `pc` separates the reads and
writes of the remote: ancestry check, push, probe. Every task can fail, crash or lose its
response between its effect and its recorded outcome, and is then run from the recorded state.

**`ExecutionRuntime`** models `Runtime`, its lease wrappers and `guardedTask.Run`. An invocation is
one acquired lease with its shared `leaseState` (`demand`, `blocked`); `leases[w]` is the map entry
of process `w`. Guard, task body, negotiation and handoff are separate steps. JobDB may expire a
lease at any time and give the job to the same process again; the old invocation's task body may
still be running then (its recipe is not continued: `RecipeCatches` and `Acquire` say so, which is
the engine's behaviour as `executionruntime` relies on it). A requirement is one quantity compared
with the allocation; `Negotiate` takes the larger.

**`RecipeStory`** extends `RecipeScope` with `tree`, the recorder's nodes and stack. Each step of
the executor that the decorated executor or the state observer sees changes the tree as well: a call
pushes a node (`TellCall`), a return judges and pops it (`TellReturn`), a task result adds a step
(`TellTask`), a machine's transitions add a node (`TellTransitions`). A state's node is opened by
the machine and closed by the next state or by the machine's return, so that the tree's stack and
the call stack are different things; `StoryShowsTheRun` relates them. `Restarted` starts a new tree,
which is also what every reader of a story does. A reader's replay ends with a cache miss where the
history ends; the miss leaves open nodes as they are, so the story a reader sees of a running job is
`tree` when `pos = Len(log)`. The property is about nesting and steps. Statuses of containers are
modelled, but nothing is claimed of them: a failure that was retried or handled inside a container
is still among its children, and a state whose own scope fails after its node has succeeded is never
judged when the machine's catch then continues.

**`SharedBranch`** is what publication ops promise together: each adds one commit of its own, once,
takes nothing out, and reports success only for a commit that the branch has held. One that has
nothing to publish may still put back commits that somebody outside had taken out (`PutBack`): its
push carries the history it was checked out with. `GitPublication`
instantiates it (`Branch`) with a mapping that forgets attempts, program counters and
recorded states; `ImplementsBranch` is the abstract specification as a property.

**`ChildGroup`** models one op that starts children, as the chain of durable tasks it is. `plan` is
the op (group, start-only group, `run_and_wait`, command with a broker), `rec` the child records of
the running body, `saved` those of the last recorded task, from which every attempt begins again.
`jobs` and `goals` are JobDB's: a submission under a known ID returns the existing job
(`ChildJobID`), a restart of a child is another candidate for the same goal. Submissions can be lost
in both directions (`StartChildFails`). A broker call is sent, created, recorded and answered in
separate steps; the client may give up at any of them, the broker's handler goes on. `RecordTask`
is the end of `doPrepared`: the jobs of the broker and the jobs that JobDB lists below the invocation
are recorded with the task.

**`InputForms`** models the inputs of one job. `round` counts occurrences: the recorded waiting task
of each has its own ordinal, which is what `task.Finish` is bound to. A client lists, reads and
submits in separate steps (`ListPendingInputs`, `GetForm`, `Submit`, `Finish`, `LookupConflict`), so
that everything else can happen in between. `alternate` and `due` are the task's `if_unanswered`.
`stream` is a connection's handler with its `sentPending` set, reduced to the one job that is
modelled. Forms are a kind (ordinary, review, structured), and answers are fit or unfit for it:
`acceptReview` and `acceptStructured` check both identity and fitness, `SubmitResponse` neither.

**`TaskExecution`** models `taskWorker.RunTask` and `opExecutor.doPrepared` on a host with several
processes. `run[t]` is the attempt: the commit it resolved, the manifest it loaded, the default
secrets it read. It composes **`SelectorCache`** (in-flight calls per process, directories per host,
a ref that moves between `ls-remote` and fetch) and **`ToolEnvironment`** (entries installed in place
under file locks, manifest last, bindings by scope); **`WorkerHost`** says which process runs a task.
`pubs` is the attempt's object store. `Outside` moves the ref, cleans the source cache and damages the
tool cache. Restoring inputs and the workspace has no effect that another task sees and is part of
`LoadManifest`.

A module `X_proofs` extends `X` with its inductive invariant and its theorems (section 6). The `MC`
modules give the constants values.
The definitions in `PROJECT.json`'s map stand for about 6,900 of the repository's 74,500 lines: the
parts where actors, failures and replays meet. Definitions introduced by a comment "Mutant" are faulty variants of a definition below them; they
are used only to see that each property can fail.

## 4. Runs

| Run | What it shows |
|---|---|
| `scope` | A recipe with every construct (retry, timeout, `catch` fail, continue and route, a state in a policy scope, an op with its own step retries), up to 3 faults and a crash at any step: `PublishedWasAccepted`, `PublishedOnce`, `AcceptedFrameReconstructed`, `ReplayFollowsHistory`, `SucceededChildHasOutput`, `JobEnds`. |
| `machine_catch` | A machine whose own catch continues, retried, with another machine inside one of its states: `PublishedOnce`, `StoryShowsTheRun`. |
| `machine_catch_doc` | Violation: see finding 1. |
| `forwarding` | Jobs with a root scope, with and without an initial snapshot, retried and rethrown; and jobs without a root scope whose scopes are not retried: `RestoreFindsItsPack`, `SnapshotsStayHome`, `ResultMatchesCommit`. |
| `forwarding_root_retry` | Violation: see finding 2. |
| `git_publication` | Five pairings of publishers, one of them with nothing to publish, one crash, one outside commit, one outside rewrite: `SuccessWasPublished`, `ChangeLandsOnce`, `AdvancedMeansUnpublished`, `ImplementsBranch`, `PublicationsEnd`. |
| `execution_runtime` | A small and a large process, two tasks, two leases, one caught failure, one payload update: `TaskRunsWhereItFits`, `ValidLeaseIsRegistered`, `HandoffIsNeeded`, `ChildrenBelongToTheirTask`, `BlockedRunsNothing`. |
| `staged_demand` | Violation: see finding 3. |
| `child_group` | Six plans of the four kinds of op, lost submissions, retries, a crash, failed goals, a restarted child: `NativeChildExistsOnce`, `ChildrenAreTracked`, `OutputMatchesJobs`, `NoChildUnattended`, `OpEnds`. |
| `input_forms` | Eight scripts of one or two inputs, two clients, the alternate, autofill, timeouts, cancellation, a crash of the alternate's worker: `AnswerWasMeantForIt`, `CheckedAnswerIsUsable`, `RepliesAreTrue`, `UnansweredMovesOn`. |
| `input_stream` | Violation: see finding 4. |
| `task_execution` | Two tasks of two processes that share caches and need the same packages in opposite orders, with any two of: a failed fetch or install, a timeout, a crash, a moved ref, a cleaned or damaged cache: `BodyRunsWhatWasPrepared`, `ToolsStayWhole`, `ObjectsResolve`, `TasksEnd`. |

A module's type invariant is checked by the module's first run; that of `TaskExecution` would say no more
than its properties, and is left out.

Bounds. Recipes: 11 and 13 nodes; three faults are enough to exhaust a retry, fail again in the
repaired state and fail an enclosing scope, and one crash can hit each of those points; a second
process replays the whole history, so a further crash starts from the same states (`machine_catch`
has four faults and two crashes). Forwarding:
four commits, three workspaces, three open scopes, which lets a nested workspace be left, the outer
one changed, and a scope in between retried. Publication: two publishers, two attempts of each task,
one crash; the races are between two writers, and outsiders supply a third. Runtime: two leases
give a superseded invocation and its successor in one process or in two; three leases were
also checked once with no payload update (12.2 million states), too long to keep as a run.
Children: up to three children, two attempts of each task, one crash and one restart, so
that a start can be interrupted between any two children and repeated; two broker calls, which can be
of two attempts (about 500,000 states). Inputs: two clients with two submissions in all, so that one
answer can be late for the other's; two occurrences; one crash, one cancellation, a channel that
holds one event (about 390,000 states). Tasks: two tasks, two processes, two commits, two packages,
two troubles (about 510,000 states): with two, a task can lose what it prepared and
fail once more while the other task works on the same entry.

Fairness. `RecipeScope` assumes weak fairness of the executor's steps: the worker that holds the
lease keeps executing, and JobDB restarts the job after a crash. `GitPublication` assumes weak
fairness of each publisher's step. `ChildGroup` assumes it of the op's own steps (`OpStep`), not of
the children: `OpEnds` has their settlement as its premise. `InputForms` assumes that a running
worker polls for work, that time passes (`Elapse`), and that a connected handler polls; clients are
not fair, people may never answer. `TaskExecution` assumes weak fairness per task: a goroutine that
can take a step takes one, a lock that stays free is taken by who polls it. Crashes, outsiders and
faults are never forced and are bounded, which is what retry policies bound in the code.
The other two modules state no liveness.

A finished job, op or set of publications stutters explicitly, so deadlock is checked; `input_forms`,
`input_stream` and `task_execution` end when the job or the tasks have ended, and do not check it.

## 5. Findings

1. **A machine's continuing catch publishes early** (`execution_scope.go:311`). The catch of a machine
   runs in the policy scope of one state, completes the machine's own context there
   (`:229-232`), and the caller publishes when that policy scope is accepted. The machine's scope is
   decided afterwards: if it times out, the enclosing sequence, whose own catch may go on, still
   sees the machine's output. `PROPOSAL-Replay-Context-Snapshots.md:9` says that catch outputs use
   the same boundary as other outputs.
2. **A retried scope loses its snapshot in a job without a root scope** (`artifact_job_context.go:30`).
   `fork` copies `lastThinpack`; the commit context is shared. After a failed attempt that
   committed, the retry's first task is told to restore that commit and is given the older snapshot.
   `GUIDE-Node-Workspaces.md:124` says that snapshotting preserves work for retries. Scoped
   workspaces keep their snapshots in a shared map and are not affected, which `forwarding` checks.
3. **A late task stages on its successor's lease** (`runtime.go:282`). `Stage` writes to whichever lease
   is registered, without the comparison that `submitOnCurrentLease` makes. A superseded task whose
   extension asks for another environment replaces the demand of the new invocation's current task,
   and the handoff published next does not cover that task (the job is handed over again later).
   The task is never run in the wrong place: `TaskRunsWhereItFits` holds. The comment at
   `runtime.go:287` says that a staged demand belongs to the recipe's current task.
4. **A second input of a job is not announced** (`management.go:519`). The event stream's handler
   remembers the IDs of the jobs whose pending input it has sent and never forgets one, so a
   subscriber that stays connected is not told of the next input of the same job.
   `recipe-input-api.yaml:163` describes the stream as emitting the input lifecycle events of the
   project.

## 6. Proofs

Every theorem holds for all values of the constants that meet the `ASSUME`s of its module: any number
of nodes, publishers, processes, clients, tasks, and any bound on faults and crashes. The bounds stay
in the guards, so the theorems speak of every finite number of them. Each proof has the same layout:
the inductive invariant as a conjunction of named parts, lemmas about the data, what each action keeps
of each part, and the theorems.

**`RecipeScope_proofs`** (from `NodeAssumption` and `TreeAssumption`, which say what the loader
guarantees).

- `TypeCorrect`: `TypeOK` is inductive only together with `CallStack`: only the call on top runs and
  every other open call waits, the parent of an open call waits for exactly that call, a body calls
  only its own children, and a body that resumes has the child it called. Their conjunction is
  `Nested`.
- `EveryOutputWasAccepted`: `Spec => []ShownWasAccepted`, for every recipe: an output that a context
  shows was accepted for the node's own scope or, when a machine's catch continues, for the policy scope
  that handled the failure (`Fills`). `OwnOutputs` says that an output held by a scope completes its
  own context or the machine's (`Completes`); without it, `Settle` could write into another node's slot.
  `OutcomeAccepted` says that when a scope's outcome
  has been recorded, the outputs of the recorded frame are among its `accepted` ones; without it, what
  `Settle` publishes is unknown. A crash empties the visible slots and leaves `accepted` alone.
- `PublicationCorrect`: `NoMachineContinues => (Spec => []PublishedWasAccepted)`, from the same
  invariant. The premise excludes exactly the recipes of finding 1: in the others `Fills(k, n)` leaves
  only `k = n`.
- `PublishesOnce`: `PublishedOnce`, machines whose own catch continues included. An output is held by
  one invocation or shown by one context, never both (`HeldByOne`, `HeldIsNotShown`): `Settle` gives
  away what it publishes or hands to the enclosing state. New outputs are told from old ones by their
  age: what is held or shown is older than the next decision, except by a body that has just returned
  (`HeldIsOlder`, `ShownIsOlder`).

What a process that takes a job over does, for every recipe and wherever the processes before it
stopped, is the second half of the module:

- `EveryReplayFollowsHistory`. Between two results of JobDB the executor is a function of its own state
  (`NextExec`, one clause per action of `RecipeScope`; `StepFollows` shows that every step is a step of
  it). The history therefore determines one execution, and the invariant `ReplayInv` says that there is
  one, from the start of a process to the end of the history, every recorded result legal where it was
  asked for, with the process at one of its points. A step that replays goes to the next point, a step
  at the end prolongs it (`FollowsRun`), and a crash returns to its first point (`CrashRun`). The
  execution has to be part of the invariant: that the next recorded result fits the node on top follows
  from nothing in the current state.
- `EveryAcceptedFrameIsReconstructed`. Frame numbers of an invocation are never reused and the frame
  that is accepted is the one the body filled (`FrameInv`); that JobDB returns the same number on a
  replay is where `ReplayInv` is needed.
- `EverySucceededChildHasOutput`. A success says that the scope's frame holds an output or that the
  slot it stands for (`Target`) holds one already: a state takes its child's output over, a policy
  scope's success is that of its first state, and a machine whose catch handled the failure was
  completed by the policy scope below it (`SuccessInv`). A new attempt empties the slots of its
  children only, and none of them is open (`OpenSlotsStay`).
- `EveryScopeKeepsItsRetryPolicy`: a body is never run more often than `RetryLimit` allows. The invariant
  (`AttemptsOk`) is strict where a scope is about to start its body again, because the attempt is
  counted by that step and the limit was checked by the one before it. `EveryJobEndsOnce` says that a job
  with a result takes no further step.

**`RecipeStory_proofs`** (on top of `RecipeScope_proofs`; also from `PolicyAssumption`: a policy scope
runs its own state and nothing else, as `statemachine_compiler.go:128-155` builds it).

- `EveryStoryShowsTheRun`, from `StoryMirrorsTheExecutor`. The recorder pushes and pops its own stack and
  never looks at the executor's, and a state's node outlives the call that it shows; that the two agree
  is therefore a fact about whole runs. `StoryInv` makes it inductive: what an open node lies on is
  determined by the node alone (`LiesOn`: an op, a sequence or a machine lies on the node of its
  parent, a state on its machine or, when it is entered again, on the visit that the machine
  observes); every call has at most one open node (`OpenOnce`), so popping the node of a call pops no other
  call's; and the top of the stack shows the call on top or the state visited by it (`TopOk`). With
  that, each new node is put where it belongs (`NodesOk`).
- The steps are compared with the recorded task results by their rank: as many of the one as of the
  other, and the n-th shows the n-th (`StepsOk`). Both sets grow only at their end, which changes no
  earlier rank. On a replay, the result that is read back is already in the history, so `pos`, not the
  history's length, says which results are shown.
- `StoryRunsTheExecutor`: a run with a story is a run of `RecipeScope`, so all of the above holds of it.

**`ExecutionRuntime_proofs`**: all six properties of the run. The valid lease, the registered lease and
the invocation that stages and guards are each the latest of their process (`OwnerIsLast`,
`RegisteredIsLatest`, `StagingIsLatest`), so a guard that finds a registered lease finds its own. What
it reads there covers its task, or is the late request of finding 3, which does not fit the process
(`StagedForGuard`); that disjunct is why `TaskRunsWhereItFits` survives the finding.

**`GitPublication_proofs`**: the safety properties and the refinement. A candidate rests on commits the
branch has held (`CandidateInv`, `RecordInv`), so a push adds the candidate and nothing else; and a
publisher's earlier candidates are below none of them, so only its last one can have landed
(`OnlyCandidateLands`), which is `ChangeLandsOnce`. Histories are closed under ancestors
(`HistoryInv`), and without a rewrite the branch is all it has held (`LandedInv`): that is what
"advanced" is judged by. `PublicationImplementsBranch` proves `Spec => ImplementsBranch`: initial
states map to initial states of `SharedBranch`, every step to one of its steps or a stutter. The step
that could not be simulated at first is an op without changes that pushes its checkout after an
outsider took commits out; it led to `PutBack` in `SharedBranch` and to the fifth pairing of the run.

**`WorkspaceForwarding_proofs`**: the packs per workspace are shared by all forks, so no retry loses
them (`RestoreInv`); what is forked, the job-wide pack and the root result, follows the root workspace
as long as every frame was adopted (`PackInv`); a snapshot was made in the workspace it is forwarded
for (`HomeInv`). `EveryRestoreFindsItsPack` has the premise that jobs with retries have a scoped root
workspace, which is exactly what the job of finding 2 lacks. The smallest unused hash and workspace,
which the model picks with `CHOOSE`, exist by the library's well-foundedness of the naturals.

**`InputForms_proofs`** (assumes that a script asks something and that no client is called
"fallback"): a submission has a number of its own, larger than that of any answer recorded before it;
an occurrence is answered once, as it ends (`AnswerInv`); what a client holds for an occurrence that
checks its answers was written for that occurrence and fits it (`ClientOk`). So what a client was told
stays true whatever others do later (`ToldOk`).

**`ChildGroup_proofs`** (assumes the shape of a plan, and that the recipes of `run_and_wait` have no
`when`, as in the code): the properties speak of finished ops, the invariant says what each task of the
chain has established of each child (`StartDone`, `AwaitDone`, `CollectDone`: before the task, after
it, and in between for the children it has come to) and that JobDB cannot take it back: a job that
ended and a goal that is settled stay as they are (`Grows`), and every job but a restart has a goal of
its own (`JobOk`), by which the op finds it when it lists what was started below it (`TrackInv`).

**`TaskExecution_proofs`** (assumes that the free-lock value is no task and that the marks for a name
without a package, "unbound" and "ambiguous", are no packages: in the code these are an absent and an
empty binding, `environment.go:362`, and never an entry): a source directory only ever holds its own commit, and a resolution keeps the
commit it is for (`SourceInv`); an entry of the tool cache is changed only by the holder of its lock,
and only while no task relies on it (`ToolInv`); the packages a manifest asks for are those still to
be taken and those taken, and once they are, the bindings are those of its scopes (`NeedsInv`); the
store holds the content of every finished publication, once (`StoreInv`). The theorems are
`EveryBodyRunsWhatWasPrepared`, `EveryToolStaysWhole` and `EveryObjectResolves`. The first one says what
a loop computes: the code binds a scope's exports one package after the other, the property
speaks of the set of packages that export a name. Both are functions of how far the loop has come, and
the proof is a descent: a first index at which they differed would have a predecessor at which they
already differ.

Some definitions were rewritten while proving, without changing a behaviour: a `CASE` whose arms
overlapped, the recording of a pack, the split of `BodyRunsWhatWasPrepared` into `BodyHasItsSource`
and `BodyRunsClosestTools`, the binding loops as recursive functions instead of folds, and the steps and
results of `StoryShowsTheRun` as ranked sets instead of selected sequences.

## 7. Only model-checked

- Liveness (`JobEnds`, `PublicationsEnd`, `OpEnds`, `UnansweredMovesOn`, `TasksEnd`): the prover has no
  fairness and no ENABLED.
- The four violation runs: a counterexample is TLC's to show. For findings 1 and 2 the theorems state
  what holds without the premise that fails, or with it (`EveryOutputWasAccepted`, `PublicationCorrect`,
  `EveryRestoreFindsItsPack`); for finding 3 what holds in spite of it (`EveryTaskRunsWhereItFits`).

Every invariant and the refinement are proved. The runs still matter for them: they show that the cases the
theorems speak of happen, and that a faulty variant of the code would be noticed.

## 8. Not modelled

- JobDB: described by its use (history, decisions about a body, leases, payload revisions, goals,
  deduplicated submissions, alternates).
- Restart patches, validation mode, hooks and includes of the executor; the 64-step bound of
  `executeOpAttempt`. A restart works on a clone of the whole context graph, where `RecipeScope` has
  one.
- Expression evaluation, recipe parsing, validation and hashing: pure functions of documents without
  a state that several actors share. They are a large part of the repository's lines.
- Git commands inside a checkout, what an installer does, form rendering and field validation:
  effects on a file system, or on data, whose outcome the models take as given.
- Permissions, secrets and redaction, except which default secrets a body gets; job listing and
  inspection, the building of submission requests and the command line, which read, build or format data;
  the recipe test harness, which is a test double of JobDB; database schemas and configuration.
