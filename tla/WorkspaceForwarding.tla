------------------------- MODULE WorkspaceForwarding -------------------------
(***************************************************************************)
(* How the Git state of a job moves from task to task                      *)
(* (pkg/worker/compiler/artifact_job_context.go, workspace.go and          *)
(* execution_scope.go; pkg/worker/ops/op_executor.go;                      *)
(* pkg/git/gitstate/workspace_controller.go).                              *)
(*                                                                         *)
(* Every task runs in a fresh checkout.  What it must restore is the       *)
(* commit its workspace's shared commit context names; what it restores    *)
(* from is the thin pack its thinpackForwarder holds.  The commit context  *)
(* is one shared record per workspace.  A forwarder is forked for every    *)
(* scope frame: its job-wide pack and its root result are copied by value, *)
(* its per-workspace map is shared.  An accepted or failed scope is        *)
(* adopted by the enclosing forwarder; a retried or rethrown one is not.   *)
(***************************************************************************)
EXTENDS Naturals, Sequences

CONSTANTS
    Setups,       \* the kinds of job considered: one is chosen
    MaxHash,      \* bound: commits made
    MaxWorkspace, \* bound: workspace entries, the root included
    MaxDepth      \* bound: nested scopes

ASSUME ForwardingAssumption ==
    /\ Setups \subseteq [rootScoped : BOOLEAN,   \* the submitted root workspace carries a scope ID
                          initialPack : BOOLEAN,  \* the job was submitted with a snapshot to restore
                          mayRetry : BOOLEAN]     \* scopes have retry policies or rethrowing catches
    /\ \A s \in Setups : s.initialPack => s.rootScoped
    /\ MaxHash \in Nat \ {0}
    /\ MaxWorkspace \in Nat \ {0}
    /\ MaxDepth \in Nat \ {0}

Root == 1                     \* the submitted root workspace
Workspace == 1..MaxWorkspace
None == 0                     \* no commit, no pack
Hash == 1..MaxHash            \* a thin pack is named by the commit it restores

VARIABLES
    commit,    \* per workspace: PersistHash of its shared commit context
    based,     \* commits that are a repository base: restored without a pack
    owner,     \* per commit: the workspace it was made in
    packs,     \* thinpackForwarder.workspaces, shared by every fork
    initial,   \* thinpackForwarder.initialRestore, shared by every fork
    stack,     \* the open scope frames, innermost last; stack[1] is the job's
    entries,   \* workspaces entered so far
    setup,     \* the chosen setup
    redone     \* history: a scope was retried or rethrown

vars == <<commit, based, owner, packs, initial, stack, entries, setup, redone>>

-----------------------------------------------------------------------------
Top == stack[Len(stack)]
Below == stack[Len(stack) - 1]

(* Mutant: every workspace is treated as the root is. *)
ScopedAsRoot(w) == setup.rootScoped

Scoped(w) == w # Root \/ setup.rootScoped

(* fork: the frame's forwarder starts from the enclosing one's values. *)
Fork(frame) == [last |-> frame.last, rootPack |-> frame.rootPack, ws |-> frame.ws, entered |-> FALSE]

(* Mutants: half of the frame's values is adopted. *)
AdoptResult(frame, src) == [frame EXCEPT !.rootPack = src.rootPack]
AdoptLast(frame, src) == [frame EXCEPT !.last = src.last]

(* adopt: the enclosing forwarder takes the frame's values. *)
Adopt(frame, src) == [frame EXCEPT !.last = src.last, !.rootPack = src.rootPack]

(* The pack a task of workspace w is given. *)
PackFor(w) ==
    IF ~Scoped(w) THEN Top.last
    ELSE IF packs[w] # None THEN packs[w] ELSE initial[w]

(* Controller.Restore: a named commit that is no repository base needs the  *)
(* pack made for it.                                                        *)
Restorable(w) == commit[w] = None \/ commit[w] \in based \/ PackFor(w) = commit[w]

Fresh == CHOOSE h \in Hash : owner[h] = None /\ \A g \in Hash : owner[g] = None => h <= g
MayCommit == \E h \in Hash : owner[h] = None

-----------------------------------------------------------------------------
(* recordOutput: the result of a task of workspace w carries pack p. *)
RecordPack(w, p) ==
    /\ packs' = IF Scoped(w) THEN [packs EXCEPT ![w] = p] ELSE packs
    /\ stack' = [stack EXCEPT ![Len(stack)] =
                    [Top EXCEPT !.last = IF Scoped(w) THEN @ ELSE p,
                                !.rootPack = IF w = Root THEN p ELSE @]]

(* The task changed its checkout: a new commit and the pack that restores it. *)
TaskChanges ==
    LET w == Top.ws
    IN  /\ Restorable(w)
        /\ MayCommit
        /\ commit' = [commit EXCEPT ![w] = Fresh]
        /\ owner' = [owner EXCEPT ![Fresh] = w]
        /\ RecordPack(w, Fresh)
        /\ UNCHANGED <<based, initial, entries, setup, redone>>

(* The task changed nothing, or is const: the same pack passes through. *)
TaskUnchanged ==
    LET w == Top.ws
    IN  /\ Restorable(w)
        /\ PackFor(w) # None
        /\ RecordPack(w, PackFor(w))
        /\ UNCHANGED <<commit, based, owner, initial, entries, setup, redone>>

(* A refresh left no pending commits: the workspace is a repository base    *)
(* and every pack of it is dropped.                                         *)
TaskRefreshes ==
    LET w == Top.ws
    IN  /\ Restorable(w)
        /\ MayCommit
        /\ commit' = [commit EXCEPT ![w] = Fresh]
        /\ owner' = [owner EXCEPT ![Fresh] = w]
        /\ based' = based \cup {Fresh}
        /\ RecordPack(w, None)
        /\ initial' = [initial EXCEPT ![w] = None]
        /\ UNCHANGED <<entries, setup, redone>>

-----------------------------------------------------------------------------
EnterScope ==
    /\ Len(stack) < MaxDepth
    /\ stack' = Append(stack, Fork(Top))
    /\ UNCHANGED <<commit, based, owner, packs, initial, entries, setup, redone>>

(* withNodeWorkspace: every entry is a workspace of its own, with a commit  *)
(* context that names no commit.                                            *)
EnterWorkspace ==
    /\ Len(stack) > 1
    /\ ~Top.entered
    /\ entries < MaxWorkspace
    /\ entries' = entries + 1
    /\ stack' = [stack EXCEPT ![Len(stack)] = [@ EXCEPT !.ws = entries + 1, !.entered = TRUE]]
    /\ UNCHANGED <<commit, based, owner, packs, initial, setup, redone>>

(* The scope was accepted, handled by a catch, or failed: its frame was     *)
(* saved, and the enclosing forwarder adopts it.                            *)
LeaveScope ==
    /\ Len(stack) > 1
    /\ stack' = [SubSeq(stack, 1, Len(stack) - 1) EXCEPT ![Len(stack) - 1] = Adopt(@, Top)]
    /\ UNCHANGED <<commit, based, owner, packs, initial, entries, setup, redone>>

(* JobDB retries the body: the new frame is forked from the enclosing       *)
(* forwarder, not from the attempt before.                                  *)
RetryScope ==
    /\ setup.mayRetry
    /\ Len(stack) > 1
    /\ stack' = [stack EXCEPT ![Len(stack)] = Fork(Below)]
    /\ redone' = TRUE
    /\ UNCHANGED <<commit, based, owner, packs, initial, entries, setup>>

(* Mutant: the job's own forwarder is popped. *)
RethrowJob ==
    /\ setup.mayRetry
    /\ Len(stack) > 0
    /\ stack' = SubSeq(stack, 1, Len(stack) - 1)
    /\ redone' = TRUE
    /\ UNCHANGED <<commit, based, owner, packs, initial, entries, setup>>

(* A catch clause failed the scope: its handler saved no frame to adopt. *)
RethrowScope ==
    /\ setup.mayRetry
    /\ Len(stack) > 1
    /\ stack' = SubSeq(stack, 1, Len(stack) - 1)
    /\ redone' = TRUE
    /\ UNCHANGED <<commit, based, owner, packs, initial, entries, setup>>

Init ==
    LET h == IF setup.initialPack THEN 1 ELSE None
    IN  /\ setup \in Setups
        /\ commit = [w \in Workspace |-> IF w = Root THEN h ELSE None]
        /\ based = {}
        /\ owner = [g \in Hash |-> IF g = h THEN Root ELSE None]
        /\ packs = [w \in Workspace |-> None]
        /\ initial = [w \in Workspace |-> IF w = Root THEN h ELSE None]
        /\ stack = <<[last |-> None, rootPack |-> None, ws |-> Root, entered |-> FALSE]>>
        /\ entries = 1
        /\ redone = FALSE

Next ==
    \/ TaskChanges
    \/ TaskUnchanged
    \/ TaskRefreshes
    \/ EnterScope
    \/ EnterWorkspace
    \/ LeaveScope
    \/ RetryScope
    \/ RethrowScope

Spec == Init /\ [][Next]_vars

-----------------------------------------------------------------------------
(* Properties. *)

(* The forwarding state has the shape its code gives it. *)
TypeOK ==
    /\ commit \in [Workspace -> Hash \cup {None}]
    /\ based \subseteq Hash
    /\ owner \in [Hash -> Workspace \cup {None}]
    /\ packs \in [Workspace -> Hash \cup {None}]
    /\ initial \in [Workspace -> Hash \cup {None}]
    /\ stack \in Seq([last : Hash \cup {None}, rootPack : Hash \cup {None},
                      ws : Workspace, entered : BOOLEAN])
    /\ Len(stack) \in 1..MaxDepth
    /\ entries \in Workspace
    /\ setup \in Setups
    /\ redone \in BOOLEAN

(* "Changes are carried by the existing Git snapshots and thin packs": the  *)
(* next task of the active workspace can always restore the commit that     *)
(* workspace is at, also after retries, catches and nested workspaces.      *)
RestoreFindsItsPack == Restorable(Top.ws)

(* resultArtifacts: the snapshot the job's result carries. *)
ResultPack ==
    IF stack[1].rootPack # None THEN stack[1].rootPack
    ELSE IF Scoped(Root) THEN packs[Root] ELSE stack[1].last

(* A foreign workspace's snapshot never becomes the job's result, and no    *)
(* workspace is ever restored from another one's snapshot.                  *)
SnapshotsStayHome ==
    /\ ResultPack # None => owner[ResultPack] = Root
    /\ \A w \in Workspace : packs[w] # None => owner[packs[w]] = w
    /\ \A i \in DOMAIN stack : stack[i].last # None => owner[stack[i].last] = Root

(* When every scope has closed, and none was retried or rethrown, the       *)
(* snapshot in the job's result is the commit the root workspace is at, and *)
(* a root workspace at a repository base carries none.                      *)
ResultMatchesCommit ==
    Len(stack) = 1 /\ ~redone =>
        \/ commit[Root] \in based \cup {None} /\ ResultPack = None
        \/ commit[Root] # None /\ ResultPack = commit[Root]
        \/ commit[Root] # None /\ ResultPack = None /\ initial[Root] = commit[Root]
=============================================================================
