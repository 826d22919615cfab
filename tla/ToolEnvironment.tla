--------------------------- MODULE ToolEnvironment ---------------------------
(***************************************************************************)
(* Tool environments (pkg/toolenv).  The worker processes of a host share  *)
(* a cache of installed packages and native environments, its entries.  An *)
(* entry is installed in place under a file lock and its manifest is       *)
(* written last; a process can die at any step, which frees its locks and  *)
(* leaves its files.  Then the task's executables are bound to entries.    *)
(***************************************************************************)
EXTENDS SequencesExt, WorkerHost

CONSTANTS
    Entry,      \* the cache's entries
    Executable  \* names that packages export

CONSTANT Exports(_)     \* the executables of an entry

ASSUME ToolAssumption ==
    /\ \A e \in Entry : Exports(e) \subseteq Executable
    /\ "nobody" \notin Task    \* a held lock is told from a free one
    /\ {"unbound", "ambiguous"} \cap Entry = {}    \* and a package from a name that has none

VARIABLES
    entry,   \* per entry: its files, and whether ready.json is there
    lock,    \* who holds the lock of each entry
    tool     \* per task: its call of Prepare

toolVars == <<entry, lock, tool>>

Nobody == "nobody"
Ambiguous == "ambiguous"     \* a binding that refuses to run
Unbound == "unbound"
NoPrepare == [pc |-> "off", scopes |-> <<>>, todo |-> <<>>, got |-> {}, spoiled |-> {},
              bound |-> [x \in Executable |-> Unbound]]

ToolInit ==
    /\ entry = [e \in Entry |-> [files |-> "none", manifest |-> FALSE]]
    /\ lock = [e \in Entry |-> Nobody]
    /\ tool = [t \in Task |-> NoPrepare]

-----------------------------------------------------------------------------
(* The executables of one scope, package by package: two that export one name exclude each other. *)
Local(packages, x) ==
    LET bound[i \in 0..Len(packages)] ==
            IF i = 0 THEN Unbound
            ELSE IF x \notin Exports(packages[i]) \/ bound[i - 1] = packages[i] THEN bound[i - 1]
            ELSE IF bound[i - 1] = Unbound THEN packages[i] ELSE Ambiguous
    IN bound[Len(packages)]

(* Scopes are listed from the outermost to the closest. *)
Bindings(scopes, x) ==
    LET bound[i \in 0..Len(scopes)] ==
            IF i = 0 THEN Unbound
            ELSE IF Local(scopes[i], x) = Unbound THEN bound[i - 1] ELSE Local(scopes[i], x)
    IN bound[Len(scopes)]

-----------------------------------------------------------------------------
Preparing(t, pc) == tool[t].pc = pc /\ tool[t].todo # <<>>
Now(t) == Head(tool[t].todo)

(* Installed executables are checked one by one; what an interrupted install left may pass. *)
ToolReady(e) == entry[e].files \in {"partial", "whole"}

StartPrepare(t, scopes) ==
    /\ tool' = [tool EXCEPT ![t] = [NoPrepare EXCEPT !.pc = "lock", !.scopes = scopes, !.todo = FlattenSeq(scopes)]]
    /\ UNCHANGED <<entry, lock>>

LockEntry(t) ==
    /\ Preparing(t, "lock")
    /\ lock[Now(t)] = Nobody
    /\ lock' = [lock EXCEPT ![Now(t)] = t]
    /\ tool' = [tool EXCEPT ![t].pc = "check"]
    /\ UNCHANGED entry

(* The lock is polled until the task's context ends. *)
LockCancelled(t) ==
    /\ Preparing(t, "lock")
    /\ tool' = [tool EXCEPT ![t].pc = "err"]
    /\ UNCHANGED <<entry, lock>>

(* Mutant: locks are kept until the whole environment is prepared. *)
KeepLock(t) == UNCHANGED lock

Unlock(t) == lock' = [lock EXCEPT ![Now(t)] = Nobody]

TakeEntry(t) ==
    /\ Unlock(t)
    /\ tool' = [tool EXCEPT ![t].pc = "lock", ![t].todo = Tail(@), ![t].got = @ \cup {Now(t)}]

CheckManifest(t) ==
    /\ Preparing(t, "check")
    /\ IF entry[Now(t)].manifest /\ ToolReady(Now(t)) THEN TakeEntry(t)
       ELSE tool' = [tool EXCEPT ![t].pc = "remove"] /\ UNCHANGED lock
    /\ UNCHANGED entry

(* Mutant: the package is installed over what is there. *)
InstallOver(t) ==
    /\ Preparing(t, "remove")
    /\ tool' = [tool EXCEPT ![t].pc = "install"]
    /\ UNCHANGED <<entry, lock>>

(* RemoveAll unlinks one thing after the other, in any order. *)
RemoveEntry(t) ==
    /\ Preparing(t, "remove")
    /\ LET now == entry[Now(t)] IN
       IF now = [files |-> "none", manifest |-> FALSE]
       THEN tool' = [tool EXCEPT ![t].pc = "install"] /\ UNCHANGED entry
       ELSE /\ \/ now.manifest /\ entry' = [entry EXCEPT ![Now(t)].manifest = FALSE]
               \/ now.files # "none" /\ entry' = [entry EXCEPT ![Now(t)].files = "none"]
            /\ UNCHANGED tool
    /\ UNCHANGED lock

StartInstall(t) ==
    /\ Preparing(t, "install")
    /\ entry' = [entry EXCEPT ![Now(t)].files = "partial"]
    /\ tool' = [tool EXCEPT ![t].pc = "installing"]
    /\ UNCHANGED lock

InstallEnds(t) ==
    /\ Preparing(t, "installing")
    /\ entry' = [entry EXCEPT ![Now(t)].files = "whole"]
    /\ tool' = [tool EXCEPT ![t].pc = "manifest"]
    /\ UNCHANGED lock

InstallFails(t) ==
    /\ Preparing(t, "installing")
    /\ tool' = [tool EXCEPT ![t].pc = "err"]
    /\ Unlock(t)
    /\ UNCHANGED entry

WriteManifest(t) ==
    /\ Preparing(t, "manifest")
    /\ entry' = [entry EXCEPT ![Now(t)].manifest = TRUE]
    /\ TakeEntry(t)

(* The bindings are written under a lock of their own, held for nothing else. *)
Bind(t) ==
    /\ tool[t].pc = "lock" /\ tool[t].todo = <<>>
    /\ tool' = [tool EXCEPT ![t].pc = "ready", ![t].bound = [x \in Executable |-> Bindings(tool[t].scopes, x)]]
    /\ UNCHANGED <<entry, lock>>

ToolStep(t) ==
    \/ LockEntry(t) \/ CheckManifest(t) \/ RemoveEntry(t) \/ StartInstall(t) \/ InstallEnds(t)
    \/ WriteManifest(t) \/ Bind(t)

(* Somebody removes an executable of the cache. *)
Damage(e) ==
    /\ entry[e].files = "whole"
    /\ entry' = [entry EXCEPT ![e].files = "damaged"]
    /\ tool' = [t \in Task |-> IF e \in tool[t].got \/ (Preparing(t, "manifest") /\ Now(t) = e)
                               THEN [tool[t] EXCEPT !.spoiled = @ \cup {e}] ELSE tool[t]]
    /\ UNCHANGED lock

(* The kernel frees the locks of a process that dies; files stay as they are. *)
ToolCrash(p) ==
    /\ lock' = [e \in Entry |-> IF lock[e] \in TasksOf(p) THEN Nobody ELSE lock[e]]
    /\ tool' = [t \in Task |-> IF t \in TasksOf(p) THEN NoPrepare ELSE tool[t]]
    /\ UNCHANGED entry
=============================================================================
