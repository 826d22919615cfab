---------------------- MODULE WorkspaceForwarding_proofs ----------------------
(***************************************************************************)
(* What the forwarding runs show for a few commits, workspaces and scopes, *)
(* proved for any number of them.                                          *)
(*                                                                         *)
(* The argument: the per-workspace packs are shared by every fork, so no   *)
(* retry can lose them; and what is forked, the job-wide pack and the root *)
(* result, follows the root workspace as long as every frame is adopted.   *)
(***************************************************************************)
EXTENDS WorkspaceForwarding, WellFoundedInduction, TLAPS

Packs == Hash \cup {None}
Frames == [last : Packs, rootPack : Packs, ws : Workspace, entered : BOOLEAN]

(* A frame's snapshots are the root workspace's. *)
FrameHome(f) ==
    /\ f.last # None => owner[f.last] = Root
    /\ f.rootPack # None => owner[f.rootPack] = Root

(* A snapshot was made in the workspace it is forwarded for. *)
HomeInv ==
    /\ \A w \in Workspace : packs[w] # None => owner[packs[w]] = w
    /\ \A w \in Workspace : initial[w] # None => owner[initial[w]] = w
    /\ \A i \in DOMAIN stack : FrameHome(stack[i])

(* Every workspace can be restored, the root one without a scope as long as *)
(* no frame was dropped.                                                    *)
RestoreInv ==
    /\ redone => setup.mayRetry
    /\ \A w \in Workspace : w # Root \/ Scoped(Root) \/ ~redone => Restorable(w)

(* While no frame was dropped, the innermost one's packs are the root's commit. *)
PackInv ==
    ~redone => /\ Top.rootPack # None => Top.rootPack = commit[Root]
               /\ PackFor(Root) # None => PackFor(Root) = commit[Root]

ForwardingInv == TypeOK /\ HomeInv /\ RestoreInv /\ PackInv

-----------------------------------------------------------------------------
(* Facts about the data. *)

(* A nonempty set of commits has a first one. *)
LEMMA FirstOf ==
  ASSUME NEW T \in SUBSET Nat, T # {}
  PROVE  \E x \in T : \A y \in T : x <= y
<1> DEFINE Less == {s \in Nat \X Nat : s[1] < s[2]}
<1>1. OpToRel(<, Nat) = Less
  BY DEF OpToRel
<1>2. IsWellFoundedOn(Less, Nat)
  BY <1>1, NatLessThanWellFounded
<1>3. PICK x \in T : \A y \in T : ~ (<<y, x>> \in Less)
  BY <1>2, WFMin
<1>4. ASSUME NEW y \in T PROVE x <= y
  <2>1. <<y, x>> \in Nat \X Nat /\ <<y, x>>[1] = y /\ <<y, x>>[2] = x
    OBVIOUS
  <2>2. ~(y < x)
    BY <1>3, <2>1
  <2> QED
    BY <2>2
<1> QED
  BY <1>4

(* A new commit belongs to nobody yet. *)
LEMMA FreshIs ==
  ASSUME MayCommit
  PROVE  Fresh \in Hash /\ owner[Fresh] = None /\ Fresh # None
<1> DEFINE Free == {h \in Hash : owner[h] = None}
<1>1. Free \in SUBSET Nat /\ Free # {}
  BY DEF MayCommit, Hash
<1>2. PICK h \in Free : \A g \in Free : h <= g
  BY <1>1, FirstOf
<1>3. Fresh \in Hash /\ owner[Fresh] = None
  BY <1>2 DEF Fresh
<1> QED
  BY <1>3 DEF Hash, None

(* The frames are a nonempty stack. *)
LEMMA StackFacts ==
  ASSUME TypeOK
  PROVE  /\ stack \in Seq(Frames) /\ Len(stack) \in Nat /\ Len(stack) >= 1 /\ DOMAIN stack = 1..Len(stack)
         /\ Len(stack) \in DOMAIN stack /\ \A i \in DOMAIN stack : stack[i] \in Frames
         /\ Top \in Frames /\ Top.ws \in Workspace /\ Top.last \in Packs /\ Top.rootPack \in Packs /\ Root \in Workspace
<1>1. stack \in Seq(Frames) /\ Len(stack) \in 1..MaxDepth
  BY DEF TypeOK, Frames, Packs
<1>2. Len(stack) \in Nat /\ Len(stack) >= 1 /\ DOMAIN stack = 1..Len(stack)
  BY <1>1, ForwardingAssumption
<1>3. Len(stack) \in DOMAIN stack /\ \A i \in DOMAIN stack : stack[i] \in Frames
  BY <1>1, <1>2
<1>4. Top \in Frames
  BY <1>3 DEF Top
<1>5. Root \in Workspace
  BY ForwardingAssumption DEF Root, Workspace
<1> QED
  BY <1>1, <1>2, <1>3, <1>4, <1>5 DEF Frames

(* Replacing one frame changes no other one. *)
LEMMA ReplaceFrame ==
  ASSUME NEW s \in Seq(Frames), NEW n \in DOMAIN s, NEW f \in Frames
  PROVE  /\ [s EXCEPT ![n] = f] \in Seq(Frames) /\ Len([s EXCEPT ![n] = f]) = Len(s)
         /\ DOMAIN [s EXCEPT ![n] = f] = DOMAIN s /\ [s EXCEPT ![n] = f][n] = f
         /\ \A i \in DOMAIN s : i # n => [s EXCEPT ![n] = f][i] = s[i]
  OBVIOUS

(* Replacing the innermost frame. *)
LEMMA ReplaceTop ==
  ASSUME TypeOK, NEW f \in Frames, stack' = [stack EXCEPT ![Len(stack)] = f]
  PROVE  /\ stack' \in Seq(Frames) /\ Len(stack') = Len(stack) /\ DOMAIN stack' = DOMAIN stack /\ Top' = f
         /\ \A i \in DOMAIN stack : i # Len(stack) => stack'[i] = stack[i]
         /\ \A i \in DOMAIN stack' : stack'[i] = f \/ stack'[i] = stack[i]
<1>1. stack \in Seq(Frames) /\ Len(stack) \in DOMAIN stack
  BY StackFacts
<1>2. /\ stack' \in Seq(Frames) /\ Len(stack') = Len(stack) /\ DOMAIN stack' = DOMAIN stack /\ stack'[Len(stack)] = f
      /\ \A i \in DOMAIN stack : i # Len(stack) => stack'[i] = stack[i]
  BY <1>1
<1> QED
  BY <1>2 DEF Top

-----------------------------------------------------------------------------
(* Tasks. *)

(* What recordOutput leaves for the tasks that follow. *)
LEMMA RecordFacts ==
  ASSUME TypeOK, NEW w, w = Top.ws, NEW p \in Packs, RecordPack(w, p), UNCHANGED setup,
         \A v \in Workspace : v # w => initial'[v] = initial[v]
  PROVE  /\ packs' \in [Workspace -> Packs] /\ stack' \in Seq(Frames) /\ Len(stack') = Len(stack)
         /\ \A v \in Workspace : packs'[v] = packs[v] \/ (v = w /\ packs'[v] = p)
         /\ \A i \in DOMAIN stack' :
              \/ stack'[i] = stack[i]
              \/ /\ i = Len(stack) /\ stack'[i].rootPack = IF w = Root THEN p ELSE stack[i].rootPack
                 /\ stack'[i].last = IF Scoped(w) THEN stack[i].last ELSE p
         /\ Top'.rootPack = IF w = Root THEN p ELSE Top.rootPack
         /\ \A v \in Workspace : v # w => PackFor(v)' = PackFor(v)
         /\ PackFor(w)' = IF Scoped(w) /\ p = None THEN initial'[w] ELSE p
<1> DEFINE f == [Top EXCEPT !.last = IF Scoped(w) THEN @ ELSE p, !.rootPack = IF w = Root THEN p ELSE @]
<1>1. Top \in Frames /\ w \in Workspace /\ packs \in [Workspace -> Packs] /\ Len(stack) \in DOMAIN stack
  BY StackFacts DEF TypeOK, Packs
<1>2. f \in Frames /\ f.last = (IF Scoped(w) THEN Top.last ELSE p) /\ f.rootPack = (IF w = Root THEN p ELSE Top.rootPack)
  BY <1>1 DEF Frames
<1>3. stack' = [stack EXCEPT ![Len(stack)] = f]
  BY DEF RecordPack, Top
<1> HIDE DEF f
<1>4. /\ stack' \in Seq(Frames) /\ Len(stack') = Len(stack) /\ DOMAIN stack' = DOMAIN stack /\ Top' = f
      /\ \A i \in DOMAIN stack : i # Len(stack) => stack'[i] = stack[i]
  BY <1>2, <1>3, ReplaceTop
<1>5. packs' = IF Scoped(w) THEN [packs EXCEPT ![w] = p] ELSE packs
  BY DEF RecordPack
<1>6. \A v : Scoped(v)' <=> Scoped(v)
  BY DEF Scoped
<1>7. packs' \in [Workspace -> Packs] /\ \A v \in Workspace : packs'[v] = packs[v] \/ (v = w /\ packs'[v] = p)
  BY <1>1, <1>5
<1>8. \A i \in DOMAIN stack' :
        \/ stack'[i] = stack[i]
        \/ /\ i = Len(stack) /\ stack'[i].rootPack = IF w = Root THEN p ELSE stack[i].rootPack
           /\ stack'[i].last = IF Scoped(w) THEN stack[i].last ELSE p
  BY <1>2, <1>4 DEF Top
<1>9. ASSUME NEW v \in Workspace, v # w PROVE PackFor(v)' = PackFor(v)
  <2>1. packs'[v] = packs[v] /\ initial'[v] = initial[v]
    BY <1>1, <1>5, <1>9
  <2>2. ~Scoped(v) => Scoped(w)
    BY <1>9 DEF Scoped
  <2> QED
    BY <1>2, <1>4, <1>6, <2>1, <2>2 DEF PackFor
<1>10. PackFor(w)' = IF Scoped(w) /\ p = None THEN initial'[w] ELSE p
  <2>1. Scoped(w) => packs'[w] = p
    BY <1>1, <1>5
  <2> QED
    BY <1>2, <1>4, <1>6, <2>1 DEF PackFor
<1> QED
  BY <1>2, <1>4, <1>7, <1>8, <1>9, <1>10

(* A task leaves commit c and pack p behind: both new, the same as before, or a base and none. *)
LEMMA TaskStep ==
  ASSUME ForwardingInv, NEW w, w = Top.ws, NEW p \in Packs, NEW c \in Packs, RecordPack(w, p),
         commit' = [commit EXCEPT ![w] = c], UNCHANGED <<entries, setup, redone>>,
         owner' \in [Hash -> Workspace \cup {None}], \A h \in Hash : owner[h] # None => owner'[h] = owner[h],
         based \subseteq based', based' \subseteq Hash,
         initial' \in {initial, [initial EXCEPT ![w] = None]},
         p # None => owner'[p] = w,
         \/ c \in based' /\ p = None /\ initial'[w] = None
         \/ p # None /\ p = c
         \/ p # None /\ p = PackFor(w) /\ c = commit[w]
  PROVE  ForwardingInv'
<1>1. /\ TypeOK /\ HomeInv /\ RestoreInv /\ PackInv /\ w \in Workspace /\ Root \in Workspace /\ Root # None
      /\ commit \in [Workspace -> Packs] /\ initial \in [Workspace -> Packs] /\ packs \in [Workspace -> Packs]
  BY StackFacts DEF ForwardingInv, TypeOK, Packs, Root, None
<1>2. \A v \in Workspace : (v # w => initial'[v] = initial[v]) /\ (initial'[v] = initial[v] \/ initial'[v] = None)
  BY <1>1
<1>3. /\ packs' \in [Workspace -> Packs] /\ stack' \in Seq(Frames) /\ Len(stack') = Len(stack)
      /\ \A v \in Workspace : packs'[v] = packs[v] \/ (v = w /\ packs'[v] = p)
      /\ \A i \in DOMAIN stack' :
              \/ stack'[i] = stack[i]
              \/ /\ i = Len(stack) /\ stack'[i].rootPack = IF w = Root THEN p ELSE stack[i].rootPack
                 /\ stack'[i].last = IF Scoped(w) THEN stack[i].last ELSE p
      /\ Top'.rootPack = IF w = Root THEN p ELSE Top.rootPack
      /\ \A v \in Workspace : v # w => PackFor(v)' = PackFor(v)
      /\ PackFor(w)' = IF Scoped(w) /\ p = None THEN initial'[w] ELSE p
  BY <1>1, <1>2, RecordFacts
<1>4. commit' \in [Workspace -> Packs] /\ commit'[w] = c /\ \A v \in Workspace : v # w => commit'[v] = commit[v]
  BY <1>1
<1>5. TypeOK'
  <2>1. initial' \in [Workspace -> Packs]
    BY <1>1 DEF Packs
  <2> QED
    BY <1>1, <1>3, <1>4, <2>1 DEF TypeOK, Packs, Frames
<1>6. HomeInv'
  <2>1. \A v \in Workspace : packs'[v] # None => owner'[packs'[v]] = v
    <3> SUFFICES ASSUME NEW v \in Workspace, packs'[v] # None PROVE owner'[packs'[v]] = v
      OBVIOUS
    <3>1. CASE packs'[v] = packs[v]
      <4>1. packs[v] \in Hash /\ owner[packs[v]] = v /\ v # None
        BY <1>1, <3>1 DEF HomeInv, Packs, Workspace, None
      <4> QED
        BY <3>1, <4>1
    <3> QED
      BY <1>3, <3>1
  <2>2. \A v \in Workspace : initial'[v] # None => owner'[initial'[v]] = v
    <3> SUFFICES ASSUME NEW v \in Workspace, initial'[v] # None PROVE owner'[initial'[v]] = v
      OBVIOUS
    <3>1. initial'[v] = initial[v] /\ initial[v] \in Hash /\ owner[initial[v]] = v /\ v # None
      BY <1>1, <1>2 DEF HomeInv, Packs, Workspace, None
    <3> QED
      BY <3>1
  <2>3. ASSUME NEW i \in DOMAIN stack', NEW f, f = stack'[i] PROVE FrameHome(f)'
    <3>1. i \in DOMAIN stack /\ stack[i] \in Frames /\ FrameHome(stack[i])
      BY <1>1, <1>3, StackFacts DEF HomeInv
    <3>2. stack[i].last # None => stack[i].last \in Hash /\ owner'[stack[i].last] = Root
      BY <1>1, <3>1 DEF FrameHome, Frames, Packs
    <3>3. stack[i].rootPack # None => stack[i].rootPack \in Hash /\ owner'[stack[i].rootPack] = Root
      BY <1>1, <3>1 DEF FrameHome, Frames, Packs
    <3>4. ~Scoped(w) => w = Root
      BY DEF Scoped
    <3> QED
      BY <1>3, <2>3, <3>2, <3>3, <3>4 DEF FrameHome
  <2> QED
    BY <2>1, <2>2, <2>3 DEF HomeInv, FrameHome
<1>7. \A v : Scoped(v)' <=> Scoped(v)
  BY DEF Scoped
<1>8. ASSUME NEW v \in Workspace, v # w, Restorable(v) PROVE Restorable(v)'
  BY <1>3, <1>4, <1>8 DEF Restorable
<1>9. ASSUME Restorable(w) PROVE Restorable(w)'
  BY <1>3, <1>4, <1>9 DEF Restorable
<1>10. p # c /\ p # None => p = PackFor(w) /\ c = commit[w]
  OBVIOUS
<1>11. RestoreInv'
  BY <1>1, <1>7, <1>8, <1>9 DEF RestoreInv
<1>12. PackInv'
  <2>1. CASE w = Root
    BY <1>1, <1>3, <1>4, <2>1 DEF PackInv
  <2>2. CASE w # Root
    BY <1>1, <1>3, <1>4, <2>2 DEF PackInv
  <2> QED
    BY <2>1, <2>2
<1> QED
  BY <1>5, <1>6, <1>11, <1>12 DEF ForwardingInv

(* A task that changes its workspace. *)
LEMMA TaskChangesStep == ASSUME ForwardingInv, TaskChanges PROVE ForwardingInv'
<1> PICK w, h : w = Top.ws /\ h = Fresh
  OBVIOUS
<1>1. h \in Hash /\ owner[h] = None /\ h # None /\ h \in Packs /\ w \in Workspace /\ owner \in [Hash -> Workspace \cup {None}]
  BY FreshIs, StackFacts DEF TaskChanges, ForwardingInv, TypeOK, Packs
<1>2. commit' = [commit EXCEPT ![w] = h] /\ owner' = [owner EXCEPT ![h] = w] /\ RecordPack(w, h)
      /\ UNCHANGED <<based, initial, entries, setup, redone>>
  BY DEF TaskChanges
<1>3. owner' \in [Hash -> Workspace \cup {None}] /\ owner'[h] = w /\ \A g \in Hash : owner[g] # None => owner'[g] = owner[g]
  BY <1>1, <1>2
<1>4. based \subseteq Hash
  BY DEF ForwardingInv, TypeOK
<1> QED
  BY <1>1, <1>2, <1>3, <1>4, TaskStep

(* A task without changes keeps the commit and the pack. *)
LEMMA TaskUnchangedStep == ASSUME ForwardingInv, TaskUnchanged PROVE ForwardingInv'
<1> PICK w, p : w = Top.ws /\ p = PackFor(w)
  OBVIOUS
<1>1. /\ w \in Workspace /\ owner \in [Hash -> Workspace \cup {None}] /\ based \subseteq Hash
      /\ commit \in [Workspace -> Packs] /\ packs \in [Workspace -> Packs] /\ initial \in [Workspace -> Packs]
      /\ Top.last \in Packs /\ Len(stack) \in DOMAIN stack /\ HomeInv
  BY StackFacts DEF ForwardingInv, TypeOK, Packs
<1>2. p # None /\ RecordPack(w, p) /\ UNCHANGED <<commit, based, owner, initial, entries, setup, redone>>
  BY DEF TaskUnchanged
<1>3. p \in Packs
  BY <1>1 DEF PackFor
<1>4. owner[p] = w
  <2>1. CASE ~Scoped(w)
    BY <1>1, <1>2, <2>1 DEF PackFor, HomeInv, FrameHome, Top, Scoped
  <2>2. CASE Scoped(w)
    BY <1>1, <1>2, <2>2 DEF PackFor, HomeInv
  <2> QED
    BY <2>1, <2>2
<1>5. commit' = [commit EXCEPT ![w] = commit[w]] /\ commit[w] \in Packs
  BY <1>1, <1>2
<1> QED
  BY <1>1, <1>2, <1>3, <1>4, <1>5, TaskStep

(* A task that refreshes its workspace moves it to a repository base, without a pack. *)
LEMMA TaskRefreshesStep == ASSUME ForwardingInv, TaskRefreshes PROVE ForwardingInv'
<1> PICK w, h : w = Top.ws /\ h = Fresh
  OBVIOUS
<1>1. /\ h \in Hash /\ owner[h] = None /\ h # None /\ h \in Packs /\ w \in Workspace /\ owner \in [Hash -> Workspace \cup {None}]
      /\ None \in Packs /\ based \subseteq Hash /\ initial \in [Workspace -> Packs]
  BY FreshIs, StackFacts DEF TaskRefreshes, ForwardingInv, TypeOK, Packs
<1>2. commit' = [commit EXCEPT ![w] = h] /\ owner' = [owner EXCEPT ![h] = w] /\ RecordPack(w, None)
      /\ based' = based \cup {h} /\ initial' = [initial EXCEPT ![w] = None] /\ UNCHANGED <<entries, setup, redone>>
  BY DEF TaskRefreshes
<1>3. owner' \in [Hash -> Workspace \cup {None}] /\ initial'[w] = None /\ \A g \in Hash : owner[g] # None => owner'[g] = owner[g]
  BY <1>1, <1>2
<1> QED
  BY <1>1, <1>2, <1>3, TaskStep

-----------------------------------------------------------------------------
(* Scopes. *)

(* A step that moves frames: what is said of each frame and of the innermost one's packs carries over. *)
LEMMA FrameStep ==
  ASSUME ForwardingInv, stack' \in Seq(Frames), Len(stack') \in 1..MaxDepth, entries' \in Workspace, redone' \in BOOLEAN,
         UNCHANGED <<commit, based, owner, packs, initial, setup>>,
         \A i \in DOMAIN stack' : \E j, k \in DOMAIN stack : stack'[i].last = stack[j].last /\ stack'[i].rootPack = stack[k].rootPack,
         redone' => setup.mayRetry,
         ~redone' => ~redone /\ Top'.last = Top.last /\ Top'.rootPack = Top.rootPack
  PROVE  ForwardingInv'
<1>1. TypeOK /\ HomeInv /\ RestoreInv /\ PackInv
  BY DEF ForwardingInv
<1>2. TypeOK'
  BY <1>1 DEF TypeOK, Frames, Packs
<1>3. HomeInv'
  BY <1>1 DEF HomeInv, FrameHome
<1>4. \A w : (Scoped(w)' <=> Scoped(w)) /\ (Scoped(w) \/ ~redone' => PackFor(w)' = PackFor(w))
  BY DEF Scoped, PackFor
<1>5. RestoreInv'
  <2> SUFFICES ASSUME NEW w \in Workspace, w # Root \/ Scoped(Root)' \/ ~redone' PROVE Restorable(w)'
    BY DEF RestoreInv
  <2>1. Restorable(w)
    BY <1>1, <1>4 DEF RestoreInv
  <2>2. PackFor(w)' = PackFor(w)
    BY <1>4 DEF Scoped
  <2> QED
    BY <2>1, <2>2 DEF Restorable
<1>6. PackInv'
  BY <1>1, <1>4 DEF PackInv
<1> QED
  BY <1>2, <1>3, <1>5, <1>6 DEF ForwardingInv

(* A scope is entered. *)
LEMMA EnterScopeStep == ASSUME ForwardingInv, EnterScope PROVE ForwardingInv'
<1> DEFINE f == Fork(Top)
<1>1. /\ TypeOK /\ stack \in Seq(Frames) /\ Len(stack) \in Nat /\ Len(stack) >= 1 /\ DOMAIN stack = 1..Len(stack)
      /\ Len(stack) \in DOMAIN stack /\ Top \in Frames
  BY StackFacts DEF ForwardingInv
<1>2. f \in Frames /\ f.last = Top.last /\ f.rootPack = Top.rootPack
  BY <1>1 DEF Fork, Frames
<1>3. stack' = Append(stack, f) /\ UNCHANGED <<commit, based, owner, packs, initial, entries, setup, redone>> /\ Len(stack) < MaxDepth
  BY DEF EnterScope
<1> HIDE DEF f
<1>4. /\ stack' \in Seq(Frames) /\ Len(stack') = Len(stack) + 1 /\ stack'[Len(stack) + 1] = f
      /\ \A i \in DOMAIN stack : stack'[i] = stack[i]
  BY <1>1, <1>2, <1>3
<1>5. DOMAIN stack' = (DOMAIN stack) \cup {Len(stack) + 1}
  BY <1>1, <1>4
<1>6. Top' = f /\ Len(stack') \in 1..MaxDepth
  BY <1>1, <1>3, <1>4, ForwardingAssumption DEF Top
<1>7. \A i \in DOMAIN stack' : \E j, k \in DOMAIN stack : stack'[i].last = stack[j].last /\ stack'[i].rootPack = stack[k].rootPack
  BY <1>1, <1>2, <1>4, <1>5 DEF Top
<1>8. entries \in Workspace /\ redone \in BOOLEAN /\ (redone => setup.mayRetry)
  BY <1>1 DEF TypeOK, ForwardingInv, RestoreInv
<1> QED
  BY <1>2, <1>3, <1>4, <1>6, <1>7, <1>8, FrameStep

(* A scope's workspace is entered: only the frame's workspace changes. *)
LEMMA EnterWorkspaceStep == ASSUME ForwardingInv, EnterWorkspace PROVE ForwardingInv'
<1> DEFINE f == [Top EXCEPT !.ws = entries + 1, !.entered = TRUE]
<1>1. /\ TypeOK /\ stack \in Seq(Frames) /\ Len(stack) \in DOMAIN stack /\ Top \in Frames /\ Len(stack) \in 1..MaxDepth
  BY StackFacts DEF ForwardingInv, TypeOK
<1>2. entries + 1 \in Workspace /\ entries' = entries + 1
  BY <1>1, ForwardingAssumption DEF TypeOK, Workspace, EnterWorkspace
<1>3. f \in Frames /\ f.last = Top.last /\ f.rootPack = Top.rootPack
  BY <1>1, <1>2 DEF Frames
<1>4. stack' = [stack EXCEPT ![Len(stack)] = f] /\ UNCHANGED <<commit, based, owner, packs, initial, setup, redone>>
  BY DEF EnterWorkspace, Top
<1> HIDE DEF f
<1>5. /\ stack' \in Seq(Frames) /\ Len(stack') = Len(stack) /\ DOMAIN stack' = DOMAIN stack /\ Top' = f
      /\ \A i \in DOMAIN stack' : stack'[i] = f \/ stack'[i] = stack[i]
  BY <1>1, <1>3, <1>4, ReplaceTop
<1>6. \A i \in DOMAIN stack' : \E j, k \in DOMAIN stack : stack'[i].last = stack[j].last /\ stack'[i].rootPack = stack[k].rootPack
  BY <1>1, <1>3, <1>5 DEF Top
<1>7. redone \in BOOLEAN /\ (redone => setup.mayRetry)
  BY <1>1 DEF TypeOK, ForwardingInv, RestoreInv
<1> QED
  BY <1>1, <1>2, <1>3, <1>4, <1>5, <1>6, <1>7, FrameStep

(* A stack without its innermost frame. *)
LEMMA PopFacts ==
  ASSUME TypeOK, Len(stack) > 1, NEW s, s = SubSeq(stack, 1, Len(stack) - 1)
  PROVE  /\ s \in Seq(Frames) /\ Len(s) = Len(stack) - 1 /\ Len(s) \in 1..MaxDepth /\ Len(s) \in DOMAIN s
         /\ DOMAIN s \subseteq DOMAIN stack /\ \A i \in DOMAIN s : s[i] = stack[i]
<1>1. stack \in Seq(Frames) /\ Len(stack) \in Nat /\ Len(stack) \in 1..MaxDepth /\ DOMAIN stack = 1..Len(stack)
  BY StackFacts DEF TypeOK
<1>2. Len(stack) - 1 \in 1..MaxDepth /\ Len(stack) - 1 \in 0..Len(stack)
  BY <1>1, ForwardingAssumption
<1>3. s \in Seq(Frames) /\ Len(s) = Len(stack) - 1 /\ \A i \in 1..(Len(stack) - 1) : s[i] = stack[i]
  BY <1>1, <1>2
<1> QED
  BY <1>1, <1>2, <1>3

(* An accepted, handled or failed scope is adopted. *)
LEMMA LeaveScopeStep == ASSUME ForwardingInv, LeaveScope PROVE ForwardingInv'
<1> PICK s : s = SubSeq(stack, 1, Len(stack) - 1)
  OBVIOUS
<1> DEFINE n == Len(stack) - 1
           f == Adopt(s[n], Top)
<1>1. TypeOK /\ Len(stack) > 1 /\ UNCHANGED <<commit, based, owner, packs, initial, entries, setup, redone>>
  BY DEF LeaveScope, ForwardingInv
<1>2. /\ s \in Seq(Frames) /\ Len(s) = n /\ n \in 1..MaxDepth /\ n \in DOMAIN s
      /\ DOMAIN s \subseteq DOMAIN stack /\ \A i \in DOMAIN s : s[i] = stack[i]
  BY <1>1, PopFacts
<1>3. Top \in Frames /\ s[n] \in Frames /\ Len(stack) \in DOMAIN stack
  BY <1>1, <1>2, StackFacts
<1>4. f \in Frames /\ f.last = Top.last /\ f.rootPack = Top.rootPack
  BY <1>3 DEF Adopt, Frames
<1>5. stack' = [s EXCEPT ![n] = f]
  BY DEF LeaveScope
<1> HIDE DEF f
<1>6. stack' \in Seq(Frames) /\ Len(stack') = n /\ DOMAIN stack' = DOMAIN s /\ stack'[n] = f
      /\ \A i \in DOMAIN s : i # n => stack'[i] = s[i]
  <2> HIDE DEF n
  <2> QED
    BY <1>2, <1>4, <1>5, ReplaceFrame
<1>7. Top' = f
  BY <1>6 DEF Top
<1>8. \A i \in DOMAIN stack' : \E j, k \in DOMAIN stack : stack'[i].last = stack[j].last /\ stack'[i].rootPack = stack[k].rootPack
  BY <1>2, <1>3, <1>4, <1>6 DEF Top
<1>9. entries \in Workspace /\ redone \in BOOLEAN /\ (redone => setup.mayRetry)
  BY <1>1 DEF TypeOK, ForwardingInv, RestoreInv
<1> QED
  BY <1>1, <1>2, <1>4, <1>6, <1>7, <1>8, <1>9, FrameStep

(* A retried scope starts from the enclosing forwarder; a rethrown one leaves it as it was. *)
LEMMA RetryScopeStep == ASSUME ForwardingInv, RetryScope PROVE ForwardingInv'
<1> DEFINE f == Fork(Below)
<1>1. /\ TypeOK /\ stack \in Seq(Frames) /\ Len(stack) - 1 \in DOMAIN stack /\ Len(stack) \in 1..MaxDepth
      /\ UNCHANGED <<commit, based, owner, packs, initial, entries, setup>> /\ setup.mayRetry /\ redone'
  BY StackFacts DEF ForwardingInv, RetryScope, TypeOK
<1>2. Below \in Frames
  BY <1>1 DEF Below
<1>3. f \in Frames /\ f.last = Below.last /\ f.rootPack = Below.rootPack
  BY <1>2 DEF Fork, Frames
<1>4. stack' = [stack EXCEPT ![Len(stack)] = f]
  BY DEF RetryScope
<1> HIDE DEF f
<1>5. /\ stack' \in Seq(Frames) /\ Len(stack') = Len(stack) /\ DOMAIN stack' = DOMAIN stack
      /\ \A i \in DOMAIN stack' : stack'[i] = f \/ stack'[i] = stack[i]
  BY <1>1, <1>3, <1>4, ReplaceTop
<1>6. \A i \in DOMAIN stack' : \E j, k \in DOMAIN stack : stack'[i].last = stack[j].last /\ stack'[i].rootPack = stack[k].rootPack
  BY <1>1, <1>3, <1>5 DEF Below
<1>7. entries \in Workspace /\ redone' \in BOOLEAN
  BY <1>1 DEF TypeOK, RetryScope
<1> QED
  BY <1>1, <1>5, <1>6, <1>7, FrameStep

(* A rethrown scope leaves the enclosing forwarder as it was. *)
LEMMA RethrowScopeStep == ASSUME ForwardingInv, RethrowScope PROVE ForwardingInv'
<1>1. TypeOK /\ Len(stack) > 1 /\ stack' = SubSeq(stack, 1, Len(stack) - 1) /\ setup.mayRetry /\ redone' = TRUE
      /\ UNCHANGED <<commit, based, owner, packs, initial, entries, setup>>
  BY DEF RethrowScope, ForwardingInv
<1>2. stack' \in Seq(Frames) /\ Len(stack') \in 1..MaxDepth /\ DOMAIN stack' \subseteq DOMAIN stack
      /\ \A i \in DOMAIN stack' : stack'[i] = stack[i]
  BY <1>1, PopFacts
<1>3. \A i \in DOMAIN stack' : \E j, k \in DOMAIN stack : stack'[i].last = stack[j].last /\ stack'[i].rootPack = stack[k].rootPack
  BY <1>2
<1>4. entries \in Workspace /\ redone' \in BOOLEAN
  BY <1>1 DEF TypeOK
<1> QED
  BY <1>1, <1>2, <1>3, <1>4, FrameStep

-----------------------------------------------------------------------------
(* The theorems. *)

(* The job starts with its own forwarder, before any task has run. *)
LEMMA ForwardingInit == Init => ForwardingInv
<1> SUFFICES ASSUME Init PROVE ForwardingInv
  OBVIOUS
<1> PICK h : h = IF setup.initialPack THEN 1 ELSE None
  OBVIOUS
<1> DEFINE f == [last |-> None, rootPack |-> None, ws |-> Root, entered |-> FALSE]
<1>1. /\ setup \in Setups /\ commit = [w \in Workspace |-> IF w = Root THEN h ELSE None] /\ based = {}
      /\ owner = [g \in Hash |-> IF g = h THEN Root ELSE None] /\ packs = [w \in Workspace |-> None]
      /\ initial = [w \in Workspace |-> IF w = Root THEN h ELSE None] /\ stack = <<f>> /\ entries = 1 /\ redone = FALSE
  BY DEF Init
<1>2. h \in Packs /\ Root \in Workspace /\ 1 \in Workspace /\ None \in Packs /\ (h # None => h \in Hash /\ setup.rootScoped)
  BY <1>1, ForwardingAssumption DEF Packs, Hash, Root, Workspace, None
<1>3. f \in Frames /\ f.last = None /\ f.rootPack = None
  BY <1>2 DEF Frames
<1>4. stack \in Seq(Frames) /\ Len(stack) = 1 /\ Top = f /\ stack[1] = f /\ DOMAIN stack = {1} /\ Len(stack) \in 1..MaxDepth
  <2> HIDE DEF f
  <2>1. stack \in Seq(Frames) /\ Len(stack) = 1 /\ stack[1] = f /\ DOMAIN stack = {1}
    BY <1>1, <1>3
  <2> QED
    BY <2>1, ForwardingAssumption DEF Top
<1> HIDE DEF f
<1>5. TypeOK
  <2>1. owner \in [Hash -> Workspace \cup {None}] /\ commit \in [Workspace -> Packs] /\ packs \in [Workspace -> Packs]
        /\ initial \in [Workspace -> Packs] /\ entries \in Workspace /\ based \subseteq Hash
    BY <1>1, <1>2
  <2>2. redone \in BOOLEAN
    BY <1>1
  <2> QED
    BY <1>1, <1>4, <2>1, <2>2 DEF TypeOK, Packs, Frames
<1>6. HomeInv
  BY <1>1, <1>2, <1>3, <1>4 DEF HomeInv, FrameHome
<1>7. \A w \in Workspace : (w # Root => commit[w] = None) /\ (w = Root => commit[w] = h)
  BY <1>1
<1>8. h # None => PackFor(Root) = h
  BY <1>1, <1>2 DEF PackFor, Scoped
<1>9. h = None => PackFor(Root) = None
  BY <1>1, <1>2, <1>3, <1>4 DEF PackFor
<1>10. RestoreInv
  BY <1>1, <1>7, <1>8 DEF RestoreInv, Restorable
<1>11. PackInv
  BY <1>2, <1>3, <1>4, <1>7, <1>8, <1>9 DEF PackInv
<1> QED
  BY <1>5, <1>6, <1>10, <1>11 DEF ForwardingInv

(* Every task and every move of the scopes keeps the invariant. *)
LEMMA ForwardingStep == ForwardingInv /\ [Next]_vars => ForwardingInv'
<1> SUFFICES ASSUME ForwardingInv, [Next]_vars PROVE ForwardingInv'
  OBVIOUS
<1>1. CASE UNCHANGED vars
  BY <1>1
  DEF vars, ForwardingInv, TypeOK, HomeInv, FrameHome, RestoreInv, Restorable, PackInv, PackFor, Scoped, Top
<1> QED
  BY <1>1, TaskChangesStep, TaskUnchangedStep, TaskRefreshesStep, EnterScopeStep, EnterWorkspaceStep, LeaveScopeStep,
     RetryScopeStep, RethrowScopeStep DEF Next

(* The inductive invariant holds in every reachable state. *)
THEOREM ForwardingInvariant == Spec => []ForwardingInv
  BY ForwardingInit, ForwardingStep, PTL DEF Spec

(* Commits, packs and forwarders keep the shape thinpackForwarder gives     *)
(* them, and the job's own forwarder is never popped.                       *)
THEOREM ForwardingTypeCorrect == Spec => []TypeOK
<1>1. ForwardingInv => TypeOK
  BY DEF ForwardingInv
<1> QED
  BY <1>1, ForwardingInvariant, PTL

(* The next task can always restore the commit its workspace is at, in any  *)
(* job whose retries and rethrows come with a scoped root workspace.        *)
THEOREM EveryRestoreFindsItsPack ==
  ASSUME \A s \in Setups : s.mayRetry => s.rootScoped
  PROVE  Spec => []RestoreFindsItsPack
<1>1. ForwardingInv => RestoreFindsItsPack
  <2> SUFFICES ASSUME ForwardingInv PROVE Restorable(Top.ws)
    BY DEF RestoreFindsItsPack
  <2>1. TypeOK /\ RestoreInv /\ Top.ws \in Workspace
    BY StackFacts DEF ForwardingInv
  <2>2. redone => setup.rootScoped
    BY <2>1 DEF TypeOK, RestoreInv
  <2> QED
    BY <2>1, <2>2 DEF RestoreInv, Scoped
<1> QED
  BY <1>1, ForwardingInvariant, PTL

(* A foreign workspace's snapshot never becomes the job's result, and no    *)
(* workspace is restored from another's, in any job.                        *)
THEOREM EverySnapshotStaysHome == Spec => []SnapshotsStayHome
<1>1. ForwardingInv => SnapshotsStayHome
  <2> SUFFICES ASSUME ForwardingInv PROVE SnapshotsStayHome
    OBVIOUS
  <2>1. HomeInv /\ Root \in Workspace /\ 1 \in DOMAIN stack
    BY StackFacts DEF ForwardingInv
  <2> QED
    BY <2>1 DEF HomeInv, FrameHome, SnapshotsStayHome, ResultPack
<1> QED
  BY <1>1, ForwardingInvariant, PTL

(* Without a retried or rethrown scope, the job's result carries the root   *)
(* workspace's commit (resultArtifacts).                                    *)
THEOREM EveryResultMatchesItsCommit == Spec => []ResultMatchesCommit
<1>1. ForwardingInv => ResultMatchesCommit
  <2> SUFFICES ASSUME ForwardingInv, Len(stack) = 1, ~redone
               PROVE  \/ commit[Root] \in based \cup {None} /\ ResultPack = None
                      \/ commit[Root] # None /\ ResultPack = commit[Root]
                      \/ commit[Root] # None /\ ResultPack = None /\ initial[Root] = commit[Root]
    BY DEF ResultMatchesCommit
  <2>1. TypeOK /\ RestoreInv /\ PackInv /\ Root \in Workspace /\ Top = stack[1]
    BY StackFacts DEF ForwardingInv, Top
  <2>2. Restorable(Root)
    BY <2>1 DEF RestoreInv
  <2>3. ResultPack # None => ResultPack = commit[Root]
    BY <2>1 DEF PackInv, ResultPack, PackFor
  <2>4. ResultPack = None => commit[Root] \in based \cup {None} \/ initial[Root] = commit[Root]
    BY <2>1, <2>2 DEF Restorable, ResultPack, PackFor
  <2> QED
    BY <2>3, <2>4
<1> QED
  BY <1>1, ForwardingInvariant, PTL
=============================================================================
