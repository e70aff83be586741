--------------------------- MODULE PointerUpdateProofs --------------------------
(***************************************************************************)
(* Theorems about PointerUpdate, for any submodules, calls, faults and     *)
(* bounds: no push is lost on either host; on GitHub pins do not go back,  *)
(* and success means aligned.                                              *)
(***************************************************************************)
EXTENDS PointerUpdate, TLAPS

\* The call has read the branch, on GitHub, and not moved it yet.
OnBase(u) == ~ onGitLab /\ up[u].pc \in {"commit", "mains", "write", "patch"}

\* What is written has been read, and only GitHub's client moves the ref.
AllRead ==
    \A u \in Updater :
        /\ ~ onGitLab /\ up[u].pc \in {"write", "patch"} => Unread(u) = {}
        /\ up[u].pc \in {"ref", "commit", "patch"} => ~ onGitLab

\* The branch has moved since it was read, or is the commit that was read.
BaseOrMoved ==
    \A u \in Updater :
        OnBase(u) => /\ up[u].base.at <= branch.at
                     /\ up[u].base.at = branch.at => up[u].base = branch

PointerInv == PointerTypeOK /\ AllRead /\ BaseOrMoved /\ NothingLost

--------------------------------------------------------------------------------
(* Types.                                                                  *)

LEMMA NewCommitType ==
    ASSUME PointerTypeOK, NEW u \in Updater, Unread(u) = {}
    PROVE  NewCommit(u) \in Commit
<1>1. up[u] \in Update /\ branch \in Commit
  BY DEF PointerTypeOK
<1>2. up[u].base \in Commit /\ up[u].pin \in [Sub -> 0..NotRead] /\ branch.at + 1 \in Nat
  BY <1>1 DEF Update, Commit
<1>3. \A s \in Sub : up[u].pin[s] # NotRead
  BY DEF Unread
<1>4. \A s \in Sub : up[u].pin[s] \in 0..MaxMain
  BY <1>2, <1>3, PointerAssumption DEF NotRead
<1>5. [s \in Sub |-> IF Found(u, s) THEN up[u].pin[s] ELSE up[u].base.pin[s]]
          \in [Sub -> 0..MaxMain]
  BY <1>2, <1>4 DEF Commit
<1> QED
  BY <1>2, <1>5 DEF NewCommit, Commit

LEMMA InitType == PointerInit => PointerTypeOK
<1> SUFFICES ASSUME PointerInit PROVE PointerTypeOK
  OBVIOUS
<1>1. FirstCommit \in Commit
  BY PointerAssumption DEF FirstCommit, Commit
<1>2. NoUpdate \in Update
  BY <1>1, PointerAssumption DEF NoUpdate, Update, NotRead
<1> QED
  BY <1>1, <1>2, PointerAssumption DEF PointerInit, PointerTypeOK, AHost

LEMMA CallStepType ==
    ASSUME PointerTypeOK, AllRead, NEW u \in Updater,
           UpdateSubmodulePointersOnBranch(u), SameHost
    PROVE  PointerTypeOK'
<1> USE PointerAssumption
<1>1. /\ up \in [Updater -> Update] /\ up[u] \in Update
      /\ main \in [Sub -> 0..MaxMain] /\ branch \in Commit /\ pushes \in Nat
      /\ AHost'
  BY SMT DEF PointerTypeOK, AHost, SameHost
<1>2. CASE BeginUpdate(u)
  <2>1. [up[u] EXCEPT !.pc = "gitmodules", !.from = main] \in Update
    BY <1>1 DEF Update
  <2> QED
    BY <1>1, <1>2, <2>1 DEF BeginUpdate, PointerTypeOK
<1>3. CASE ReadGitmodules(u)
  <2>1. \A pc \in {"mains", "ref"}, read \in BOOLEAN :
           [up[u] EXCEPT !.pc = pc, !.mapped = read] \in Update
    BY <1>1 DEF Update
  <2> QED
    BY <1>1, <1>3, <2>1 DEF ReadGitmodules, PointerTypeOK
<1>4. CASE ReadRef(u)
  <2>1. [up[u] EXCEPT !.pc = "commit", !.base = branch] \in Update
    BY <1>1 DEF Update
  <2> QED
    BY <1>1, <1>4, <2>1 DEF ReadRef, PointerTypeOK
<1>5. CASE ReadCommit(u)
  <2>1. \A tree \in BOOLEAN : [up[u] EXCEPT !.pc = "mains", !.tree = tree] \in Update
    BY <1>1 DEF Update
  <2> QED
    BY <1>1, <1>5, <2>1 DEF ReadCommit, PointerTypeOK
<1>6. ASSUME NEW s \in Sub, ReadMain(u, s)
      PROVE  PointerTypeOK'
  <2>1. main[s] \in 0..NotRead /\ 0 \in 0..NotRead
    BY <1>1 DEF NotRead
  <2>2. \A pc \in {"mains", "write"}, pin \in 0..NotRead :
           [up[u] EXCEPT !.pin[s] = pin, !.pc = pc] \in Update
    BY <1>1 DEF Update
  <2>3. PICK pin \in 0..NotRead, pc \in {"mains", "write"} :
           up' = [up EXCEPT ![u].pin[s] = pin, ![u].pc = pc]
    BY <1>6, <2>1 DEF ReadMain
  <2>4. UNCHANGED <<main, branch, pushes>>
    BY <1>6 DEF ReadMain
  <2> QED
    BY <1>1, <2>2, <2>3, <2>4 DEF PointerTypeOK
<1>7. CASE PostCommit(u)
  <2>1. up[u].tree \in BOOLEAN
    BY <1>1 DEF Update
  <2>2. \A tree \in BOOLEAN : [up[u] EXCEPT !.pc = "patch", !.tree = tree] \in Update
    BY <1>1 DEF Update
  <2> QED
    BY <1>1, <1>7, <2>1, <2>2 DEF PostCommit, PointerTypeOK
<1>8. \A pc \in {"ok", "error"} : [up[u] EXCEPT !.pc = pc] \in Update
  BY <1>1 DEF Update
<1>9. CASE PatchRef(u)
  <2>1. Unread(u) = {}
    BY <1>9 DEF PatchRef, AllRead
  <2>2. NewCommit(u) \in Commit
    BY <2>1, NewCommitType
  <2> QED
    BY <1>1, <1>8, <1>9, <2>2 DEF PatchRef, Advance, UpdateFails, PointerTypeOK
<1>10. CASE PutSubmodule(u)
  <2>1. PICK s \in Sub \ (Unread(u) \cup up[u].wrote) :
          \/ /\ branch' = [branch EXCEPT !.at = @ + 1, !.pin[s] = up[u].pin[s]]
             /\ up' = [up EXCEPT ![u].wrote = @ \cup {s},
                                 ![u].pc = IF Unread(u) = {} THEN "ok" ELSE "mains"]
             /\ UNCHANGED <<main, pushes>>
          \/ UpdateFails(u)
    BY <1>10 DEF PutSubmodule
  <2>2. up[u].pin[s] \in 0..MaxMain
    BY <1>1, <2>1 DEF Unread, Update, NotRead
  <2>3. [branch EXCEPT !.at = @ + 1, !.pin[s] = up[u].pin[s]] \in Commit
    <3>1. /\ branch.at + 1 \in Nat
          /\ [branch.pin EXCEPT ![s] = up[u].pin[s]] \in [Sub -> 0..MaxMain]
      BY <1>1, <2>2 DEF Commit
    <3> QED
      BY <1>1, <3>1 DEF Commit
  <2>4. \A pc \in {"ok", "mains"} :
           [up[u] EXCEPT !.wrote = @ \cup {s}, !.pc = pc] \in Update
    BY <1>1, <2>1 DEF Update
  <2> QED
    BY <1>1, <1>8, <2>1, <2>3, <2>4 DEF Advance, UpdateFails, PointerTypeOK
<1> QED
  BY <1>2, <1>3, <1>4, <1>5, <1>6, <1>7, <1>9, <1>10
     DEF UpdateSubmodulePointersOnBranch

LEMMA WorldStepType ==
    ASSUME PointerTypeOK, DeveloperPushes \/ \E s \in Sub : MainMoves(s), SameHost
    PROVE  PointerTypeOK'
<1> USE PointerAssumption
<1>1. /\ up \in [Updater -> Update]
      /\ main \in [Sub -> 0..MaxMain] /\ branch \in Commit /\ pushes \in Nat
      /\ AHost'
  BY SMT DEF PointerTypeOK, AHost, SameHost
<1>2. CASE DeveloperPushes
  <2>1. [branch EXCEPT !.at = @ + 1, !.files = pushes + 1] \in Commit
    <3>1. branch.at + 1 \in Nat /\ pushes + 1 \in Nat
      BY <1>1 DEF Commit
    <3> QED
      BY <1>1, <3>1 DEF Commit
  <2> QED
    BY <1>1, <1>2, <2>1 DEF DeveloperPushes, PointerTypeOK
<1>3. ASSUME NEW s \in Sub, MainMoves(s)
      PROVE  PointerTypeOK'
  <2>1. main[s] + 1 \in 0..MaxMain
    BY <1>1, <1>3 DEF MainMoves
  <2> QED
    BY <1>1, <1>3, <2>1 DEF MainMoves, PointerTypeOK
<1> QED
  BY <1>2, <1>3

--------------------------------------------------------------------------------
(* What a step leaves alone.                                               *)

LEMMA OtherCallsStay ==
    ASSUME PointerTypeOK, NEW u \in Updater, UpdateSubmodulePointersOnBranch(u),
           NEW v \in Updater \ {u}
    PROVE  up'[v] = up[v]
<1>1. up \in [Updater -> Update]
  BY DEF PointerTypeOK
<1> QED
  BY <1>1 DEF UpdateSubmodulePointersOnBranch, BeginUpdate, ReadGitmodules, ReadRef,
       ReadCommit, ReadMain, PostCommit, PatchRef, PutSubmodule, Advance, UpdateFails

\* The branch stays, or has one commit more.
LEMMA BranchGrows ==
    ASSUME PointerTypeOK, PointerNext
    PROVE  branch' = branch \/ branch'.at = branch.at + 1
<1>1. branch \in Commit /\ up \in [Updater -> Update]
  BY DEF PointerTypeOK
<1>2. ASSUME NEW u \in Updater, PatchRef(u)
      PROVE  branch' = branch \/ branch'.at = branch.at + 1
  <2>1. up[u].base \in Commit
    BY <1>1 DEF Update
  <2>2. NewCommit(u).at = branch.at + 1
    BY <2>1 DEF NewCommit, Commit
  <2> QED
    BY <1>2, <2>2 DEF PatchRef, UpdateFails
<1>3. ASSUME NEW u \in Updater, PutSubmodule(u)
      PROVE  branch' = branch \/ branch'.at = branch.at + 1
  BY <1>1, <1>3 DEF PutSubmodule, UpdateFails, Commit
<1>4. CASE DeveloperPushes
  BY <1>1, <1>4 DEF DeveloperPushes, Commit
<1>5. ASSUME NEW s \in Sub, MainMoves(s)
      PROVE  branch' = branch \/ branch'.at = branch.at + 1
  BY <1>5 DEF MainMoves
<1> QED
  BY <1>2, <1>3, <1>4, <1>5 DEF PointerNext, UpdateSubmodulePointersOnBranch, BeginUpdate,
       ReadGitmodules, ReadRef, ReadCommit, ReadMain, PostCommit

\* A call that has read the branch had read it, or has just done so.
LEMMA BaseStays ==
    ASSUME PointerTypeOK, AllRead, NEW u \in Updater,
           UpdateSubmodulePointersOnBranch(u), SameHost, OnBase(u)'
    PROVE  /\ branch' = branch
           /\ \/ up'[u].base = branch
              \/ OnBase(u) /\ up'[u].base = up[u].base
<1>1. up \in [Updater -> Update] /\ up[u] \in Update
  BY DEF PointerTypeOK
<1>2. /\ ~ onGitLab
      /\ up'[u].pc \in {"commit", "mains", "write", "patch"}
  BY DEF OnBase, SameHost
<1>3. ~ (BeginUpdate(u) \/ ReadGitmodules(u) \/ PatchRef(u) \/ PutSubmodule(u))
  <2>1. ~ BeginUpdate(u) /\ ~ ReadGitmodules(u)
    <3>1. BeginUpdate(u) => up'[u].pc = "gitmodules"
      BY <1>1 DEF BeginUpdate, Update
    <3>2. ReadGitmodules(u) => up'[u].pc = "ref"
      BY <1>1, <1>2 DEF ReadGitmodules, Update
    <3> QED
      BY <1>2, <3>1, <3>2
  <2>2. ~ PatchRef(u)
    BY <1>1, <1>2 DEF PatchRef, Advance, UpdateFails, Update
  <2>3. ~ PutSubmodule(u)
    BY <1>2 DEF PutSubmodule
  <2> QED
    BY <2>1, <2>2, <2>3
<1>4. CASE ReadRef(u)
  BY <1>1, <1>4 DEF ReadRef
<1>5. CASE ReadCommit(u)
  BY <1>1, <1>2, <1>5 DEF ReadCommit, OnBase, Update
<1>6. ASSUME NEW s \in Sub, ReadMain(u, s)
      PROVE  branch' = branch /\ OnBase(u) /\ up'[u].base = up[u].base
  BY <1>1, <1>2, <1>6 DEF ReadMain, OnBase, Update
<1>7. CASE PostCommit(u)
  BY <1>1, <1>2, <1>7 DEF PostCommit, OnBase, Update
<1> QED
  BY <1>3, <1>4, <1>5, <1>6, <1>7 DEF UpdateSubmodulePointersOnBranch

--------------------------------------------------------------------------------
(* The inductive invariant.                                                *)

LEMMA PointerInitInv == PointerInit => PointerInv
<1> SUFFICES ASSUME PointerInit PROVE PointerInv
  OBVIOUS
<1>1. \A u \in Updater : up[u].pc = "idle"
  BY DEF PointerInit, NoUpdate
<1>2. AllRead /\ BaseOrMoved
  BY <1>1 DEF AllRead, BaseOrMoved, OnBase
<1>3. NothingLost
  BY DEF PointerInit, NothingLost, FirstCommit
<1> QED
  BY <1>2, <1>3, InitType DEF PointerInv

LEMMA AllReadStep ==
    ASSUME PointerTypeOK, AllRead, PointerNext
    PROVE  AllRead'
<1>1. up \in [Updater -> Update] /\ onGitLab' = onGitLab
  BY DEF PointerTypeOK, PointerNext, SameHost
<1>2. ASSUME NEW u \in Updater, UpdateSubmodulePointersOnBranch(u)
      PROVE  AllRead'
  <2> DEFINE ReadOf(v) ==
        /\ ~ onGitLab /\ up[v].pc \in {"write", "patch"} => Unread(v) = {}
        /\ up[v].pc \in {"ref", "commit", "patch"} => ~ onGitLab
  <2>1. up[u] \in Update /\ ReadOf(u)
    BY <1>1 DEF AllRead
  <2>2. ASSUME NEW v \in Updater \ {u}
        PROVE  ReadOf(v)'
    <3>1. up'[v] = up[v] /\ ReadOf(v)
      BY <1>2, OtherCallsStay DEF AllRead
    <3> QED
      BY <3>1, <1>1 DEF Unread
  <2>3. ReadOf(u)'
    <3>1. CASE BeginUpdate(u) \/ ReadGitmodules(u)
      <4>1. BeginUpdate(u) => up'[u].pc = "gitmodules"
        BY <1>1, <2>1 DEF BeginUpdate, Update
      <4>2. ReadGitmodules(u) => up'[u].pc = IF onGitLab THEN "mains" ELSE "ref"
        BY <1>1, <2>1 DEF ReadGitmodules, Update
      <4> QED
        BY <1>1, <3>1, <4>1, <4>2
    <3>2. CASE ReadRef(u) \/ ReadCommit(u)
      <4>1. up[u].pc \in {"ref", "commit"}
        BY <3>2 DEF ReadRef, ReadCommit
      <4>2. ReadRef(u) => up'[u].pc = "commit"
        BY <1>1, <2>1 DEF ReadRef, Update
      <4>3. ReadCommit(u) => up'[u].pc = "mains"
        BY <1>1, <2>1 DEF ReadCommit, Update
      <4> QED
        BY <1>1, <2>1, <3>2, <4>1, <4>2, <4>3
    <3>3. ASSUME NEW s \in Sub, ReadMain(u, s)
          PROVE  ReadOf(u)'
      <4>1. /\ up'[u].pc \in {"mains", "write"}
            /\ ~ onGitLab /\ up'[u].pc = "write" => Unread(u) = {s}
            /\ \A r \in Sub \ {s} : up'[u].pin[r] = up[u].pin[r]
        BY <1>1, <2>1, <3>3 DEF ReadMain, Update
      <4>2. PointerTypeOK => main[s] # NotRead /\ 0 # NotRead
        BY PointerAssumption DEF PointerTypeOK, NotRead
      <4>3. up'[u].pin[s] # NotRead
        BY <1>1, <2>1, <3>3, <4>2 DEF ReadMain, Update
      <4> QED
        BY <1>1, <4>1, <4>3 DEF Unread
    <3>4. CASE PostCommit(u)
      <4>1. ~ onGitLab /\ Unread(u) = {} /\ up'[u].pin = up[u].pin
        BY <1>1, <2>1, <3>4 DEF PostCommit, Update
      <4> QED
        BY <1>1, <4>1 DEF Unread
    <3>5. CASE PatchRef(u)
      BY <1>1, <2>1, <3>5 DEF PatchRef, Advance, UpdateFails, Update
    <3>6. CASE PutSubmodule(u)
      <4>1. onGitLab /\ up'[u].pc \in {"ok", "mains", "error"}
        BY <1>1, <2>1, <3>6 DEF PutSubmodule, Advance, UpdateFails, Update
      <4> QED
        BY <1>1, <4>1
    <3> QED
      BY <1>2, <3>1, <3>2, <3>3, <3>4, <3>5, <3>6 DEF UpdateSubmodulePointersOnBranch
  <2>4. \A v \in Updater : ReadOf(v)'
    BY <2>2, <2>3
  <2> QED
    BY <2>4 DEF AllRead
<1>3. CASE DeveloperPushes \/ \E s \in Sub : MainMoves(s)
  BY <1>1, <1>3 DEF DeveloperPushes, MainMoves, AllRead, Unread
<1> QED
  BY <1>2, <1>3 DEF PointerNext

LEMMA BaseStep ==
    ASSUME PointerTypeOK, AllRead, BaseOrMoved, PointerNext
    PROVE  BaseOrMoved'
<1>1. /\ up \in [Updater -> Update] /\ onGitLab' = onGitLab
      /\ branch \in Commit
  BY DEF PointerTypeOK, PointerNext, SameHost
<1>2. branch' = branch \/ branch'.at = branch.at + 1
  BY BranchGrows
<1>3. ASSUME NEW u \in Updater, OnBase(u)'
      PROVE  /\ up'[u].base.at <= branch'.at
             /\ up'[u].base.at = branch'.at => up'[u].base = branch'
  <2>1. up[u] \in Update /\ up[u].base.at \in Nat /\ branch.at \in Nat
    BY <1>1 DEF Update, Commit
  <2>2. CASE UpdateSubmodulePointersOnBranch(u)
    <3>1. /\ branch' = branch
          /\ \/ up'[u].base = branch
             \/ OnBase(u) /\ up'[u].base = up[u].base
      BY <1>3, <2>2, BaseStays DEF PointerNext
    <3> QED
      BY <2>1, <3>1 DEF BaseOrMoved
  <2>3. CASE ~ UpdateSubmodulePointersOnBranch(u)
    <3>1. up'[u] = up[u]
      BY <2>3, OtherCallsStay DEF PointerNext, DeveloperPushes, MainMoves
    <3>2. OnBase(u)
      BY <1>1, <1>3, <3>1 DEF OnBase
    <3> QED
      BY <1>2, <2>1, <3>1, <3>2 DEF BaseOrMoved
  <2> QED
    BY <2>2, <2>3
<1> QED
  BY <1>3 DEF BaseOrMoved

LEMMA NothingLostStep ==
    ASSUME PointerTypeOK, AllRead, BaseOrMoved, NothingLost, PointerNext
    PROVE  NothingLost'
<1>1. /\ up \in [Updater -> Update]
      /\ branch \in Commit /\ pushes \in Nat
  BY DEF PointerTypeOK
<1>2. ASSUME NEW u \in Updater, PatchRef(u)
      PROVE  NothingLost'
  <2>1. OnBase(u) /\ up[u].base \in Commit
    BY <1>1, <1>2 DEF PatchRef, AllRead, OnBase, Update
  <2>2. branch.at = up[u].base.at => up[u].base = branch
    BY <2>1 DEF BaseOrMoved
  <2>3. NewCommit(u).files = up[u].base.files
    BY <2>1 DEF NewCommit, Commit
  <2> QED
    BY <1>2, <2>2, <2>3 DEF PatchRef, UpdateFails, NothingLost
<1>3. ASSUME NEW u \in Updater, PutSubmodule(u)
      PROVE  NothingLost'
  BY <1>1, <1>3 DEF PutSubmodule, UpdateFails, Commit, NothingLost
<1>4. CASE DeveloperPushes
  BY <1>1, <1>4 DEF DeveloperPushes, Commit, NothingLost
<1>5. ASSUME NEW s \in Sub, MainMoves(s)
      PROVE  NothingLost'
  BY <1>5 DEF MainMoves, NothingLost
<1> QED
  BY <1>2, <1>3, <1>4, <1>5 DEF PointerNext, UpdateSubmodulePointersOnBranch, BeginUpdate,
       ReadGitmodules, ReadRef, ReadCommit, ReadMain, PostCommit, NothingLost

LEMMA PointerStep == PointerInv /\ [PointerNext]_pointerVars => PointerInv'
<1> SUFFICES ASSUME PointerInv, [PointerNext]_pointerVars
             PROVE  PointerInv'
  OBVIOUS
<1>1. PointerTypeOK /\ AllRead /\ BaseOrMoved /\ NothingLost
  BY DEF PointerInv
<1>2. CASE PointerNext
  <2>1. PointerTypeOK'
    BY <1>1, <1>2, CallStepType, WorldStepType DEF PointerNext
  <2> QED
    BY <1>1, <1>2, <2>1, AllReadStep, BaseStep, NothingLostStep DEF PointerInv
<1>3. CASE UNCHANGED pointerVars
  BY <1>1, <1>3 DEF pointerVars, PointerInv, PointerTypeOK, AHost, AllRead, Unread,
       BaseOrMoved, OnBase, NothingLost
<1> QED
  BY <1>2, <1>3

\* The calls, the branch and its pins stay in their types.
THEOREM PointerTypes == PointerSpec => []PointerTypeOK
<1>1. PointerInv => PointerTypeOK
  BY DEF PointerInv
<1> QED
  BY <1>1, PointerInitInv, PointerStep, PTL DEF PointerSpec

\* The compare-and-set of the ref and the commits of GitLab lose no push of a
\* developer, for any number of calls at once and whichever requests fail.
THEOREM NoPushIsLost == PointerSpec => []NothingLost
<1>1. PointerInv => NothingLost
  BY DEF PointerInv
<1> QED
  BY <1>1, PointerInitInv, PointerStep, PTL DEF PointerSpec

--------------------------------------------------------------------------------
(* On GitHub pins do not go back, as long as main can be read: a row's SHA, *)
(* written when it cannot, may be older than the pin.                      *)

\* No pin is ahead of main, and what was read is not behind the base.
PinsBehind ==
    ~ onGitLab =>
        /\ \A s \in Sub : branch.pin[s] <= main[s]
        /\ \A u \in Updater, s \in Sub :
              /\ up[u].pc \in {"idle", "gitmodules", "ref", "commit"} => up[u].pin[s] = NotRead
              /\ OnBase(u) => up[u].base.pin[s] <= main[s]
              /\ OnBase(u) /\ up[u].pin[s] # NotRead =>
                    up[u].base.pin[s] <= up[u].pin[s] /\ up[u].pin[s] <= main[s]

LEMMA PinTypes ==
    ASSUME PointerTypeOK
    PROVE  /\ \A s \in Sub : main[s] \in 0..MaxMain /\ branch.pin[s] \in 0..MaxMain
           /\ \A u \in Updater : /\ up[u].base \in Commit
                               /\ up[u].pin \in [Sub -> 0..NotRead]
                               /\ up[u].wrote \subseteq Sub
           /\ \A u \in Updater, s \in Sub : /\ up[u].base.pin[s] \in 0..MaxMain
                                          /\ up[u].pin[s] \in 0..NotRead
                                          /\ up[u].from[s] \in 0..MaxMain
<1>1. up \in [Updater -> Update] /\ main \in [Sub -> 0..MaxMain] /\ branch \in Commit
  BY DEF PointerTypeOK
<1>2. \A u \in Updater : up[u] \in Update
  BY <1>1
<1> QED
  BY <1>1, <1>2 DEF Update, Commit

\* What moving the ref writes.
LEMMA PatchedPins ==
    ASSUME PointerTypeOK, AllRead, BaseOrMoved, NEW u \in Updater, PatchRef(u)
    PROVE  /\ OnBase(u) /\ Unread(u) = {} /\ main' = main
           /\ \/ branch' = branch /\ up'[u].pc = "error"
              \/ /\ up[u].base = branch
                 /\ \A s \in Sub : branch'.pin[s] =
                        IF Found(u, s) THEN up[u].pin[s] ELSE branch.pin[s]
<1>1. up \in [Updater -> Update] /\ up[u].base \in Commit
  BY PinTypes DEF PointerTypeOK
<1>2. OnBase(u) /\ Unread(u) = {}
  BY <1>1 DEF PatchRef, AllRead, OnBase
<1>3. \A s \in Sub : NewCommit(u).pin[s] =
          IF Found(u, s) THEN up[u].pin[s] ELSE up[u].base.pin[s]
  BY <1>1 DEF NewCommit, Commit
<1>4. CASE up[u].tree /\ branch.at = up[u].base.at
  BY <1>2, <1>3, <1>4 DEF PatchRef, BaseOrMoved
<1>5. CASE ~ (up[u].tree /\ branch.at = up[u].base.at)
  BY <1>1, <1>2, <1>5 DEF PatchRef, UpdateFails, Advance, Update
<1> QED
  BY <1>4, <1>5

LEMMA BranchPinsStep ==
    ASSUME PointerTypeOK, AllRead, BaseOrMoved, PinsBehind, PointerNext, ~ onGitLab
    PROVE  \A s \in Sub : /\ main'[s] >= main[s]
                          /\ branch'.pin[s] >= branch.pin[s]
                          /\ branch'.pin[s] <= main'[s]
<1> SUFFICES ASSUME NEW s \in Sub
             PROVE  /\ main'[s] >= main[s]
                    /\ branch'.pin[s] >= branch.pin[s]
                    /\ branch'.pin[s] <= main'[s]
  OBVIOUS
<1>1. /\ main[s] \in Nat /\ branch.pin[s] \in Nat /\ branch.pin[s] <= main[s]
      /\ main \in [Sub -> 0..MaxMain] /\ branch \in Commit
  BY PinTypes, PointerAssumption DEF PinsBehind, PointerTypeOK
<1>2. ASSUME NEW u \in Updater, PatchRef(u)
      PROVE  main' = main /\ branch'.pin[s] >= branch.pin[s] /\ branch'.pin[s] <= main[s]
  <2>1. up[u].pin[s] # NotRead /\ up[u].pin[s] \in Nat
    BY <1>2, PatchedPins, PinTypes, PointerAssumption DEF Unread, NotRead
  <2>2. \/ branch'.pin[s] = branch.pin[s]
        \/ up[u].base = branch /\ branch'.pin[s] = up[u].pin[s]
    BY <1>2, PatchedPins
  <2> QED
    BY <1>1, <1>2, <2>1, <2>2, PatchedPins DEF PinsBehind
<1>3. CASE DeveloperPushes
  BY <1>1, <1>3 DEF DeveloperPushes, Commit
<1>4. ASSUME NEW r \in Sub, MainMoves(r)
      PROVE  branch' = branch /\ main'[s] >= main[s]
  BY <1>1, <1>4 DEF MainMoves
<1>5. ASSUME NEW u \in Updater, UpdateSubmodulePointersOnBranch(u), ~ PatchRef(u)
      PROVE  branch' = branch /\ main' = main
  BY <1>5 DEF UpdateSubmodulePointersOnBranch, BeginUpdate, ReadGitmodules, ReadRef,
       ReadCommit, ReadMain, PostCommit, PutSubmodule
<1>6. ASSUME NEW u \in Updater, UpdateSubmodulePointersOnBranch(u)
      PROVE  /\ main'[s] >= main[s]
             /\ branch'.pin[s] >= branch.pin[s]
             /\ branch'.pin[s] <= main'[s]
  <2>1. CASE PatchRef(u)
    BY <1>1, <1>2, <2>1
  <2>2. CASE ~ PatchRef(u)
    BY <1>1, <1>5, <1>6, <2>2
  <2> QED
    BY <2>1, <2>2
<1>7. CASE \E r \in Sub : MainMoves(r)
  <2>1. branch' = branch /\ main'[s] >= main[s] /\ main'[s] \in Nat
    BY <1>1, <1>4, <1>7 DEF MainMoves
  <2> QED
    BY <1>1, <2>1
<1> QED
  BY <1>3, <1>6, <1>7 DEF PointerNext

LEMMA PinsBehindStep ==
    ASSUME PointerTypeOK, AllRead, BaseOrMoved, PinsBehind, PointerNext,
           "main" \notin PointerFaults
    PROVE  PinsBehind'
<1> SUFFICES ASSUME ~ onGitLab PROVE PinsBehind'
  BY DEF PinsBehind, PointerNext, SameHost
<1>1. \A s \in Sub : main'[s] >= main[s] /\ branch'.pin[s] <= main'[s]
  BY BranchPinsStep
<1>2. /\ up \in [Updater -> Update]
      /\ \A s \in Sub : main[s] \in Nat /\ main'[s] \in Nat
  <2>1. PointerTypeOK'
    BY CallStepType, WorldStepType DEF PointerNext
  <2> QED
    BY <2>1, PointerAssumption DEF PointerTypeOK
<1> DEFINE Behind(u, s) ==
        /\ up[u].pc \in {"idle", "gitmodules", "ref", "commit"} => up[u].pin[s] = NotRead
        /\ OnBase(u) => up[u].base.pin[s] <= main[s]
        /\ OnBase(u) /\ up[u].pin[s] # NotRead =>
              up[u].base.pin[s] <= up[u].pin[s] /\ up[u].pin[s] <= main[s]
<1>3. ASSUME NEW u \in Updater, NEW s \in Sub
      PROVE  Behind(u, s)'
  <2>1. /\ Behind(u, s) /\ branch.pin[s] <= main[s] /\ onGitLab' = onGitLab
        /\ up[u] \in Update /\ up[u].base.pin[s] \in Nat /\ up[u].pin[s] \in Nat
        /\ branch.pin[s] \in Nat /\ main[s] # NotRead /\ NotRead' = NotRead
    BY <1>2, PinTypes, PointerAssumption DEF PinsBehind, PointerNext, SameHost, NotRead
  <2>2. CASE UpdateSubmodulePointersOnBranch(u)
    <3>1. main' = main
      BY <2>2 DEF UpdateSubmodulePointersOnBranch, BeginUpdate, ReadGitmodules, ReadRef,
           ReadCommit, ReadMain, PostCommit, PatchRef, PutSubmodule, UpdateFails
    <3>2. CASE BeginUpdate(u)
      <4>1. up'[u].pc = "gitmodules" /\ up'[u].pin = up[u].pin /\ up[u].pc = "idle"
        BY <1>2, <2>1, <3>2 DEF BeginUpdate, Update
      <4> QED
        BY <2>1, <4>1 DEF OnBase
    <3>3. CASE ReadGitmodules(u)
      <4>1. up'[u].pc = "ref" /\ up'[u].pin = up[u].pin /\ up[u].pc = "gitmodules"
        BY <1>2, <2>1, <3>3 DEF ReadGitmodules, Update
      <4> QED
        BY <2>1, <4>1 DEF OnBase
    <3>4. CASE ReadRef(u)
      <4>1. /\ up'[u].pc = "commit" /\ up'[u].pin = up[u].pin /\ up'[u].base = branch
            /\ up[u].pc = "ref"
        BY <1>2, <2>1, <3>4 DEF ReadRef, Update
      <4> QED
        BY <2>1, <3>1, <4>1 DEF OnBase
    <3>5. CASE ReadCommit(u)
      <4>1. /\ up'[u].pc = "mains" /\ up'[u].pin = up[u].pin /\ up'[u].base = up[u].base
            /\ up[u].pc = "commit"
        BY <1>2, <2>1, <3>5 DEF ReadCommit, Update
      <4> QED
        BY <2>1, <3>1, <4>1 DEF OnBase
    <3>6. ASSUME NEW r \in Sub, ReadMain(u, r)
          PROVE  Behind(u, s)'
      <4>1. /\ up'[u].pc \in {"mains", "write"} /\ up'[u].base = up[u].base
            /\ up[u].pc = "mains"
            /\ \/ s # r /\ up'[u].pin[s] = up[u].pin[s]
               \/ s = r /\ up'[u].pin[s] = main[s]
        BY <1>2, <2>1, <3>6 DEF ReadMain, Update
      <4>2. OnBase(u)
        BY <4>1 DEF OnBase
      <4>3. /\ up'[u].base.pin[s] = up[u].base.pin[s]
            /\ up[u].base.pin[s] <= main'[s]
        BY <2>1, <3>1, <4>1, <4>2
      <4>4. up'[u].pin[s] # NotRead =>
              up[u].base.pin[s] <= up'[u].pin[s] /\ up'[u].pin[s] <= main'[s]
        <5>1. CASE s = r
          <6>1. up'[u].pin[s] = main[s] /\ main'[s] = main[s]
            BY <3>1, <4>1, <5>1
          <6> QED
            BY <1>2, <4>3, <6>1
        <5>2. CASE s # r
          <6>1. up'[u].pin[s] = up[u].pin[s] /\ main'[s] = main[s]
            BY <3>1, <4>1, <5>2
          <6> QED
            BY <2>1, <4>2, <6>1
        <5> QED
          BY <5>1, <5>2
      <4> QED
        BY <2>1, <4>1, <4>3, <4>4
    <3>7. CASE PostCommit(u)
      <4>1. /\ up'[u].pc = "patch" /\ up'[u].pin = up[u].pin /\ up'[u].base = up[u].base
            /\ up[u].pc = "write"
        BY <1>2, <2>1, <3>7 DEF PostCommit, Update
      <4> QED
        BY <2>1, <3>1, <4>1 DEF OnBase
    <3>8. CASE PatchRef(u)
      <4>1. up'[u].pc \in {"ok", "error"}
        BY <1>2, <2>1, <3>8 DEF PatchRef, Advance, UpdateFails, Update
      <4> QED
        BY <2>1, <4>1 DEF OnBase
    <3>9. ~ PutSubmodule(u)
      BY DEF PutSubmodule
    <3> QED
      BY <2>2, <3>2, <3>3, <3>4, <3>5, <3>6, <3>7, <3>8, <3>9
         DEF UpdateSubmodulePointersOnBranch
  <2>3. CASE ~ UpdateSubmodulePointersOnBranch(u)
    <3>1. up'[u] = up[u]
      BY <2>3, OtherCallsStay DEF PointerNext, DeveloperPushes, MainMoves
    <3> QED
      BY <1>1, <1>2, <2>1, <3>1 DEF OnBase
  <2> QED
    BY <2>2, <2>3
<1> QED
  BY <1>1, <1>3 DEF PinsBehind

\* A late pointer update never puts an older commit back on GitHub: what it read
\* is not behind the base, and the ref moves only from the base.
THEOREM PinsDoNotGoBack ==
    ASSUME "main" \notin PointerFaults
    PROVE  PointerSpec => PinsNeverGoBack
<1>1. PointerInit => PinsBehind
  <2> SUFFICES ASSUME PointerInit PROVE PinsBehind
    OBVIOUS
  <2>1. \A u \in Updater : up[u].pc = "idle" /\ \A s \in Sub : up[u].pin[s] = NotRead
    BY DEF PointerInit, NoUpdate
  <2> QED
    BY <2>1 DEF PointerInit, PinsBehind, OnBase, FirstCommit
<1>2. PointerInv /\ PinsBehind /\ [PointerNext]_pointerVars => PinsBehind'
  <2> SUFFICES ASSUME PointerInv, PinsBehind, [PointerNext]_pointerVars
               PROVE  PinsBehind'
    OBVIOUS
  <2>1. CASE PointerNext
    BY <2>1, PinsBehindStep DEF PointerInv
  <2>2. CASE UNCHANGED pointerVars
    BY <2>2 DEF pointerVars, PinsBehind, OnBase
  <2> QED
    BY <2>1, <2>2
<1>3. PointerInv /\ PinsBehind /\ [PointerNext]_pointerVars =>
          [~ onGitLab => \A s \in Sub : branch'.pin[s] >= branch.pin[s]]_pointerVars
  <2> SUFFICES ASSUME PointerInv, PinsBehind, PointerNext, ~ onGitLab
               PROVE  \A s \in Sub : branch'.pin[s] >= branch.pin[s]
    OBVIOUS
  <2> QED
    BY BranchPinsStep DEF PointerInv
<1> QED
  BY <1>1, <1>2, <1>3, PointerInitInv, PointerStep, PTL DEF PointerSpec, PinsNeverGoBack

--------------------------------------------------------------------------------
(* Success means aligned.                                                  *)

\* What was asked of main is not older than main was when the call began.
FromStart ==
    \A u \in Updater, s \in Sub :
        /\ up[u].pc \in {"idle", "gitmodules"} => up[u].pin[s] = NotRead
        /\ up[u].pc # "idle" => up[u].from[s] <= main[s]
        /\ up[u].pin[s] # NotRead => up[u].from[s] <= up[u].pin[s]

\* On GitLab what was asked is written before the next is asked for, and stays
\* when no other call writes.
WrittenStays ==
    onGitLab => \A u \in Updater :
        /\ up[u].pc = "idle" => up[u].wrote = {}
        /\ up[u].pc = "mains" => Sub \ Unread(u) \subseteq up[u].wrote
        /\ up[u].pc = "write" =>
              \A r, q \in Sub \ (Unread(u) \cup up[u].wrote) : r = q
        /\ Alone(u) => \A s \in up[u].wrote : up[u].from[s] <= branch.pin[s]

LEMMA FromStartStep ==
    ASSUME PointerTypeOK, FromStart, PointerNext, "main" \notin PointerFaults
    PROVE  FromStart'
<1>1. /\ up \in [Updater -> Update] /\ main \in [Sub -> 0..MaxMain]
      /\ \A s \in Sub : main[s] \in Nat /\ main'[s] \in Nat /\ main'[s] >= main[s]
  <2>1. main \in [Sub -> 0..MaxMain]
    BY DEF PointerTypeOK
  <2>2. \/ main' = main
        \/ \E r \in Sub : main' = [main EXCEPT ![r] = @ + 1]
    BY DEF PointerNext, UpdateSubmodulePointersOnBranch, BeginUpdate, ReadGitmodules,
       ReadRef, ReadCommit, ReadMain, PostCommit, PatchRef, PutSubmodule, UpdateFails,
       DeveloperPushes, MainMoves
  <2> QED
    BY <2>1, <2>2, PointerAssumption DEF PointerTypeOK
<1> DEFINE Fresh(u, s) ==
        /\ up[u].pc \in {"idle", "gitmodules"} => up[u].pin[s] = NotRead
        /\ up[u].pc # "idle" => up[u].from[s] <= main[s]
        /\ up[u].pin[s] # NotRead => up[u].from[s] <= up[u].pin[s]
<1>2. ASSUME NEW u \in Updater, NEW s \in Sub
      PROVE  Fresh(u, s)'
  <2>1. /\ Fresh(u, s) /\ up[u] \in Update
        /\ up[u].pin[s] \in Nat /\ up[u].from[s] \in Nat
        /\ main[s] # NotRead
    BY <1>1, PinTypes, PointerAssumption DEF FromStart, NotRead
  <2>2. CASE BeginUpdate(u)
    <3>1. /\ up'[u].pc = "gitmodules" /\ up'[u].pin = up[u].pin /\ up'[u].from = main
          /\ up[u].pc = "idle" /\ main' = main
      BY <1>1, <2>1, <2>2 DEF BeginUpdate, Update
    <3> QED
      BY <1>1, <2>1, <3>1
  <2>3. ASSUME NEW r \in Sub, ReadMain(u, r)
        PROVE  Fresh(u, s)'
    <3>1. /\ up'[u].pc \in {"mains", "write"} /\ up'[u].from = up[u].from
          /\ up[u].pc = "mains" /\ main' = main
          /\ \/ s # r /\ up'[u].pin[s] = up[u].pin[s]
             \/ s = r /\ up'[u].pin[s] = main[s]
      BY <1>1, <2>1, <2>3 DEF ReadMain, Update
    <3>2. up[u].from[s] <= main[s]
      BY <2>1, <3>1
    <3> QED
      BY <1>1, <2>1, <3>1, <3>2
  <2>4. CASE \/ ReadGitmodules(u) \/ ReadRef(u) \/ ReadCommit(u)
             \/ PostCommit(u) \/ PatchRef(u) \/ PutSubmodule(u)
    <3>1. /\ up'[u].pin = up[u].pin /\ up'[u].from = up[u].from /\ main' = main
          /\ up[u].pc # "idle" /\ up'[u].pc \notin {"idle", "gitmodules"}
      <4>1. CASE ReadGitmodules(u)
        BY <1>1, <2>1, <4>1 DEF ReadGitmodules, Update
      <4>2. CASE ReadRef(u) \/ ReadCommit(u)
        <5>1. CASE ReadRef(u)
          BY <1>1, <2>1, <5>1 DEF ReadRef, Update
        <5>2. CASE ReadCommit(u)
          BY <1>1, <2>1, <5>2 DEF ReadCommit, Update
        <5> QED
          BY <4>2, <5>1, <5>2
      <4>3. CASE PostCommit(u)
        BY <1>1, <2>1, <4>3 DEF PostCommit, Update
      <4>4. CASE PatchRef(u)
        BY <1>1, <2>1, <4>4 DEF PatchRef, Advance, UpdateFails, Update
      <4>5. CASE PutSubmodule(u)
        BY <1>1, <2>1, <4>5 DEF PutSubmodule, Advance, UpdateFails, Update
      <4> QED
        BY <2>4, <4>1, <4>2, <4>3, <4>4, <4>5
    <3> QED
      BY <2>1, <3>1
  <2>5. CASE ~ UpdateSubmodulePointersOnBranch(u)
    <3>1. up'[u] = up[u]
      BY <2>5, OtherCallsStay DEF PointerNext, DeveloperPushes, MainMoves
    <3> QED
      BY <1>1, <2>1, <3>1
  <2> QED
    BY <2>2, <2>3, <2>4, <2>5 DEF UpdateSubmodulePointersOnBranch
<1> QED
  BY <1>2 DEF FromStart

\* What a step of a call that others may have met leaves of Alone.
LEMMA NoLongerAlone ==
    ASSUME PointerTypeOK, NEW v \in Updater, UpdateSubmodulePointersOnBranch(v),
           NEW u \in Updater \ {v}
    PROVE  ~ Alone(u)'
<1>1. up \in [Updater -> Update] /\ up[v] \in Update
  BY DEF PointerTypeOK
<1>2. up'[v].pc # "idle"
  <2>1. CASE BeginUpdate(v)
    BY <1>1, <2>1 DEF BeginUpdate, Update
  <2>7. CASE ReadGitmodules(v)
    BY <1>1, <2>7 DEF ReadGitmodules, Update
  <2>2. CASE ReadRef(v)
    BY <1>1, <2>2 DEF ReadRef, Update
  <2>8. CASE ReadCommit(v)
    BY <1>1, <2>8 DEF ReadCommit, Update
  <2>3. ASSUME NEW s \in Sub, ReadMain(v, s)
        PROVE  up'[v].pc # "idle"
    BY <1>1, <2>3 DEF ReadMain, Update
  <2>4. CASE PostCommit(v)
    BY <1>1, <2>4 DEF PostCommit, Update
  <2>5. CASE PatchRef(v)
    BY <1>1, <2>5 DEF PatchRef, Advance, UpdateFails, Update
  <2>6. CASE PutSubmodule(v)
    BY <1>1, <2>6 DEF PutSubmodule, Advance, UpdateFails, Update
  <2> QED
    BY <2>1, <2>2, <2>3, <2>4, <2>5, <2>6, <2>7, <2>8 DEF UpdateSubmodulePointersOnBranch
<1> QED
  BY <1>2 DEF Alone

\* A call that writes a submodule on GitLab, and how it goes on.
LEMMA PutPins ==
    ASSUME PointerTypeOK, NEW u \in Updater, PutSubmodule(u)
    PROVE  /\ onGitLab /\ up[u].pc = "write" /\ main' = main
           /\ up'[u].pin = up[u].pin /\ up'[u].from = up[u].from
           /\ \/ up'[u].pc = "error" /\ branch' = branch /\ up'[u].wrote = up[u].wrote
              \/ \E s \in Sub \ (Unread(u) \cup up[u].wrote) :
                    /\ up'[u].wrote = up[u].wrote \cup {s}
                    /\ up'[u].pc = IF Unread(u) = {} THEN "ok" ELSE "mains"
                    /\ \A r \in Sub : branch'.pin[r] =
                          IF r = s THEN up[u].pin[s] ELSE branch.pin[r]
<1>1. up \in [Updater -> Update] /\ up[u] \in Update /\ branch \in Commit
  BY DEF PointerTypeOK
<1>2. PICK s \in Sub \ (Unread(u) \cup up[u].wrote) :
          \/ /\ branch' = [branch EXCEPT !.at = @ + 1, !.pin[s] = up[u].pin[s]]
             /\ up' = [up EXCEPT ![u].wrote = @ \cup {s},
                                 ![u].pc = IF Unread(u) = {} THEN "ok" ELSE "mains"]
             /\ UNCHANGED <<main, pushes>>
          \/ UpdateFails(u)
  BY DEF PutSubmodule
<1>3. onGitLab /\ up[u].pc = "write"
  BY DEF PutSubmodule
<1>4. CASE UpdateFails(u)
  BY <1>1, <1>3, <1>4 DEF UpdateFails, Advance, Update
<1>5. CASE ~ UpdateFails(u)
  <2>1. /\ main' = main
        /\ up'[u].pin = up[u].pin /\ up'[u].from = up[u].from
        /\ up'[u].wrote = up[u].wrote \cup {s}
        /\ up'[u].pc = IF Unread(u) = {} THEN "ok" ELSE "mains"
    BY <1>1, <1>2, <1>5 DEF Update
  <2>2. \A r \in Sub : branch'.pin[r] = IF r = s THEN up[u].pin[s] ELSE branch.pin[r]
    <3>1. branch.pin \in [Sub -> 0..MaxMain]
      BY <1>1 DEF Commit
    <3>2. branch'.pin = [branch.pin EXCEPT ![s] = up[u].pin[s]]
      BY <1>1, <1>2, <1>5 DEF Commit
    <3> QED
      BY <3>1, <3>2
  <2> QED
    BY <1>3, <2>1, <2>2
<1> QED
  BY <1>4, <1>5

LEMMA WrittenStaysStep ==
    ASSUME PointerTypeOK, AllRead, FromStart, WrittenStays, PointerNext
    PROVE  WrittenStays'
<1> SUFFICES ASSUME onGitLab PROVE WrittenStays'
  BY DEF WrittenStays, PointerNext, SameHost
<1>1. up \in [Updater -> Update] /\ branch \in Commit /\ main \in [Sub -> 0..MaxMain]
  BY DEF PointerTypeOK
<1> DEFINE Stays(u) ==
        /\ up[u].pc = "idle" => up[u].wrote = {}
        /\ up[u].pc = "mains" => Sub \ Unread(u) \subseteq up[u].wrote
        /\ up[u].pc = "write" =>
              \A r, q \in Sub \ (Unread(u) \cup up[u].wrote) : r = q
        /\ Alone(u) => \A s \in up[u].wrote : up[u].from[s] <= branch.pin[s]
<1>2. ASSUME NEW u \in Updater
      PROVE  Stays(u)'
  <2>1. Stays(u) /\ up[u] \in Update /\ up[u].wrote \subseteq Sub
    BY <1>1, PinTypes DEF WrittenStays
  <2>2. UpdateSubmodulePointersOnBranch(u) /\ Alone(u)' => Alone(u)
    BY OtherCallsStay DEF Alone
  <2>3. CASE BeginUpdate(u)
    <3>1. up'[u].pc = "gitmodules" /\ up'[u].wrote = up[u].wrote /\ up[u].pc = "idle"
      BY <1>1, <2>1, <2>3 DEF BeginUpdate, Update
    <3> QED
      BY <2>1, <3>1
  <2>4. CASE ReadGitmodules(u)
    <3>1. /\ up'[u].pc = "mains" /\ up'[u].pin = up[u].pin /\ up'[u].wrote = up[u].wrote
          /\ up'[u].from = up[u].from /\ up[u].pc = "gitmodules" /\ branch' = branch
      BY <1>1, <2>1, <2>4 DEF ReadGitmodules, Update
    <3>2. Unread(u)' = Sub
      BY <3>1 DEF FromStart, Unread, NotRead
    <3>3. UpdateSubmodulePointersOnBranch(u)
      BY <2>4 DEF UpdateSubmodulePointersOnBranch
    <3> QED
      BY <2>1, <2>2, <3>1, <3>2, <3>3
  <2>5. ASSUME NEW r \in Sub, ReadMain(u, r)
        PROVE  Stays(u)'
    <3>1. /\ up'[u].pc = "write" /\ up'[u].wrote = up[u].wrote
          /\ up'[u].from = up[u].from /\ up[u].pc = "mains" /\ branch' = branch
          /\ \A q \in Sub \ {r} : up'[u].pin[q] = up[u].pin[q]
      BY <1>1, <2>1, <2>5 DEF ReadMain, Update
    <3>2. \A q \in Sub \ (Unread(u) \cup up[u].wrote)' : q = r
      BY <2>1, <3>1 DEF Unread, NotRead
    <3>3. UpdateSubmodulePointersOnBranch(u)
      BY <2>5 DEF UpdateSubmodulePointersOnBranch
    <3> QED
      BY <2>1, <2>2, <3>1, <3>2, <3>3
  <2>6. CASE PutSubmodule(u)
    <3>1. UpdateSubmodulePointersOnBranch(u)
      BY <2>6 DEF UpdateSubmodulePointersOnBranch
    <3>2. /\ up[u].pc = "write"
          /\ up'[u].pin = up[u].pin /\ up'[u].from = up[u].from
          /\ Unread(u)' = Unread(u)
      BY <2>6, PutPins DEF Unread, NotRead
    <3>3. CASE up'[u].pc = "error" /\ branch' = branch /\ up'[u].wrote = up[u].wrote
      BY <2>1, <2>2, <3>1, <3>2, <3>3
    <3>4. ASSUME NEW s \in Sub \ (Unread(u) \cup up[u].wrote),
                 up'[u].wrote = up[u].wrote \cup {s},
                 up'[u].pc = IF Unread(u) = {} THEN "ok" ELSE "mains",
                 \A r \in Sub : branch'.pin[r] = IF r = s THEN up[u].pin[s] ELSE branch.pin[r]
          PROVE  Stays(u)'
      <4>1. up'[u].pc \in {"ok", "mains"}
        BY <3>4
      <4>2. Sub \ Unread(u) \subseteq up'[u].wrote
        BY <2>1, <3>2, <3>4
      <4>3. up[u].from[s] <= up[u].pin[s]
        BY <3>4 DEF FromStart, Unread
      <4>4. Alone(u) => \A r \in up'[u].wrote : up'[u].from[r] <= branch'.pin[r]
        BY <2>1, <3>2, <3>4, <4>3
      <4> QED
        BY <2>2, <3>1, <3>2, <4>1, <4>2, <4>4
    <3> QED
      BY <2>6, <3>3, <3>4, PutPins
  <2>7. ~ (ReadRef(u) \/ ReadCommit(u) \/ PostCommit(u) \/ PatchRef(u))
    BY DEF AllRead, ReadRef, ReadCommit, PostCommit, PatchRef
  <2>8. CASE ~ UpdateSubmodulePointersOnBranch(u)
    <3>1. up'[u] = up[u] /\ Unread(u)' = Unread(u)
      BY <2>8, OtherCallsStay DEF PointerNext, DeveloperPushes, MainMoves, Unread, NotRead
    <3>2. CASE \E v \in Updater : UpdateSubmodulePointersOnBranch(v)
      <4>1. ~ Alone(u)'
        BY <2>8, <3>2, NoLongerAlone
      <4> QED
        BY <2>1, <3>1, <4>1
    <3>3. CASE DeveloperPushes \/ \E s \in Sub : MainMoves(s)
      <4>1. up' = up /\ branch'.pin = branch.pin
        BY <1>1, <3>3 DEF DeveloperPushes, MainMoves, Commit
      <4> QED
        BY <2>1, <3>1, <4>1 DEF Alone
    <3> QED
      BY <3>2, <3>3 DEF PointerNext
  <2> QED
    BY <2>3, <2>4, <2>5, <2>6, <2>7, <2>8 DEF UpdateSubmodulePointersOnBranch
<1> QED
  BY <1>2 DEF WrittenStays

LEMMA OkStep ==
    ASSUME PointerTypeOK, AllRead, BaseOrMoved, FromStart, WrittenStays, PointerNext,
           NEW u \in Updater, NEW s \in Sub,
           up[u].pc # "ok", up'[u].pc = "ok", Found(u, s), onGitLab => Alone(u)
    PROVE  branch'.pin[s] >= up[u].from[s]
<1>1. up \in [Updater -> Update] /\ up[u] \in Update
  BY DEF PointerTypeOK
<1>2. UpdateSubmodulePointersOnBranch(u)
  BY OtherCallsStay DEF PointerNext, DeveloperPushes, MainMoves
<1>3. Unread(u) = {} => up[u].from[s] <= up[u].pin[s]
  BY DEF FromStart, Unread
<1>4. CASE PatchRef(u)
  <2>1. Unread(u) = {} /\ branch'.pin[s] = up[u].pin[s]
    BY <1>4, PatchedPins
  <2> QED
    BY <1>3, <2>1, PinTypes, PointerAssumption DEF NotRead
<1>5. CASE PutSubmodule(u)
  <2>1. PICK r \in Sub \ (Unread(u) \cup up[u].wrote) :
          /\ up'[u].pc = IF Unread(u) = {} THEN "ok" ELSE "mains"
          /\ \A q \in Sub : branch'.pin[q] = IF q = r THEN up[u].pin[r] ELSE branch.pin[q]
    BY <1>5, PutPins
  <2>2. Unread(u) = {} /\ onGitLab /\ up[u].pc = "write"
    BY <1>5, <2>1, PutPins
  <2>3. CASE s = r
    BY <1>3, <2>1, <2>2, <2>3, PinTypes, PointerAssumption DEF NotRead
  <2>4. CASE s # r
    <3>1. s \in up[u].wrote
      BY <2>1, <2>2, <2>4 DEF WrittenStays
    <3>2. up[u].from[s] <= branch.pin[s] /\ branch'.pin[s] = branch.pin[s]
      BY <2>1, <2>2, <2>4, <3>1 DEF WrittenStays
    <3> QED
      BY <3>2, PinTypes
  <2> QED
    BY <2>3, <2>4
<1>6. CASE ~ (PatchRef(u) \/ PutSubmodule(u))
  <2>1. CASE BeginUpdate(u)
    BY <1>1, <2>1 DEF BeginUpdate, Update
  <2>2. CASE ReadGitmodules(u)
    BY <1>1, <2>2 DEF ReadGitmodules, Update
  <2>3. CASE ReadRef(u)
    BY <1>1, <2>3 DEF ReadRef, Update
  <2>4. CASE ReadCommit(u)
    BY <1>1, <2>4 DEF ReadCommit, Update
  <2>5. ASSUME NEW r \in Sub, ReadMain(u, r)
        PROVE  FALSE
    BY <1>1, <2>5 DEF ReadMain, Update
  <2>6. CASE PostCommit(u)
    BY <1>1, <2>6 DEF PostCommit, Update
  <2> QED
    BY <1>2, <1>6, <2>1, <2>2, <2>3, <2>4, <2>5, <2>6 DEF UpdateSubmodulePointersOnBranch
<1> QED
  BY <1>4, <1>5, <1>6

\* A call that reports success has aligned what it was called for, as long as main
\* can be read: every answer is as new as main was when the call began, and is what
\* the branch holds.
THEOREM SuccessMeansAligned ==
    ASSUME "main" \notin PointerFaults
    PROVE  PointerSpec => OkMeansAligned
<1>1. PointerInit => FromStart /\ WrittenStays
  <2> SUFFICES ASSUME PointerInit PROVE FromStart /\ WrittenStays
    OBVIOUS
  <2>1. \A u \in Updater : /\ up[u].pc = "idle" /\ up[u].wrote = {}
                           /\ \A s \in Sub : up[u].pin[s] = NotRead
    BY DEF PointerInit, NoUpdate
  <2> QED
    BY <2>1 DEF FromStart, WrittenStays
<1>2. PointerInv /\ FromStart /\ WrittenStays /\ [PointerNext]_pointerVars
          => FromStart' /\ WrittenStays'
  <2> SUFFICES ASSUME PointerInv, FromStart, WrittenStays, [PointerNext]_pointerVars
               PROVE  FromStart' /\ WrittenStays'
    OBVIOUS
  <2>1. CASE PointerNext
    BY <2>1, FromStartStep, WrittenStaysStep DEF PointerInv
  <2>2. CASE UNCHANGED pointerVars
    BY <2>2 DEF pointerVars, FromStart, WrittenStays, Alone, Unread, NotRead
  <2> QED
    BY <2>1, <2>2
<1>3. PointerInv /\ FromStart /\ WrittenStays /\ [PointerNext]_pointerVars =>
          [\A u \in Updater, s \in Sub :
              /\ up[u].pc # "ok" /\ up'[u].pc = "ok"
              /\ Found(u, s)
              /\ onGitLab => Alone(u)
              => branch'.pin[s] >= up[u].from[s]]_pointerVars
  <2> SUFFICES ASSUME PointerInv, FromStart, WrittenStays, PointerNext,
                      NEW u \in Updater, NEW s \in Sub,
                      up[u].pc # "ok", up'[u].pc = "ok", Found(u, s), onGitLab => Alone(u)
               PROVE  branch'.pin[s] >= up[u].from[s]
    OBVIOUS
  <2> QED
    BY OkStep DEF PointerInv
<1> QED
  BY <1>1, <1>2, <1>3, PointerInitInv, PointerStep, PTL DEF PointerSpec, OkMeansAligned

================================================================================
