----------------------------- MODULE LocalGitProofs -----------------------------
(***************************************************************************)
(* Theorems about the local git workflow, for any submodules, number of    *)
(* commits, commands and faults; those that need the developer to have one *)
(* terminal, or to stay away from some commands, say so.                   *)
(***************************************************************************)
EXTENDS LocalGit, FiniteSetTheorems, TLAPS

--------------------------------------------------------------------------------
(* Tips.                                                                   *)

\* A non-empty set of commits has a greatest element.
LEMMA GreatestCommit ==
    ASSUME NEW S \in SUBSET Commit, S # {}
    PROVE  /\ Max(S) \in S
           /\ \A y \in S : Max(S) >= y
<1>1. IsFiniteSet(S) /\ S \subseteq Nat
  <2>1. IsFiniteSet(Commit) /\ Commit \subseteq Nat
    BY BoundAssumption, FS_Interval DEF Commit
  <2> QED
    BY <2>1, FS_Subset
<1> DEFINE above(x) == {y \in S : y > x}
           T == {above(x) : x \in S}
<1>2. T \subseteq FiniteSubsetsOf(S) /\ T # {}
  <2>1. \A x \in S : above(x) \in SUBSET S
    OBVIOUS
  <2>2. \A x \in S : IsFiniteSet(above(x))
    BY <1>1, <2>1, FS_Subset
  <2> QED
    BY <2>1, <2>2 DEF FiniteSubsetsOf
<1>3. PICK X \in T : \A Y \in T : <<Y, X>> \notin StrictSubsetOrdering(S)
  <2> HIDE DEF T
  <2> QED
    BY <1>2, WFMin, FS_StrictSubsetOrderingWellFounded
<1>4. PICK x \in S : X = above(x)
  OBVIOUS
<1>5. \A y \in S : x >= y
  <2> SUFFICES ASSUME NEW y \in S, y > x PROVE FALSE
    BY <1>1
  <2>1. above(y) \subseteq above(x) /\ y \in above(x) /\ y \notin above(y)
    <3>1. x \in Nat /\ y \in Nat /\ \A z \in S : z \in Nat
      BY <1>1
    <3>2. ASSUME NEW z \in S, z > y
          PROVE  z > x
      BY <3>1, <3>2
    <3>3. ~ (y > y)
      BY <3>1
    <3> QED
      BY <3>2, <3>3
  <2>2. above(y) \in T /\ above(y) \in SUBSET S /\ above(x) \in SUBSET S
    OBVIOUS
  <2>3. <<above(y), above(x)>> \in StrictSubsetOrdering(S)
    <3>1. above(y) # above(x)
      BY <2>1
    <3> HIDE DEF above
    <3> QED
      BY <2>1, <2>2, <3>1 DEF StrictSubsetOrdering
  <2> QED
    BY <1>3, <1>4, <2>2, <2>3
<1> QED
  BY <1>5 DEF Max

--------------------------------------------------------------------------------
(* The locals of a command.                                                *)

LEMMA PromptType ==
    /\ Prompt \in Local
    /\ Prompt.cmd = "none" /\ Prompt.pc = "idle"
BY DEF Prompt, Local, Head, Branch

\* Changing one field of the locals.
LEMMA WithTodo ==
    ASSUME NEW l \in Local, NEW x \in SUBSET (Sub \cup {Root}), NEW m,
           m = [l EXCEPT !.todo = x]
    PROVE  /\ m \in Local
           /\ m.todo = x
           /\ m.cmd = l.cmd /\ m.pc = l.pc /\ m.arg = l.arg /\ m.flag = l.flag
           /\ m.seen = l.seen /\ m.due = l.due /\ m.meta = l.meta /\ m.made = l.made
BY DEF Local

LEMMA WithTodoMade ==
    ASSUME NEW l \in Local, NEW x \in SUBSET (Sub \cup {Root}),
           NEW y \in SUBSET (Sub \cup {Root}), NEW m,
           m = [l EXCEPT !.todo = x, !.made = y]
    PROVE  /\ m \in Local
           /\ m.todo = x
           /\ m.cmd = l.cmd /\ m.pc = l.pc /\ m.arg = l.arg /\ m.flag = l.flag
BY DEF Local

LEMMA WithPC ==
    ASSUME NEW l \in Local, NEW x \in {"idle", "subs", "add", "root"}, NEW m,
           m = [l EXCEPT !.pc = x]
    PROVE  /\ m \in Local
           /\ m.pc = x
           /\ m.cmd = l.cmd /\ m.flag = l.flag
BY DEF Local

LEMMA WithCommand ==
    ASSUME NEW l \in Local, NEW x \in Command, NEW m, m = [l EXCEPT !.cmd = x]
    PROVE  /\ m \in Local
           /\ m.cmd = x
           /\ m.pc = l.pc /\ m.todo = l.todo /\ m.arg = l.arg /\ m.flag = l.flag
           /\ m.seen = l.seen /\ m.due = l.due /\ m.meta = l.meta /\ m.made = l.made
BY DEF Local

LEMMA WithSays ==
    ASSUME NEW x \in {"ok", "error"}, NEW m, m = [Prompt EXCEPT !.says = x]
    PROVE  m \in Local /\ m.cmd = "none" /\ m.says = x
BY PromptType DEF Local

\* The locals a checkout, a commit, a push and create-pr start with.
LEMMA CheckoutLocals ==
    ASSUME NEW b \in Branch, NEW new \in BOOLEAN, NEW m,
           m = [Prompt EXCEPT !.pc = "subs", !.todo = Sub, !.arg = b, !.flag = new]
    PROVE  m \in Local /\ m.pc = "subs" /\ m.todo = Sub /\ m.arg = b /\ m.flag = new
BY PromptType DEF Local

LEMMA CommitLocals ==
    ASSUME NEW x \in SUBSET Sub, NEW staged \in BOOLEAN, NEW m,
           m = [Prompt EXCEPT !.pc = "subs", !.todo = x, !.flag = staged]
    PROVE  m \in Local /\ m.pc = "subs" /\ m.todo = x /\ m.flag = staged
BY PromptType DEF Local

LEMMA CreatePRLocals ==
    ASSUME NEW x \in SUBSET (Sub \cup {Root}), NEW m,
           m = [Prompt EXCEPT !.pc = "subs", !.todo = x]
    PROVE  m \in Local /\ m.pc = "subs"
BY PromptType DEF Local

LEMMA SeenLocals ==
    ASSUME TypeOK, NEW m, m = Seen(Prompt)
    PROVE  /\ m \in Local
           /\ m.pc = "subs" /\ m.todo = Sub
           /\ m.seen = head
           /\ m.due = {s \in Sub : Unpushed(s) \/ change[s] # "none"}
           /\ m.meta = rootHead
<1> DEFINE due == {s \in Sub : Unpushed(s) \/ change[s] # "none"}
<1>1. due \in SUBSET Sub /\ head \in [Sub -> Head] /\ rootHead \in Branch
  BY DEF TypeOK
<1>2. m = [Prompt EXCEPT !.pc = "subs", !.todo = Sub, !.seen = head, !.due = due,
                         !.meta = rootHead]
  BY DEF Seen
<1> HIDE DEF due
<1>3. /\ m \in Local /\ m.pc = "subs"
      /\ m.todo = Sub /\ m.seen = head /\ m.due = due /\ m.meta = rootHead
  BY <1>1, <1>2, PromptType DEF Local
<1> QED
  BY <1>3 DEF due

\* Giving a terminal its next locals.
LEMMA SetLocals ==
    ASSUME TypeOK, NEW t \in Terminal, NEW m, term' = [term EXCEPT ![t] = m]
    PROVE  /\ term'[t] = m
           /\ \A u \in Terminal \ {t} : term'[u] = term[u]
           /\ m \in Local => term' \in [Terminal -> Local]
BY DEF TypeOK

LEMMA StartLocals ==
    ASSUME TypeOK, NEW t \in Terminal, NEW cmd, NEW l \in Local, Start(t, cmd, l)
    PROVE  /\ cmd \in Commands /\ Idle(t)
           /\ term' \in [Terminal -> Local]
           /\ term'[t].cmd = cmd
           /\ term'[t].pc = l.pc /\ term'[t].todo = l.todo /\ term'[t].arg = l.arg
           /\ term'[t].flag = l.flag /\ term'[t].seen = l.seen /\ term'[t].due = l.due
           /\ term'[t].meta = l.meta
           /\ \A u \in Terminal \ {t} : term'[u] = term[u]
<1>1. cmd \in Commands /\ cmd \in Command /\ Idle(t)
  BY CommandsAssumption DEF Start
<1> DEFINE m == [l EXCEPT !.cmd = cmd]
<1>2. term' = [term EXCEPT ![t] = m]
  BY DEF Start
<1>3. /\ m \in Local
      /\ m.cmd = cmd
      /\ m.pc = l.pc /\ m.todo = l.todo /\ m.arg = l.arg /\ m.flag = l.flag
      /\ m.seen = l.seen /\ m.due = l.due /\ m.meta = l.meta
  BY <1>1, WithCommand
<1> HIDE DEF m
<1> QED
  BY <1>1, <1>2, <1>3, SetLocals

LEMMA DoneLocals ==
    ASSUME TypeOK, NEW t \in Terminal, NEW s, Done(t, s)
    PROVE  /\ term' \in [Terminal -> Local]
           /\ term'[t].todo = term[t].todo \ {s}
           /\ term'[t].cmd = term[t].cmd /\ term'[t].pc = term[t].pc
           /\ term'[t].arg = term[t].arg /\ term'[t].flag = term[t].flag
           /\ term'[t].seen = term[t].seen /\ term'[t].due = term[t].due
           /\ term'[t].meta = term[t].meta
           /\ \A u \in Terminal \ {t} : term'[u] = term[u]
<1>1. term[t] \in Local
  BY DEF TypeOK
<1> DEFINE left == term[t].todo \ {s}
           m == [term[t] EXCEPT !.todo = left]
<1>2. left \in SUBSET (Sub \cup {Root})
  BY <1>1 DEF Local
<1>3. term' = [term EXCEPT ![t] = m]
  BY DEF Done, Step
<1> HIDE DEF left
<1>4. /\ m \in Local
      /\ m.todo = left
      /\ m.cmd = term[t].cmd /\ m.pc = term[t].pc /\ m.arg = term[t].arg
      /\ m.flag = term[t].flag /\ m.seen = term[t].seen /\ m.due = term[t].due
      /\ m.meta = term[t].meta
  BY <1>1, <1>2, WithTodo
<1> HIDE DEF m
<1> QED
  BY <1>3, <1>4, SetLocals DEF left

LEMMA ReturnLocals ==
    ASSUME TypeOK, NEW t \in Terminal, NEW says \in {"ok", "error"}, Return(t, says)
    PROVE  /\ term' \in [Terminal -> Local]
           /\ term'[t].cmd = "none"
           /\ term'[t].says = says
           /\ \A u \in Terminal \ {t} : term'[u] = term[u]
<1> DEFINE m == [Prompt EXCEPT !.says = says]
<1>1. term' = [term EXCEPT ![t] = m]
  BY DEF Return
<1>2. m \in Local /\ m.cmd = "none" /\ m.says = says
  BY WithSays
<1> HIDE DEF m
<1> QED
  BY <1>1, <1>2, SetLocals

--------------------------------------------------------------------------------
(* Types.                                                                  *)

\* Whatever HEAD of a submodule is, it has commits; the branch the root is on has
\* a commit, which pins one of each.
NonEmpty ==
    /\ \A s \in Sub : Commits(s) # {}
    /\ pins[rootHead] \in Pins

TypeInv == TypeOK /\ NonEmpty

LEMMA SubTypes ==
    ASSUME TypeOK, NEW s \in Sub
    PROVE  /\ head[s] \in Head
           /\ \A b \in Head : line[s][b] \in SUBSET Commit
           /\ \A b \in Branch : origin[s][b] \in SUBSET Commit
           /\ Commits(s) \in SUBSET Commit
           /\ Published(s) \in SUBSET Commit
           /\ \A x : x \in Published(s) <=> \E b \in Branch : x \in origin[s][b]
           /\ Branch \subseteq Head
BY DEF TypeOK, Commits, Published, Head

\* The next commit of a submodule is one of its commits, while there is room.
LEMMA FreshCommit ==
    ASSUME TypeOK, NEW s \in Sub, Room(s)
    PROVE  Fresh(s) \in Commit
<1>1. Known(s) \in SUBSET Commit
  <2>1. (UNION {line[s][b] : b \in Head}) \subseteq Commit /\ Published(s) \subseteq Commit
    BY SubTypes
  <2>2. index[s] \in Commit
    BY DEF TypeOK, Pins
  <2>3. {pins[b][s] : b \in {c \in Branch : pins[c] # NoPins}} \subseteq Commit
    <3> SUFFICES ASSUME NEW b \in Branch, pins[b] # NoPins
                 PROVE  pins[b][s] \in Commit
      OBVIOUS
    <3>1. pins[b] \in Pins
      BY DEF TypeOK
    <3> QED
      BY <3>1 DEF Pins
  <2> QED
    BY <2>1, <2>2, <2>3 DEF Known
<1>2. Known(s) # {}
  BY DEF Known
<1>3. Max(Known(s)) \in Commit
  BY <1>1, <1>2, GreatestCommit
<1> QED
  BY <1>3, BoundAssumption DEF Commit, Fresh, Room

LEMMA TipCommit ==
    ASSUME TypeInv, NEW s \in Sub
    PROVE  Tip(s) \in Commits(s) /\ Tip(s) \in Commit
BY SubTypes, GreatestCommit DEF TypeInv, NonEmpty, Tip

\* A step of a command at a terminal.
TerminalStep(t) ==
    \/ CheckoutBranch(t)
    \/ CommitAtomic(t)
    \/ PushBottomUp(t)
    \/ SyncUpstream(t)
    \/ RebaseUpstream(t)
    \/ CreatePRs(t)
    \/ Killed(t)

\* It moves that terminal only, and its locals stay typed.
LEMMA TerminalTypes ==
    ASSUME TypeOK, NEW t \in Terminal, TerminalStep(t)
    PROVE  /\ term' \in [Terminal -> Local]
           /\ \A u \in Terminal \ {t} : term'[u] = term[u]
<1>1. term[t] \in Local
  BY DEF TypeOK
<1>2. ASSUME NEW b \in Branch, NEW new \in BOOLEAN, CheckoutRoot(t, b, new)
      PROVE  /\ term' \in [Terminal -> Local]
             /\ \A u \in Terminal \ {t} : term'[u] = term[u]
  <2> DEFINE m == [Prompt EXCEPT !.pc = "subs", !.todo = Sub, !.arg = b, !.flag = new]
  <2>1. m \in Local
    BY CheckoutLocals
  <2>2. Start(t, "checkout", m)
    BY <1>2 DEF CheckoutRoot
  <2> HIDE DEF m
  <2> QED
    BY <2>1, <2>2, StartLocals
<1>3. ASSUME NEW staged \in Staged, CommitStart(t, staged)
      PROVE  /\ term' \in [Terminal -> Local]
             /\ \A u \in Terminal \ {t} : term'[u] = term[u]
  <2> DEFINE x == IF staged THEN Sub ELSE {s \in Sub : change[s] # "none"}
             m == [Prompt EXCEPT !.pc = "subs", !.todo = x, !.flag = staged]
  <2>1. Start(t, "commit", m)
    BY <1>3 DEF CommitStart
  <2>2. x \in SUBSET Sub /\ staged \in BOOLEAN
    BY OptionsAssumption
  <2> HIDE DEF x
  <2>3. m \in Local
    BY <2>2, CommitLocals
  <2> HIDE DEF m
  <2> QED
    BY <2>1, <2>3, StartLocals
<1>4. CASE PushStart(t) \/ SyncStart(t) \/ RebaseStart(t)
  BY <1>4, SeenLocals, StartLocals DEF PushStart, SyncStart, RebaseStart
<1>5. CASE CreatePRsStart(t)
  <2> DEFINE x == {s \in Sub : head[s] = "feature"}
                     \cup (IF rootHead = "feature" THEN {Root} ELSE {})
             m == [Prompt EXCEPT !.pc = "subs", !.todo = x]
  <2>1. Start(t, "create-pr", m)
    BY <1>5 DEF CreatePRsStart
  <2>2. x \in SUBSET (Sub \cup {Root})
    OBVIOUS
  <2> HIDE DEF x
  <2>3. m \in Local
    BY <2>2, CreatePRLocals
  <2> HIDE DEF m
  <2> QED
    BY <2>1, <2>3, StartLocals
<1>6. ASSUME NEW r, Done(t, r)
      PROVE  /\ term' \in [Terminal -> Local]
             /\ \A u \in Terminal \ {t} : term'[u] = term[u]
  BY <1>6, DoneLocals
<1>7. ASSUME NEW says \in {"ok", "error"}, Return(t, says)
      PROVE  /\ term' \in [Terminal -> Local]
             /\ \A u \in Terminal \ {t} : term'[u] = term[u]
  BY <1>7, ReturnLocals
<1>8. ASSUME NEW r \in Sub \cup {Root},
             Step(t, [term[t] EXCEPT !.todo = @ \ {r}, !.made = @ \cup {r}])
      PROVE  /\ term' \in [Terminal -> Local]
             /\ \A u \in Terminal \ {t} : term'[u] = term[u]
  <2> DEFINE x == term[t].todo \ {r}
             y == term[t].made \cup {r}
             m == [term[t] EXCEPT !.todo = x, !.made = y]
  <2>1. x \in SUBSET (Sub \cup {Root}) /\ y \in SUBSET (Sub \cup {Root})
    BY <1>1 DEF Local
  <2>2. term' = [term EXCEPT ![t] = m]
    BY <1>8 DEF Step
  <2> HIDE DEF x, y
  <2>3. m \in Local
    BY <1>1, <2>1, WithTodoMade
  <2> HIDE DEF m
  <2> QED
    BY <2>2, <2>3, SetLocals
<1>9. ASSUME Step(t, [term[t] EXCEPT !.pc = "root"])
      PROVE  /\ term' \in [Terminal -> Local]
             /\ \A u \in Terminal \ {t} : term'[u] = term[u]
  <2> DEFINE m == [term[t] EXCEPT !.pc = "root"]
  <2>1. term' = [term EXCEPT ![t] = m] /\ m \in Local
    BY <1>1, <1>9, WithPC DEF Step
  <2> HIDE DEF m
  <2> QED
    BY <2>1, SetLocals
<1>10. CASE CheckoutBranch(t)
  BY <1>2, <1>6, <1>7, <1>10 DEF CheckoutBranch, CheckoutSub, CheckoutFails, CheckoutDone
<1>11. CASE CommitAtomic(t)
  <2>1. "ok" \in {"ok", "error"} /\ "error" \in {"ok", "error"}
    OBVIOUS
  <2>2. CommitRootFails(t) => \E says \in {"ok", "error"} : Return(t, says)
    BY DEF CommitRootFails
  <2>3. CommitRoot(t) => Return(t, "ok")
    BY DEF CommitRoot
  <2>4. \A s \in Sub : /\ CommitSub(t, s) =>
                             Step(t, [term[t] EXCEPT !.todo = @ \ {s}, !.made = @ \cup {s}])
                       /\ CommitSkips(t, s) => Done(t, s)
                       /\ CommitSubFails(t, s) => Return(t, "error")
    BY DEF CommitSub, CommitSkips, CommitSubFails
  <2>5. CommitAdd(t) => Step(t, [term[t] EXCEPT !.pc = "root"])
    BY DEF CommitAdd
  <2> QED
    BY <1>3, <1>6, <1>7, <1>8, <1>9, <1>11, <2>1, <2>2, <2>3, <2>4, <2>5
       DEF CommitAtomic
<1>12. CASE PushBottomUp(t)
  BY <1>4, <1>6, <1>7, <1>12 DEF PushBottomUp, PushSub, PushSkips, PushFails, PushRoot
<1>13. CASE SyncUpstream(t) \/ RebaseUpstream(t)
  BY <1>4, <1>6, <1>7, <1>13
     DEF SyncUpstream, SyncSub, SyncAlign, RebaseUpstream, RebaseSub, RebaseFails,
         RebaseRoot
<1>14. CASE CreatePRs(t)
  <2>1. \A r \in Sub \cup {Root} :
           /\ CreatePR(t, r) \/ CreatePRRefused(t, r) =>
                 Step(t, [term[t] EXCEPT !.todo = @ \ {r}, !.made = @ \cup {r}])
           /\ CreatePRInBrowser(t, r) => Done(t, r)
    BY DEF CreatePR, CreatePRRefused, CreatePRInBrowser
  <2>2. CreatePRsDone(t) => Return(t, "ok")
    BY DEF CreatePRsDone
  <2> QED
    BY <1>5, <1>6, <1>7, <1>8, <1>14, <2>1, <2>2 DEF CreatePRs
<1>15. CASE Killed(t)
  BY <1>7, <1>15 DEF Killed
<1> QED
  BY <1>10, <1>11, <1>12, <1>13, <1>14, <1>15 DEF TerminalStep

SubVarTypes ==
    /\ line \in [Sub -> [Head -> SUBSET Commit]]
    /\ head \in [Sub -> Head]
    /\ change \in [Sub -> {"none", "unstaged", "staged"}]
    /\ origin \in [Sub -> [Branch -> SUBSET Commit]]
    /\ \A s \in Sub : Commits(s) # {}

RootVarTypes ==
    /\ rootHead \in Branch
    /\ pins \in [Branch -> Pins \cup {NoPins}]
    /\ index \in Pins
    /\ rootOrigin \in [Branch -> Pins \cup {NoPins}]
    /\ prs \subseteq Sub \cup {Root}
    /\ pins[rootHead] \in Pins

LEMMA TypeParts ==
    TypeInv <=> SubVarTypes /\ RootVarTypes /\ term \in [Terminal -> Local]
BY DEF TypeInv, TypeOK, NonEmpty, SubVarTypes, RootVarTypes

\* The parts suffice after a step as well.
LEMMA TypePartsKept ==
    ASSUME SubVarTypes', RootVarTypes', term' \in [Terminal -> Local]
    PROVE  TypeInv'
BY DEF TypeInv, TypeOK, NonEmpty, SubVarTypes, RootVarTypes

LEMMA SubTypesKept == ASSUME SubVarTypes, UNCHANGED subVars PROVE SubVarTypes'
BY DEF SubVarTypes, subVars, Commits

LEMMA RootTypesKept == ASSUME RootVarTypes, UNCHANGED <<rootVars, prs>> PROVE RootVarTypes'
BY DEF RootVarTypes, rootVars

\* A submodule whose HEAD is given some commits.
LEMMA NewLine ==
    ASSUME SubVarTypes, NEW s \in Sub, NEW h \in Head, NEW S \in SUBSET Commit, S # {},
           line' = [line EXCEPT ![s][h] = S], head' = [head EXCEPT ![s] = h],
           change' \in [Sub -> {"none", "unstaged", "staged"}], origin' = origin
    PROVE  /\ SubVarTypes'
           /\ head'[s] = h /\ \A r \in Sub \ {s} : head'[r] = head[r] /\ line'[r] = line[r]
           /\ line'[s][h] = S /\ \A b \in Head \ {h} : line'[s][b] = line[s][b]
<1>1. line[s] \in [Head -> SUBSET Commit] /\ [line[s] EXCEPT ![h] = S] \in [Head -> SUBSET Commit]
  BY DEF SubVarTypes
<1>2. line' = [line EXCEPT ![s] = [line[s] EXCEPT ![h] = S]]
  BY DEF SubVarTypes
<1>3. line' \in [Sub -> [Head -> SUBSET Commit]] /\ head' \in [Sub -> Head]
  BY <1>1, <1>2 DEF SubVarTypes
<1>4. /\ head'[s] = h /\ \A r \in Sub \ {s} : head'[r] = head[r] /\ line'[r] = line[r]
      /\ line'[s][h] = S /\ \A b \in Head \ {h} : line'[s][b] = line[s][b]
  BY <1>1, <1>2 DEF SubVarTypes
<1>5. \A r \in Sub : Commits(r)' # {}
  BY <1>4 DEF SubVarTypes, Commits
<1> QED
  BY <1>3, <1>4, <1>5 DEF SubVarTypes

\* A branch of a remote that is given some commits.
LEMMA NewOrigin ==
    ASSUME SubVarTypes, NEW s \in Sub, NEW b \in Branch, NEW S \in SUBSET Commit,
           origin' = [origin EXCEPT ![s][b] = S], UNCHANGED <<line, head, change>>
    PROVE  /\ SubVarTypes'
           /\ \A r \in Sub \ {s} : origin'[r] = origin[r]
           /\ origin'[s][b] = S /\ \A c \in Branch \ {b} : origin'[s][c] = origin[s][c]
<1>1. origin' \in [Sub -> [Branch -> SUBSET Commit]]
  BY DEF SubVarTypes
<1>2. /\ \A r \in Sub \ {s} : origin'[r] = origin[r]
      /\ origin'[s][b] = S /\ \A c \in Branch \ {b} : origin'[s][c] = origin[s][c]
  BY DEF SubVarTypes
<1> QED
  BY <1>1, <1>2 DEF SubVarTypes, Commits

\* Rebasing, or failing to, leaves HEAD on commits.
LEMMA RebaseTypes ==
    ASSUME TypeInv, NEW s \in Sub, NEW onto \in SUBSET Commit,
           RebaseHead(s, onto) \/ RebaseStuck(s, onto), UNCHANGED <<change, origin>>
    PROVE  SubVarTypes'
<1>1. SubVarTypes /\ TypeOK /\ head[s] \in Head /\ Commits(s) \in SUBSET Commit /\ "HEAD" \in Head
  BY TypeParts, SubTypes DEF TypeInv, Head
<1>2. CASE RebaseHead(s, onto)
  <2>1. Fresh(s) \in Commit
    BY <1>1, <1>2, FreshCommit DEF RebaseHead
  <2>2. Rebased(s, onto) \in SUBSET Commit /\ Rebased(s, onto) # {}
    BY <1>1, <1>2, <2>1 DEF Rebased, RebaseHead
  <2>3. head' = [head EXCEPT ![s] = head[s]]
    BY <1>1, <1>2 DEF RebaseHead, SubVarTypes
  <2>4. line' = [line EXCEPT ![s][head[s]] = Rebased(s, onto)]
    BY <1>2 DEF RebaseHead
  <2> QED
    BY <1>1, <2>2, <2>3, <2>4, NewLine DEF SubVarTypes
<1>3. CASE RebaseStuck(s, onto)
  <2>1. onto # {} /\ line' = [line EXCEPT ![s]["HEAD"] = onto]
           /\ head' = [head EXCEPT ![s] = "HEAD"]
    BY <1>3 DEF RebaseStuck
  <2> QED
    BY <1>1, <2>1, NewLine DEF SubVarTypes
<1> QED
  BY <1>2, <1>3

\* What a checkout of a submodule puts its branch on.
LEMMA StartTypes ==
    ASSUME TypeInv, NEW t \in Terminal, NEW s \in Sub
    PROVE  term[t].arg \in Branch /\ BranchStart(t, s) \in SUBSET Commit
<1>1. TypeOK /\ term[t] \in Local
  BY DEF TypeInv, TypeOK
<1>2. term[t].arg \in Branch
  BY <1>1 DEF Local
<1>3. /\ line[s][term[t].arg] \in SUBSET Commit
      /\ origin[s][term[t].arg] \in SUBSET Commit
      /\ Commits(s) \in SUBSET Commit
  BY <1>1, <1>2, SubTypes
<1> QED
  BY <1>2, <1>3 DEF BranchStart

\* The steps on the submodules.
LEMMA SubStepTypes ==
    ASSUME TypeInv, NEW t \in Terminal, NEW s \in Sub,
           CheckoutSub(t, s) \/ CommitSub(t, s) \/ PushSub(t, s) \/ SyncSub(t, s)
              \/ RebaseSub(t, s) \/ RebaseFails(t, s)
    PROVE  SubVarTypes' /\ UNCHANGED <<rootVars, prs>>
<1>1. SubVarTypes /\ TypeOK /\ head[s] \in Head /\ Commits(s) \in SUBSET Commit
  BY TypeParts, SubTypes DEF TypeInv
<1>2. term[t] \in Local
  BY <1>1 DEF TypeOK
<1>3. CASE CheckoutSub(t, s)
  <2> DEFINE b == term[t].arg
             S == BranchStart(t, s)
  <2>1. b \in Head /\ S \in SUBSET Commit
    BY <1>1, StartTypes, SubTypes
  <2>2. /\ S # {} /\ line' = [line EXCEPT ![s][b] = S] /\ head' = [head EXCEPT ![s] = b]
        /\ UNCHANGED <<change, origin, rootVars, prs>>
    BY <1>3 DEF CheckoutSub
  <2> HIDE DEF b, S
  <2> QED
    BY <1>1, <2>1, <2>2, NewLine DEF SubVarTypes
<1>4. CASE CommitSub(t, s)
  <2> DEFINE S == Commits(s) \cup {Fresh(s)}
  <2>1. S \in SUBSET Commit /\ S # {}
    BY <1>1, <1>4, FreshCommit DEF CommitSub
  <2>2. line' = [line EXCEPT ![s][head[s]] = S]
    BY <1>4 DEF CommitSub, Commits
  <2>3. head' = [head EXCEPT ![s] = head[s]]
    BY <1>1, <1>4 DEF CommitSub, SubVarTypes
  <2>4. change' \in [Sub -> {"none", "unstaged", "staged"}]
           /\ UNCHANGED <<origin, rootVars, prs>>
    BY <1>1, <1>4 DEF CommitSub, SubVarTypes
  <2> HIDE DEF S
  <2> QED
    BY <1>1, <2>1, <2>2, <2>3, <2>4, NewLine
<1>5. CASE PushSub(t, s)
  <2> DEFINE b == term[t].seen[s]
  <2>1. b \in Branch
    BY <1>2, <1>5 DEF PushSub, ToPush, Local, Head
  <2>2. line[s][b] \in SUBSET Commit
    BY <1>1, <2>1, SubTypes
  <2>3. origin' = [origin EXCEPT ![s][b] = line[s][b]]
           /\ UNCHANGED <<line, head, change, rootVars, prs>>
    BY <1>5 DEF PushSub
  <2> HIDE DEF b
  <2> QED
    BY <1>1, <2>1, <2>2, <2>3, NewOrigin
<1>6. CASE SyncSub(t, s)
  <2> DEFINE onto == origin[s][IF term[t].seen[s] = "HEAD" THEN "main" ELSE term[t].seen[s]]
  <2>1. onto \in SUBSET Commit
    <3>1. (IF term[t].seen[s] = "HEAD" THEN "main" ELSE term[t].seen[s]) \in Branch
      BY <1>2 DEF Local, Head, Branch
    <3> QED
      BY <1>1, <3>1, SubTypes
  <2>2. /\ UNCHANGED <<change, origin, rootVars, prs>>
        /\ RebaseHead(s, onto) \/ RebaseStuck(s, onto) \/ UNCHANGED <<line, head>>
    BY <1>6 DEF SyncSub
  <2> HIDE DEF onto
  <2>3. UNCHANGED <<line, head>> => UNCHANGED subVars
    BY <2>2 DEF subVars
  <2> QED
    BY <1>1, <2>1, <2>2, <2>3, RebaseTypes, SubTypesKept
<1>7. CASE RebaseSub(t, s) \/ RebaseFails(t, s)
  <2>1. origin[s]["main"] \in SUBSET Commit
    BY <1>1, SubTypes DEF Branch
  <2>2. /\ UNCHANGED <<change, origin, rootVars, prs>>
        /\ RebaseHead(s, origin[s]["main"]) \/ RebaseStuck(s, origin[s]["main"])
              \/ UNCHANGED <<line, head>>
    BY <1>7 DEF RebaseSub, RebaseFails
  <2>3. UNCHANGED <<line, head>> => UNCHANGED subVars
    BY <2>2 DEF subVars
  <2> QED
    BY <1>1, <2>1, <2>2, <2>3, RebaseTypes, SubTypesKept
<1> QED
  BY <1>3, <1>4, <1>5, <1>6, <1>7

\* The steps on the meta-repository.
LEMMA CheckoutRootTypes ==
    ASSUME TypeInv, NEW t \in Terminal, NEW b \in Branch, NEW new \in BOOLEAN,
           CheckoutRoot(t, b, new)
    PROVE  /\ RootVarTypes'
           /\ UNCHANGED <<subVars, rootOrigin>>
           /\ rootHead' = b
           /\ pins'[b] = IF new THEN pins[rootHead] ELSE pins[b]
           /\ \A c \in Branch \ {b} : pins'[c] = pins[c]
<1>1. RootVarTypes
  BY TypeParts
<1> DEFINE target == IF new THEN pins[rootHead] ELSE pins[b]
           kept == {s \in Sub : index[s] # pins[rootHead][s]}
<1>2. /\ IF new THEN pins[b] = NoPins ELSE pins[b] # NoPins
      /\ pins' = [pins EXCEPT ![b] = target]
      /\ index' = [s \in Sub |-> IF s \in kept THEN index[s] ELSE target[s]]
      /\ rootHead' = b
      /\ UNCHANGED <<subVars, rootOrigin, prs>>
  BY DEF CheckoutRoot
<1>3. target \in Pins
  BY <1>1, <1>2 DEF RootVarTypes
<1> HIDE DEF kept
<1>4. index' \in Pins
  <2> HIDE DEF target
  <2> QED
    BY <1>1, <1>2, <1>3 DEF RootVarTypes, Pins
<1>5. /\ pins' \in [Branch -> Pins \cup {NoPins}]
      /\ pins'[b] = target
      /\ \A c \in Branch \ {b} : pins'[c] = pins[c]
  <2> HIDE DEF target
  <2> QED
    BY <1>1, <1>2, <1>3 DEF RootVarTypes
<1>6. RootVarTypes'
  <2> HIDE DEF target
  <2> QED
    BY <1>1, <1>2, <1>3, <1>4, <1>5 DEF RootVarTypes
<1> QED
  BY <1>2, <1>5, <1>6

LEMMA PinTypes ==
    ASSUME TypeInv, NEW t \in Terminal
    PROVE  /\ ToPin(t) \in Pins
           /\ [s \in Sub |-> IF s \in term[t].made THEN Tip(s) ELSE index[s]] \in Pins
           /\ [s \in Sub |-> Tip(s)] \in Pins
<1>1. index \in Pins /\ \A s \in Sub : index[s] \in Commit
  BY DEF TypeInv, TypeOK, Pins
<1>2. \A s \in Sub : Tip(s) \in Commit
  BY TipCommit
<1> QED
  BY <1>1, <1>2 DEF ToPin, Pins

LEMMA RootStepTypes ==
    ASSUME TypeInv, NEW t \in Terminal,
           CommitAdd(t) \/ CommitRoot(t) \/ CommitRootFails(t) \/ SyncAlign(t) \/ PushRoot(t)
    PROVE  RootVarTypes' /\ UNCHANGED subVars
<1>1. RootVarTypes /\ term[t] \in Local
  BY TypeParts DEF SubVarTypes
<1>2. CASE CommitAdd(t) \/ CommitRootFails(t) \/ SyncAlign(t)
  <2>1. index' \in Pins /\ UNCHANGED <<subVars, rootHead, pins, rootOrigin, prs>>
    BY <1>2, PinTypes DEF CommitAdd, CommitRootFails, SyncAlign
  <2> QED
    BY <1>1, <2>1 DEF RootVarTypes
<1>3. CASE CommitRoot(t)
  <2> DEFINE p == ToPin(t)
  <2>1. p \in Pins
    BY PinTypes
  <2>2. /\ pins' = [pins EXCEPT ![rootHead] = p] /\ index' = p
        /\ UNCHANGED <<subVars, rootHead, rootOrigin, prs>>
    BY <1>3 DEF CommitRoot
  <2> HIDE DEF p
  <2> QED
    BY <1>1, <2>1, <2>2 DEF RootVarTypes
<1>4. CASE PushRoot(t)
  <2>1. term[t].meta \in Branch
    BY <1>1 DEF Local
  <2>2. /\ \/ rootOrigin' = [rootOrigin EXCEPT ![term[t].meta] = pins[term[t].meta]]
           \/ rootOrigin' = rootOrigin
        /\ UNCHANGED <<subVars, rootHead, pins, index, prs>>
    BY <1>4 DEF PushRoot
  <2> QED
    BY <1>1, <2>1, <2>2 DEF RootVarTypes
<1> QED
  BY <1>2, <1>3, <1>4

\* The steps that change what a command knows, or the pull requests, and nothing else.
QuietStep(t) ==
    \/ \E s \in Sub : CheckoutFails(t, s) \/ CommitSkips(t, s) \/ CommitSubFails(t, s)
                         \/ PushSkips(t, s) \/ PushFails(t, s)
    \/ \E staged \in Staged : CommitStart(t, staged)
    \/ CheckoutDone(t) \/ PushStart(t) \/ SyncStart(t) \/ RebaseStart(t)
    \/ RebaseRoot(t) \/ Killed(t)
    \/ CreatePRs(t)

LEMMA QuietSteps ==
    ASSUME NEW t, QuietStep(t)
    PROVE  /\ UNCHANGED <<subVars, rootVars>>
           /\ prs' = prs \/ \E r \in Sub \cup {Root} : prs' = prs \cup {r}
BY DEF QuietStep, CheckoutFails, CommitSkips, CommitSubFails, PushSkips, PushFails,
       CommitStart, CheckoutDone, PushStart, SyncStart, RebaseStart, RebaseRoot, Killed,
       CreatePRs, CreatePRsStart, CreatePR, CreatePRRefused, CreatePRInBrowser,
       CreatePRsDone

\* Every step of a command is one of these.
LEMMA TerminalSteps ==
    ASSUME NEW t, TerminalStep(t)
    PROVE  \/ QuietStep(t)
           \/ \E b \in Branch, new \in BOOLEAN : CheckoutRoot(t, b, new)
           \/ \E s \in Sub : CheckoutSub(t, s) \/ CommitSub(t, s) \/ PushSub(t, s)
                                \/ SyncSub(t, s) \/ RebaseSub(t, s) \/ RebaseFails(t, s)
           \/ CommitAdd(t) \/ CommitRoot(t) \/ CommitRootFails(t) \/ SyncAlign(t)
           \/ PushRoot(t)
BY DEF TerminalStep, CheckoutBranch, CommitAtomic, PushBottomUp, SyncUpstream,
       RebaseUpstream, QuietStep

LEMMA NextSteps ==
    ASSUME [Next]_vars
    PROVE  \/ \E t \in Terminal : TerminalStep(t)
           \/ \E s \in Sub, c \in {"unstaged", "staged"} : Edit(s, c)
           \/ \E s \in Sub, b \in Branch : ColleaguePushes(s, b)
           \/ UNCHANGED vars
BY DEF Next, TerminalStep

\* A colleague's push adds one commit to a branch of a remote.
LEMMA ColleagueTypes ==
    ASSUME TypeInv, NEW s \in Sub, NEW b \in Branch, ColleaguePushes(s, b)
    PROVE  /\ SubVarTypes'
           /\ UNCHANGED <<line, head, change, rootVars, prs, term>>
           /\ \A r \in Sub \ {s} : origin'[r] = origin[r]
           /\ \A c \in Branch : origin[s][c] \subseteq origin'[s][c]
<1> DEFINE S == origin[s][b] \cup {Fresh(s)}
<1>1. SubVarTypes /\ TypeOK
  BY TypeParts DEF TypeInv
<1>2. S \in SUBSET Commit
  BY <1>1, FreshCommit, SubTypes DEF ColleaguePushes
<1>3. origin' = [origin EXCEPT ![s][b] = S]
         /\ UNCHANGED <<line, head, change, rootVars, prs, term>>
  BY DEF ColleaguePushes
<1>4. origin[s][b] \subseteq S
  OBVIOUS
<1> HIDE DEF S
<1>5. /\ SubVarTypes'
      /\ \A r \in Sub \ {s} : origin'[r] = origin[r]
      /\ origin'[s][b] = S /\ \A c \in Branch \ {b} : origin'[s][c] = origin[s][c]
  BY <1>1, <1>2, <1>3, NewOrigin
<1> QED
  BY <1>3, <1>4, <1>5

LEMMA StepTypes ==
    ASSUME TypeInv, [Next]_vars
    PROVE  TypeInv'
<1>1. SubVarTypes /\ RootVarTypes /\ term \in [Terminal -> Local] /\ TypeOK
  BY TypeParts DEF TypeInv
<1>2. ASSUME NEW t \in Terminal, TerminalStep(t)
      PROVE  TypeInv'
  <2>1. term' \in [Terminal -> Local]
    BY <1>1, <1>2, TerminalTypes
  <2>2. SubVarTypes' /\ RootVarTypes'
    <3>1. CASE QuietStep(t)
      <4>1. UNCHANGED <<subVars, rootVars>> /\ prs' \subseteq Sub \cup {Root}
        BY <1>1, <3>1, QuietSteps DEF RootVarTypes
      <4> QED
        BY <1>1, <4>1, SubTypesKept DEF RootVarTypes, rootVars
    <3>2. ASSUME NEW b \in Branch, NEW new \in BOOLEAN, CheckoutRoot(t, b, new)
          PROVE  SubVarTypes' /\ RootVarTypes'
      BY <1>1, <3>2, CheckoutRootTypes, SubTypesKept
    <3>3. ASSUME NEW s \in Sub,
                 CheckoutSub(t, s) \/ CommitSub(t, s) \/ PushSub(t, s) \/ SyncSub(t, s)
                    \/ RebaseSub(t, s) \/ RebaseFails(t, s)
          PROVE  SubVarTypes' /\ RootVarTypes'
      BY <1>1, <3>3, SubStepTypes, RootTypesKept
    <3>4. CASE CommitAdd(t) \/ CommitRoot(t) \/ CommitRootFails(t) \/ SyncAlign(t)
                  \/ PushRoot(t)
      BY <1>1, <3>4, RootStepTypes, SubTypesKept
    <3> QED
      BY <1>2, <3>1, <3>2, <3>3, <3>4, TerminalSteps
  <2> QED
    BY <2>1, <2>2, TypePartsKept
<1>3. ASSUME NEW s \in Sub, NEW c \in {"unstaged", "staged"}, Edit(s, c)
      PROVE  TypeInv'
  <2>1. /\ change' \in [Sub -> {"none", "unstaged", "staged"}]
        /\ UNCHANGED <<line, head, origin, rootVars, prs, term>>
    BY <1>1, <1>3 DEF Edit, SubVarTypes
  <2>2. SubVarTypes'
    BY <1>1, <2>1 DEF SubVarTypes, Commits
  <2> QED
    BY <1>1, <2>1, <2>2, RootTypesKept, TypePartsKept
<1>4. ASSUME NEW s \in Sub, NEW b \in Branch, ColleaguePushes(s, b)
      PROVE  TypeInv'
  <2>1. SubVarTypes' /\ UNCHANGED <<rootVars, prs, term>>
    BY <1>4, ColleagueTypes
  <2> QED
    BY <1>1, <2>1, RootTypesKept, TypePartsKept
<1>5. CASE UNCHANGED vars
  <2>1. UNCHANGED <<subVars, rootVars, prs, term>>
    BY <1>5 DEF vars
  <2> QED
    BY <1>1, <2>1, SubTypesKept, RootTypesKept, TypePartsKept
<1> QED
  BY <1>2, <1>3, <1>4, <1>5, NextSteps

LEMMA InitTypes == Init => TypeInv
<1> SUFFICES ASSUME Init PROVE TypeInv
  OBVIOUS
<1>1. 0 \in Commit
  BY BoundAssumption DEF Commit
<1>2. \A s \in Sub : line[s][head[s]] = {0}
  BY DEF Init, Head, Branch
<1>3. [s \in Sub |-> 0] \in Pins
  BY <1>1 DEF Pins
<1>4. pins["main"] = [s \in Sub |-> 0] /\ pins \in [Branch -> Pins \cup {NoPins}]
  BY <1>3 DEF Init, Branch
<1>5. SubVarTypes
  BY <1>1, <1>2 DEF Init, SubVarTypes, Commits, Head, Branch
<1>6. RootVarTypes
  BY <1>3, <1>4 DEF Init, RootVarTypes, Branch
<1>7. term \in [Terminal -> Local]
  BY PromptType DEF Init
<1> QED
  BY <1>5, <1>6, <1>7, TypeParts

\* The types, and that a tip exists wherever one is read.
THEOREM TypeInvariant == Spec => []TypeInv
<1> QED
  BY InitTypes, StepTypes, PTL DEF Spec

\* Every reachable state is typed, with any number of terminals.
THEOREM TypeCorrect == Spec => []TypeOK
<1>1. TypeInv => TypeOK
  BY DEF TypeInv
<1> QED
  BY <1>1, TypeInvariant, PTL

--------------------------------------------------------------------------------
(* What is on a remote stays there.                                        *)

\* Pushes only add: ours because they are not forced.
LEMMA PublishedGrows ==
    ASSUME TypeInv, [Next]_vars, NEW s \in Sub
    PROVE  /\ \A b \in Branch : origin[s][b] \subseteq origin'[s][b]
           /\ Published(s) \subseteq Published(s)'
<1>1. ASSUME NEW t \in Terminal, NEW r \in Sub, PushSub(t, r)
      PROVE  \A b \in Branch : origin[s][b] \subseteq origin'[s][b]
  <2> DEFINE c == term[t].seen[r]
  <2>1. SubVarTypes /\ TypeOK /\ term[t] \in Local
    BY TypeParts DEF TypeInv
  <2>2. c \in Branch
    BY <1>1, <2>1 DEF PushSub, ToPush, Local, Head
  <2>3. /\ origin[r][c] \subseteq line[r][c]
        /\ origin' = [origin EXCEPT ![r][c] = line[r][c]]
        /\ UNCHANGED <<line, head, change>>
    BY <1>1 DEF PushSub
  <2>4. line[r][c] \in SUBSET Commit
    BY <2>1, <2>2, SubTypes
  <2> HIDE DEF c
  <2> QED
    BY <2>1, <2>2, <2>3, <2>4, NewOrigin
<1>2. ASSUME NEW r \in Sub, NEW c \in Branch, ColleaguePushes(r, c)
      PROVE  \A b \in Branch : origin[s][b] \subseteq origin'[s][b]
  BY <1>2, ColleagueTypes
<1>3. \/ origin' = origin
      \/ \E t \in Terminal, r \in Sub : PushSub(t, r)
      \/ \E r \in Sub, c \in Branch : ColleaguePushes(r, c)
  <2>1. ASSUME NEW t \in Terminal, TerminalStep(t), ~ \E r \in Sub : PushSub(t, r)
        PROVE  origin' = origin
    <3>1. QuietStep(t) => origin' = origin
      BY QuietSteps DEF subVars
    <3> QED
      BY <2>1, <3>1, TerminalSteps
         DEF CheckoutRoot, CheckoutSub, CommitSub, SyncSub, RebaseSub, RebaseFails,
             CommitAdd, CommitRoot, CommitRootFails, SyncAlign, PushRoot, subVars
  <2> QED
    BY <2>1, NextSteps DEF Edit, vars, subVars
<1>4. \A b \in Branch : origin[s][b] \subseteq origin'[s][b]
  BY <1>1, <1>2, <1>3
<1> QED
  BY <1>4 DEF Published

\* git.go pushes without --force: whatever the commands, the terminals and the
\* colleagues' pushes in between, no commit leaves a remote.
THEOREM NothingIsUnpublished == Spec => NothingUnpublished
<1>1. TypeInv /\ [Next]_vars =>
         [\A s \in Sub : Published(s) \subseteq Published(s)']_vars
  BY PublishedGrows
<1> QED
  BY <1>1, TypeInvariant, PTL DEF Spec, NothingUnpublished

--------------------------------------------------------------------------------
(* What each step does to the locals of its command.                       *)

\* A command starts at an idle terminal.
Starts(t, cmd) == Idle(t) /\ term'[t].cmd = cmd /\ term'[t].pc = "subs"

LEMMA CheckoutStarts ==
    ASSUME TypeOK, NEW t \in Terminal, NEW b \in Branch, NEW new \in BOOLEAN,
           CheckoutRoot(t, b, new)
    PROVE  /\ Starts(t, "checkout")
           /\ term'[t].arg = b /\ term'[t].flag = new /\ term'[t].todo = Sub
<1> DEFINE m == [Prompt EXCEPT !.pc = "subs", !.todo = Sub, !.arg = b, !.flag = new]
<1>1. Start(t, "checkout", m)
  BY DEF CheckoutRoot
<1>2. m = [Prompt EXCEPT !.pc = "subs", !.todo = Sub, !.arg = b, !.flag = new]
  OBVIOUS
<1> HIDE DEF m
<1>3. m \in Local /\ m.pc = "subs" /\ m.todo = Sub /\ m.arg = b /\ m.flag = new
  BY <1>2, PromptType DEF Local
<1> QED
  BY <1>1, <1>3, StartLocals DEF Starts

LEMMA CommitStarts ==
    ASSUME TypeOK, NEW t \in Terminal, NEW staged \in Staged, CommitStart(t, staged)
    PROVE  Starts(t, "commit") /\ term'[t].flag = staged
<1> DEFINE x == IF staged THEN Sub ELSE {s \in Sub : change[s] # "none"}
           m == [Prompt EXCEPT !.pc = "subs", !.todo = x, !.flag = staged]
<1>1. Start(t, "commit", m)
  BY DEF CommitStart
<1>2. x \in SUBSET Sub /\ staged \in BOOLEAN
  BY OptionsAssumption
<1>3. m = [Prompt EXCEPT !.pc = "subs", !.todo = x, !.flag = staged]
  OBVIOUS
<1> HIDE DEF x, m
<1>4. m \in Local /\ m.pc = "subs" /\ m.flag = staged
  BY <1>2, <1>3, PromptType DEF Local
<1> QED
  BY <1>1, <1>4, StartLocals DEF Starts

\* Push, sync and rebase start by looking at the repositories.
LEMMA SeenStarts ==
    ASSUME TypeOK, NEW t \in Terminal, NEW cmd, Start(t, cmd, Seen(Prompt))
    PROVE  /\ Starts(t, cmd) /\ cmd \in Commands
           /\ term'[t].todo = Sub /\ term'[t].seen = head /\ term'[t].meta = rootHead
           /\ term'[t].due = {s \in Sub : Unpushed(s) \/ change[s] # "none"}
<1> DEFINE m == Seen(Prompt)
<1>1. /\ m \in Local
      /\ m.pc = "subs" /\ m.todo = Sub
      /\ m.seen = head
      /\ m.due = {s \in Sub : Unpushed(s) \/ change[s] # "none"}
      /\ m.meta = rootHead
  BY SeenLocals
<1>2. Start(t, cmd, m)
  OBVIOUS
<1> HIDE DEF m
<1> QED
  BY <1>1, <1>2, StartLocals DEF Starts

LEMMA CreatePRStarts ==
    ASSUME TypeOK, NEW t \in Terminal, CreatePRsStart(t)
    PROVE  Starts(t, "create-pr")
<1> DEFINE x == {s \in Sub : head[s] = "feature"}
                   \cup (IF rootHead = "feature" THEN {Root} ELSE {})
           m == [Prompt EXCEPT !.pc = "subs", !.todo = x]
<1>1. Start(t, "create-pr", m)
  BY DEF CreatePRsStart
<1>2. x \in SUBSET (Sub \cup {Root})
  OBVIOUS
<1>3. m = [Prompt EXCEPT !.pc = "subs", !.todo = x]
  OBVIOUS
<1> HIDE DEF x, m
<1>4. m \in Local /\ m.pc = "subs"
  BY <1>2, <1>3, CreatePRLocals
<1> QED
  BY <1>1, <1>4, StartLocals DEF Starts

\* A step that records what it has done, and the end of the submodules of a commit.
LEMMA MadeLocals ==
    ASSUME TypeOK, NEW t \in Terminal, NEW r \in Sub \cup {Root},
           Step(t, [term[t] EXCEPT !.todo = @ \ {r}, !.made = @ \cup {r}])
    PROVE  /\ term'[t].cmd = term[t].cmd /\ term'[t].pc = term[t].pc
           /\ term'[t].flag = term[t].flag
<1> DEFINE x == term[t].todo \ {r}
           y == term[t].made \cup {r}
           m == [term[t] EXCEPT !.todo = x, !.made = y]
<1>1. term[t] \in Local
  BY DEF TypeOK
<1>2. x \in SUBSET (Sub \cup {Root}) /\ y \in SUBSET (Sub \cup {Root})
  BY <1>1 DEF Local
<1>3. term' = [term EXCEPT ![t] = m]
  BY DEF Step
<1>4. m = [term[t] EXCEPT !.todo = x, !.made = y]
  OBVIOUS
<1> HIDE DEF x, y, m
<1>5. m.cmd = term[t].cmd /\ m.pc = term[t].pc /\ m.flag = term[t].flag
  BY <1>1, <1>2, <1>4 DEF Local
<1> QED
  BY <1>3, <1>5, SetLocals

LEMMA AddLocals ==
    ASSUME TypeOK, NEW t \in Terminal, Step(t, [term[t] EXCEPT !.pc = "root"])
    PROVE  /\ term'[t].cmd = term[t].cmd /\ term'[t].pc = "root"
           /\ term'[t].flag = term[t].flag
<1> DEFINE m == [term[t] EXCEPT !.pc = "root"]
<1>1. term[t] \in Local
  BY DEF TypeOK
<1>2. term' = [term EXCEPT ![t] = m]
  BY DEF Step
<1>3. m.cmd = term[t].cmd /\ m.pc = "root" /\ m.flag = term[t].flag
  BY <1>1, WithPC
<1> HIDE DEF m
<1> QED
  BY <1>2, <1>3, SetLocals

\* What a command does after its first step: it goes on, or it returns.
GoesOn(t, cmd) ==
    /\ term[t].cmd = cmd /\ term'[t].cmd = cmd
    /\ ~ Idle(t) /\ term'[t].pc # "idle"
    /\ term'[t].flag = term[t].flag

Ends(t, cmd, says) ==
    /\ term[t].cmd = cmd
    /\ term'[t].cmd = "none" /\ term'[t].says = says

\* The steps of a command but those of a checkout that goes on and those that push a
\* submodule, for what they do to its locals.
Moves(t) ==
    \/ \E cmd \in Commands \ {"checkout", "commit", "push"} : Starts(t, cmd)
    \/ \E staged \in Staged : Starts(t, "commit") /\ term'[t].flag = staged
    \/ PushStart(t)
    \/ \E cmd \in Command \ {"checkout", "push"} : GoesOn(t, cmd)
    \/ \E s \in Sub : PushSkips(t, s)
    \/ \E cmd \in Command \ {"checkout"}, says \in {"ok", "error"} : Ends(t, cmd, says)
    \/ /\ Ends(t, "checkout", "error")
       /\ \/ "checkout" \in Killable
          \/ "conflict" \in Faults
          \/ \E s \in term[t].todo : s \in Sub /\ BranchStart(t, s) = {}
    \/ Ends(t, "checkout", "ok") /\ term[t].todo = {}

LEMMA Movement ==
    ASSUME TypeOK, NEW t \in Terminal, TerminalStep(t)
    PROVE  \/ \E b \in Branch, new \in BOOLEAN : CheckoutRoot(t, b, new)
           \/ \E s \in Sub : CheckoutSub(t, s) \/ PushSub(t, s)
           \/ Moves(t)
<1> USE DEF Running, Idle
<1>1. ASSUME NEW cmd \in Command \ {"checkout", "push"}, NEW s, NEW pc \in {"subs", "root"},
             Running(t, cmd, pc), Done(t, s)
      PROVE  Moves(t)
  <2>1. GoesOn(t, cmd)
    BY <1>1, DoneLocals DEF GoesOn
  <2> QED
    BY <2>1 DEF Moves
<1>2. ASSUME NEW cmd \in Command \ {"checkout"}, NEW pc, NEW says \in {"ok", "error"},
             Running(t, cmd, pc), Return(t, says)
      PROVE  Moves(t)
  <2>1. Ends(t, cmd, says)
    BY <1>2, ReturnLocals DEF Ends
  <2> QED
    BY <2>1 DEF Moves
<1>3. ASSUME NEW cmd \in {"commit", "create-pr"}, NEW r \in Sub \cup {Root},
             Running(t, cmd, "subs"),
             Step(t, [term[t] EXCEPT !.todo = @ \ {r}, !.made = @ \cup {r}])
      PROVE  Moves(t)
  <2>1. term'[t].cmd = term[t].cmd /\ term'[t].pc = term[t].pc /\ term'[t].flag = term[t].flag
    BY <1>3, MadeLocals
  <2>2. GoesOn(t, cmd) /\ cmd \in Command \ {"checkout", "push"}
    BY <1>3, <2>1 DEF GoesOn, Command
  <2> QED
    BY <2>2 DEF Moves
<1>4. CASE CheckoutBranch(t)
  <2>1. ASSUME NEW s \in Sub, CheckoutFails(t, s)
        PROVE  Moves(t)
    <3>1. Running(t, "checkout", "subs") /\ Return(t, "error") /\ s \in term[t].todo
             /\ (BranchStart(t, s) = {} \/ "conflict" \in Faults)
      BY <2>1 DEF CheckoutFails
    <3>2. Ends(t, "checkout", "error")
      BY <3>1, ReturnLocals DEF Ends
    <3> QED
      BY <3>1, <3>2 DEF Moves
  <2>2. CASE CheckoutDone(t)
    <3>1. Running(t, "checkout", "subs") /\ Return(t, "ok") /\ term[t].todo = {}
      BY <2>2 DEF CheckoutDone
    <3>2. Ends(t, "checkout", "ok")
      BY <3>1, ReturnLocals DEF Ends
    <3> QED
      BY <3>1, <3>2 DEF Moves
  <2> QED
    BY <1>4, <2>1, <2>2 DEF CheckoutBranch
<1>5. CASE CommitAtomic(t)
  <2>1. ASSUME NEW staged \in Staged, CommitStart(t, staged)
        PROVE  Moves(t)
    BY <2>1, CommitStarts DEF Moves
  <2>2. ASSUME NEW s \in Sub, CommitSub(t, s)
        PROVE  Moves(t)
    BY <2>2, <1>3 DEF CommitSub
  <2>3. ASSUME NEW s \in Sub, CommitSkips(t, s)
        PROVE  Moves(t)
    BY <2>3, <1>1 DEF CommitSkips, Command
  <2>4. ASSUME NEW s \in Sub, CommitSubFails(t, s)
        PROVE  Moves(t)
    BY <2>4, <1>2 DEF CommitSubFails, Command
  <2>5. CASE CommitAdd(t)
    <3>1. Running(t, "commit", "subs") /\ Step(t, [term[t] EXCEPT !.pc = "root"])
      BY <2>5 DEF CommitAdd
    <3>2. GoesOn(t, "commit")
      BY <3>1, AddLocals DEF GoesOn
    <3> QED
      BY <3>2 DEF Moves, Command
  <2>6. CASE CommitRoot(t)
    BY <2>6, <1>2 DEF CommitRoot, Command
  <2>7. CASE CommitRootFails(t)
    <3>1. Running(t, "commit", "root") /\ \E says \in {"ok", "error"} : Return(t, says)
      BY <2>7 DEF CommitRootFails
    <3> QED
      BY <3>1, <1>2 DEF Command
  <2> QED
    BY <1>5, <2>1, <2>2, <2>3, <2>4, <2>5, <2>6, <2>7 DEF CommitAtomic
<1>6. CASE PushBottomUp(t)
  <2>1. ASSUME NEW s \in Sub, PushFails(t, s)
        PROVE  Moves(t)
    BY <2>1, <1>2 DEF PushFails, Command
  <2>2. CASE PushRoot(t)
    <3>1. Running(t, "push", "subs") /\ \E says \in {"ok", "error"} : Return(t, says)
      BY <2>2 DEF PushRoot
    <3> QED
      BY <3>1, <1>2 DEF Command
  <2> QED
    BY <1>6, <2>1, <2>2 DEF PushBottomUp, Moves
<1>7. CASE SyncUpstream(t) \/ RebaseUpstream(t)
  <2>1. ASSUME NEW cmd \in {"sync", "rebase"}, Start(t, cmd, Seen(Prompt))
        PROVE  Moves(t)
    BY <2>1, SeenStarts DEF Moves
  <2>2. ASSUME NEW s \in Sub, SyncSub(t, s)
        PROVE  Moves(t)
    BY <2>2, <1>1 DEF SyncSub, Command
  <2>3. ASSUME NEW s \in Sub, RebaseSub(t, s)
        PROVE  Moves(t)
    BY <2>3, <1>1 DEF RebaseSub, Command
  <2>4. ASSUME NEW s \in Sub, RebaseFails(t, s)
        PROVE  Moves(t)
    BY <2>4, <1>2 DEF RebaseFails, Command
  <2>5. CASE SyncAlign(t)
    BY <2>5, <1>2 DEF SyncAlign, Command
  <2>6. CASE RebaseRoot(t)
    BY <2>6, <1>2 DEF RebaseRoot, Command
  <2>7. SyncStart(t) \/ RebaseStart(t) => Moves(t)
    BY <2>1 DEF SyncStart, RebaseStart
  <2> QED
    BY <1>7, <2>2, <2>3, <2>4, <2>5, <2>6, <2>7 DEF SyncUpstream, RebaseUpstream
<1>8. CASE CreatePRs(t)
  <2>1. CASE CreatePRsStart(t)
    <3>1. Starts(t, "create-pr") /\ "create-pr" \in Commands
      BY <2>1, CreatePRStarts DEF CreatePRsStart, Start
    <3> QED
      BY <3>1 DEF Moves
  <2>2. ASSUME NEW r \in Sub \cup {Root}, CreatePR(t, r) \/ CreatePRRefused(t, r)
        PROVE  Moves(t)
    BY <2>2, <1>3 DEF CreatePR, CreatePRRefused
  <2>3. ASSUME NEW r \in Sub \cup {Root}, CreatePRInBrowser(t, r)
        PROVE  Moves(t)
    BY <2>3, <1>1 DEF CreatePRInBrowser, Command
  <2>4. CASE CreatePRsDone(t)
    BY <2>4, <1>2 DEF CreatePRsDone, Command
  <2> QED
    BY <1>8, <2>1, <2>2, <2>3, <2>4 DEF CreatePRs
<1>9. CASE Killed(t)
  <2>1. Return(t, "error") /\ term[t].cmd \in Killable /\ term[t].cmd \in Command
    BY <1>9, CommandsAssumption DEF Killed
  <2>2. Ends(t, term[t].cmd, "error")
    BY <2>1, ReturnLocals DEF Ends
  <2> QED
    BY <2>1, <2>2 DEF Moves
<1> QED
  BY <1>4, <1>5, <1>6, <1>7, <1>8, <1>9 DEF TerminalStep

LEMMA CheckoutSubStep ==
    ASSUME TypeInv, NEW t \in Terminal, NEW s \in Sub, CheckoutSub(t, s)
    PROVE  /\ GoesOn(t, "checkout")
           /\ s \in term[t].todo /\ term'[t].todo = term[t].todo \ {s}
           /\ term'[t].arg = term[t].arg /\ term[t].arg \in Branch
           /\ head'[s] = term[t].arg
           /\ line'[s][term[t].arg] = BranchStart(t, s) /\ BranchStart(t, s) # {}
           /\ \A b \in Head \ {term[t].arg} : line'[s][b] = line[s][b]
           /\ \A r \in Sub \ {s} : head'[r] = head[r] /\ line'[r] = line[r]
           /\ UNCHANGED <<origin, rootVars>>
<1>1. SubVarTypes /\ TypeOK
  BY TypeParts DEF TypeInv
<1> DEFINE b == term[t].arg
           S == BranchStart(t, s)
<1>2. b \in Branch /\ b \in Head /\ S \in SUBSET Commit
  BY <1>1, StartTypes, SubTypes
<1>3. /\ S # {} /\ line' = [line EXCEPT ![s][b] = S] /\ head' = [head EXCEPT ![s] = b]
      /\ UNCHANGED <<change, origin, rootVars>>
      /\ s \in term[t].todo /\ Running(t, "checkout", "subs") /\ Done(t, s)
  BY DEF CheckoutSub
<1>4. /\ GoesOn(t, "checkout")
      /\ term'[t].todo = term[t].todo \ {s} /\ term'[t].arg = term[t].arg
  BY <1>1, <1>3, DoneLocals DEF GoesOn, Running, Idle
<1> HIDE DEF b, S
<1>5. /\ head'[s] = b /\ \A r \in Sub \ {s} : head'[r] = head[r] /\ line'[r] = line[r]
      /\ line'[s][b] = S /\ \A c \in Head \ {b} : line'[s][c] = line[s][c]
  BY <1>1, <1>2, <1>3, NewLine DEF SubVarTypes
<1> QED
  BY <1>2, <1>3, <1>4, <1>5 DEF b, S

--------------------------------------------------------------------------------
(* A checkout takes everything along.                                      *)

\* Commands do not overlap: the developer has one terminal, or waits.
OneAtATime == \A t, u \in Terminal : t = u

\* The submodules a checkout has been to are on its branch, and so is the root.
OnOneBranch(t) ==
    term[t].cmd = "checkout" =>
        rootHead = term[t].arg /\ \A s \in Sub \ term[t].todo : head[s] = term[t].arg

CheckoutInv == TypeInv /\ \A t \in Terminal : OnOneBranch(t)

\* After any other step the terminal is not in a checkout.
LEMMA MovesEndCheckouts ==
    ASSUME TypeOK, NEW t \in Terminal, Moves(t) \/ \E s \in Sub : PushSub(t, s)
    PROVE  term'[t].cmd # "checkout"
<1>1. ASSUME NEW s \in Sub, PushSub(t, s) \/ PushSkips(t, s)
      PROVE  term'[t].cmd = "push"
  <2>1. Running(t, "push", "subs") /\ Done(t, s)
    BY <1>1 DEF PushSub, PushSkips
  <2> QED
    BY <2>1, DoneLocals DEF Running
<1>2. PushStart(t) => term'[t].cmd = "push"
  BY SeenStarts DEF PushStart, Starts
<1> QED
  BY <1>1, <1>2 DEF Moves, Starts, GoesOn, Ends

LEMMA CheckoutStep ==
    ASSUME OneAtATime, CheckoutInv, [Next]_vars, NEW t \in Terminal
    PROVE  OnOneBranch(t)'
<1>1. TypeInv /\ TypeOK /\ OnOneBranch(t) /\ TypeInv'
  BY StepTypes DEF CheckoutInv, TypeInv
<1>2. ASSUME NEW b \in Branch, NEW new \in BOOLEAN, CheckoutRoot(t, b, new)
      PROVE  OnOneBranch(t)'
  <2>1. rootHead' = b
    BY <1>1, <1>2, CheckoutRootTypes
  <2>2. term'[t].arg = b /\ term'[t].todo = Sub
    BY <1>1, <1>2, CheckoutStarts
  <2> QED
    BY <2>1, <2>2 DEF OnOneBranch
<1>3. ASSUME NEW s \in Sub, CheckoutSub(t, s)
      PROVE  OnOneBranch(t)'
  <2>1. /\ term[t].cmd = "checkout"
        /\ term'[t].todo = term[t].todo \ {s} /\ term'[t].arg = term[t].arg
        /\ head'[s] = term[t].arg /\ \A r \in Sub \ {s} : head'[r] = head[r]
        /\ rootHead' = rootHead
    BY <1>1, <1>3, CheckoutSubStep DEF GoesOn, rootVars
  <2> QED
    BY <1>1, <2>1 DEF OnOneBranch
<1>4. CASE Moves(t) \/ \E s \in Sub : PushSub(t, s)
  <2>1. term'[t].cmd # "checkout"
    BY <1>1, <1>4, MovesEndCheckouts
  <2> QED
    BY <2>1 DEF OnOneBranch
<1>5. CASE UNCHANGED <<head, rootHead, term>>
  BY <1>1, <1>5 DEF OnOneBranch
<1>6. CASE TerminalStep(t)
  BY <1>1, <1>2, <1>3, <1>4, <1>6, Movement
<1> QED
  BY <1>5, <1>6, NextSteps DEF OneAtATime, Edit, ColleaguePushes, vars, subVars, rootVars

LEMMA CheckoutInit == Init => CheckoutInv
<1> SUFFICES ASSUME Init PROVE CheckoutInv
  OBVIOUS
<1>1. \A t \in Terminal : term[t].cmd = "none"
  BY PromptType DEF Init
<1> QED
  BY <1>1, InitTypes DEF CheckoutInv, OnOneBranch

LEMMA CheckoutInvariant == ASSUME OneAtATime PROVE Spec => []CheckoutInv
<1>1. CheckoutInv /\ [Next]_vars => CheckoutInv'
  BY StepTypes, CheckoutStep DEF CheckoutInv
<1> QED
  BY <1>1, CheckoutInit, PTL DEF Spec

\* A checkout that returns without an error has nothing left to do.
LEMMA CheckoutReturns ==
    ASSUME TypeInv, NEW t \in Terminal, TerminalStep(t), Succeeds(t, "checkout")
    PROVE  term[t].todo = {}
<1>1. TypeOK /\ term[t].cmd = "checkout" /\ term'[t].cmd = "none" /\ term'[t].says = "ok"
  BY DEF TypeInv, Succeeds
<1>2. ASSUME NEW b \in Branch, NEW new \in BOOLEAN, CheckoutRoot(t, b, new)
      PROVE  FALSE
  BY <1>1, <1>2, CheckoutStarts DEF Starts
<1>3. ASSUME NEW s \in Sub, CheckoutSub(t, s)
      PROVE  FALSE
  BY <1>1, <1>3, CheckoutSubStep DEF GoesOn
<1>4. ASSUME NEW s \in Sub, PushSub(t, s) \/ PushSkips(t, s)
      PROVE  FALSE
  BY <1>1, <1>4 DEF PushSub, PushSkips, Running
<1>5. ~ PushStart(t)
  BY <1>1, SeenStarts DEF PushStart, Starts
<1>6. CASE Moves(t)
  BY <1>1, <1>4, <1>5, <1>6, CommandsAssumption DEF Moves, Starts, GoesOn, Ends, Command
<1> QED
  BY <1>1, <1>2, <1>3, <1>4, <1>6, Movement

\* CheckoutBranch walks the submodules in order and stops at the first error: when
\* it reports success the root and every submodule are on the branch it was given,
\* whatever failed or was interrupted before.
THEOREM CheckoutsTakeAll == ASSUME OneAtATime PROVE Spec => CheckoutTogether
<1> DEFINE Together == \A t \in Terminal :
              Succeeds(t, "checkout") =>
                  rootHead = term[t].arg /\ \A s \in Sub : head[s] = term[t].arg
<1>1. ASSUME CheckoutInv, [Next]_vars
      PROVE  [Together]_vars
  <2> SUFFICES ASSUME NEW t \in Terminal, Succeeds(t, "checkout")
               PROVE  rootHead = term[t].arg /\ \A s \in Sub : head[s] = term[t].arg
    OBVIOUS
  <2>1. TerminalStep(t)
    <3>1. term' # term
      BY DEF Succeeds
    <3> QED
      BY <1>1, <3>1, NextSteps DEF OneAtATime, Edit, ColleaguePushes, vars
  <2>2. term[t].todo = {}
    BY <1>1, <2>1, CheckoutReturns DEF CheckoutInv
  <2> QED
    BY <1>1, <2>2 DEF CheckoutInv, OnOneBranch, Succeeds
<1> QED
  BY <1>1, CheckoutInvariant, PTL DEF Spec, CheckoutTogether

--------------------------------------------------------------------------------
(* What the root's remote pins is published.                               *)

\* The use of the commands for which the push can be trusted: nothing that rewrites
\* history, checkouts that run to their end, commits of everything, and, where HEAD
\* may be detached, the hook that refuses to pin it.
PlainUse ==
    /\ Commands \cap {"sync", "rebase"} = {}
    /\ "checkout" \notin Killable /\ "conflict" \notin Faults
    /\ TRUE \notin Staged
    /\ Detached = {} \/ Hooks

\* A checkout -b of the branch has yet to reach the submodule.
Branching(t, s, b) ==
    /\ term[t].cmd = "checkout" /\ term[t].flag
    /\ term[t].arg = b /\ s \in term[t].todo

\* A branch of the root pins a commit of the same branch of the submodule, or one that
\* is published; while the branch is being made, a commit of what it is made from.
PinKnown(s, b) ==
    IF pins[b] = NoPins THEN line[s][b] = {}
    ELSE \/ line[s][b] # {} /\ pins[b][s] \in Published(s) \cup line[s][b]
         \/ /\ \E t \in Terminal : Branching(t, s, b)
            /\ line[s][b] = {}
            /\ pins[b][s] \in Published(s) \cup Commits(s)

PinsKnown(s) ==
    /\ Hooks \/ head[s] # "HEAD"
    /\ \A b \in Branch :
          /\ head[s] = "HEAD" /\ pins[b] # NoPins => pins[b][s] \in Published(s)
          /\ PinKnown(s, b)

\* The branch a submodule is on is on its remote, whole.
Pushed(s) == head[s] = "HEAD" \/ Commits(s) \subseteq origin[s][head[s]]

\* What a running command relies on: the status it took at its start still holds.
Knows(t) ==
    /\ Idle(t) => term[t].cmd = "none"
    /\ term[t].cmd \notin {"sync", "rebase"}
    /\ term[t].cmd # "checkout" => \A s \in Sub : head[s] \in {rootHead, "HEAD"}
    /\ term[t].cmd = "commit" => ~ term[t].flag
    /\ term[t].cmd = "push" =>
          /\ term[t].meta = rootHead /\ term[t].seen = head
          /\ \A s \in Sub : s \in term[t].todo \cap term[t].due \/ Pushed(s)

PinInv ==
    /\ CheckoutInv
    /\ \A s \in Sub : PinsKnown(s)
    /\ \A t \in Terminal : Knows(t)
    /\ PinsPublished

\* Where there is a submodule, a branch that is pinned is told from one that is not.
LEMMA PinnedBranch ==
    ASSUME TypeInv, NEW s \in Sub
    PROVE  NoPins \notin Pins /\ pins[rootHead] # NoPins
<1>1. DOMAIN NoPins = {} /\ \A p \in Pins : DOMAIN p = Sub
  BY DEF NoPins, Pins
<1> QED
  BY <1>1 DEF TypeInv, NonEmpty

LEMMA PinInit == ASSUME PlainUse, Init PROVE PinInv
<1>1. CheckoutInv
  BY CheckoutInit
<1>2. \A t \in Terminal : term[t].cmd = "none"
  BY PromptType DEF Init
<1>3. ASSUME NEW s \in Sub
      PROVE  /\ 0 \in Published(s) /\ line[s]["main"] = {0} /\ line[s]["feature"] = {}
             /\ pins["main"][s] = 0 /\ pins["feature"] = NoPins
             /\ head[s] \in {"main", "HEAD"} /\ (head[s] = "HEAD" => s \in Detached)
  BY <1>3 DEF Init, Published, Branch, Head
<1>4. ASSUME NEW s \in Sub
      PROVE  PinsKnown(s)
  <2>1. \A b \in Branch : b = "main" \/ b = "feature"
    BY DEF Branch
  <2>2. pins["main"] # NoPins
    BY <1>1, <1>4, PinnedBranch DEF CheckoutInv, Init
  <2> QED
    BY <1>3, <2>1, <2>2 DEF PinsKnown, PinKnown, PlainUse
<1>5. ASSUME NEW t \in Terminal
      PROVE  Knows(t)
  BY <1>2, <1>3 DEF Knows, Init
<1>6. PinsPublished
  <2> SUFFICES ASSUME NEW b \in Branch, NEW s \in Sub, rootOrigin[b] # NoPins
               PROVE  rootOrigin[b][s] \in Published(s)
    BY DEF PinsPublished
  <2>1. rootOrigin = pins
    BY DEF Init
  <2> QED
    BY <1>3, <2>1 DEF Branch
<1> QED
  BY <1>1, <1>4, <1>5, <1>6 DEF PinInv

\* Starting a checkout: a new branch pins what the old one did.
LEMMA CheckoutRootPins ==
    ASSUME OneAtATime, PinInv, NEW t \in Terminal, NEW b \in Branch,
           NEW new \in BOOLEAN, CheckoutRoot(t, b, new)
    PROVE  /\ \A s \in Sub : PinsKnown(s)'
           /\ Knows(t)'
           /\ PinsPublished'
<1>1. TypeInv /\ TypeOK /\ Idle(t) /\ Knows(t) /\ term[t].cmd = "none"
  BY CheckoutStarts DEF PinInv, CheckoutInv, TypeInv, Starts, Knows
<1>2. Starts(t, "checkout") /\ term'[t].arg = b /\ term'[t].flag = new /\ term'[t].todo = Sub
  BY <1>1, CheckoutStarts
<1>3. /\ UNCHANGED <<subVars, rootOrigin>>
      /\ pins'[b] = IF new THEN pins[rootHead] ELSE pins[b]
      /\ \A c \in Branch \ {b} : pins'[c] = pins[c]
  BY <1>1, CheckoutRootTypes
<1>4. /\ UNCHANGED <<line, head, origin, rootOrigin>>
      /\ \A s \in Sub : Published(s)' = Published(s) /\ Commits(s)' = Commits(s)
  BY <1>3 DEF subVars, Published, Commits
<1>5. new => pins[b] = NoPins
  BY DEF CheckoutRoot
<1>6. ASSUME NEW s \in Sub
      PROVE  PinsKnown(s)'
  <2>1. PinsKnown(s) /\ head[s] \in {rootHead, "HEAD"} /\ rootHead \in Branch
           /\ pins[rootHead] # NoPins
    BY <1>1, PinnedBranch DEF PinInv, Knows, TypeOK
  <2>2. \A u \in Terminal, c \in Branch : ~ Branching(u, s, c)
    BY <1>1 DEF OneAtATime, Branching
  <2>3. pins[rootHead][s] \in Published(s) \cup Commits(s)
    BY <2>1, <2>2 DEF PinsKnown, PinKnown, Commits
  <2>4. ASSUME NEW c \in Branch
        PROVE  /\ head[s] = "HEAD" /\ pins'[c] # NoPins => pins'[c][s] \in Published(s)
               /\ PinKnown(s, c)'
    <3>1. CASE c = b /\ new
      <4>1. Branching(t, s, b)'
        BY <1>2, <3>1 DEF Branching, Starts
      <4>2. line[s][b] = {}
        BY <1>5, <2>1, <3>1 DEF PinsKnown, PinKnown
      <4> QED
        BY <1>3, <1>4, <2>1, <2>3, <3>1, <4>1, <4>2 DEF PinsKnown, PinKnown
    <3>2. CASE c # b \/ ~ new
      <4>1. pins'[c] = pins[c]
        BY <1>3, <3>2
      <4> QED
        BY <1>4, <2>1, <2>2, <4>1 DEF PinsKnown, PinKnown
    <3> QED
      BY <3>1, <3>2
  <2> QED
    BY <1>4, <2>1, <2>4 DEF PinsKnown
<1>7. Knows(t)'
  BY <1>2 DEF Knows, Starts, Idle
<1>8. PinsPublished'
  BY <1>4 DEF PinInv, PinsPublished
<1> QED
  BY <1>6, <1>7, <1>8

\* Taking a submodule along: a new branch starts where the submodule is.
LEMMA CheckoutSubPins ==
    ASSUME OneAtATime, PinInv, NEW t \in Terminal, NEW s \in Sub, CheckoutSub(t, s)
    PROVE  /\ \A r \in Sub : PinsKnown(r)'
           /\ Knows(t)'
           /\ PinsPublished'
<1> DEFINE b == term[t].arg
<1>1. TypeInv /\ Knows(t) /\ OnOneBranch(t)
  BY DEF PinInv, CheckoutInv
<1>2. /\ GoesOn(t, "checkout")
      /\ s \in term[t].todo /\ term'[t].todo = term[t].todo \ {s}
      /\ term'[t].arg = b /\ b \in Branch
      /\ head'[s] = b
      /\ line'[s][b] = BranchStart(t, s) /\ BranchStart(t, s) # {}
      /\ \A c \in Head \ {b} : line'[s][c] = line[s][c]
      /\ \A r \in Sub \ {s} : head'[r] = head[r] /\ line'[r] = line[r]
      /\ UNCHANGED <<origin, rootVars>>
  BY <1>1, CheckoutSubStep
<1>3. UNCHANGED <<origin, rootHead, pins, rootOrigin>>
         /\ \A r \in Sub : Published(r)' = Published(r)
  BY <1>2 DEF rootVars, Published
<1>4. Branch \subseteq Head /\ "HEAD" \notin Branch
  BY DEF Head, Branch
<1>5. \A r \in Sub \ {s}, u \in Terminal, c \in Branch : Branching(u, r, c) => Branching(u, r, c)'
  BY <1>2 DEF Branching, GoesOn, OneAtATime
<1>6. ASSUME NEW r \in Sub \ {s}
      PROVE  PinsKnown(r)'
  <2>1. PinsKnown(r) /\ head'[r] = head[r] /\ line'[r] = line[r] /\ Commits(r)' = Commits(r)
    BY <1>2 DEF PinInv, Commits
  <2>2. \A c \in Branch : PinKnown(r, c)'
    BY <1>3, <1>5, <2>1 DEF PinsKnown, PinKnown
  <2> QED
    BY <1>3, <2>1, <2>2 DEF PinsKnown
<1>7. PinsKnown(s)'
  <2>1. PinsKnown(s) /\ b = rootHead /\ pins[b] # NoPins
    BY <1>1, <1>2, PinnedBranch DEF PinInv, OnOneBranch, GoesOn
  <2>2. PinKnown(s, b)'
    <3>1. CASE line[s][b] # {}
      <4>1. line'[s][b] = line[s][b]
        BY <1>2, <3>1 DEF BranchStart
      <4>2. pins[b][s] \in Published(s) \cup line[s][b]
        BY <1>2, <2>1, <3>1 DEF PinsKnown, PinKnown
      <4> QED
        BY <1>2, <1>3, <2>1, <3>1, <4>1, <4>2 DEF PinKnown
    <3>2. CASE line[s][b] = {}
      <4>1. term[t].flag /\ pins[b][s] \in Published(s) \cup Commits(s)
        BY <1>2, <2>1, <3>2 DEF PinsKnown, PinKnown, Branching, OneAtATime
      <4>2. line'[s][b] = Commits(s)
        BY <1>2, <3>2, <4>1 DEF BranchStart
      <4> QED
        BY <1>2, <1>3, <2>1, <4>1, <4>2 DEF PinKnown
    <3> QED
      BY <3>1, <3>2
  <2>3. ASSUME NEW c \in Branch \ {b}
        PROVE  PinKnown(s, c)'
    <3>1. PinKnown(s, c) /\ ~ \E u \in Terminal : Branching(u, s, c)
      BY <2>1 DEF PinsKnown, Branching, OneAtATime
    <3>2. line'[s][c] = line[s][c]
      BY <1>2, <1>4
    <3> QED
      BY <1>3, <3>1, <3>2 DEF PinKnown
  <2> QED
    BY <1>2, <1>3, <1>4, <2>2, <2>3 DEF PinsKnown
<1>8. Knows(t)'
  BY <1>2 DEF Knows, GoesOn, Idle
<1>9. PinsPublished'
  BY <1>3 DEF PinInv, PinsPublished
<1> QED
  BY <1>6, <1>7, <1>8, <1>9

\* A remote that only grows takes no pin away.
LEMMA OriginGrows ==
    ASSUME PinInv, UNCHANGED <<line, head, pins>>,
           \A s \in Sub : Published(s) \subseteq Published(s)',
           \A u \in Terminal, s \in Sub, b \in Branch : Branching(u, s, b) => Branching(u, s, b)'
    PROVE  \A s \in Sub : PinsKnown(s)'
<1> SUFFICES ASSUME NEW s \in Sub PROVE PinsKnown(s)'
  OBVIOUS
<1>1. PinsKnown(s) /\ Commits(s)' = Commits(s) /\ Published(s) \subseteq Published(s)'
  BY DEF PinInv, Commits
<1>2. \A b \in Branch : PinKnown(s, b)'
  BY <1>1 DEF PinsKnown, PinKnown
<1> QED
  BY <1>1, <1>2 DEF PinsKnown

LEMMA PublishedKept ==
    ASSUME PinInv, UNCHANGED rootOrigin, \A s \in Sub : Published(s) \subseteq Published(s)'
    PROVE  PinsPublished'
BY DEF PinInv, PinsPublished

LEMMA PushSubPins ==
    ASSUME OneAtATime, PinInv, [Next]_vars, NEW t \in Terminal, NEW s \in Sub, PushSub(t, s)
    PROVE  /\ \A r \in Sub : PinsKnown(r)'
           /\ Knows(t)'
           /\ PinsPublished'
<1>1. TypeInv /\ TypeOK /\ SubVarTypes /\ term[t] \in Local /\ Knows(t)
  BY TypeParts DEF PinInv, CheckoutInv, TypeInv
<1>2. \A r \in Sub : /\ \A b \in Branch : origin[r][b] \subseteq origin'[r][b]
                     /\ Published(r) \subseteq Published(r)'
  BY <1>1, PublishedGrows
<1>3. Running(t, "push", "subs") /\ Done(t, s) /\ ToPush(t, s)
         /\ origin' = [origin EXCEPT ![s][term[t].seen[s]] = line[s][term[t].seen[s]]]
         /\ UNCHANGED <<line, head, change, rootVars>>
  BY DEF PushSub
<1>4. /\ term'[t].todo = term[t].todo \ {s} /\ term'[t].cmd = "push"
      /\ term'[t].pc = "subs" /\ term'[t].seen = term[t].seen /\ term'[t].due = term[t].due
      /\ term'[t].meta = term[t].meta
  BY <1>1, <1>3, DoneLocals DEF Running
<1>5. UNCHANGED <<line, head, rootHead, pins, rootOrigin>>
         /\ \A r \in Sub : Commits(r)' = Commits(r)
  BY <1>3 DEF rootVars, Commits
<1>6. \A u \in Terminal, r \in Sub, b \in Branch : ~ Branching(u, r, b)
  BY <1>3 DEF Running, Branching, OneAtATime
<1>7. \A r \in Sub : PinsKnown(r)'
  BY <1>2, <1>5, <1>6, OriginGrows
<1>8. PinsPublished'
  BY <1>2, <1>5, PublishedKept
<1>9. Knows(t)'
  <2>1. term[t].meta = rootHead /\ term[t].seen = head
           /\ \A r \in Sub : r \in term[t].todo \cap term[t].due \/ Pushed(r)
    BY <1>1, <1>3 DEF Knows, Running
  <2>2. head[s] \in Branch
    BY <1>1, <1>3, <2>1 DEF ToPush, TypeOK, Head
  <2>3. origin'[s][head[s]] = line[s][head[s]]
    <3> DEFINE S == line[s][head[s]]
               h == head[s]
    <3>1. S \in SUBSET Commit /\ origin' = [origin EXCEPT ![s][h] = S]
      BY <1>1, <1>3, <2>1, SubTypes DEF Commits
    <3>2. h \in Branch /\ UNCHANGED <<line, head, change>>
      BY <1>3, <2>2
    <3> HIDE DEF S, h
    <3>3. origin'[s][h] = S
      BY <1>1, <3>1, <3>2 DEF SubVarTypes
    <3> QED
      BY <3>3 DEF S, h
  <2>4. \A r \in Sub : head[r] # "HEAD" => head[r] \in Branch
    BY <1>1 DEF TypeOK, Head
  <2>5. ASSUME NEW r \in Sub
        PROVE  r \in term'[t].todo \cap term'[t].due \/ Pushed(r)'
    <3>1. r = s => Pushed(r)'
      BY <1>5, <2>3 DEF Pushed, Commits
    <3>2. Pushed(r) => Pushed(r)'
      BY <1>2, <1>5, <2>4 DEF Pushed
    <3> QED
      BY <1>4, <2>1, <3>1, <3>2
  <2>6. \A r \in Sub : head[r] \in {rootHead, "HEAD"}
    BY <1>1, <1>3 DEF Knows, Running
  <2> QED
    BY <1>4, <1>5, <2>1, <2>5, <2>6 DEF Knows, Idle
<1> QED
  BY <1>7, <1>8, <1>9

\* In plain use no checkout fails: every branch that is pinned is in every submodule,
\* or about to be made there.  So one that ends has been everywhere.
LEMMA NoHalfCheckout ==
    ASSUME PlainUse, OneAtATime, PinInv, NEW t \in Terminal, Moves(t)
    PROVE  /\ \A u \in Terminal, s \in Sub, b \in Branch : ~ Branching(u, s, b)
           /\ \A s \in Sub : head[s] \in {rootHead, "HEAD"}
<1>1. TypeInv /\ TypeOK /\ Knows(t) /\ OnOneBranch(t)
  BY DEF PinInv, CheckoutInv, TypeInv
<1>2. CASE term[t].cmd # "checkout"
  BY <1>1, <1>2 DEF Knows, Branching, OneAtATime
<1>3. CASE term[t].cmd = "checkout"
  <2>1. ~ Idle(t)
    BY <1>1, <1>3 DEF Knows
  <2>2. ~ (PushStart(t) \/ \E s \in Sub : PushSkips(t, s))
    BY <1>3, <2>1 DEF PushStart, Start, PushSkips, Running
  <2>3. ASSUME NEW s \in Sub, s \in term[t].todo, BranchStart(t, s) = {}
        PROVE  FALSE
    <3> DEFINE b == term[t].arg
    <3>1. PinsKnown(s) /\ b = rootHead /\ b \in Branch /\ pins[b] # NoPins
             /\ Commits(s) # {}
      BY <1>1, <1>3, PinnedBranch DEF PinInv, OnOneBranch, TypeOK, TypeInv, NonEmpty
    <3>2. line[s][b] = {} /\ ~ term[t].flag
      BY <2>3, <3>1 DEF BranchStart
    <3>3. PinKnown(s, b)
      BY <3>1 DEF PinsKnown
    <3> QED
      BY <3>1, <3>2, <3>3 DEF PinKnown, Branching, OneAtATime
  <2>4. term[t].todo = {}
    BY <1>3, <2>1, <2>2, <2>3 DEF Moves, Starts, GoesOn, Ends, PlainUse
  <2> QED
    BY <1>1, <1>3, <2>4 DEF OnOneBranch, Branching, OneAtATime
<1> QED
  BY <1>2, <1>3

\* A command that looks, goes on or ends still knows what it relies on.
LEMMA MovesKnow ==
    ASSUME PlainUse, OneAtATime, PinInv, [Next]_vars, NEW t \in Terminal, Moves(t),
           UNCHANGED <<head, rootHead>>,
           term[t].cmd = "commit" \/ \A s \in Sub : Commits(s)' = Commits(s)
    PROVE  Knows(t)'
<1>1. TypeInv /\ TypeOK /\ Knows(t)
  BY DEF PinInv, CheckoutInv, TypeInv
<1>2. \A s \in Sub : head'[s] \in {rootHead', "HEAD"}
  BY NoHalfCheckout
<1>3. ASSUME NEW s \in Sub, Pushed(s), Commits(s)' = Commits(s)
      PROVE  Pushed(s)'
  <2>1. head[s] # "HEAD" => head[s] \in Branch
    BY <1>1 DEF TypeOK, Head
  <2> QED
    BY <1>1, <1>3, <2>1, PublishedGrows DEF Pushed
<1>4. ASSUME NEW cmd \in Commands \ {"checkout", "commit", "push"}, Starts(t, cmd)
      PROVE  Knows(t)'
  BY <1>2, <1>4 DEF Knows, Starts, Idle, PlainUse
<1>5. ASSUME NEW staged \in Staged, Starts(t, "commit"), term'[t].flag = staged
      PROVE  Knows(t)'
  BY <1>2, <1>5, OptionsAssumption DEF Knows, Starts, Idle, PlainUse
<1>6. CASE PushStart(t)
  <2>1. /\ Starts(t, "push") /\ term'[t].todo = Sub /\ term'[t].seen = head
        /\ term'[t].meta = rootHead
        /\ term'[t].due = {s \in Sub : Unpushed(s) \/ change[s] # "none"}
    BY <1>1, <1>6, SeenStarts DEF PushStart
  <2>2. \A s \in Sub : Commits(s)' = Commits(s)
    BY <1>1, <2>1 DEF Starts, Knows
  <2>3. \A s \in Sub : s \in term'[t].todo \cap term'[t].due \/ Pushed(s)'
    <3>1. \A s \in Sub : s \notin term'[t].due => Pushed(s)
      BY <2>1 DEF Unpushed, Pushed
    <3> QED
      BY <1>3, <2>1, <2>2, <3>1
  <2> QED
    BY <1>2, <2>1, <2>3 DEF Knows, Starts, Idle
<1>7. ASSUME NEW cmd \in Command \ {"checkout", "push"}, GoesOn(t, cmd)
      PROVE  Knows(t)'
  BY <1>1, <1>2, <1>7 DEF Knows, GoesOn, Idle
<1>8. ASSUME NEW s \in Sub, PushSkips(t, s)
      PROVE  Knows(t)'
  <2>1. Running(t, "push", "subs") /\ Done(t, s) /\ ~ ToPush(t, s)
    BY <1>8 DEF PushSkips
  <2>2. /\ term'[t].todo = term[t].todo \ {s} /\ term'[t].cmd = "push"
        /\ term'[t].pc = "subs" /\ term'[t].seen = term[t].seen
        /\ term'[t].due = term[t].due /\ term'[t].meta = term[t].meta
    BY <1>1, <2>1, DoneLocals DEF Running
  <2>3. term[t].meta = rootHead /\ term[t].seen = head
           /\ \A r \in Sub : r \in term[t].todo \cap term[t].due \/ Pushed(r)
    BY <1>1, <2>1 DEF Knows, Running
  <2>4. Pushed(s)
    BY <2>1, <2>3 DEF ToPush, Pushed
  <2>5. \A r \in Sub : Commits(r)' = Commits(r)
    BY <2>1 DEF Running
  <2>6. \A r \in Sub : r \in term'[t].todo \cap term'[t].due \/ Pushed(r)'
    BY <1>3, <2>2, <2>3, <2>4, <2>5
  <2> QED
    BY <1>2, <2>2, <2>3, <2>6 DEF Knows, Idle
<1>9. ASSUME NEW cmd, NEW says, Ends(t, cmd, says)
      PROVE  Knows(t)'
  BY <1>2, <1>9 DEF Knows, Ends
<1> QED
  BY <1>4, <1>5, <1>6, <1>7, <1>8, <1>9 DEF Moves

LEMMA CommitSubPins ==
    ASSUME PlainUse, OneAtATime, PinInv, [Next]_vars, NEW t \in Terminal, Moves(t),
           NEW s \in Sub, CommitSub(t, s)
    PROVE  /\ \A r \in Sub : PinsKnown(r)'
           /\ Knows(t)'
           /\ PinsPublished'
<1>1. TypeInv /\ TypeOK /\ SubVarTypes /\ head[s] \in Head
  BY TypeParts, SubTypes DEF PinInv, CheckoutInv, TypeInv
<1> DEFINE h == head[s]
           S == Commits(s) \cup {Fresh(s)}
<1>2. /\ line' = [line EXCEPT ![s][h] = S]
      /\ UNCHANGED <<head, origin, rootVars>>
      /\ term[t].cmd = "commit"
  BY DEF CommitSub, Commits, Running
<1>3. UNCHANGED <<rootHead, pins, rootOrigin>> /\ \A r \in Sub : Published(r)' = Published(r)
  BY <1>2 DEF rootVars, Published
<1>4. /\ \A u \in Terminal, r \in Sub, b \in Branch : ~ Branching(u, r, b)
      /\ head[s] \in {rootHead, "HEAD"}
  BY NoHalfCheckout
<1>5. /\ Commits(s) \subseteq S /\ S # {}
      /\ line'[s][h] = S /\ \A b \in Head \ {h} : line'[s][b] = line[s][b]
      /\ \A r \in Sub \ {s} : line'[r] = line[r]
  <2>1. Commits(s) \subseteq S /\ S # {}
    OBVIOUS
  <2> HIDE DEF S, h
  <2> QED
    BY <1>1, <1>2, <2>1 DEF SubVarTypes, h
<1>6. ASSUME NEW r \in Sub
      PROVE  PinsKnown(r)'
  <2>1. PinsKnown(r) /\ pins[rootHead] # NoPins /\ Branch \subseteq Head
    BY <1>1, PinnedBranch DEF PinInv, Head
  <2>2. ASSUME NEW b \in Branch
        PROVE  PinKnown(r, b)'
    <3>1. PinKnown(r, b) /\ ~ \E u \in Terminal : Branching(u, r, b)
      BY <1>4, <2>1 DEF PinsKnown
    <3>2. line[r][b] \subseteq line'[r][b]
             /\ (pins[b] = NoPins => line'[r][b] = line[r][b])
      <4> HIDE DEF S
      <4>1. CASE r = s /\ b = h
        BY <1>4, <1>5, <2>1, <4>1 DEF Commits, Head, Branch
      <4>2. CASE r # s \/ b # h
        BY <1>5, <2>1, <4>2
      <4> QED
        BY <4>1, <4>2
    <3> QED
      BY <1>3, <3>1, <3>2 DEF PinKnown
  <2> QED
    BY <1>2, <1>3, <2>1, <2>2 DEF PinsKnown
<1>7. Knows(t)'
  BY <1>2, <1>3, MovesKnow
<1>8. PinsPublished'
  BY <1>3 DEF PinInv, PinsPublished
<1> QED
  BY <1>6, <1>7, <1>8

\* The root pins what it finds at the heads, which are on its own branch.
LEMMA CommitRootPins ==
    ASSUME PlainUse, OneAtATime, PinInv, [Next]_vars, NEW t \in Terminal, Moves(t),
           CommitRoot(t)
    PROVE  /\ \A s \in Sub : PinsKnown(s)'
           /\ Knows(t)'
           /\ PinsPublished'
<1>1. TypeInv /\ TypeOK /\ Knows(t)
  BY DEF PinInv, CheckoutInv, TypeInv
<1>2. /\ pins' = [pins EXCEPT ![rootHead] = ToPin(t)] /\ ~ HookRefuses
      /\ UNCHANGED <<subVars, rootHead, rootOrigin>>
      /\ term[t].cmd = "commit"
  BY DEF CommitRoot, Running
<1>3. UNCHANGED <<line, head, origin>>
         /\ \A s \in Sub : Published(s)' = Published(s) /\ Commits(s)' = Commits(s)
  BY <1>2 DEF subVars, Published, Commits
<1>4. /\ \A u \in Terminal, s \in Sub, b \in Branch : ~ Branching(u, s, b)
      /\ \A s \in Sub : head[s] \in {rootHead, "HEAD"}
  BY NoHalfCheckout
<1>5. ASSUME NEW s \in Sub
      PROVE  PinsKnown(s)'
  <2>1. PinsKnown(s)
    BY DEF PinInv
  <2>2. head[s] = rootHead /\ rootHead \in Branch
    BY <1>1, <1>2, <1>4, <2>1 DEF HookRefuses, PinsKnown, TypeOK
  <2>3. pins'[rootHead] = ToPin(t) /\ \A b \in Branch \ {rootHead} : pins'[b] = pins[b]
    <3> DEFINE p == ToPin(t)
    <3>1. p \in Pins /\ pins' = [pins EXCEPT ![rootHead] = p]
      BY <1>1, <1>2, PinTypes
    <3> HIDE DEF p
    <3>2. pins'[rootHead] = p /\ \A b \in Branch \ {rootHead} : pins'[b] = pins[b]
      BY <1>1, <3>1 DEF TypeOK
    <3> QED
      BY <3>2 DEF p
  <2>4. ToPin(t)[s] \in line[s][rootHead]
    <3>1. ~ term[t].flag
      BY <1>1, <1>2 DEF Knows
    <3>2. Tip(s) \in Commits(s)
      BY <1>1, TipCommit
    <3> QED
      BY <2>2, <3>1, <3>2 DEF ToPin, Commits
  <2>5. ToPin(t) # NoPins
    BY <1>1, PinTypes, PinnedBranch
  <2>6. ASSUME NEW b \in Branch
        PROVE  PinKnown(s, b)'
    <3>1. CASE b = rootHead
      BY <1>3, <2>3, <2>4, <2>5, <3>1 DEF PinKnown
    <3>2. CASE b # rootHead
      BY <1>3, <1>4, <2>1, <2>3, <3>2 DEF PinsKnown, PinKnown
    <3> QED
      BY <3>1, <3>2
  <2>7. head'[s] # "HEAD"
    BY <1>3, <2>2 DEF Branch
  <2> QED
    BY <2>6, <2>7 DEF PinsKnown
<1>6. Knows(t)'
  BY <1>2, <1>3, MovesKnow
<1>7. PinsPublished'
  BY <1>2, <1>3 DEF PinInv, PinsPublished
<1> QED
  BY <1>5, <1>6, <1>7

\* The root goes last: by then every commit it pins is on a remote.
LEMMA PushRootPins ==
    ASSUME PlainUse, OneAtATime, PinInv, [Next]_vars, NEW t \in Terminal, Moves(t),
           PushRoot(t)
    PROVE  /\ \A s \in Sub : PinsKnown(s)'
           /\ Knows(t)'
           /\ PinsPublished'
<1>1. TypeInv /\ TypeOK /\ Knows(t)
  BY DEF PinInv, CheckoutInv, TypeInv
<1>2. /\ \/ rootOrigin' = [rootOrigin EXCEPT ![term[t].meta] = pins[term[t].meta]]
         \/ rootOrigin' = rootOrigin
      /\ UNCHANGED <<subVars, rootHead, pins>>
      /\ term[t].cmd = "push" /\ term[t].todo = {}
  BY DEF PushRoot, Running
<1>3. UNCHANGED <<line, head, origin>>
         /\ \A s \in Sub : Published(s)' = Published(s) /\ Commits(s)' = Commits(s)
  BY <1>2 DEF subVars, Published, Commits
<1>4. \A u \in Terminal, s \in Sub, b \in Branch : ~ Branching(u, s, b)
  BY NoHalfCheckout
<1>5. \A s \in Sub : PinsKnown(s)'
  BY <1>2, <1>3, <1>4, OriginGrows
<1>6. Knows(t)'
  BY <1>2, <1>3, MovesKnow
<1>7. term[t].meta = rootHead /\ rootHead \in Branch
         /\ \A s \in Sub : Pushed(s) /\ head[s] \in {rootHead, "HEAD"}
  BY <1>1, <1>2 DEF Knows, TypeOK
<1>8. ASSUME NEW s \in Sub
      PROVE  pins[rootHead][s] \in Published(s)
  <2>1. PinsKnown(s) /\ pins[rootHead] # NoPins
    BY <1>1, PinnedBranch DEF PinInv
  <2>2. CASE head[s] = "HEAD"
    BY <1>7, <2>1, <2>2 DEF PinsKnown
  <2>3. CASE head[s] # "HEAD"
    <3>1. head[s] = rootHead /\ line[s][rootHead] \subseteq origin[s][rootHead]
      BY <1>7, <2>3 DEF Pushed, Commits
    <3>2. line[s][rootHead] \subseteq Published(s)
      BY <1>7, <3>1 DEF Published
    <3>3. pins[rootHead][s] \in Published(s) \cup line[s][rootHead]
      BY <1>4, <1>7, <2>1 DEF PinsKnown, PinKnown
    <3> QED
      BY <3>2, <3>3
  <2> QED
    BY <2>2, <2>3
<1>9. PinsPublished'
  <2> SUFFICES ASSUME NEW b \in Branch, NEW s \in Sub, rootOrigin'[b] # NoPins
               PROVE  rootOrigin'[b][s] \in Published(s)
    BY <1>3 DEF PinsPublished
  <2>1. rootOrigin'[b] = rootOrigin[b] \/ (b = rootHead /\ rootOrigin'[b] = pins[rootHead])
    BY <1>1, <1>2, <1>7 DEF TypeOK
  <2> QED
    BY <1>8, <2>1 DEF PinInv, PinsPublished
<1> QED
  BY <1>5, <1>6, <1>9

\* In plain use every other step changes no more than the index and the pull requests.
LEMMA PlainSteps ==
    ASSUME PinInv, NEW t \in Terminal, TerminalStep(t)
    PROVE  \/ \E b \in Branch, new \in BOOLEAN : CheckoutRoot(t, b, new)
           \/ \E s \in Sub : CheckoutSub(t, s) \/ CommitSub(t, s) \/ PushSub(t, s)
           \/ CommitRoot(t) \/ PushRoot(t)
           \/ UNCHANGED <<line, head, origin, rootHead, pins, rootOrigin>>
<1>1. term[t].cmd \notin {"sync", "rebase"}
  BY DEF PinInv, Knows
<1>2. ~ SyncAlign(t) /\ \A s \in Sub : ~ (SyncSub(t, s) \/ RebaseSub(t, s) \/ RebaseFails(t, s))
  BY <1>1 DEF SyncAlign, SyncSub, RebaseSub, RebaseFails, Running
<1>3. QuietStep(t) => UNCHANGED <<line, head, origin, rootHead, pins, rootOrigin>>
  BY QuietSteps DEF subVars, rootVars
<1>4. CommitAdd(t) \/ CommitRootFails(t) =>
         UNCHANGED <<line, head, origin, rootHead, pins, rootOrigin>>
  BY DEF CommitAdd, CommitRootFails, subVars
<1> QED
  BY <1>2, <1>3, <1>4, TerminalSteps

LEMMA PinStep ==
    ASSUME PlainUse, OneAtATime, PinInv, [Next]_vars
    PROVE  PinInv'
<1>1. TypeInv /\ TypeOK /\ CheckoutInv'
  <2>1. CheckoutInv
    BY DEF PinInv
  <2> QED
    BY <2>1, StepTypes, CheckoutStep DEF CheckoutInv, TypeInv
<1>2. ASSUME NEW t \in Terminal, TerminalStep(t)
      PROVE  PinInv'
  <2>1. Knows(t)' => \A u \in Terminal : Knows(u)'
    BY DEF OneAtATime
  <2>2. SUFFICES (\A s \in Sub : PinsKnown(s)') /\ Knows(t)' /\ PinsPublished'
    BY <1>1, <2>1 DEF PinInv
  <2>3. ASSUME NEW b \in Branch, NEW new \in BOOLEAN, CheckoutRoot(t, b, new)
        PROVE  (\A s \in Sub : PinsKnown(s)') /\ Knows(t)' /\ PinsPublished'
    BY <2>3, CheckoutRootPins
  <2>4. ASSUME NEW r \in Sub, CheckoutSub(t, r)
        PROVE  (\A s \in Sub : PinsKnown(s)') /\ Knows(t)' /\ PinsPublished'
    BY <2>4, CheckoutSubPins
  <2>5. ASSUME NEW r \in Sub, PushSub(t, r)
        PROVE  (\A s \in Sub : PinsKnown(s)') /\ Knows(t)' /\ PinsPublished'
    BY <2>5, PushSubPins
  <2>6. CASE Moves(t)
    <3>1. ASSUME NEW r \in Sub, CommitSub(t, r)
          PROVE  (\A s \in Sub : PinsKnown(s)') /\ Knows(t)' /\ PinsPublished'
      BY <2>6, <3>1, CommitSubPins
    <3>2. CASE CommitRoot(t)
      BY <2>6, <3>2, CommitRootPins
    <3>3. CASE PushRoot(t)
      BY <2>6, <3>3, PushRootPins
    <3>4. CASE UNCHANGED <<line, head, origin, rootHead, pins, rootOrigin>>
      <4>1. \A s \in Sub : Published(s)' = Published(s) /\ Commits(s)' = Commits(s)
        BY <3>4 DEF Published, Commits
      <4>2. Knows(t)'
        BY <2>6, <3>4, <4>1, MovesKnow
      <4>3. \A s \in Sub : PinsKnown(s)'
        BY <2>6, <3>4, <4>1, NoHalfCheckout, OriginGrows
      <4>4. PinsPublished'
        BY <3>4, <4>1, PublishedKept
      <4> QED
        BY <4>2, <4>3, <4>4
    <3> QED
      BY <1>2, <2>3, <2>4, <2>5, <3>1, <3>2, <3>3, <3>4, PlainSteps
  <2> QED
    BY <1>1, <1>2, <2>3, <2>4, <2>5, <2>6, Movement
<1>3. CASE UNCHANGED <<line, head, rootHead, pins, rootOrigin, term>>
  <2>1. \A s \in Sub : /\ \A b \in Branch : origin[s][b] \subseteq origin'[s][b]
                       /\ Published(s) \subseteq Published(s)'
    BY <1>1, PublishedGrows
  <2>2. \A u \in Terminal, s \in Sub, b \in Branch : Branching(u, s, b) => Branching(u, s, b)'
    BY <1>3 DEF Branching
  <2>3. \A s \in Sub : PinsKnown(s)'
    BY <1>3, <2>1, <2>2, OriginGrows
  <2>4. PinsPublished'
    BY <1>3, <2>1, PublishedKept
  <2>5. ASSUME NEW s \in Sub, Pushed(s)
        PROVE  Pushed(s)'
    <3>1. head[s] # "HEAD" => head[s] \in Branch
      BY <1>1 DEF TypeOK, Head
    <3>2. Commits(s)' = Commits(s)
      BY <1>3 DEF Commits
    <3> QED
      BY <1>3, <2>1, <2>5, <3>1, <3>2 DEF Pushed
  <2>6. \A t \in Terminal : Knows(t)'
    BY <1>3, <2>5 DEF PinInv, Knows, Idle
  <2> QED
    BY <1>1, <2>3, <2>4, <2>6 DEF PinInv
<1> QED
  BY <1>2, <1>3, NextSteps DEF Edit, ColleaguePushes, vars, subVars, rootVars

\* PushBottomUp pushes the submodules before the root, and stops at the first that is
\* refused: in plain use no branch of the root's remote ever pins a commit that no
\* remote has, whatever else is refused or interrupted and whatever colleagues push.
THEOREM PushesPublishPins ==
    ASSUME PlainUse, OneAtATime
    PROVE  Spec => []PinsPublished
<1>1. Init => PinInv
  BY PinInit
<1>2. PinInv /\ [Next]_vars => PinInv'
  BY PinStep
<1>3. PinInv => PinsPublished
  BY DEF PinInv
<1> QED
  BY <1>1, <1>2, <1>3, PTL DEF Spec
================================================================================
