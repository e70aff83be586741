------------------------------ MODULE SetupProofs ------------------------------
(***************************************************************************)
(* Theorems about what sets a repository up: its settings, its webhooks,   *)
(* the tokens of its owner, and the rows its events reach.                 *)
(***************************************************************************)
EXTENDS TrackedRepos, Onboarding, GitLabTokens, EventRouting, FiniteSetTheorems,
        FunctionTheorems, TLAPS

--------------------------------------------------------------------------------
(* TrackedRepos: types.                                                    *)

\* The settings that result from some others and those a command was given.
With(wants, policy) ==
    [k \in Setting |-> IF k \in DOMAIN wants THEN wants[k] ELSE policy[k]]

LEMMA NoReqType ==
    NoReq \in Req /\ NoReq.pc = "idle" /\ NoReq.provider = GitHub
<1>1. [k \in {} |-> Inserted[k]] \in [{} -> Value] /\ {} \in SUBSET Setting
  OBVIOUS
<1>2. [k \in {} |-> Inserted[k]] \in UNION {[S -> Value] : S \in SUBSET Setting}
  BY <1>1
<1> DEFINE w == [k \in {} |-> Inserted[k]]
<1>3. NoReq = [pc |-> "idle", policy |-> Inserted, token |-> NoToken,
               provider |-> GitHub, wants |-> w]
  BY DEF NoReq
<1>4. w \in UNION {[S -> Value] : S \in SUBSET Setting}
  BY <1>2
<1> HIDE DEF w
<1> QED
  BY <1>3, <1>4, SettingAssumption, ProviderAssumption DEF Req, RepoToken

\* What the subcommands of config post: the settings that were read, with those
\* that were asked for.
Posts(l) == l \in Req /\ l.pc = "post" /\ l.policy = With(l.wants, repoRow.policy)

LEMMA RequestPosts ==
    ASSUME RepoTypeOK, NEW k \in Setting, NEW v \in Value
    PROVE  Posts(Request(k, v))
<1> DEFINE p == [repoRow.policy EXCEPT ![k] = v]
           w == [x \in {k} |-> v]
           l == Request(k, v)
<1>1. repoRow.policy \in [Setting -> Value] /\ repoRow.provider \in Provider
  BY DEF RepoTypeOK, RepoRow
<1>2. p \in [Setting -> Value] /\ w \in UNION {[S -> Value] : S \in SUBSET Setting}
  <2>1. w \in [{k} -> Value] /\ {k} \in SUBSET Setting
    OBVIOUS
  <2> QED
    BY <1>1, <2>1
<1>3. p = With(w, repoRow.policy)
  BY <1>1 DEF With
<1>4. l = [NoReq EXCEPT !.pc = "post", !.policy = p, !.provider = repoRow.provider,
                        !.wants = w]
  BY DEF Request
<1> HIDE DEF p, w, l
<1>5. l \in Req /\ l.pc = "post" /\ l.policy = p /\ l.wants = w
  BY <1>1, <1>2, <1>4, NoReqType DEF Req
<1> QED
  BY <1>3, <1>5 DEF Posts, l

LEMMA UnchangedPosts ==
    ASSUME RepoTypeOK
    PROVE  /\ Posts(Unchanged)
           /\ Posts([Unchanged EXCEPT !.token = StaticToken])
           /\ \A p \in Provider : Posts([Unchanged EXCEPT !.provider = p])
<1> DEFINE w == [k \in {} |-> Inserted[k]]
           u == Unchanged
<1>1. repoRow.policy \in [Setting -> Value] /\ repoRow.provider \in Provider
  BY DEF RepoTypeOK, RepoRow
<1>2. With(w, repoRow.policy) = repoRow.policy
  BY <1>1 DEF With
<1>3. NoReq.wants = w
  BY DEF NoReq
<1>4. u = [NoReq EXCEPT !.pc = "post", !.policy = repoRow.policy, !.provider = repoRow.provider]
  BY DEF Unchanged
<1> HIDE DEF w, u
<1>5. u \in Req /\ u.pc = "post" /\ u.policy = repoRow.policy /\ u.wants = w
  BY <1>1, <1>3, <1>4, NoReqType DEF Req
<1>6. Posts(u)
  BY <1>2, <1>5 DEF Posts
<1>7. ASSUME NEW l, l = [u EXCEPT !.token = StaticToken]
      PROVE  Posts(l)
  <2>1. l \in Req /\ l.pc = "post" /\ l.policy = repoRow.policy /\ l.wants = w
    BY <1>5, <1>7 DEF Req, RepoToken
  <2> QED
    BY <1>2, <2>1 DEF Posts
<1>8. ASSUME NEW p \in Provider, NEW l, l = [u EXCEPT !.provider = p]
      PROVE  Posts(l)
  <2>1. l \in Req /\ l.pc = "post" /\ l.policy = repoRow.policy /\ l.wants = w
    BY <1>5, <1>8 DEF Req
  <2> QED
    BY <1>2, <2>1 DEF Posts
<1> QED
  BY <1>6, <1>7, <1>8 DEF u

\* A command that has read the settings posts them with what it was given.
LEMMA GetPosts ==
    ASSUME RepoTypeOK, NEW c \in Configs, GetSettings(c)
    PROVE  \E l : Posts(l) /\ ReqBecomes(c, l)
<1>1. SetKey(c) => \E k \in Setting, v \in Value : ReqBecomes(c, Request(k, v))
  BY DEF SetKey
<1>2. UnsetKey(c) => \E k \in Setting : ReqBecomes(c, Request(k, Unset[k])) /\ Unset[k] \in Value
  BY SettingAssumption DEF UnsetKey
<1>3. SetToken(c) => ReqBecomes(c, [Unchanged EXCEPT !.token = StaticToken])
  BY DEF SetToken
<1>4. UnsetToken(c) => ReqBecomes(c, Unchanged)
  BY DEF UnsetToken
<1>5. SetProvider(c) => \E p \in Provider : ReqBecomes(c, [Unchanged EXCEPT !.provider = p])
  BY DEF SetProvider
<1> QED
  BY <1>1, <1>2, <1>3, <1>4, <1>5, RequestPosts, UnchangedPosts DEF GetSettings

LEMMA ReqSet ==
    ASSUME RepoTypeOK, NEW c \in RepoClient, NEW l, ReqBecomes(c, l)
    PROVE  /\ req'[c] = l
           /\ \A d \in RepoClient \ {c} : req'[d] = req[d]
           /\ l \in Req => req' \in [RepoClient -> Req]
BY DEF RepoTypeOK, ReqBecomes

\* What each write leaves of the row.
LEMMA RowPosted ==
    ASSUME RepoTypeOK, NEW c \in Configs, PostSettings(c)
    PROVE  /\ repoRow' \in RepoRow
           /\ repoRow'.policy = req[c].policy
           /\ repoRow'.tracked = repoRow.tracked /\ repoRow'.inst = repoRow.inst
<1> DEFINE p == req[c].policy
           tk == IF req[c].token = NoToken THEN repoRow.token ELSE req[c].token
           pr == req[c].provider
<1>1. repoRow \in RepoRow /\ req[c] \in Req
  BY DEF RepoTypeOK, RepoClient
<1>2. p \in [Setting -> Value] /\ tk \in RepoToken /\ pr \in Provider
  BY <1>1 DEF Req, RepoRow
<1>3. repoRow' = [repoRow EXCEPT !.policy = p, !.token = tk, !.provider = pr]
  BY <1>1 DEF PostSettings, RepoRow
<1> HIDE DEF p, tk, pr
<1>4. repoRow' \in RepoRow /\ repoRow'.policy = p
         /\ repoRow'.tracked = repoRow.tracked /\ repoRow'.inst = repoRow.inst
  BY <1>1, <1>2, <1>3 DEF RepoRow
<1> QED
  BY <1>4 DEF p

LEMMA RowTracked ==
    ASSUME RepoTypeOK, NEW token \in RepoToken, NEW p \in Provider, NEW inst \in BOOLEAN,
           CreateTrackedRepo(token, p, inst)
    PROVE  /\ repoRow' \in RepoRow
           /\ repoRow'.tracked /\ repoRow'.inst = inst
           /\ repoRow'.policy = repoRow.policy
<1>1. repoRow \in RepoRow
  BY DEF RepoTypeOK
<1> QED
  BY <1>1 DEF CreateTrackedRepo, RepoRow

LEMMA TrackLocals ==
    ASSUME NEW token \in RepoToken, NEW p \in Provider, NEW l,
           l = [NoReq EXCEPT !.pc = "access", !.token = token, !.provider = p]
    PROVE  l \in Req /\ l.pc = "access"
BY NoReqType DEF Req

LEMMA UpdateLocals ==
    ASSUME NEW l, l = [NoReq EXCEPT !.pc = "update"]
    PROVE  l \in Req /\ l.pc = "update"
BY NoReqType DEF Req

\* Every step moves one client; what it does to the row and to its own locals.
RepoMoves(c) ==
    \/ /\ c \in Configs /\ repoRow.tracked
       /\ \E l : Posts(l) /\ ReqBecomes(c, l)
       /\ UNCHANGED <<repoRow, asked>>
    \/ c \in Configs /\ PostSettings(c)
    \/ c \in RepoClient /\ ReqBecomes(c, NoReq) /\ UNCHANGED <<repoRow, asked>>
          /\ (c \in Inits => ~ appAnswers)
    \/ /\ c \in Inits /\ UNCHANGED asked
       /\ \E token \in RepoToken, p \in Provider :
             \/ /\ CreateTrackedRepo(token, p, FALSE)
                /\ ReqBecomes(c, [NoReq EXCEPT !.pc = "access", !.token = token, !.provider = p])
             \/ CreateTrackedRepo(token, p, TRUE) /\ ReqBecomes(c, NoReq)
    \/ /\ c \in Webhooks /\ repoRow.tracked /\ UNCHANGED <<repoRow, asked>>
       /\ ReqBecomes(c, [NoReq EXCEPT !.pc = "update"])
    \/ /\ c \in Webhooks /\ repoRow.tracked /\ UNCHANGED asked
       /\ repoRow' \in {repoRow, [repoRow EXCEPT !.inst = TRUE]}
       /\ ReqBecomes(c, NoReq)

LEMMA RepoSteps ==
    ASSUME RepoTypeOK, RepoNext
    PROVE  appAnswers' = appAnswers /\ \E c \in RepoClient : RepoMoves(c)
<1>1. ASSUME NEW c \in Configs, GetSettings(c) \/ PostSettings(c) \/ PostFails(c)
      PROVE  RepoMoves(c)
  <2>1. CASE GetSettings(c)
    <3>1. repoRow.tracked /\ UNCHANGED <<repoRow, asked>>
      BY <2>1 DEF GetSettings
    <3>2. \E l : Posts(l) /\ ReqBecomes(c, l)
      BY <2>1, GetPosts
    <3> QED
      BY <3>1, <3>2 DEF RepoMoves
  <2>2. CASE PostSettings(c)
    BY <2>2 DEF RepoMoves
  <2>3. CASE PostFails(c)
    <3>1. ReqBecomes(c, NoReq) /\ UNCHANGED <<repoRow, asked>>
      BY <2>3 DEF PostFails
    <3>2. c \in RepoClient /\ c \notin Inits
      BY ClientAssumption DEF RepoClient
    <3> QED
      BY <3>1, <3>2 DEF RepoMoves
  <2> QED
    BY <1>1, <2>1, <2>2, <2>3
<1>2. ASSUME NEW c \in Inits, TrackRepo(c) \/ AppHasAccess(c) \/ AppUnknown(c)
      PROVE  RepoMoves(c)
  <2>1. req[c] \in Req /\ c \in RepoClient
    BY DEF RepoTypeOK, RepoClient
  <2>2. CASE TrackRepo(c)
    <3>1. PICK token \in {NoToken, UserToken}, p \in Provider :
             /\ CreateTrackedRepo(token, p, FALSE)
             /\ ReqBecomes(c, [NoReq EXCEPT !.pc = "access", !.token = token, !.provider = p])
      BY <2>2 DEF TrackRepo
    <3>2. token \in RepoToken /\ UNCHANGED asked
      BY <2>2 DEF TrackRepo, RepoToken
    <3> QED
      BY <3>1, <3>2 DEF RepoMoves
  <2>3. CASE AppHasAccess(c)
    <3>1. /\ CreateTrackedRepo(req[c].token, req[c].provider, TRUE)
          /\ ReqBecomes(c, NoReq) /\ UNCHANGED asked
      BY <2>3 DEF AppHasAccess
    <3>2. req[c].token \in RepoToken /\ req[c].provider \in Provider
      BY <2>1 DEF Req
    <3> QED
      BY <3>1, <3>2 DEF RepoMoves
  <2>4. CASE AppUnknown(c)
    <3>1. ReqBecomes(c, NoReq) /\ UNCHANGED <<repoRow, asked>> /\ ~ appAnswers
      BY <2>4 DEF AppUnknown
    <3> QED
      BY <2>1, <3>1 DEF RepoMoves
  <2> QED
    BY <1>2, <2>2, <2>3, <2>4
<1>3. ASSUME NEW c \in Webhooks, ReadTracked(c) \/ SetInstallation(c)
      PROVE  RepoMoves(c)
  <2>1. CASE ReadTracked(c)
    <3>1. /\ repoRow.tracked /\ UNCHANGED <<repoRow, asked>>
          /\ ReqBecomes(c, [NoReq EXCEPT !.pc = "update"])
      BY <2>1 DEF ReadTracked
    <3> QED
      BY <3>1 DEF RepoMoves
  <2>2. CASE SetInstallation(c)
    <3>1. /\ repoRow' \in {repoRow, [repoRow EXCEPT !.inst = TRUE]}
          /\ ReqBecomes(c, NoReq) /\ UNCHANGED asked
      BY <2>2 DEF SetInstallation
    <3>2. repoRow.tracked
      <4>1. req[c].pc # "idle"
        BY <2>2 DEF SetInstallation
      <4> QED
        BY <4>1 DEF RepoTypeOK
    <3> QED
      BY <3>1, <3>2 DEF RepoMoves
  <2> QED
    BY <1>3, <2>1, <2>2
<1> QED
  BY <1>1, <1>2, <1>3 DEF RepoNext, RepoClient

\* The facts each of these comes down to.
LEMMA RepoEffects ==
    ASSUME RepoTypeOK, NEW c \in RepoClient, RepoMoves(c)
    PROVE  /\ repoRow' \in RepoRow
           /\ req' \in [RepoClient -> Req]
           /\ \A d \in RepoClient \ {c} : req'[d] = req[d]
           /\ repoRow.tracked => repoRow'.tracked
           /\ repoRow'.inst => repoRow.inst \/ repoRow'.tracked
           /\ c \in Configs \cup Webhooks =>
                 /\ repoRow.tracked \/ req'[c].pc = "idle"
                 /\ repoRow'.tracked = repoRow.tracked
                 /\ repoRow.inst => repoRow'.inst
           /\ c \in Inits => \/ req'[c].pc = "access"
                             \/ repoRow'.inst
                             \/ ~ appAnswers
           /\ \/ PostSettings(c) /\ c \in Configs /\ req'[c].pc = "idle"
              \/ /\ repoRow'.policy = repoRow.policy /\ asked' = asked
                 /\ c \in Configs /\ req'[c].pc = "post" => Posts(req'[c])
<1> DEFINE Conclusion ==
           /\ repoRow' \in RepoRow
           /\ req' \in [RepoClient -> Req]
           /\ \A d \in RepoClient \ {c} : req'[d] = req[d]
           /\ repoRow.tracked => repoRow'.tracked
           /\ repoRow'.inst => repoRow.inst \/ repoRow'.tracked
           /\ c \in Configs \cup Webhooks =>
                 /\ repoRow.tracked \/ req'[c].pc = "idle"
                 /\ repoRow'.tracked = repoRow.tracked
                 /\ repoRow.inst => repoRow'.inst
           /\ c \in Inits => \/ req'[c].pc = "access"
                             \/ repoRow'.inst
                             \/ ~ appAnswers
           /\ \/ PostSettings(c) /\ c \in Configs /\ req'[c].pc = "idle"
              \/ /\ repoRow'.policy = repoRow.policy /\ asked' = asked
                 /\ c \in Configs /\ req'[c].pc = "post" => Posts(req'[c])
<1>1. repoRow \in RepoRow /\ NoReq \in Req /\ NoReq.pc = "idle"
  BY NoReqType DEF RepoTypeOK
<1>2. /\ c \in Configs => c \notin Inits /\ c \notin Webhooks
      /\ c \in Inits => c \notin Webhooks
  BY ClientAssumption
<1>3. ASSUME NEW l, Posts(l), ReqBecomes(c, l), c \in Configs, repoRow.tracked,
             UNCHANGED <<repoRow, asked>>
      PROVE  Conclusion
  <2>1. l \in Req
    BY <1>3 DEF Posts
  <2> QED
    BY <1>1, <1>2, <1>3, <2>1, ReqSet
<1>4. ASSUME PostSettings(c), c \in Configs
      PROVE  Conclusion
  <2>1. ReqBecomes(c, NoReq)
    BY <1>4 DEF PostSettings
  <2>2. repoRow.tracked \in BOOLEAN /\ req[c].pc = "post"
    BY <1>1, <1>4 DEF PostSettings, RepoRow
  <2> QED
    BY <1>1, <1>2, <1>4, <2>1, <2>2, ReqSet, RowPosted DEF RepoTypeOK
<1>5. ASSUME ReqBecomes(c, NoReq), UNCHANGED <<repoRow, asked>>, c \in Inits => ~ appAnswers
      PROVE  Conclusion
  BY <1>1, <1>2, <1>5, ReqSet
<1>6. ASSUME NEW token \in RepoToken, NEW p \in Provider, CreateTrackedRepo(token, p, FALSE),
             ReqBecomes(c, [NoReq EXCEPT !.pc = "access", !.token = token, !.provider = p]),
             c \in Inits, UNCHANGED asked
      PROVE  Conclusion
  <2> DEFINE l == [NoReq EXCEPT !.pc = "access", !.token = token, !.provider = p]
  <2>1. l \in Req /\ l.pc = "access"
    BY TrackLocals
  <2>2. ReqBecomes(c, l)
    BY <1>6
  <2> HIDE DEF l
  <2>3. req'[c] = l /\ req' \in [RepoClient -> Req]
           /\ \A d \in RepoClient \ {c} : req'[d] = req[d]
    BY <2>1, <2>2, ReqSet
  <2>4. repoRow' \in RepoRow /\ repoRow'.tracked /\ repoRow'.policy = repoRow.policy
    BY <1>6, RowTracked
  <2> QED
    BY <1>2, <1>6, <2>1, <2>3, <2>4
<1>7. ASSUME NEW token \in RepoToken, NEW p \in Provider, CreateTrackedRepo(token, p, TRUE),
             ReqBecomes(c, NoReq), c \in Inits, UNCHANGED asked
      PROVE  Conclusion
  <2>1. req'[c] = NoReq /\ req' \in [RepoClient -> Req]
           /\ \A d \in RepoClient \ {c} : req'[d] = req[d]
    BY <1>1, <1>7, ReqSet
  <2>2. repoRow' \in RepoRow /\ repoRow'.tracked /\ repoRow'.inst
           /\ repoRow'.policy = repoRow.policy
    BY <1>7, RowTracked
  <2> QED
    BY <1>2, <1>7, <2>1, <2>2
<1>8. ASSUME ReqBecomes(c, [NoReq EXCEPT !.pc = "update"]), c \in Webhooks, repoRow.tracked,
             UNCHANGED <<repoRow, asked>>
      PROVE  Conclusion
  <2> DEFINE l == [NoReq EXCEPT !.pc = "update"]
  <2>1. l \in Req
    BY UpdateLocals
  <2>2. ReqBecomes(c, l)
    BY <1>8
  <2> HIDE DEF l
  <2> QED
    BY <1>1, <1>2, <1>8, <2>1, <2>2, ReqSet
<1>9. ASSUME ReqBecomes(c, NoReq), c \in Webhooks, repoRow.tracked, UNCHANGED asked,
             repoRow' \in {repoRow, [repoRow EXCEPT !.inst = TRUE]}
      PROVE  Conclusion
  <2>1. repoRow' \in RepoRow /\ repoRow'.policy = repoRow.policy
           /\ repoRow'.tracked = repoRow.tracked /\ (repoRow.inst => repoRow'.inst)
    BY <1>1, <1>9 DEF RepoRow
  <2> QED
    BY <1>1, <1>2, <1>9, <2>1, ReqSet
<1> HIDE DEF Conclusion
<1>10. Conclusion
  BY <1>3, <1>4, <1>5, <1>6, <1>7, <1>8, <1>9 DEF RepoMoves
<1> QED
  BY <1>10 DEF Conclusion

LEMMA RepoTypes ==
    ASSUME RepoTypeOK, [RepoNext]_repoVars
    PROVE  RepoTypeOK'
<1>1. CASE UNCHANGED repoVars
  BY <1>1 DEF RepoTypeOK, repoVars
<1>2. CASE RepoNext
  <2>1. appAnswers' \in BOOLEAN
    BY <1>2, RepoSteps DEF RepoTypeOK
  <2>2. PICK c \in RepoClient : RepoMoves(c)
    BY <1>2, RepoSteps
  <2>3. asked' \in [Setting -> Value]
    <3>1. CASE PostSettings(c) /\ c \in Configs
      <4> DEFINE w == req[c].wants
      <4>1. w \in UNION {[S -> Value] : S \in SUBSET Setting}
        BY DEF RepoTypeOK, Req
      <4>2. \A k \in DOMAIN w : w[k] \in Value
        BY <4>1
      <4>3. asked' = AfterRequest(w)
        BY <3>1 DEF PostSettings
      <4> HIDE DEF w
      <4> QED
        BY <4>2, <4>3 DEF AfterRequest, RepoTypeOK
    <3>2. CASE asked' = asked
      BY <3>2 DEF RepoTypeOK
    <3> QED
      BY <2>2, <3>1, <3>2, RepoEffects
  <2>4. repoRow' \in RepoRow /\ req' \in [RepoClient -> Req]
    BY <2>2, RepoEffects
  <2>5. repoRow'.inst => repoRow'.tracked
    BY <2>2, RepoEffects DEF RepoTypeOK
  <2>6. ~ repoRow'.tracked => \A d \in Configs \cup Webhooks : req'[d].pc = "idle"
    <3> SUFFICES ASSUME ~ repoRow'.tracked, NEW d \in Configs \cup Webhooks
                 PROVE  req'[d].pc = "idle"
      OBVIOUS
    <3>1. ~ repoRow.tracked /\ req[d].pc = "idle" /\ d \in RepoClient
      BY <2>2, RepoEffects DEF RepoTypeOK, RepoClient
    <3> QED
      BY <2>2, <3>1, RepoEffects
  <2> QED
    BY <2>1, <2>3, <2>4, <2>5, <2>6 DEF RepoTypeOK
<1> QED
  BY <1>1, <1>2

LEMMA RepoInitTypes == RepoInit => RepoTypeOK
<1> SUFFICES ASSUME RepoInit PROVE RepoTypeOK
  OBVIOUS
<1>1. repoRow \in RepoRow /\ ~ repoRow.inst
  BY SettingAssumption, ProviderAssumption DEF RepoInit, RepoRow, RepoToken
<1>2. req \in [RepoClient -> Req] /\ \A c \in RepoClient : req[c].pc = "idle"
  BY NoReqType DEF RepoInit
<1> QED
  BY <1>1, <1>2, SettingAssumption DEF RepoInit, RepoTypeOK, RepoClient

\* The row and the locals of its clients are typed, and nobody configures a
\* repository that is not tracked.
THEOREM RepoTypeCorrect == RepoSpec => []RepoTypeOK
<1> QED
  BY RepoInitTypes, RepoTypes, PTL DEF RepoSpec

--------------------------------------------------------------------------------
(* TrackedRepos: the settings and the installation.                        *)

\* The settings are those that were asked for; what a command is about to post are
\* those with its own.
SettingsInv ==
    /\ RepoTypeOK
    /\ SettingsKept
    /\ \A c \in Configs : req[c].pc = "post" => req[c].policy = With(req[c].wants, asked)

\* config reads all the settings and posts them all back; init and the webhooks
\* write the row in between.  When commands of config do not overlap each setting
\* has the value it was last given.
THEOREM SettingsAreKept ==
    ASSUME \A c, d \in Configs : c = d
    PROVE  RepoSpec => []SettingsKept
<1>1. RepoInit => SettingsInv
  <2> SUFFICES ASSUME RepoInit PROVE SettingsInv
    OBVIOUS
  <2>1. repoRow.policy = asked
    BY DEF RepoInit
  <2>2. \A c \in Configs : req[c].pc = "idle"
    BY NoReqType DEF RepoInit, RepoClient
  <2> QED
    BY <2>1, <2>2, RepoInitTypes DEF SettingsInv, SettingsKept
<1>2. ASSUME SettingsInv, RepoNext
      PROVE  SettingsInv'
  <2>1. RepoTypeOK /\ RepoTypeOK' /\ repoRow.policy = asked
    BY <1>2, RepoTypes DEF SettingsInv, SettingsKept
  <2>2. PICK c \in RepoClient : RepoMoves(c)
    BY <1>2, <2>1, RepoSteps
  <2>3. CASE PostSettings(c) /\ c \in Configs /\ req'[c].pc = "idle"
    <3>1. repoRow'.policy = req[c].policy
      BY <2>1, <2>3, RowPosted
    <3>2. asked' = With(req[c].wants, asked) /\ req[c].pc = "post"
      BY <2>3 DEF PostSettings, AfterRequest, With
    <3>3. SettingsKept'
      BY <1>2, <2>3, <3>1, <3>2 DEF SettingsInv, SettingsKept
    <3> QED
      BY <2>1, <2>3, <3>3 DEF SettingsInv
  <2>4. CASE /\ repoRow'.policy = repoRow.policy /\ asked' = asked
             /\ c \in Configs /\ req'[c].pc = "post" => Posts(req'[c])
    <3>1. \A d \in Configs : req'[d].pc = "post" =>
                 req'[d].policy = With(req'[d].wants, asked)
      <4> SUFFICES ASSUME NEW d \in Configs, req'[d].pc = "post"
                   PROVE  req'[d].policy = With(req'[d].wants, asked)
        OBVIOUS
      <4>1. CASE d = c
        BY <2>1, <2>4, <4>1 DEF Posts
      <4>2. CASE d # c
        <5>1. req'[d] = req[d]
          BY <2>1, <2>2, <4>2, RepoEffects DEF RepoClient
        <5> QED
          BY <1>2, <5>1 DEF SettingsInv
      <4> QED
        BY <4>1, <4>2
    <3>2. \A d \in Configs : req'[d].pc = "post" =>
                 req'[d].policy = With(req'[d].wants, asked')
      BY <2>4, <3>1
    <3>3. SettingsKept'
      BY <2>1, <2>4 DEF SettingsKept
    <3> QED
      BY <2>1, <3>2, <3>3 DEF SettingsInv, With
  <2> QED
    BY <2>1, <2>2, <2>3, <2>4, RepoEffects
<1>3. ASSUME SettingsInv, UNCHANGED repoVars
      PROVE  SettingsInv'
  BY <1>3, RepoTypes DEF SettingsInv, SettingsKept, With, repoVars
<1>4. SettingsInv => SettingsKept
  BY DEF SettingsInv
<1> QED
  BY <1>1, <1>2, <1>3, <1>4, PTL DEF RepoSpec

\* handleTrackRepo first writes the row without its installation, then asks the host
\* and writes it again: with an App that is there, whatever the number of requests
\* and webhooks, a row without its installation is one that a request completes.
THEOREM InstallationIsKnown == RepoSpec => []InstallationKnown
<1>1. RepoInit => InstallationKnown
  BY DEF RepoInit, InstallationKnown
<1>2. ASSUME RepoTypeOK, RepoNext, InstallationKnown
      PROVE  InstallationKnown'
  <2>1. appAnswers' = appAnswers
    BY <1>2, RepoSteps
  <2>2. PICK c \in RepoClient : RepoMoves(c)
    BY <1>2, RepoSteps
  <2>3. SUFFICES ASSUME appAnswers, repoRow'.tracked, ~ repoRow'.inst
                 PROVE  \E d \in Inits : req'[d].pc = "access"
    BY <2>1 DEF InstallationKnown
  <2>4. CASE c \in Inits
    BY <1>2, <2>2, <2>3, <2>4, RepoEffects
  <2>5. CASE c \in Configs \cup Webhooks
    <3>1. repoRow.tracked /\ ~ repoRow.inst
      BY <1>2, <2>2, <2>3, <2>5, RepoEffects
    <3>2. PICK d \in Inits : req[d].pc = "access"
      BY <1>2, <2>3, <3>1 DEF InstallationKnown
    <3>3. d \in RepoClient \ {c}
      BY <2>5, ClientAssumption DEF RepoClient
    <3> QED
      BY <1>2, <2>2, <3>2, <3>3, RepoEffects
  <2> QED
    BY <2>4, <2>5 DEF RepoClient
<1>3. ASSUME InstallationKnown, UNCHANGED repoVars
      PROVE  InstallationKnown'
  BY <1>3 DEF InstallationKnown, repoVars
<1> QED
  BY <1>1, <1>2, <1>3, RepoTypeCorrect, PTL DEF RepoSpec

--------------------------------------------------------------------------------
(* Onboarding: types.                                                      *)

CommandPC == {"idle", "subs", "scripts", "webhooks", "root", "children", "agents"}

LEMMA CommandToLocals ==
    ASSUME SetupTypeOK, NEW m \in Meta, NEW pc \in CommandPC, NEW todo \in SUBSET HookRepo,
           CommandTo(m, pc, todo)
    PROVE  /\ command' \in [Meta -> CommandState]
           /\ \A n \in Meta \ {m} : command'[n] = command[n]
           /\ command'[m].pc = pc /\ command'[m].todo = todo
           /\ command'[m].cmd = command[m].cmd /\ command'[m].secret = command[m].secret
           /\ command'[m].said = command[m].said
<1>1. command \in [Meta -> CommandState] /\ command[m] \in CommandState
  BY DEF SetupTypeOK
<1> DEFINE l == [command[m] EXCEPT !.pc = pc, !.todo = todo]
<1>2. command' = [command EXCEPT ![m] = l]
  BY <1>1 DEF CommandTo, CommandState
<1>3. /\ l \in CommandState
      /\ l.pc = pc /\ l.todo = todo
      /\ l.cmd = command[m].cmd /\ l.secret = command[m].secret /\ l.said = command[m].said
  BY <1>1 DEF CommandState, CommandPC
<1> HIDE DEF l
<1> QED
  BY <1>1, <1>2, <1>3

LEMMA SayLocals ==
    ASSUME SetupTypeOK, NEW m \in Meta, NEW said \in {"failed", "done"}, Say(m, said)
    PROVE  /\ command' \in [Meta -> CommandState]
           /\ \A n \in Meta \ {m} : command'[n] = command[n]
           /\ command'[m].pc = "idle" /\ command'[m].todo = {}
           /\ command'[m].cmd = command[m].cmd
           /\ command'[m].said = said
<1>1. command \in [Meta -> CommandState] /\ command[m] \in CommandState
  BY DEF SetupTypeOK
<1> DEFINE l == [command[m] EXCEPT !.pc = "idle", !.todo = {}, !.said = said]
<1>2. command' = [command EXCEPT ![m] = l]
  BY <1>1 DEF Say, CommandState
<1>3. /\ l \in CommandState
      /\ l.pc = "idle" /\ l.todo = {} /\ l.cmd = command[m].cmd /\ l.said = said
  BY <1>1 DEF CommandState
<1> HIDE DEF l
<1> QED
  BY <1>1, <1>2, <1>3

LEMMA CommandSet ==
    ASSUME SetupTypeOK, NEW m \in Meta, NEW l, command' = [command EXCEPT ![m] = l]
    PROVE  /\ command'[m] = l
           /\ \A n \in Meta \ {m} : command'[n] = command[n]
           /\ l \in CommandState => command' \in [Meta -> CommandState]
BY DEF SetupTypeOK

LEMMA NoCommandType ==
    NoCommand \in CommandState /\ NoCommand.pc = "idle" /\ NoCommand.todo = {}
       /\ NoCommand.cmd = "init" /\ NoCommand.said = "nothing"
BY DEF NoCommand, CommandState, Secret

LEMMA OwnSubmodules ==
    ASSUME NEW m \in Meta
    PROVE  Submodules[m] \in SUBSET HookRepo /\ m \in HookRepo /\ m \in Secret
BY DEF HookRepo, Secret

\* The locals init ends with when the server does not answer, and those
\* setup-webhook starts with.
LEMMA InitFailedLocals ==
    ASSUME NEW json \in BOOLEAN, NEW l, l = [NoCommand EXCEPT !.json = json, !.said = "failed"]
    PROVE  l \in CommandState /\ l.pc = "idle" /\ l.todo = {} /\ l.said = "failed"
BY NoCommandType DEF CommandState

LEMMA WebhookLocals ==
    ASSUME NEW l, l = [NoCommand EXCEPT !.cmd = "setup-webhook", !.pc = "root",
                                        !.secret = RandomSecret]
    PROVE  /\ l \in CommandState
           /\ l.pc = "root" /\ l.todo = {} /\ l.cmd = "setup-webhook"
           /\ l.secret = RandomSecret /\ l.said = "nothing"
BY NoCommandType DEF CommandState, Secret

\* A webhook gets the secret of the command that registers it.
LEMMA HookSet ==
    ASSUME SetupTypeOK, NEW m \in Meta, NEW r \in HookRepo, RegisterOne(m, r)
    PROVE  /\ hooks' \in [HookRepo -> Seq(Secret)]
           /\ \A q \in HookRepo : \A i \in 1..Len(hooks'[q]) :
                 \/ hooks'[q][i] = command[m].secret
                 \/ i \in 1..Len(hooks[q]) /\ hooks'[q][i] = hooks[q][i]
<1> DEFINE x == command[m].secret
<1>1. hooks \in [HookRepo -> Seq(Secret)] /\ hooks[r] \in Seq(Secret) /\ x \in Secret
  BY DEF SetupTypeOK, CommandState
<1>2. \/ hooks' = [hooks EXCEPT ![r] = <<x>>]
      \/ hooks' = [hooks EXCEPT ![r] = Append(hooks[r], x)]
  BY <1>1 DEF RegisterOne, AddGitLabWebhook, SetGitHubWebhook
<1> HIDE DEF x
<1>3. /\ <<x>> \in Seq(Secret) /\ Append(hooks[r], x) \in Seq(Secret)
      /\ \A i \in 1..Len(<<x>>) : <<x>>[i] = x
      /\ \A i \in 1..Len(Append(hooks[r], x)) :
            \/ Append(hooks[r], x)[i] = x
            \/ i \in 1..Len(hooks[r]) /\ Append(hooks[r], x)[i] = hooks[r][i]
  BY <1>1
<1>4. hooks' \in [HookRepo -> Seq(Secret)]
  BY <1>1, <1>2, <1>3
<1>5. /\ hooks'[r] = <<x>> \/ hooks'[r] = Append(hooks[r], x)
      /\ \A q \in HookRepo \ {r} : hooks'[q] = hooks[q]
  BY <1>1, <1>2
<1>6. \A q \in HookRepo : \A i \in 1..Len(hooks'[q]) :
         \/ hooks'[q][i] = x
         \/ i \in 1..Len(hooks[q]) /\ hooks'[q][i] = hooks[q][i]
  BY <1>3, <1>5
<1> QED
  BY <1>4, <1>6 DEF x

LEMMA CloneSet ==
    ASSUME SetupTypeOK, NEW m \in Meta
    PROVE  /\ clone' = [clone EXCEPT ![m].scripts = TRUE] =>
                 /\ clone' \in [Meta -> Clone]
                 /\ clone'[m].scripts /\ clone'[m].agents = clone[m].agents
                 /\ \A n \in Meta \ {m} : clone'[n] = clone[n]
           /\ clone' = [clone EXCEPT ![m].agents = TRUE] =>
                 /\ clone' \in [Meta -> Clone]
                 /\ clone'[m].agents /\ clone'[m].scripts = clone[m].scripts
                 /\ \A n \in Meta \ {m} : clone'[n] = clone[n]
<1>1. clone \in [Meta -> Clone] /\ clone[m] \in Clone
  BY DEF SetupTypeOK
<1>2. /\ [clone[m] EXCEPT !.scripts = TRUE] \in Clone
      /\ [clone[m] EXCEPT !.scripts = TRUE].scripts
      /\ [clone[m] EXCEPT !.scripts = TRUE].agents = clone[m].agents
  BY <1>1 DEF Clone
<1>3. /\ [clone[m] EXCEPT !.agents = TRUE] \in Clone
      /\ [clone[m] EXCEPT !.agents = TRUE].agents
      /\ [clone[m] EXCEPT !.agents = TRUE].scripts = clone[m].scripts
  BY <1>1 DEF Clone
<1> QED
  BY <1>1, <1>2, <1>3

SetupStep(m) ==
    \/ Interrupted(m)
    \/ Register(m)
    \/ RegisterSubmodule(m)
    \/ SubmodulesRegistered(m)
    \/ InstallHooks(m)
    \/ SetupWebhooks(m)
    \/ WriteAgentsMD(m)
    \/ SetupWebhookCommand(m)
    \/ RegisterRootWebhook(m)
    \/ RootWebhookFails(m)
    \/ RegisterSubmoduleWebhook(m)
    \/ WebhooksRegistered(m)

\* What a step does to the server, the hosts and the clone.
StoresGrow(m) ==
    /\ tracked' \subseteq HookRepo /\ tracked \subseteq tracked'
    /\ clone' \in [Meta -> Clone]
    /\ \A n \in Meta : /\ clone[n].scripts => clone'[n].scripts
                       /\ clone[n].agents => clone'[n].agents
    /\ hooks' \in [HookRepo -> Seq(Secret)]
    /\ \A q \in HookRepo : \A i \in 1..Len(hooks'[q]) :
          \/ command[m].pc # "idle" /\ hooks'[q][i] = command[m].secret
          \/ i \in 1..Len(hooks[q]) /\ hooks'[q][i] = hooks[q][i]

LEMMA SetupStores ==
    ASSUME SetupTypeOK, NEW m \in Meta, SetupStep(m)
    PROVE  StoresGrow(m)
<1>1. /\ tracked \subseteq HookRepo /\ hooks \in [HookRepo -> Seq(Secret)]
      /\ clone \in [Meta -> Clone]
      /\ m \in HookRepo /\ Submodules[m] \subseteq HookRepo
      /\ command[m].todo \subseteq HookRepo
  BY OwnSubmodules DEF SetupTypeOK, CommandState
<1>2. CASE UNCHANGED <<tracked, hooks, clone>>
  BY <1>1, <1>2 DEF StoresGrow
<1>3. CASE Register(m) \/ RegisterSubmodule(m)
  <2>1. UNCHANGED <<hooks, clone>> /\ (tracked' = tracked \/ \E r \in HookRepo : tracked' = tracked \cup {r})
    BY <1>1, <1>3 DEF Register, RegisterSubmodule
  <2> QED
    BY <1>1, <2>1 DEF StoresGrow
<1>4. CASE InstallHooks(m) \/ WriteAgentsMD(m)
  <2>1. UNCHANGED <<tracked, hooks>>
           /\ \/ clone' = [clone EXCEPT ![m].scripts = TRUE]
              \/ clone' = [clone EXCEPT ![m].agents = TRUE]
              \/ clone' = clone
    BY <1>4 DEF InstallHooks, WriteAgentsMD
  <2>2. /\ clone' \in [Meta -> Clone]
        /\ \A n \in Meta : /\ clone[n].scripts => clone'[n].scripts
                           /\ clone[n].agents => clone'[n].agents
    BY <1>1, <2>1, CloneSet
  <2> QED
    BY <1>1, <2>1, <2>2 DEF StoresGrow
<1>5. CASE RegisterRootWebhook(m) \/ RegisterSubmoduleWebhook(m)
  <2>1. UNCHANGED <<tracked, clone>> /\ command[m].pc # "idle"
           /\ (hooks' = hooks \/ \E r \in HookRepo : RegisterOne(m, r))
    BY <1>1, <1>5 DEF RegisterRootWebhook, RegisterSubmoduleWebhook
  <2> QED
    BY <1>1, <2>1, HookSet DEF StoresGrow
<1> QED
  BY <1>2, <1>3, <1>4, <1>5
     DEF SetupStep, Interrupted, SubmodulesRegistered, SetupWebhooks, SetupWebhookCommand,
         RootWebhookFails, WebhooksRegistered

\* The part of init that follows the hook scripts.
Later == {"webhooks", "root", "children", "agents"}

\* What it does to the command: it stops, is done, goes on, or starts.
Stops(m) == command'[m].pc = "idle" /\ command'[m].said # "done"

Finishes(m) ==
    /\ command'[m].pc = "idle" /\ command[m].pc # "idle"
    /\ command'[m].cmd = command[m].cmd
    /\ command[m].cmd = "init" => command[m].pc = "agents" /\ clone'[m].agents

Proceeds(m) ==
    /\ command[m].pc # "idle" /\ command'[m].pc # "idle"
    /\ command'[m].cmd = command[m].cmd /\ command'[m].secret = command[m].secret
    /\ command'[m].said = command[m].said
    /\ command'[m].pc \in Later => command[m].pc \in Later \/ clone'[m].scripts

InitStarts(m) ==
    /\ command'[m].pc = "subs" /\ command'[m].cmd = "init"
    /\ command'[m].secret = m /\ m \in tracked' /\ command'[m].said = "nothing"

WebhookStarts(m) ==
    /\ command'[m].pc = "root" /\ command'[m].cmd = "setup-webhook"
    /\ command'[m].secret = RandomSecret /\ command'[m].said = "nothing"

CommandMoves(m) ==
    /\ command' \in [Meta -> CommandState]
    /\ \A n \in Meta \ {m} : command'[n] = command[n]
    /\ command'[m].todo # {} => command'[m].pc \in {"subs", "children"}
    /\ Stops(m) \/ Finishes(m) \/ Proceeds(m) \/ InitStarts(m) \/ WebhookStarts(m)

LEMMA SetupCommands ==
    ASSUME SetupTypeOK, NEW m \in Meta, SetupStep(m)
    PROVE  CommandMoves(m)
<1>1. /\ command[m] \in CommandState /\ Submodules[m] \subseteq HookRepo
      /\ command[m].todo \subseteq HookRepo
  BY OwnSubmodules DEF SetupTypeOK, CommandState
<1>2. ASSUME Say(m, "failed")
      PROVE  CommandMoves(m)
  BY <1>2, SayLocals DEF CommandMoves, Stops
<1>3. ASSUME NEW pc \in CommandPC \ {"idle"}, NEW todo \in SUBSET HookRepo,
             CommandTo(m, pc, todo), command[m].pc # "idle",
             todo # {} => pc \in {"subs", "children"},
             pc \in Later => command[m].pc \in Later \/ clone'[m].scripts
      PROVE  CommandMoves(m)
  BY <1>3, CommandToLocals DEF CommandMoves, Proceeds
<1>4. CASE Interrupted(m)
  BY <1>2, <1>4 DEF Interrupted
<1>5. CASE Register(m)
  <2>1. PICK json \in Json :
           \/ /\ m \in tracked'
              /\ command' = [command EXCEPT ![m] = [NoCommand EXCEPT
                     !.pc = "subs", !.json = json, !.todo = Submodules[m], !.secret = m]]
           \/ command' = [command EXCEPT ![m] = [NoCommand EXCEPT
                     !.json = json, !.said = "failed"]]
    BY <1>5 DEF Register
  <2>2. json \in BOOLEAN
    BY ModeAssumption
  <2> DEFINE l == [NoCommand EXCEPT !.pc = "subs", !.json = json, !.todo = Submodules[m],
                                    !.secret = m]
             f == [NoCommand EXCEPT !.json = json, !.said = "failed"]
  <2>3. \/ m \in tracked' /\ command' = [command EXCEPT ![m] = l]
        \/ command' = [command EXCEPT ![m] = f]
    BY <2>1
  <2>4. f \in CommandState /\ f.pc = "idle" /\ f.todo = {} /\ f.said = "failed"
    BY <2>2, InitFailedLocals
  <2>5. l = [NoCommand EXCEPT !.pc = "subs", !.json = json, !.todo = Submodules[m],
                              !.secret = m]
    OBVIOUS
  <2> HIDE DEF l, f
  <2>6. /\ l \in CommandState
        /\ l.pc = "subs" /\ l.cmd = "init" /\ l.secret = m /\ l.said = "nothing"
    BY <2>2, <2>5, NoCommandType, OwnSubmodules DEF CommandState
  <2> QED
    BY <2>3, <2>4, <2>6, CommandSet DEF CommandMoves, InitStarts, Stops
<1>6. CASE RegisterSubmodule(m)
  <2>1. PICK s \in command[m].todo : CommandTo(m, "subs", command[m].todo \ {s})
    BY <1>6 DEF RegisterSubmodule
  <2>2. command[m].pc = "subs" /\ command[m].todo \ {s} \in SUBSET HookRepo
    BY <1>1, <1>6 DEF RegisterSubmodule
  <2> QED
    BY <1>3, <2>1, <2>2 DEF CommandPC, Later
<1>7. CASE SubmodulesRegistered(m)
  <2>1. CommandTo(m, "scripts", {}) /\ command[m].pc = "subs"
    BY <1>7 DEF SubmodulesRegistered
  <2> QED
    BY <1>3, <2>1 DEF CommandPC, Later
<1>8. CASE InstallHooks(m)
  <2>1. \/ CommandTo(m, "webhooks", {}) /\ clone' = [clone EXCEPT ![m].scripts = TRUE]
        \/ Say(m, "failed")
    BY <1>8 DEF InstallHooks
  <2>2. command[m].pc = "scripts"
    BY <1>8 DEF InstallHooks
  <2> QED
    BY <1>2, <1>3, <2>1, <2>2, CloneSet DEF CommandPC, Later
<1>9. CASE SetupWebhooks(m)
  <2>1. command[m].pc = "webhooks"
           /\ (CommandTo(m, "root", {}) \/ CommandTo(m, "agents", {}))
    BY <1>9 DEF SetupWebhooks
  <2> QED
    BY <1>3, <2>1 DEF CommandPC, Later
<1>10. CASE WriteAgentsMD(m)
  <2>1. \/ Say(m, "done") /\ clone' = [clone EXCEPT ![m].agents = TRUE]
        \/ Say(m, "failed")
    BY <1>10 DEF WriteAgentsMD
  <2>2. command[m].pc = "agents"
    BY <1>10 DEF WriteAgentsMD
  <2>3. CASE Say(m, "done") /\ clone' = [clone EXCEPT ![m].agents = TRUE]
    BY <2>2, <2>3, SayLocals, CloneSet DEF CommandMoves, Finishes
  <2> QED
    BY <1>2, <2>1, <2>3
<1>11. CASE SetupWebhookCommand(m)
  <2> DEFINE l == [NoCommand EXCEPT !.cmd = "setup-webhook", !.pc = "root",
                                    !.secret = RandomSecret]
  <2>1. command' = [command EXCEPT ![m] = l]
    BY <1>11 DEF SetupWebhookCommand
  <2>2. /\ l \in CommandState
        /\ l.pc = "root" /\ l.todo = {} /\ l.cmd = "setup-webhook"
        /\ l.secret = RandomSecret /\ l.said = "nothing"
    BY WebhookLocals
  <2> HIDE DEF l
  <2> QED
    BY <2>1, <2>2, CommandSet DEF CommandMoves, WebhookStarts
<1>12. ASSUME AfterWebhooks(m), command[m].pc \in Later
       PROVE  CommandMoves(m)
  <2>1. \/ CommandTo(m, "agents", {})
        \/ Say(m, "done") /\ command[m].cmd # "init"
    BY <1>12 DEF AfterWebhooks
  <2>2. CASE CommandTo(m, "agents", {})
    BY <1>3, <1>12, <2>2 DEF CommandPC, Later
  <2>3. CASE Say(m, "done") /\ command[m].cmd # "init"
    BY <1>12, <2>3, SayLocals DEF CommandMoves, Finishes, Later
  <2> QED
    BY <2>1, <2>2, <2>3
<1>13. CASE RegisterRootWebhook(m)
  <2>1. CommandTo(m, "children", Submodules[m]) /\ command[m].pc = "root"
    BY <1>13 DEF RegisterRootWebhook
  <2> QED
    BY <1>1, <1>3, <2>1 DEF CommandPC, Later
<1>14. CASE RootWebhookFails(m)
  <2>1. \/ CommandTo(m, "children", Submodules[m])
        \/ CommandTo(m, "agents", {})
        \/ Say(m, "failed")
    BY <1>14 DEF RootWebhookFails
  <2>2. command[m].pc = "root"
    BY <1>14 DEF RootWebhookFails
  <2> QED
    BY <1>1, <1>2, <1>3, <2>1, <2>2 DEF CommandPC, Later
<1>15. CASE RegisterSubmoduleWebhook(m)
  <2>1. PICK s \in command[m].todo : CommandTo(m, "children", command[m].todo \ {s})
    BY <1>15 DEF RegisterSubmoduleWebhook
  <2>2. command[m].pc = "children" /\ command[m].todo \ {s} \in SUBSET HookRepo
    BY <1>1, <1>15 DEF RegisterSubmoduleWebhook
  <2> QED
    BY <1>3, <2>1, <2>2 DEF CommandPC, Later
<1>16. CASE WebhooksRegistered(m)
  <2>1. AfterWebhooks(m) /\ command[m].pc = "children"
    BY <1>16 DEF WebhooksRegistered
  <2> QED
    BY <1>12, <2>1 DEF Later
<1> QED
  BY <1>4, <1>5, <1>6, <1>7, <1>8, <1>9, <1>10, <1>11, <1>13, <1>14, <1>15, <1>16
     DEF SetupStep

LEMMA SetupTypes ==
    ASSUME SetupTypeOK, NEW m \in Meta, SetupStep(m)
    PROVE  SetupTypeOK'
<1>1. StoresGrow(m) /\ CommandMoves(m)
  BY SetupStores, SetupCommands
<1>2. \A n \in Meta : /\ command'[n].todo # {} => command'[n].pc \in {"subs", "children"}
                      /\ command'[n].pc # "idle" => command'[n].said = "nothing"
  <2> SUFFICES ASSUME NEW n \in Meta
               PROVE  /\ command'[n].todo # {} => command'[n].pc \in {"subs", "children"}
                      /\ command'[n].pc # "idle" => command'[n].said = "nothing"
    OBVIOUS
  <2>1. CASE n # m
    <3>1. command'[n] = command[n]
      BY <1>1, <2>1 DEF CommandMoves
    <3> QED
      BY <3>1 DEF SetupTypeOK
  <2>2. CASE n = m
    BY <1>1, <2>2
       DEF CommandMoves, Stops, Finishes, Proceeds, InitStarts, WebhookStarts, SetupTypeOK
  <2> QED
    BY <2>1, <2>2
<1> QED
  BY <1>1, <1>2 DEF SetupTypeOK, StoresGrow, CommandMoves

LEMMA SetupInitTypes == SetupInit => SetupTypeOK
<1> SUFFICES ASSUME SetupInit PROVE SetupTypeOK
  OBVIOUS
<1>1. clone \in [Meta -> Clone] /\ hooks \in [HookRepo -> Seq(Secret)]
  BY DEF SetupInit, Clone
<1> QED
  BY <1>1, NoCommandType DEF SetupInit, SetupTypeOK

--------------------------------------------------------------------------------
(* Onboarding: webhooks and the end of init.                               *)

\* A command that runs has a secret of its own or one the server knows; init has
\* registered the repository first, and installed the hook scripts before the
\* webhooks.
Prepared(m) ==
    command[m].pc # "idle" =>
        /\ command[m].secret = RandomSecret \/ command[m].secret \in tracked
        /\ command[m].cmd = "init" => m \in tracked

ScriptsFirst(m) ==
    /\ command[m].pc # "idle" /\ command[m].pc \in Later
    /\ command[m].cmd = "init"
    => clone[m].scripts

OnboardingInv ==
    /\ SetupTypeOK
    /\ HooksAccepted
    /\ InitDone
    /\ \A m \in Meta : Prepared(m) /\ ScriptsFirst(m)

LEMMA OnboardingInit == SetupInit => OnboardingInv
<1> SUFFICES ASSUME SetupInit PROVE OnboardingInv
  OBVIOUS
<1>1. \A m \in Meta : command[m].pc = "idle" /\ command[m].said = "nothing"
  BY NoCommandType DEF SetupInit
<1>2. \A r \in HookRepo : Len(hooks[r]) = 0
  BY DEF SetupInit
<1> QED
  BY <1>1, <1>2, SetupInitTypes DEF OnboardingInv, HooksAccepted, InitDone, Said, Prepared,
         ScriptsFirst

LEMMA OnboardingStep ==
    ASSUME OnboardingInv, NEW m \in Meta, SetupStep(m)
    PROVE  OnboardingInv'
<1>1. SetupTypeOK /\ SetupTypeOK' /\ StoresGrow(m) /\ CommandMoves(m)
  BY SetupStores, SetupCommands, SetupTypes DEF OnboardingInv
<1>2. HooksAccepted /\ InitDone /\ \A n \in Meta : Prepared(n) /\ ScriptsFirst(n)
  BY DEF OnboardingInv
<1>3. tracked \subseteq tracked'
  BY <1>1 DEF StoresGrow
<1>4. \A n \in Meta : /\ clone[n].scripts => clone'[n].scripts
                      /\ clone[n].agents => clone'[n].agents
  BY <1>1 DEF StoresGrow
<1>5. HooksAccepted'
  <2> SUFFICES ASSUME NEW q \in HookRepo, NEW i \in 1..Len(hooks'[q]),
                      hooks'[q][i] # RandomSecret
               PROVE  hooks'[q][i] = ServerSecret \/ hooks'[q][i] \in tracked'
    BY DEF HooksAccepted, Accepted
  <2>1. CASE command[m].pc # "idle" /\ hooks'[q][i] = command[m].secret
    BY <1>2, <1>3, <2>1 DEF Prepared
  <2>2. CASE i \in 1..Len(hooks[q]) /\ hooks'[q][i] = hooks[q][i]
    BY <1>2, <1>3, <2>2 DEF HooksAccepted, Accepted
  <2> QED
    BY <1>1, <2>1, <2>2 DEF StoresGrow
<1>6. ASSUME NEW n \in Meta
      PROVE  Prepared(n)'
  <2>1. CASE n # m
    <3>1. command'[n] = command[n] /\ Prepared(n)
      BY <1>1, <1>2, <2>1 DEF CommandMoves
    <3> QED
      BY <1>3, <3>1 DEF Prepared
  <2>2. CASE n = m
    <3>1. CASE Stops(m) \/ Finishes(m)
      BY <2>2, <3>1 DEF Stops, Finishes, Prepared
    <3>2. CASE Proceeds(m)
      <4>1. Prepared(m) /\ command[m].pc # "idle" /\ command'[m].cmd = command[m].cmd
               /\ command'[m].secret = command[m].secret
        BY <1>2, <3>2 DEF Proceeds
      <4> QED
        BY <1>3, <2>2, <4>1 DEF Prepared
    <3>3. CASE InitStarts(m)
      BY <2>2, <3>3 DEF InitStarts, Prepared
    <3>4. CASE WebhookStarts(m)
      BY <2>2, <3>4 DEF WebhookStarts, Prepared
    <3> QED
      BY <1>1, <3>1, <3>2, <3>3, <3>4 DEF CommandMoves
  <2> QED
    BY <2>1, <2>2
<1>7. ASSUME NEW n \in Meta
      PROVE  ScriptsFirst(n)'
  <2>1. CASE n # m
    <3>1. command'[n] = command[n] /\ ScriptsFirst(n)
      BY <1>1, <1>2, <2>1 DEF CommandMoves
    <3> QED
      BY <1>4, <3>1 DEF ScriptsFirst
  <2>2. CASE n = m
    <3>1. CASE Stops(m) \/ Finishes(m)
      BY <2>2, <3>1 DEF Stops, Finishes, ScriptsFirst
    <3>2. CASE Proceeds(m)
      BY <1>2, <1>4, <2>2, <3>2 DEF Proceeds, ScriptsFirst
    <3>3. CASE InitStarts(m) \/ WebhookStarts(m)
      <4>1. command'[m].pc \notin Later \/ command'[m].cmd # "init"
        BY <3>3 DEF InitStarts, WebhookStarts, Later
      <4> QED
        BY <2>2, <4>1 DEF ScriptsFirst
    <3> QED
      BY <1>1, <3>1, <3>2, <3>3 DEF CommandMoves
  <2> QED
    BY <2>1, <2>2
<1>8. ASSUME NEW n \in Meta, Said(n, "init")'
      PROVE  n \in tracked' /\ clone'[n].scripts /\ clone'[n].agents
  <2>1. command'[n].said = "done" /\ command'[n].cmd = "init"
    BY <1>8 DEF Said
  <2>2. CASE n # m
    <3>1. command'[n] = command[n]
      BY <1>1, <2>2 DEF CommandMoves
    <3>2. Said(n, "init")
      BY <2>1, <3>1 DEF Said
    <3>3. n \in tracked /\ clone[n].scripts /\ clone[n].agents
      BY <1>2, <3>2 DEF InitDone
    <3> QED
      BY <1>3, <1>4, <3>3
  <2>3. CASE n = m
    <3>1. Finishes(m)
      BY <1>1, <2>1, <2>3
         DEF CommandMoves, Stops, Proceeds, InitStarts, WebhookStarts, SetupTypeOK
    <3>2. command[m].pc = "agents" /\ command[m].cmd = "init" /\ clone'[m].agents
      BY <2>1, <2>3, <3>1 DEF Finishes
    <3>3. m \in tracked
      BY <1>2, <3>2 DEF Prepared
    <3>4. clone[m].scripts
      BY <1>2, <3>2 DEF ScriptsFirst, Later
    <3> QED
      BY <1>3, <1>4, <2>3, <3>2, <3>3, <3>4
  <2> QED
    BY <2>2, <2>3
<1> QED
  BY <1>1, <1>5, <1>6, <1>7, <1>8 DEF OnboardingInv, InitDone

\* What init, setup-webhook and the hook scripts have done by each of their steps,
\* whatever fails or is interrupted.
THEOREM OnboardingInvariant == SetupSpec => []OnboardingInv
<1>1. OnboardingInv /\ SetupNext => OnboardingInv'
  BY OnboardingStep DEF SetupNext, SetupStep
<1>2. ASSUME OnboardingInv, UNCHANGED setupVars
      PROVE  OnboardingInv'
  BY <1>2 DEF OnboardingInv, SetupTypeOK, HooksAccepted, Accepted, InitDone, Said, Prepared,
              ScriptsFirst, setupVars
<1> QED
  BY OnboardingInit, <1>1, <1>2, PTL DEF SetupSpec

\* The state of a setup is typed: no command stops with work left to do.
THEOREM SetupTypeCorrect == SetupSpec => []SetupTypeOK
<1>1. OnboardingInv => SetupTypeOK
  BY DEF OnboardingInv
<1> QED
  BY <1>1, OnboardingInvariant, PTL

\* The secret init gives to the webhooks, also those of the submodules it shares with
\* other meta-repositories, is the id of a row the server has by then: whatever fails
\* or is interrupted, the deliveries of a webhook are accepted.
THEOREM DeliveriesAccepted == SetupSpec => []HooksAccepted
<1>1. OnboardingInv => HooksAccepted
  BY DEF OnboardingInv
<1> QED
  BY <1>1, OnboardingInvariant, PTL

\* init returns at the first error that matters: without one the server tracks the
\* repository, and the clone has its hook scripts and AGENTS.md.
THEOREM InitCompletes == SetupSpec => []InitDone
<1>1. OnboardingInv => InitDone
  BY DEF OnboardingInv
<1> QED
  BY <1>1, OnboardingInvariant, PTL

--------------------------------------------------------------------------------
(* GitLabTokens: a user stays connected.                                   *)

\* Unless requests and statements fail: a stored refresh token is its user's, and so
\* is the one a goroutine has read.
OwnGrants ==
    /\ \A u \in User : grantRow[u].refresh # NoGrant =>
          grantRow[u].refresh \in 1..issued /\ account[grantRow[u].refresh] = u
    /\ \A c \in Goroutine : job[c].old # NoGrant =>
          job[c].old \in 1..issued /\ account[job[c].old] = job[c].user
    /\ \A c \in Goroutine : job[c].pc = "refresh" => job[c].old # NoGrant

\* A grant that is about to be stored can be used: nobody else has it.
UnusedGrants ==
    \A c \in Goroutine : job[c].pc = "save" =>
        /\ job[c].token \in live
        /\ account[job[c].token] = job[c].user
        /\ \A u \in User : grantRow[u].refresh # job[c].token
        /\ \A d \in Goroutine :
              /\ job[d].old # job[c].token
              /\ job[d].pc = "save" /\ d # c => job[d].token # job[c].token

GrantInv ==
    /\ GrantTypeOK
    /\ ~ grantFaults => OwnGrants /\ UnusedGrants
    /\ GrantKept

LEMMA NoJobType ==
    NoJob \in Job /\ NoJob.pc = "idle" /\ NoJob.old = NoGrant
BY OwnerAssumption DEF NoJob, Job, GitLabToken

LEMMA JobSet ==
    ASSUME GrantTypeOK, NEW c \in Goroutine, NEW l \in Job, JobBecomes(c, l)
    PROVE  /\ job'[c] = l
           /\ \A d \in Goroutine \ {c} : job'[d] = job[d]
           /\ job' \in [Goroutine -> Job]
BY DEF GrantTypeOK, JobBecomes

LEMMA JobPC ==
    ASSUME NEW j \in Job, NEW l, NEW p \in {"save", "spread", "answer"},
           l = [j EXCEPT !.pc = p]
    PROVE  /\ l \in Job /\ l.pc = p
           /\ l.token = j.token /\ l.old = j.old /\ l.user = j.user
BY DEF Job

LEMMA JobToken ==
    ASSUME NEW j \in Job, NEW l, NEW t \in GitLabToken,
           l = [j EXCEPT !.pc = "save", !.token = t]
    PROVE  /\ l \in Job /\ l.pc = "save"
           /\ l.token = t /\ l.old = j.old /\ l.user = j.user
BY DEF Job

\* The row's grants are of the same kind.
LEMMA RowTypes ==
    ASSUME GrantTypeOK, NEW u \in User
    PROVE  /\ grantRow[u].access \in Grant \cup {NoGrant}
           /\ grantRow[u].refresh = grantRow[u].access
           /\ grantRow[u].fresh \in BOOLEAN
BY DEF GrantTypeOK, GrantRow

LEMMA NoneIssued == GrantTypeOK => NoGrant \notin 1..issued
<1> SUFFICES ASSUME GrantTypeOK PROVE NoGrant \notin 1..issued
  OBVIOUS
<1>1. issued \in Nat /\ issued <= MaxGrant /\ MaxGrant \in Nat
  BY GrantAssumption DEF GrantTypeOK
<1>2. \A g \in 1..issued : g \in 1..MaxGrant
  BY <1>1
<1> QED
  BY <1>2, GrantAssumption

\* A step that issues no grant and stores none keeps the invariant, when the step's
\* goroutine had none to store and remembers what it did, or the grant of its row.
LEMMA NothingStored ==
    ASSUME GrantInv, NEW c \in Goroutine, NEW l \in Job, JobBecomes(c, l),
           UNCHANGED <<grantRow, issued, account, live, grantFaults>>,
           column' \in [GitLabRepo -> GitLabToken], works' \subseteq works,
           l.pc \in {"idle", "row", "refresh", "answer"},
           l.pc = "refresh" => l.old # NoGrant,
           \/ l.old = NoGrant
           \/ l.old = job[c].old /\ l.user = job[c].user
           \/ l.old = grantRow[l.user].refresh,
           job[c].pc = "save" => grantFaults
    PROVE  GrantInv'
<1>1. GrantTypeOK /\ (~ grantFaults => OwnGrants /\ UnusedGrants) /\ GrantKept
  BY DEF GrantInv
<1>2. /\ job'[c] = l /\ job' \in [Goroutine -> Job]
      /\ \A d \in Goroutine \ {c} : job'[d] = job[d]
  BY <1>1, JobSet
<1>3. GrantTypeOK'
  BY <1>1, <1>2 DEF GrantTypeOK
<1>4. ASSUME ~ grantFaults
      PROVE  OwnGrants' /\ UnusedGrants'
  <2>1. OwnGrants /\ UnusedGrants /\ l.user \in User
    BY <1>1, <1>4 DEF Job
  <2>2. OwnGrants'
    BY <1>2, <2>1 DEF OwnGrants
  <2>3. \A d \in Goroutine : job'[d].pc = "save" => d # c /\ job[d].pc = "save"
    BY <1>2
  <2>4. ASSUME NEW d \in Goroutine, job[d].pc = "save"
        PROVE  l.old # job[d].token
    <3>1. job[d].token \in live /\ live \subseteq 1..issued
      BY <1>1, <2>1, <2>4 DEF UnusedGrants, GrantTypeOK
    <3>2. job[d].token # NoGrant
      BY <1>1, <3>1, NoneIssued
    <3> QED
      BY <2>1, <2>4, <3>2 DEF UnusedGrants
  <2>5. UnusedGrants'
    BY <1>2, <2>1, <2>3, <2>4 DEF UnusedGrants
  <2> QED
    BY <2>2, <2>5
<1>5. GrantKept'
  <2> SUFFICES ASSUME NEW u \in User, ~ grantFaults, grantRow[u].access # NoGrant,
                      grantRow[u].refresh \notin live
               PROVE  \E d \in Goroutine : /\ job'[d].pc = "save"
                                           /\ job'[d].user = u
                                           /\ job'[d].old = grantRow[u].refresh
    BY DEF GrantKept
  <2>1. PICK d \in Goroutine : /\ job[d].pc = "save" /\ job[d].user = u
                               /\ job[d].old = grantRow[u].refresh
    BY <1>1 DEF GrantKept
  <2>2. job'[d] = job[d]
    BY <1>2, <2>1
  <2> QED
    BY <2>1, <2>2
<1> QED
  BY <1>3, <1>4, <1>5 DEF GrantInv

LEMMA IssueAdds ==
    ASSUME GrantTypeOK, NEW v \in User, NEW used, Issue(v, used)
    PROVE  /\ issued \in Nat /\ issued' = issued + 1 /\ issued' \in 0..MaxGrant
           /\ account' \in [Grant -> User] /\ account'[issued + 1] = v
           /\ \A g \in 1..issued : account'[g] = account[g]
           /\ live' \subseteq 1..issued' /\ works' \subseteq 1..issued'
           /\ 1..issued \subseteq 1..issued' /\ issued + 1 \in 1..issued'
           /\ issued + 1 \in GitLabToken
<1>1. issued \in 0..MaxGrant /\ MaxGrant \in Nat /\ issued < MaxGrant
  BY GrantAssumption DEF GrantTypeOK, Issue
<1>2. issued \in Nat /\ issued + 1 \in Grant /\ issued' = issued + 1
  BY <1>1 DEF Grant, Issue
<1>3. 1..issued \subseteq 1..(issued + 1) /\ issued + 1 \notin 1..issued
         /\ issued + 1 \in 1..(issued + 1)
  BY <1>2
<1>4. live \subseteq 1..issued /\ works \subseteq 1..issued /\ 1..issued \subseteq Grant
  BY <1>1 DEF GrantTypeOK, Grant
<1>5. /\ account' \in [Grant -> User] /\ account'[issued + 1] = v
      /\ \A g \in 1..issued : account'[g] = account[g]
  BY <1>2, <1>3, <1>4 DEF GrantTypeOK, Issue
<1>6. live' \subseteq 1..(issued + 1) /\ works' \subseteq 1..(issued + 1)
  BY <1>3, <1>4 DEF Issue
<1> QED
  BY <1>1, <1>2, <1>3, <1>5, <1>6 DEF GitLabToken

\* A grant is issued to user v, and a goroutine has it, or has lost it.
LEMMA GrantIssued ==
    ASSUME GrantInv, NEW c \in Goroutine, NEW l \in Job, JobBecomes(c, l),
           NEW v \in User, NEW used, Issue(v, used),
           UNCHANGED <<grantRow, column, grantFaults>>,
           l.pc \in {"save", "answer"}, l.pc = "save" => l.token = issued + 1,
           ~ grantFaults => /\ l.pc = "save" /\ l.user = v /\ job[c].pc # "save"
                            /\ \/ used = {} /\ l.old = NoGrant
                               \/ /\ used = {job[c].old} /\ job[c].old # NoGrant
                                  /\ l.old = job[c].old /\ job[c].user = v
    PROVE  GrantInv'
<1>1. GrantTypeOK /\ (~ grantFaults => OwnGrants /\ UnusedGrants) /\ GrantKept
  BY DEF GrantInv
<1>2. /\ job'[c] = l /\ job' \in [Goroutine -> Job]
      /\ \A d \in Goroutine \ {c} : job'[d] = job[d]
  BY <1>1, JobSet
<1>3. /\ issued \in Nat /\ issued' = issued + 1 /\ issued' \in 0..MaxGrant
      /\ account' \in [Grant -> User] /\ account'[issued + 1] = v
      /\ \A g \in 1..issued : account'[g] = account[g]
      /\ live' \subseteq 1..issued' /\ works' \subseteq 1..issued'
      /\ 1..issued \subseteq 1..issued' /\ issued + 1 \in 1..issued'
  BY <1>1, IssueAdds
<1>4. \A d \in Goroutine :
         job'[d].pc \in {"save", "spread"} => job'[d].token \in 1..issued'
  BY <1>1, <1>2, <1>3 DEF GrantTypeOK
<1>5. GrantTypeOK'
  BY <1>1, <1>2, <1>3, <1>4 DEF GrantTypeOK
<1>6. ASSUME ~ grantFaults
      PROVE  OwnGrants' /\ UnusedGrants' /\ GrantKept'
  <2>1. OwnGrants /\ UnusedGrants
    BY <1>1, <1>6
  <2> DEFINE n == issued + 1
  <2>2. /\ n \notin 1..issued /\ n # NoGrant /\ n \in live'
        /\ l.pc = "save" /\ l.token = n /\ l.user = v /\ job[c].pc # "save"
    <3>1. n \in 1..MaxGrant
      BY <1>3
    <3> QED
      BY <1>3, <1>6, <3>1, GrantAssumption DEF Issue
  <2>3. \/ used = {} /\ l.old = NoGrant
        \/ /\ used = {job[c].old} /\ job[c].old # NoGrant
           /\ l.old = job[c].old /\ job[c].user = v
    BY <1>6
  <2>4. \A u \in User : grantRow[u].refresh # NoGrant => grantRow[u].refresh \in 1..issued
    BY <2>1 DEF OwnGrants
  <2>5. \A d \in Goroutine : job[d].old # NoGrant => job[d].old \in 1..issued
    BY <2>1 DEF OwnGrants
  <2>6. \A d \in Goroutine : job'[d].old # NoGrant =>
           job'[d].old \in 1..issued /\ account[job'[d].old] = job'[d].user
    <3>1. ASSUME NEW d \in Goroutine, job'[d].old # NoGrant
          PROVE  job'[d].old \in 1..issued /\ account[job'[d].old] = job'[d].user
      <4>1. CASE d # c
        BY <1>2, <2>1, <3>1, <4>1 DEF OwnGrants
      <4>2. CASE d = c
        BY <1>2, <2>1, <2>2, <2>3, <3>1, <4>2 DEF OwnGrants
      <4> QED
        BY <4>1, <4>2
    <3> QED
      BY <3>1
  <2>7. OwnGrants'
    <3>1. \A d \in Goroutine : job'[d].pc = "refresh" => job'[d].old # NoGrant
      BY <1>2, <2>1, <2>2 DEF OwnGrants
    <3> QED
      BY <1>3, <2>1, <2>4, <2>6, <3>1 DEF OwnGrants
  <2>8. \A d \in Goroutine \ {c} : job'[d].pc = "save" =>
           /\ job[d].token \in live /\ job[d].token \in 1..issued
           /\ account[job[d].token] = job[d].user
           /\ \A u \in User : grantRow[u].refresh # job[d].token
           /\ \A e \in Goroutine :
                 /\ job[e].old # job[d].token
                 /\ job[e].pc = "save" /\ e # d => job[e].token # job[d].token
    BY <1>1, <1>2, <2>1 DEF UnusedGrants, GrantTypeOK
  <2>9. \A d \in Goroutine \ {c} : job'[d].pc = "save" =>
           job'[d].token \in live' /\ job'[d].token # l.old
    <3>1. ASSUME NEW d \in Goroutine \ {c}, job'[d].pc = "save"
          PROVE  job'[d].token \in live' /\ job'[d].token # l.old
      <4>1. job'[d].token = job[d].token /\ job[d].token \in live
               /\ job[c].old # job[d].token /\ job[d].token \in 1..issued
        BY <1>2, <2>8, <3>1
      <4>2. job[d].token # NoGrant
        BY <1>1, <4>1, NoneIssued
      <4> QED
        BY <2>3, <4>1, <4>2 DEF Issue
    <3> QED
      BY <3>1
  <2>10. UnusedGrants'
    <3> SUFFICES ASSUME NEW d \in Goroutine, job'[d].pc = "save"
                 PROVE  /\ job'[d].token \in live'
                        /\ account'[job'[d].token] = job'[d].user
                        /\ \A u \in User : grantRow[u].refresh # job'[d].token
                        /\ \A e \in Goroutine :
                              /\ job'[e].old # job'[d].token
                              /\ job'[e].pc = "save" /\ e # d => job'[e].token # job'[d].token
      BY DEF UnusedGrants
    <3>1. CASE d = c
      <4>1. job'[d].token = n /\ job'[d].user = v
        BY <1>2, <2>2, <3>1
      <4>2. \A e \in Goroutine : job'[e].old # n
        BY <2>2, <2>6
      <4>3. \A e \in Goroutine : job'[e].pc = "save" /\ e # d => job'[e].token # n
        BY <1>2, <2>2, <2>8, <3>1
      <4> QED
        BY <1>3, <2>2, <2>4, <4>1, <4>2, <4>3
    <3>2. CASE d # c
      <4>1. job'[d] = job[d]
        BY <1>2, <3>2
      <4>2. account'[job[d].token] = job[d].user
        BY <1>3, <2>8, <3>2
      <4>3. \A e \in Goroutine : job'[e].old # job[d].token
        BY <1>2, <2>8, <2>9, <3>2, <4>1
      <4>4. ASSUME NEW e \in Goroutine, job'[e].pc = "save", e # d
            PROVE  job'[e].token # job[d].token
        <5>1. CASE e = c
          BY <1>2, <2>2, <2>8, <3>2, <5>1
        <5>2. CASE e # c
          BY <1>2, <2>8, <3>2, <4>4, <5>2
        <5> QED
          BY <5>1, <5>2
      <4> QED
        BY <2>8, <2>9, <3>2, <4>1, <4>2, <4>3, <4>4
    <3> QED
      BY <3>1, <3>2
  <2>11. GrantKept'
    <3> SUFFICES ASSUME NEW u \in User, grantRow[u].access # NoGrant,
                        grantRow[u].refresh \notin live'
                 PROVE  \E d \in Goroutine : /\ job'[d].pc = "save"
                                             /\ job'[d].user = u
                                             /\ job'[d].old = grantRow[u].refresh
      BY DEF GrantKept
    <3>1. CASE grantRow[u].refresh \in live
      <4>1. used = {job[c].old} /\ l.old = grantRow[u].refresh /\ job[c].user = v
               /\ job[c].old = grantRow[u].refresh /\ job[c].old # NoGrant
        BY <2>3, <3>1 DEF Issue
      <4>2. u = v
        BY <2>1, <4>1 DEF OwnGrants
      <4> QED
        BY <1>2, <2>2, <4>1, <4>2
    <3>2. CASE grantRow[u].refresh \notin live
      <4>1. PICK d \in Goroutine : /\ job[d].pc = "save" /\ job[d].user = u
                                   /\ job[d].old = grantRow[u].refresh
        BY <1>1, <1>6, <3>2 DEF GrantKept
      <4>2. job'[d] = job[d]
        BY <1>2, <2>2, <4>1
      <4> QED
        BY <4>1, <4>2
    <3> QED
      BY <3>1, <3>2
  <2> QED
    BY <2>7, <2>10, <2>11
<1>7. GrantKept'
  <2>1. grantFaults => GrantKept'
    BY DEF GrantKept
  <2> QED
    BY <1>6, <2>1
<1> QED
  BY <1>5, <1>6, <1>7 DEF GrantInv

\* The grant is stored where the one that was used up was.
LEMMA GrantStored ==
    ASSUME GrantInv, NEW c \in Goroutine, SaveUserVCSToken(c), UNCHANGED grantFaults
    PROVE  GrantInv'
<1> DEFINE u == job[c].user
           t == job[c].token
           l == [job[c] EXCEPT !.pc = "spread"]
<1>1. GrantTypeOK /\ (~ grantFaults => OwnGrants /\ UnusedGrants) /\ GrantKept
  BY DEF GrantInv
<1>2. job[c] \in Job /\ u \in User /\ t \in 1..issued /\ t \in Grant
  <2>1. job[c] \in Job /\ t \in 1..issued /\ issued \in 0..MaxGrant
    BY <1>1 DEF GrantTypeOK, SaveUserVCSToken
  <2> QED
    BY <2>1, GrantAssumption DEF Job, Grant
<1>3. l \in Job /\ l.pc = "spread" /\ l.token = t /\ l.old = job[c].old /\ l.user = u
  BY <1>2, JobPC
<1>4. JobBecomes(c, l) /\ job[c].pc = "save" /\ UNCHANGED <<column, gitlab, grantFaults>>
  BY DEF SaveUserVCSToken
<1>5. /\ grantRow' \in [User -> GrantRow]
      /\ grantRow'[u].access = t /\ grantRow'[u].refresh = t
      /\ \A x \in User \ {u} : grantRow'[x] = grantRow[x]
  <2> DEFINE w == [access |-> t, refresh |-> t, fresh |-> TRUE]
  <2>1. w \in GrantRow /\ w.access = t /\ w.refresh = t
    BY <1>2 DEF GrantRow
  <2>2. grantRow' = [grantRow EXCEPT ![u] = w]
    BY DEF SaveUserVCSToken
  <2> HIDE DEF w, u
  <2> QED
    BY <1>1, <1>2, <2>1, <2>2 DEF GrantTypeOK
<1> HIDE DEF l
<1>6. /\ job'[c] = l /\ job' \in [Goroutine -> Job]
      /\ \A d \in Goroutine \ {c} : job'[d] = job[d]
  BY <1>1, <1>3, <1>4, JobSet
<1>7. GrantTypeOK'
  <2>1. /\ grantFaults' \in BOOLEAN /\ column' \in [GitLabRepo -> GitLabToken]
        /\ issued' \in 0..MaxGrant /\ account' \in [Grant -> User]
        /\ live' \subseteq 1..issued' /\ works' \subseteq 1..issued'
    BY <1>1, <1>4 DEF GrantTypeOK, gitlab
  <2>2. \A x \in User : grantRow'[x].access = grantRow'[x].refresh
    BY <1>1, <1>5 DEF GrantTypeOK
  <2>3. \A d \in Goroutine :
           job'[d].pc \in {"save", "spread"} => job'[d].token \in 1..issued'
    BY <1>1, <1>2, <1>3, <1>4, <1>6 DEF GrantTypeOK, gitlab
  <2> QED
    BY <1>5, <1>6, <2>1, <2>2, <2>3 DEF GrantTypeOK
<1>8. UNCHANGED <<issued, account, live, grantFaults>>
  BY <1>4 DEF gitlab
<1>9. ASSUME ~ grantFaults
      PROVE  OwnGrants' /\ UnusedGrants' /\ GrantKept'
  <2>1. OwnGrants /\ UnusedGrants
    BY <1>1, <1>9
  <2>2. t \in live /\ account[t] = u
    BY <1>4, <2>1 DEF UnusedGrants
  <2>3. \A d \in Goroutine : /\ job'[d].old = job[d].old /\ job'[d].user = job[d].user
                             /\ job'[d].token = job[d].token
    BY <1>3, <1>6
  <2>4. \A d \in Goroutine : job'[d].pc \in {"save", "refresh"} =>
           d # c /\ job[d].pc = job'[d].pc
    BY <1>3, <1>6
  <2>5. OwnGrants'
    <3>1. \A x \in User : grantRow'[x].refresh # NoGrant =>
             grantRow'[x].refresh \in 1..issued /\ account[grantRow'[x].refresh] = x
      <4>1. ASSUME NEW x \in User, grantRow'[x].refresh # NoGrant
            PROVE  grantRow'[x].refresh \in 1..issued /\ account[grantRow'[x].refresh] = x
        <5>1. CASE x = u
          BY <1>2, <1>5, <2>2, <5>1
        <5>2. CASE x # u
          BY <1>5, <2>1, <4>1, <5>2 DEF OwnGrants
        <5> QED
          BY <5>1, <5>2
      <4> QED
        BY <4>1
    <3> QED
      BY <1>8, <2>1, <2>3, <2>4, <3>1 DEF OwnGrants
  <2>6. UnusedGrants'
    <3> SUFFICES ASSUME NEW d \in Goroutine, job'[d].pc = "save"
                 PROVE  /\ job'[d].token \in live'
                        /\ account'[job'[d].token] = job'[d].user
                        /\ \A x \in User : grantRow'[x].refresh # job'[d].token
                        /\ \A e \in Goroutine :
                              /\ job'[e].old # job'[d].token
                              /\ job'[e].pc = "save" /\ e # d => job'[e].token # job'[d].token
      BY DEF UnusedGrants
    <3>1. d # c /\ job[d].pc = "save"
      BY <2>4
    <3>2. /\ job[d].token \in live /\ account[job[d].token] = job[d].user
          /\ \A x \in User : grantRow[x].refresh # job[d].token
          /\ t # job[d].token
          /\ \A e \in Goroutine :
                /\ job[e].old # job[d].token
                /\ job[e].pc = "save" /\ e # d => job[e].token # job[d].token
      BY <1>4, <2>1, <3>1 DEF UnusedGrants
    <3>3. \A x \in User : grantRow'[x].refresh # job[d].token
      BY <1>5, <3>2
    <3> HIDE DEF u, t
    <3> QED
      BY <1>8, <2>3, <2>4, <3>2, <3>3
  <2>7. GrantKept'
    <3> SUFFICES ASSUME NEW x \in User, grantRow'[x].access # NoGrant,
                        grantRow'[x].refresh \notin live'
                 PROVE  \E d \in Goroutine : /\ job'[d].pc = "save"
                                             /\ job'[d].user = x
                                             /\ job'[d].old = grantRow'[x].refresh
      BY DEF GrantKept
    <3>1. x # u /\ grantRow'[x] = grantRow[x]
      BY <1>5, <1>8, <2>2
    <3>2. PICK d \in Goroutine : /\ job[d].pc = "save" /\ job[d].user = x
                                 /\ job[d].old = grantRow[x].refresh
      BY <1>1, <1>8, <1>9, <3>1 DEF GrantKept
    <3>3. job'[d] = job[d]
      BY <1>6, <3>1, <3>2
    <3> QED
      BY <3>1, <3>2, <3>3
  <2> QED
    BY <2>5, <2>6, <2>7
<1>10. GrantKept'
  <2>1. grantFaults => GrantKept'
    BY <1>8 DEF GrantKept
  <2> QED
    BY <1>9, <2>1
<1> QED
  BY <1>7, <1>8, <1>9, <1>10 DEF GrantInv

\* The renewal of a token: GitLab has issued a grant, and its answer may be lost.
LEMMA GrantRenewed ==
    ASSUME GrantInv, NEW c \in Goroutine, RefreshGitLabToken(c), UNCHANGED grantFaults
    PROVE  GrantInv'
<1> DEFINE used == job[c].old
           v == account[used]
           l == [job[c] EXCEPT !.pc = "save", !.token = issued + 1]
           f == [job[c] EXCEPT !.pc = "answer"]
<1>1. GrantTypeOK /\ (~ grantFaults => OwnGrants)
  BY DEF GrantInv
<1>2. job[c] \in Job /\ job[c].pc = "refresh" /\ used \in live /\ Issue(v, {used})
         /\ UNCHANGED <<grantRow, column>>
  BY <1>1 DEF GrantTypeOK, RefreshGitLabToken
<1>3. v \in User
  <2>1. used \in 1..issued /\ issued \in 0..MaxGrant /\ MaxGrant \in Nat
    BY <1>1, <1>2, GrantAssumption DEF GrantTypeOK
  <2>2. used \in Grant
    BY <2>1 DEF Grant
  <2> HIDE DEF used
  <2> QED
    BY <1>1, <2>2 DEF GrantTypeOK
<1>4. issued + 1 \in GitLabToken
  BY <1>1, <1>2, <1>3, IssueAdds
<1>5. /\ l \in Job /\ l.pc = "save"
      /\ l.token = issued + 1 /\ l.old = used /\ l.user = job[c].user
  BY <1>2, <1>4, JobToken
<1>6. f \in Job /\ f.pc = "answer"
  BY <1>2, JobPC
<1>7. JobBecomes(c, l) \/ (grantFaults /\ JobBecomes(c, f))
  BY DEF RefreshGitLabToken
<1>8. ~ grantFaults => used # NoGrant /\ job[c].user = v
  BY <1>1, <1>2 DEF OwnGrants
<1> HIDE DEF l, f, v, used
<1>9. CASE grantFaults /\ JobBecomes(c, f)
  BY <1>2, <1>3, <1>6, <1>9, GrantIssued
<1>10. CASE JobBecomes(c, l)
  <2>1. ~ grantFaults => /\ l.pc = "save" /\ l.user = v /\ job[c].pc # "save"
                         /\ {used} = {job[c].old} /\ job[c].old # NoGrant
                         /\ l.old = job[c].old /\ job[c].user = v
    BY <1>2, <1>5, <1>8 DEF used
  <2> QED
    BY <1>2, <1>3, <1>5, <1>10, <2>1, GrantIssued
<1> QED
  BY <1>7, <1>9, <1>10

\* A login.
LEMMA GrantGiven ==
    ASSUME GrantInv, NEW c \in Goroutine, HandleGitLabOAuthCallback(c), UNCHANGED grantFaults
    PROVE  GrantInv'
<1>1. GrantTypeOK
  BY DEF GrantInv
<1>2. PICK v \in User :
         /\ Issue(v, {})
         /\ \E name \in {v} \cup (IF grantFaults THEN {DefaultUser} ELSE {}) :
               JobBecomes(c, [NoJob EXCEPT !.pc    = "save",
                                           !.user  = name,
                                           !.token = issued + 1])
  BY DEF HandleGitLabOAuthCallback
<1>3. PICK name \in {v} \cup (IF grantFaults THEN {DefaultUser} ELSE {}) :
         JobBecomes(c, [NoJob EXCEPT !.pc    = "save",
                                     !.user  = name,
                                     !.token = issued + 1])
  BY <1>2
<1> DEFINE l == [NoJob EXCEPT !.pc = "save", !.user = name, !.token = issued + 1]
<1>4. name \in User /\ (~ grantFaults => name = v)
  BY <1>3, OwnerAssumption
<1>5. issued + 1 \in GitLabToken
  BY <1>1, <1>2, IssueAdds
<1>6. l \in Job /\ l.pc = "save" /\ l.token = issued + 1 /\ l.old = NoGrant /\ l.user = name
  BY <1>4, <1>5, NoJobType DEF Job
<1>7. JobBecomes(c, l) /\ job[c].pc = "idle" /\ UNCHANGED <<grantRow, column>>
  BY <1>3 DEF HandleGitLabOAuthCallback
<1> HIDE DEF l
<1> QED
  BY <1>2, <1>4, <1>6, <1>7, GrantIssued

\* The rest of what a goroutine does stores nothing.
LEMMA GrantServed ==
    ASSUME GrantInv, NEW c \in Goroutine, Serve(c), UNCHANGED grantFaults
    PROVE  GrantInv'
<1>1. GrantTypeOK
  BY DEF GrantInv
<1>2. job[c] \in Job /\ job[c].user \in User /\ column \in [GitLabRepo -> GitLabToken]
  BY <1>1 DEF GrantTypeOK, Job
<1> DEFINE Conclusion == GrantInv'
<1>3. ASSUME NEW l, l = [job[c] EXCEPT !.pc = "answer"], JobBecomes(c, l),
             UNCHANGED <<grantRow, issued, account, live, works>>,
             column' \in [GitLabRepo -> GitLabToken],
             job[c].pc = "save" => grantFaults
      PROVE  Conclusion
  <2>1. l \in Job /\ l.pc = "answer" /\ l.old = job[c].old /\ l.user = job[c].user
    BY <1>2, <1>3, JobPC
  <2> QED
    BY <1>3, <2>1, NothingStored
<1>4. CASE VCSForRepo(c)
  <2>1. PICK r \in GitLabRepo :
           JobBecomes(c, [NoJob EXCEPT !.pc    = IF column[r] = Personal THEN "answer" ELSE "row",
                                       !.repo  = r,
                                       !.user  = Owner[r],
                                       !.token = column[r]])
    BY <1>4 DEF VCSForRepo
  <2> DEFINE p == IF column[r] = Personal THEN "answer" ELSE "row"
             u == Owner[r]
             t == column[r]
             l == [NoJob EXCEPT !.pc = p, !.repo = r, !.user = u, !.token = t]
  <2>2. p \in {"answer", "row"} /\ u \in User /\ t \in GitLabToken
    BY <1>2, OwnerAssumption
  <2>3. JobBecomes(c, l)
    BY <2>1
  <2>4. l = [NoJob EXCEPT !.pc = p, !.repo = r, !.user = u, !.token = t]
    OBVIOUS
  <2> HIDE DEF p, u, t, l
  <2>5. l \in Job /\ l.pc = p /\ l.old = NoGrant
    BY <2>2, <2>4, NoJobType DEF Job
  <2>6. job[c].pc = "idle" /\ UNCHANGED <<grantRow, column, issued, account, live, works>>
    BY <1>4 DEF VCSForRepo, gitlab
  <2> QED
    BY <1>2, <2>2, <2>3, <2>5, <2>6, NothingStored
<1>5. CASE ReadRow(c)
  <2> DEFINE u == job[c].user
             a == grantRow[u].access
             b == grantRow[u].refresh
             p == IF grantRow[u].fresh THEN "answer" ELSE "refresh"
             l == [job[c] EXCEPT !.pc = p, !.token = a, !.old = b, !.ofRow = TRUE]
  <2>1. job[c].pc = "row" /\ UNCHANGED <<grantRow, column, issued, account, live, works>>
    BY <1>5 DEF ReadRow, gitlab
  <2>2. \/ JobBecomes(c, [job[c] EXCEPT !.pc = "answer"])
        \/ a # NoGrant /\ JobBecomes(c, l)
    BY <1>5 DEF ReadRow
  <2>3. a \in Grant \cup {NoGrant} /\ b = a /\ p \in {"answer", "refresh"}
    BY <1>1, <1>2, RowTypes
  <2>4. l = [job[c] EXCEPT !.pc = p, !.token = a, !.old = b, !.ofRow = TRUE]
    OBVIOUS
  <2>5. b = grantRow[u].refresh /\ u = job[c].user
    OBVIOUS
  <2> HIDE DEF u, a, b, p, l
  <2>6. l \in Job /\ l.pc = p /\ l.old = b /\ l.user = u
    BY <1>2, <2>3, <2>4, <2>5 DEF Job, GitLabToken
  <2>7. CASE a # NoGrant /\ JobBecomes(c, l)
    BY <1>2, <2>1, <2>3, <2>5, <2>6, <2>7, NothingStored
  <2> QED
    BY <1>2, <1>3, <2>1, <2>2, <2>7
<1>6. CASE RefreshGitLabToken(c)
  BY <1>6, GrantRenewed
<1>7. CASE RefreshFails(c)
  BY <1>2, <1>3, <1>7 DEF RefreshFails, gitlab
<1>8. CASE ReturnClient(c) \/ Crash(c)
  <2>1. /\ JobBecomes(c, NoJob) /\ (job[c].pc = "save" => grantFaults)
        /\ UNCHANGED <<grantRow, column, issued, account, live, works>>
    BY <1>8 DEF ReturnClient, Crash, gitlab
  <2> QED
    BY <1>2, <2>1, NoJobType, NothingStored
<1>9. CASE SaveUserVCSToken(c)
  BY <1>9, GrantStored
<1>10. CASE SaveFails(c)
  BY <1>2, <1>3, <1>10 DEF SaveFails, gitlab
<1>11. CASE UpdateGitLabVCSTokenForOwner(c)
  <2>1. column' \in [GitLabRepo -> GitLabToken]
    <3>1. job[c].token \in GitLabToken
      BY <1>2 DEF Job
    <3> QED
      BY <1>2, <1>11, <3>1 DEF UpdateGitLabVCSTokenForOwner
  <2> QED
    BY <1>3, <1>11, <2>1 DEF UpdateGitLabVCSTokenForOwner, gitlab
<1>12. CASE HandleGitLabOAuthCallback(c)
  BY <1>12, GrantGiven
<1> QED
  BY <1>4, <1>5, <1>6, <1>7, <1>8, <1>9, <1>10, <1>11, <1>12 DEF Serve

\* A token that is set, and time.
LEMMA GrantsAge ==
    ASSUME GrantInv, UNCHANGED grantFaults,
           \/ \E r \in GitLabRepo : SetStaticToken(r)
           \/ \E u \in User : Age(u)
           \/ \E g \in Grant : Expire(g)
    PROVE  GrantInv'
<1>1. GrantTypeOK /\ (~ grantFaults => OwnGrants /\ UnusedGrants) /\ GrantKept
  BY DEF GrantInv
<1>2. UNCHANGED <<issued, account, live, job>> /\ works' \subseteq works
  BY DEF SetStaticToken, Age, Expire, gitlab
<1>3. column' \in [GitLabRepo -> GitLabToken]
  BY <1>1 DEF SetStaticToken, Age, Expire, GrantTypeOK, GitLabToken
<1> DEFINE RowsKept ==
             /\ grantRow' \in [User -> GrantRow]
             /\ \A u \in User : /\ grantRow'[u].access = grantRow[u].access
                                /\ grantRow'[u].refresh = grantRow[u].refresh
<1>4. RowsKept
  <2>1. CASE UNCHANGED grantRow
    BY <1>1, <2>1 DEF GrantTypeOK
  <2>2. ASSUME NEW u \in User, Age(u)
        PROVE  RowsKept
    <3> DEFINE w == [grantRow[u] EXCEPT !.fresh = FALSE]
    <3>1. grantRow[u] \in GrantRow /\ grantRow \in [User -> GrantRow]
      BY <1>1 DEF GrantTypeOK
    <3>2. w \in GrantRow /\ w.access = grantRow[u].access /\ w.refresh = grantRow[u].refresh
      BY <3>1 DEF GrantRow
    <3>3. grantRow' = [grantRow EXCEPT ![u] = w]
      BY <2>2 DEF Age
    <3> HIDE DEF w
    <3> QED
      BY <3>1, <3>2, <3>3
  <2> HIDE DEF RowsKept
  <2> QED
    BY <2>1, <2>2 DEF SetStaticToken, Expire
<1>5. GrantTypeOK'
  BY <1>1, <1>2, <1>3, <1>4 DEF GrantTypeOK
<1>6. ~ grantFaults => OwnGrants' /\ UnusedGrants'
  BY <1>1, <1>2, <1>4 DEF OwnGrants, UnusedGrants
<1>7. GrantKept'
  BY <1>1, <1>2, <1>4 DEF GrantKept
<1> QED
  BY <1>5, <1>6, <1>7 DEF GrantInv

\* What each goroutine of getOrRefreshUserGitLabToken and each login may rely on:
\* without failures the grant it is about to store is its user's, and nobody else's.
THEOREM GrantInvariant == GrantSpec => []GrantInv
<1>1. GrantInit => GrantInv
  <2> SUFFICES ASSUME GrantInit PROVE GrantInv
    OBVIOUS
  <2>1. /\ NoRow \in GrantRow /\ NoRow.access = NoGrant /\ NoRow.refresh = NoGrant
        /\ 0 \in 0..MaxGrant
    BY GrantAssumption DEF NoRow, GrantRow
  <2>2. \A u \in User : grantRow[u] = NoRow
    BY DEF GrantInit
  <2>3. \A c \in Goroutine : job[c].pc = "idle" /\ job[c].old = NoGrant
    BY NoJobType DEF GrantInit
  <2>4. GrantTypeOK
    BY <2>1, <2>2, <2>3, NoJobType, OwnerAssumption DEF GrantInit, GrantTypeOK, GitLabToken
  <2> QED
    BY <2>1, <2>2, <2>3, <2>4 DEF GrantInv, GrantKept, OwnGrants, UnusedGrants
<1>2. GrantInv /\ GrantNext => GrantInv'
  BY GrantServed, GrantsAge DEF GrantNext
<1>3. GrantInv /\ UNCHANGED grantVars => GrantInv'
  BY DEF GrantInv, GrantTypeOK, GrantKept, OwnGrants, UnusedGrants, grantVars
<1> QED
  BY <1>1, <1>2, <1>3, PTL DEF GrantSpec

\* Each row has both tokens of one grant, and what is about to be stored was issued.
THEOREM GrantTypeCorrect == GrantSpec => []GrantTypeOK
<1>1. GrantInv => GrantTypeOK
  BY DEF GrantInv
<1> QED
  BY <1>1, GrantInvariant, PTL

\* Without failures a user who granted access need not grant it again: however many
\* goroutines renew a token at once, and however often a user logs in meanwhile, the
\* refresh token of the row can be used, or a goroutine has the next one to store.
THEOREM UsersStayConnected == GrantSpec => []GrantKept
<1>1. GrantInv => GrantKept
  BY DEF GrantInv
<1> QED
  BY <1>1, GrantInvariant, PTL

--------------------------------------------------------------------------------
(* EventRouting: the rows that the events of a branch reach.               *)

MetasAreTracked == \A i \in DOMAIN metas : metas[i] \in metaRepos

\* Only an event of a merged pull request says so.
LEMMA MergesAreTrue ==
    ASSUME NEW r \in RoutedRepo, NEW evt \in Events(r), SaysMerged(evt)
    PROVE  r \in merged
<1>1. CASE r \in GitLab
  <2>1. PICK d \in GitLabDelivery : evt = ParseGitLabWebhook(r, d) /\ (d = "merge" => r \in merged)
    BY <1>1 DEF Events
  <2>2. evt.merged => r \in merged
    BY <2>1 DEF ParseGitLabWebhook
  <2>3. evt.type = "PR_MERGED" => d = "merge"
    BY <2>1 DEF ParseGitLabWebhook, GitLabDelivery
  <2> QED
    BY <2>1, <2>2, <2>3 DEF SaysMerged
<1>2. CASE r \notin GitLab
  <2>1. PICK d \in GitHubDelivery : evt = ParseGitHubWebhook(r, d)
    BY <1>2 DEF Events
  <2>2. evt.merged => r \in merged
    BY <2>1 DEF ParseGitHubWebhook
  <2>3. evt.type = "PR_MERGED" => r \in merged
    BY <2>1 DEF ParseGitHubWebhook, GitHubDelivery
  <2> QED
    BY <2>2, <2>3 DEF SaysMerged
<1> QED
  BY <1>1, <1>2

\* A pull request's Meta PR is recorded once, whichever of its events comes first.
Recorded(ms) == {ms[i] : i \in DOMAIN ms}

LEMMA MetaRecorded ==
    ASSUME RoutingTypeOK, NEW r \in RoutedRepo
    PROVE  /\ WithMetaPR(r) \in Seq(RoutedRepo)
           /\ Recorded(WithMetaPR(r)) = Recorded(metas) \cup {r}
           /\ Cardinality(Recorded(WithMetaPR(r))) = Len(WithMetaPR(r))
<1> DEFINE ms == WithMetaPR(r)
<1>1. metas \in Seq(RoutedRepo) /\ Cardinality(Recorded(metas)) = Len(metas)
  BY DEF RoutingTypeOK, Recorded
<1>2. CASE HasMetaPR(r)
  <2>1. ms = metas /\ r \in Recorded(metas)
    BY <1>2 DEF WithMetaPR, HasMetaPR, Recorded
  <2>2. Recorded(ms) = Recorded(metas) \cup {r}
    BY <2>1
  <2> QED
    BY <1>1, <2>1, <2>2
<1>3. CASE ~ HasMetaPR(r)
  <2>1. ms = Append(metas, r) /\ r \notin Recorded(metas)
    BY <1>3 DEF WithMetaPR, HasMetaPR, Recorded
  <2>2. /\ ms \in Seq(RoutedRepo) /\ Len(ms) = Len(metas) + 1
        /\ DOMAIN ms = 1..(Len(metas) + 1) /\ ms[Len(metas) + 1] = r
        /\ DOMAIN metas = 1..Len(metas) /\ Len(metas) \in Nat
        /\ \A i \in 1..Len(metas) : ms[i] = metas[i]
    BY <1>1, <2>1
  <2> HIDE DEF ms
  <2>3. Recorded(ms) = Recorded(metas) \cup {r}
    <3>1. DOMAIN ms = DOMAIN metas \cup {Len(metas) + 1}
      BY <2>2
    <3>2. \A i \in DOMAIN metas : ms[i] = metas[i]
      BY <2>2
    <3> QED
      BY <2>2, <3>1, <3>2 DEF Recorded
  <2>4. IsFiniteSet(Recorded(metas))
    <3>1. IsFiniteSet(1..Len(metas))
      BY <2>2, FS_Interval
    <3>2. metas \in [1..Len(metas) -> Recorded(metas)]
      <4>1. metas \in [1..Len(metas) -> RoutedRepo]
        BY <1>1
      <4>2. \A i \in 1..Len(metas) : metas[i] \in Recorded(metas)
        BY <2>2 DEF Recorded
      <4> QED
        BY <4>1, <4>2
    <3>3. metas \in Surjection(1..Len(metas), Recorded(metas))
      BY <2>2, <3>2, Fun_IsSurj DEF Recorded
    <3> QED
      BY <3>1, <3>3, FS_Surjection
  <2>5. Cardinality(Recorded(metas) \cup {r}) = Cardinality(Recorded(metas)) + 1
    BY <2>1, <2>4, FS_AddElement
  <2> QED
    BY <1>1, <2>2, <2>3, <2>5 DEF ms
<1> QED
  BY <1>2, <1>3

\* What an event of repository r does.
Reaches(r) ==
    \E evt \in Events(r) :
        \/ /\ IsRootEvent(r)
           /\ metas' = WithMetaPR(r) /\ closed' \subseteq closed \cup {r}
           /\ rows \subseteq rows' /\ rows' \subseteq rows \cup Discovered(r)
           /\ done \subseteq done' /\ done' \subseteq rows'
           /\ told' \subseteq told \cup {r}
        \/ /\ ~ IsRootEvent(r)
           /\ UNCHANGED <<metas, closed>>
           /\ \E x \in ChildRow :
                 /\ x.repo = r
                 /\ \/ x \in rows /\ rows' = rows
                    \/ RowsOf(r) = {} /\ metas # <<>> /\ rows' = rows \cup {x}
                 /\ \/ SaysMerged(evt) /\ done' = done \cup {x} /\ told' = told \cup {r}
                    \/ done' = done /\ told' = told
        \/ UNCHANGED <<metas, closed, rows, done, told>>

LEMMA EventReaches ==
    ASSUME RoutingTypeOK, NEW r \in RoutedRepo, processNormalizedEvent(r)
    PROVE  Reaches(r)
<1>1. PICK evt \in Events(r) :
         /\ \/ RecordMetaMerged(r, evt)
            \/ Synthesize(r, evt)
            \/ UpdateChild(r, evt)
            \/ AdoptChild(r, evt)
            \/ Ignore(r, evt)
         /\ told' = IF SaysMerged(evt) /\ ~ Ignored(r, evt) THEN told \cup {r} ELSE told
  BY DEF processNormalizedEvent
<1>2. done \subseteq rows /\ rows \subseteq ChildRow /\ metas \in Seq(RoutedRepo)
  BY DEF RoutingTypeOK
<1>3. CASE RecordMetaMerged(r, evt)
  BY <1>1, <1>2, <1>3 DEF RecordMetaMerged, Reaches
<1>4. CASE Synthesize(r, evt)
  BY <1>1, <1>2, <1>4 DEF Synthesize, Reaches
<1>5. CASE UpdateChild(r, evt)
  <2>1. PICK x \in RowsOf(r) : done' = IF SaysMerged(evt) THEN done \cup {x} ELSE done
    BY <1>5 DEF UpdateChild
  <2>2. x \in rows /\ x.repo = r /\ x \in ChildRow
    BY <1>2, <2>1 DEF RowsOf
  <2>3. ~ Ignored(r, evt)
    BY <1>5, <2>1 DEF UpdateChild, Ignored
  <2> QED
    BY <1>1, <1>5, <2>1, <2>2, <2>3 DEF UpdateChild, Reaches
<1>6. CASE AdoptChild(r, evt)
  <2> DEFINE x == [meta |-> Newest, repo |-> r, path |-> "fullName"]
  <2>1. metas # <<>>
    BY <1>6 DEF AdoptChild
  <2>2. Newest \in RoutedRepo
    BY <1>2, <2>1 DEF Newest
  <2>3. x \in ChildRow /\ x.repo = r
    BY <2>2 DEF ChildRow
  <2>4. ~ Ignored(r, evt)
    BY <1>6 DEF AdoptChild, Ignored
  <2>5. /\ ~ IsRootEvent(r) /\ RowsOf(r) = {} /\ metas # <<>>
        /\ UNCHANGED <<metas, closed>> /\ rows' = rows \cup {x}
        /\ done' = IF SaysMerged(evt) THEN done \cup {x} ELSE done
    BY <1>6 DEF AdoptChild
  <2> HIDE DEF x
  <2> QED
    BY <1>1, <2>3, <2>4, <2>5 DEF Reaches
<1>7. CASE Ignore(r, evt)
  BY <1>1, <1>7 DEF Ignore, Reaches
<1> QED
  BY <1>1, <1>3, <1>4, <1>5, <1>6, <1>7

LEMMA RoutingSteps ==
    ASSUME RoutingTypeOK, RoutingNext
    PROVE  /\ metaRepos' = metaRepos
           /\ \/ UNCHANGED <<metas, closed, rows, done, told>>
              \/ \E r \in RoutedRepo : Reaches(r)
BY EventReaches DEF RoutingNext, OpenPR, MergePR, processNormalizedEvent

RecordedInv == RoutingTypeOK /\ MetasAreTracked

LEMMA RecordedStep ==
    ASSUME RecordedInv, RoutingNext
    PROVE  RecordedInv'
<1>1. RoutingTypeOK /\ MetasAreTracked
  BY DEF RecordedInv
<1>2. PICK r \in RoutedRepo : OpenPR(r) \/ MergePR(r) \/ processNormalizedEvent(r)
  BY DEF RoutingNext
<1>3. CASE OpenPR(r) \/ MergePR(r)
  <2>1. UNCHANGED <<metaRepos, metas, closed, rows, done, told>>
    BY <1>3 DEF OpenPR, MergePR
  <2>2. merged' \subseteq open' /\ open' \subseteq RoutedRepo /\ merged \subseteq merged'
    BY <1>1, <1>3 DEF OpenPR, MergePR, RoutingTypeOK
  <2> QED
    BY <1>1, <2>1, <2>2 DEF RecordedInv, RoutingTypeOK, MetasAreTracked
<1>4. CASE processNormalizedEvent(r)
  <2>1. UNCHANGED <<metaRepos, open, merged>> /\ Reaches(r)
    BY <1>1, <1>4, EventReaches DEF processNormalizedEvent
  <2>2. told' \subseteq merged
    <3>1. told \subseteq merged
      BY <1>1 DEF RoutingTypeOK
    <3>2. PICK evt \in Events(r) :
             told' = IF SaysMerged(evt) /\ ~ Ignored(r, evt) THEN told \cup {r} ELSE told
      BY <1>4 DEF processNormalizedEvent
    <3> QED
      BY <3>1, <3>2, MergesAreTrue
  <2>3. /\ metas \in Seq(RoutedRepo) /\ Cardinality(Recorded(metas)) = Len(metas)
        /\ closed \subseteq Recorded(metas)
    BY <1>1 DEF RoutingTypeOK, Recorded
  <2>4. /\ metas' \in Seq(RoutedRepo) /\ Cardinality(Recorded(metas')) = Len(metas')
        /\ closed' \subseteq Recorded(metas')
        /\ metas' = metas \/ (Recorded(metas') = Recorded(metas) \cup {r} /\ IsRootEvent(r))
    <3>1. CASE metas' = metas /\ closed' = closed
      BY <2>3, <3>1
    <3>2. CASE metas' = WithMetaPR(r) /\ closed' \subseteq closed \cup {r} /\ IsRootEvent(r)
      BY <1>1, <2>3, <3>2, MetaRecorded
    <3> QED
      BY <2>1, <3>1, <3>2 DEF Reaches
  <2>5. rows' \subseteq ChildRow /\ done' \subseteq rows'
    <3>1. rows \subseteq ChildRow /\ done \subseteq rows /\ Discovered(r) \subseteq ChildRow
      BY <1>1 DEF RoutingTypeOK, Discovered, ChildRow
    <3> QED
      BY <2>1, <3>1 DEF Reaches
  <2>6. Recorded(metas') \subseteq metaRepos
    BY <1>1, <2>4 DEF MetasAreTracked, Recorded, IsRootEvent
  <2>7. MetasAreTracked'
    BY <2>1, <2>6 DEF MetasAreTracked, Recorded
  <2>8. RoutingTypeOK'
    BY <1>1, <2>1, <2>2, <2>4, <2>5 DEF RoutingTypeOK, Recorded
  <2> QED
    BY <2>7, <2>8 DEF RecordedInv
<1> QED
  BY <1>2, <1>3, <1>4

LEMMA RecordedInit == RoutingInit => RecordedInv
<1> SUFFICES ASSUME RoutingInit PROVE RecordedInv
  OBVIOUS
<1>1. Cardinality({metas[i] : i \in DOMAIN metas}) = Len(metas) /\ metas \in Seq(RoutedRepo)
  <2>1. {metas[i] : i \in DOMAIN metas} = {} /\ Len(metas) = 0
    BY DEF RoutingInit
  <2> QED
    BY <2>1, FS_EmptySet DEF RoutingInit
<1> QED
  BY <1>1 DEF RoutingInit, RecordedInv, RoutingTypeOK, MetasAreTracked

\* processNormalizedEvent, in any order of events: a Meta PR is of a repository that
\* is tracked.
THEOREM RecordedInvariant == RoutingSpec => []RecordedInv
<1>1. RecordedInv /\ UNCHANGED routingVars => RecordedInv'
  BY DEF RecordedInv, RoutingTypeOK, MetasAreTracked, routingVars
<1> QED
  BY RecordedInit, RecordedStep, <1>1, PTL DEF RoutingSpec

\* One Meta PR of each repository is recorded, whichever events come first, and a
\* merge is told of merged pull requests only.
THEOREM RoutingTypeCorrect == RoutingSpec => []RoutingTypeOK
<1>1. RecordedInv => RoutingTypeOK
  BY DEF RecordedInv
<1> QED
  BY <1>1, RecordedInvariant, PTL

\* When each tracked repository is a root or named like a submodule, only the roots'
\* pull requests become Meta PRs, whichever event of the branch comes first.
THEOREM RootsOnly ==
    ASSUME \A T \in TrackedSets : T \subseteq Roots \cup SubNamed
    PROVE  RoutingSpec => []MetaPRsAreRoots
<1> DEFINE Inv == RecordedInv /\ MetaPRsAreRoots
<1>1. RoutingInit => Inv
  BY RecordedInit DEF RoutingInit, MetaPRsAreRoots
<1>2. ASSUME Inv, RoutingNext
      PROVE  Inv'
  <2>1. RoutingTypeOK /\ RecordedInv'
    BY <1>2, RecordedStep DEF RecordedInv
  <2>2. Recorded(metas) \subseteq Roots
    BY <1>2 DEF MetaPRsAreRoots, Recorded
  <2>3. ASSUME NEW r \in RoutedRepo, IsRootEvent(r)
        PROVE  Recorded(WithMetaPR(r)) \subseteq Roots
    <3>1. CASE HasMetaPR(r)
      BY <2>2, <3>1 DEF WithMetaPR
    <3>2. CASE ~ HasMetaPR(r)
      <4>1. r \in metaRepos /\ r \notin SubNamed /\ metaRepos \in TrackedSets
        BY <2>1, <2>3, <3>2 DEF IsRootEvent, RoutingTypeOK
      <4> QED
        BY <2>1, <2>2, <4>1, MetaRecorded
    <3> QED
      BY <3>1, <3>2
  <2>4. Recorded(metas') \subseteq Roots
    BY <1>2, <2>1, <2>2, <2>3, RoutingSteps DEF Reaches
  <2> QED
    BY <2>1, <2>4 DEF MetaPRsAreRoots, Recorded, Roots
<1>3. ASSUME Inv, UNCHANGED routingVars
      PROVE  Inv'
  BY <1>3 DEF RecordedInv, RoutingTypeOK, MetasAreTracked, MetaPRsAreRoots, routingVars, Roots
<1>4. Inv => MetaPRsAreRoots
  OBVIOUS
<1> HIDE DEF Inv
<1> QED
  BY <1>1, <1>2, <1>3, <1>4, PTL DEF RoutingSpec

\* With the one meta-repository tracked and none of its submodules: a row is of another
\* repository, there is one of each, and a merge that is told is of one that has a row.
OneRowEach ==
    metaRepos \subseteq Roots =>
        /\ \A x \in rows : x.repo \notin metaRepos
        /\ \A x, y \in rows : x.repo = y.repo => x = y
        /\ \A r \in told : r \in metaRepos \/ \E x \in rows : x.repo = r

RowsInv == RecordedInv /\ OneRowEach /\ MergeReachesRows

\* A merge that has reached a row has reached every row of its pull request: however
\* the webhooks of the branch are ordered, a child whose webhook came first has its
\* one row, and it is the one that is updated.
THEOREM MergesReachEveryRow ==
    ASSUME \A T \in TrackedSets : T \subseteq Roots => \A p, q \in T : p = q
    PROVE  RoutingSpec => []MergeReachesRows
<1>1. RoutingInit => RowsInv
  BY RecordedInit DEF RoutingInit, RowsInv, OneRowEach, MergeReachesRows
<1>2. ASSUME RowsInv, RoutingNext
      PROVE  RowsInv'
  <2>1. RecordedInv /\ RecordedInv' /\ RoutingTypeOK /\ MetasAreTracked
           /\ OneRowEach /\ MergeReachesRows /\ metaRepos' = metaRepos
    BY <1>2, RecordedStep, RoutingSteps DEF RecordedInv, RowsInv
  <2>2. CASE UNCHANGED <<metas, closed, rows, done, told>>
    BY <2>1, <2>2 DEF OneRowEach, MergeReachesRows, RowsInv, Roots
  <2>3. ASSUME NEW r \in RoutedRepo, Reaches(r), metaRepos \subseteq Roots
        PROVE  /\ \A x \in rows' : x.repo \notin metaRepos
               /\ \A x, y \in rows' : x.repo = y.repo => x = y
               /\ \A q \in told' : q \in metaRepos \/ \E x \in rows' : x.repo = q
               /\ \A x \in rows' : x.repo \in told' => x \in done'
    <3>1. /\ \A x \in rows : x.repo \notin metaRepos
          /\ \A x, y \in rows : x.repo = y.repo => x = y
          /\ \A q \in told : q \in metaRepos \/ \E x \in rows : x.repo = q
          /\ \A x \in rows : x.repo \in told => x \in done
      BY <2>1, <2>3 DEF OneRowEach, MergeReachesRows
    <3>2. \A p, q \in metaRepos : p = q
      BY <2>1, <2>3 DEF RoutingTypeOK
    <3> DEFINE Conclusion ==
               /\ \A x \in rows' : x.repo \notin metaRepos
               /\ \A x, y \in rows' : x.repo = y.repo => x = y
               /\ \A q \in told' : q \in metaRepos \/ \E x \in rows' : x.repo = q
               /\ \A x \in rows' : x.repo \in told' => x \in done'
    <3>3. ASSUME IsRootEvent(r), rows \subseteq rows', rows' \subseteq rows \cup Discovered(r),
                 done \subseteq done', told' \subseteq told \cup {r}
          PROVE  Conclusion
      <4>1. r \in metaRepos /\ Discovered(r) = {}
        BY <3>2, <3>3 DEF IsRootEvent, Discovered
      <4> QED
        BY <3>1, <3>3, <4>1
    <3>4. ASSUME ~ IsRootEvent(r), NEW x \in ChildRow, NEW evt, x.repo = r,
                 \/ x \in rows /\ rows' = rows
                 \/ RowsOf(r) = {} /\ metas # <<>> /\ rows' = rows \cup {x},
                 \/ SaysMerged(evt) /\ done' = done \cup {x} /\ told' = told \cup {r}
                 \/ done' = done /\ told' = told
          PROVE  Conclusion
      <4>1. r \notin metaRepos
        <5>1. CASE x \in rows
          BY <3>1, <3>4, <5>1
        <5>2. CASE metas # <<>>
          <6>1. 1 \in DOMAIN metas
            <7>1. metas \in Seq(RoutedRepo)
              BY <2>1 DEF RoutingTypeOK
            <7> QED
              BY <5>2, <7>1
          <6>2. metas[1] \in metaRepos
            BY <2>1, <6>1 DEF MetasAreTracked
          <6> QED
            BY <3>2, <3>4, <6>1, <6>2 DEF IsRootEvent, HasMetaPR
        <5> QED
          BY <3>4, <5>1, <5>2
      <4>2. CASE x \in rows /\ rows' = rows
        BY <3>1, <3>4, <4>1, <4>2
      <4>3. CASE RowsOf(r) = {} /\ rows' = rows \cup {x}
        <5>1. \A y \in rows : y.repo # r
          BY <4>3 DEF RowsOf
        <5>2. r \notin told
          BY <3>1, <4>1, <5>1
        <5> QED
          BY <3>1, <3>4, <4>1, <4>3, <5>1, <5>2
      <4> QED
        BY <3>4, <4>2, <4>3
    <3>5. UNCHANGED <<metas, closed, rows, done, told>> => Conclusion
      BY <3>1
    <3> HIDE DEF Conclusion
    <3>6. Conclusion
      BY <2>3, <3>3, <3>4, <3>5 DEF Reaches
    <3> QED
      BY <3>6 DEF Conclusion
  <2>4. ASSUME NEW r \in RoutedRepo, Reaches(r)
        PROVE  RowsInv'
    BY <2>1, <2>3, <2>4 DEF OneRowEach, MergeReachesRows, RowsInv, Roots
  <2> QED
    BY <2>1, <2>2, <2>4, <1>2, RoutingSteps
<1>3. ASSUME RowsInv, UNCHANGED routingVars
      PROVE  RowsInv'
  BY <1>3 DEF RowsInv, RecordedInv, RoutingTypeOK, MetasAreTracked, OneRowEach,
              MergeReachesRows, routingVars, Roots
<1>4. RowsInv => MergeReachesRows
  BY DEF RowsInv
<1> QED
  BY <1>1, <1>2, <1>3, <1>4, PTL DEF RoutingSpec

================================================================================
