------------------------------- MODULE ClientProofs -------------------------------
(***************************************************************************)
(* Theorems about the parts of the VCS clients that keep state of their    *)
(* own: tokens are shared and alive for any processes, callers and times;  *)
(* a call leaves one comment and nobody else's is touched, however many    *)
(* run and fail; and what a rule's yes says is true of the pull request.   *)
(***************************************************************************)
EXTENDS InstallationToken, StickyComment, MergeRules, FiniteSetTheorems, TLAPS

--------------------------------------------------------------------------------
(* InstallationToken: whose token is used, and until when.                 *)

\* The write lock of a process has one holder.
OneAsks ==
    \A c, d \in Caller :
        caller[c].pc = "ask" /\ caller[d].pc = "ask" /\ Home[c] = Home[d] => c = d

\* The cache does not keep a token longer than the slack.
CacheAlive ==
    \A s \in Server :
        cache[s].until # 0 =>
            cache[s].token # 0 /\ cache[s].until <= cache[s].token + Slack

\* A request is no older than the margin, which its token had left when it began.
RequestAlive ==
    \A c \in Caller :
        /\ caller[c].pc # "idle" => /\ caller[c].since <= now
                                    /\ now <= caller[c].since + Margin
        /\ caller[c].pc \in {"table", "keep"} => hasTable
        /\ caller[c].pc = "keep" => caller[c].since + Margin < caller[c].token
        /\ caller[c].pc = "use" => caller[c].since + Margin < caller[c].token + Slack

TokenInv ==
    /\ TokenTypeOK
    /\ OneAsks
    /\ AsksWithoutToken
    /\ CacheAlive
    /\ RequestAlive

--------------------------------------------------------------------------------

LEMMA TokenInitInv == TokenInit => TokenInv
<1> SUFFICES ASSUME TokenInit PROVE TokenInv
  OBVIOUS
<1>1. \A c \in Caller : caller[c].pc = "idle" /\ caller[c].token = 0
  BY DEF TokenInit, NoRequest
<1>2. NoRequest \in Request
  BY DEF NoRequest, Request
<1>3. TokenTypeOK
  BY <1>1, <1>2 DEF TokenInit, TokenTypeOK, Entry
<1>4. CacheAlive
  BY DEF TokenInit, CacheAlive
<1> QED
  BY <1>1, <1>3, <1>4 DEF TokenInv, OneAsks, AsksWithoutToken, RequestAlive

\* What is asked of a caller.
CallerFine(c) ==
    /\ caller[c] \in Request
    /\ caller[c].pc \in {"keep", "use"} <=> caller[c].token # 0
    /\ caller[c].pc # "idle" => /\ caller[c].since <= now
                                /\ now <= caller[c].since + Margin
    /\ caller[c].pc \in {"table", "keep"} => hasTable
    /\ caller[c].pc = "keep" => caller[c].since + Margin < caller[c].token
    /\ caller[c].pc = "use" => caller[c].since + Margin < caller[c].token + Slack

CallersFine == caller \in [Caller -> Request] /\ \A c \in Caller : CallerFine(c)

LEMMA FineCallers ==
    ASSUME TokenInv
    PROVE  CallersFine
BY DEF TokenInv, TokenTypeOK, RequestAlive, CallersFine, CallerFine

\* One who may use the cache's token.
LEMMA CachedIsAlive ==
    ASSUME TokenInv, NEW c \in Caller, Good(Cached(c).until)
    PROVE  /\ Cached(c).token \in Nat /\ Cached(c).token # 0
           /\ now + Margin < Cached(c).token + Slack
<1>1. Home[c] \in Server /\ Cached(c) \in Entry
  BY HomeAssumption DEF TokenInv, TokenTypeOK, Cached
<1>2. Cached(c).until \in Nat /\ now \in Nat /\ Slack \in Nat
  BY <1>1, TimeAssumption DEF TokenInv, TokenTypeOK, Entry, Slack
<1>3. Cached(c).until # 0
  BY <1>2, TimeAssumption DEF Good
<1> QED
  BY <1>1, <1>2, <1>3, TimeAssumption DEF TokenInv, CacheAlive, Cached, Good, Entry

LEMMA OtherCallersStay ==
    ASSUME TokenInv, NEW c \in Caller, GetInstallationToken(c), NEW d \in Caller \ {c}
    PROVE  caller'[d] = caller[d]
<1>1. caller \in [Caller -> Request]
  BY DEF TokenInv, TokenTypeOK
<1> QED
  BY <1>1 DEF GetInstallationToken, Lookup, ReadTable, Keep, Lock, HostAnswers,
       HostRefuses, Used, CallerTo, Use

LEMMA CallCallers ==
    ASSUME TokenInv, NEW c \in Caller, GetInstallationToken(c), UNCHANGED hasTable
    PROVE  CallersFine' /\ now' = now
<1>1. /\ caller[c] \in Request /\ caller \in [Caller -> Request]
      /\ caller[c].since \in Nat /\ caller[c].token \in Nat
      /\ now \in Nat /\ shared \in Nat
      /\ caller[c].pc \in {"keep", "use"} <=> caller[c].token # 0
  BY DEF TokenInv, TokenTypeOK, Request
<1>2. caller[c].pc # "idle" =>
          caller[c].since <= now /\ now <= caller[c].since + Margin
  BY DEF TokenInv, RequestAlive
<1>3. Lifetime \in Nat /\ Margin \in Nat /\ Recached \in Nat /\ Slack \in Nat
      /\ Margin < Recached /\ Recached < Lifetime
  BY TimeAssumption DEF Slack
<1>4. now' = now /\ Slack' = Slack
  BY DEF GetInstallationToken, Lookup, ReadTable, Keep, Lock, HostAnswers, HostRefuses, Used,
       Slack
<1> DEFINE To(pc, token, since) ==
        /\ caller'[c] \in Request
        /\ caller'[c].pc = pc /\ caller'[c].token = token /\ caller'[c].since = since
<1>5. ASSUME Lookup(c)
      PROVE  CallerFine(c)'
  <2>1. CASE Good(Cached(c).until)
    <3>1. To("use", Cached(c).token, now)
      BY <1>1, <1>5, <2>1, CachedIsAlive DEF Lookup, Request
    <3> QED
      BY <1>1, <1>3, <1>4, <2>1, <3>1, CachedIsAlive DEF CallerFine
  <2>2. CASE ~ Good(Cached(c).until)
    <3>1. To(IF hasTable THEN "table" ELSE "lock", 0, now)
      BY <1>1, <1>5, <2>2 DEF Lookup, Request
    <3> QED
      BY <1>1, <1>3, <1>4, <3>1 DEF CallerFine
  <2> QED
    BY <2>1, <2>2
<1>6. ASSUME ReadTable(c)
      PROVE  CallerFine(c)'
  <2>1. caller[c].token = 0 /\ hasTable /\ caller[c].pc = "table"
    BY <1>1, <1>6 DEF ReadTable, TokenInv, RequestAlive
  <2>2. ASSUME Good(shared), caller' = [caller EXCEPT ![c].pc = "keep", ![c].token = shared]
        PROVE  CallerFine(c)'
    <3>1. To("keep", shared, caller[c].since)
      BY <1>1, <2>2 DEF Request
    <3>2. shared # 0 /\ caller[c].since + Margin < shared
      BY <1>1, <1>2, <1>3, <2>1, <2>2 DEF Good
    <3> QED
      BY <1>1, <1>2, <1>4, <2>1, <3>1, <3>2 DEF CallerFine
  <2>3. ASSUME CallerTo(c, "lock")
        PROVE  CallerFine(c)'
    <3>1. To("lock", 0, caller[c].since)
      BY <1>1, <2>1, <2>3 DEF CallerTo, Request
    <3> QED
      BY <1>1, <1>2, <1>4, <2>1, <3>1 DEF CallerFine
  <2> QED
    BY <1>6, <2>2, <2>3 DEF ReadTable
<1>7. ASSUME Keep(c)
      PROVE  CallerFine(c)'
  <2>1. To("use", caller[c].token, caller[c].since)
    BY <1>1, <1>7 DEF Keep, Use, Request
  <2>2. /\ caller[c].pc = "keep" /\ caller[c].token # 0
        /\ caller[c].since + Margin < caller[c].token + Slack
    <3>1. caller[c].since + Margin < caller[c].token
      BY <1>7 DEF Keep, TokenInv, RequestAlive
    <3> QED
      BY <1>1, <1>3, <1>7, <3>1 DEF Keep
  <2> QED
    BY <1>1, <1>2, <1>4, <2>1, <2>2 DEF CallerFine
<1>8. ASSUME Lock(c)
      PROVE  CallerFine(c)'
  <2>1. CASE Good(Cached(c).until)
    <3>1. To("use", Cached(c).token, caller[c].since) /\ caller[c].pc = "lock"
      BY <1>1, <1>8, <2>1, CachedIsAlive DEF Lock, Use, Request
    <3>2. /\ Cached(c).token \in Nat /\ Cached(c).token # 0
          /\ now + Margin < Cached(c).token + Slack
      BY <2>1, CachedIsAlive
    <3>3. caller[c].since + Margin < Cached(c).token + Slack
      BY <1>1, <1>2, <1>3, <3>1, <3>2
    <3> QED
      BY <1>1, <1>2, <1>4, <3>1, <3>2, <3>3 DEF CallerFine
  <2>2. CASE ~ Good(Cached(c).until)
    <3>1. To("ask", 0, caller[c].since) /\ caller[c].pc = "lock"
      BY <1>1, <1>8, <2>2 DEF Lock, CallerTo, Request
    <3> QED
      BY <1>1, <1>2, <1>4, <3>1 DEF CallerFine
  <2> QED
    BY <2>1, <2>2
<1>9. ASSUME HostAnswers(c)
      PROVE  CallerFine(c)'
  <2>1. To("use", now + Lifetime, caller[c].since) /\ caller[c].pc = "ask"
    BY <1>1, <1>3, <1>9 DEF HostAnswers, Use, Request
  <2>2. /\ now + Lifetime \in Nat /\ now + Lifetime # 0
        /\ caller[c].since + Margin < now + Lifetime + Slack
    BY <1>1, <1>2, <1>3, <2>1
  <2> QED
    BY <1>1, <1>2, <1>4, <2>1, <2>2 DEF CallerFine
<1>10. ASSUME HostRefuses(c) \/ Used(c)
       PROVE  CallerFine(c)'
  <2>1. To("idle", 0, 0)
    BY <1>1, <1>10 DEF HostRefuses, Used, NoRequest, Request
  <2> QED
    BY <2>1 DEF CallerFine
<1>11. CallerFine(c)'
  BY <1>5, <1>6, <1>7, <1>8, <1>9, <1>10 DEF GetInstallationToken
<1>12. ASSUME NEW d \in Caller \ {c}
       PROVE  CallerFine(d)'
  BY <1>4, OtherCallersStay, FineCallers DEF CallersFine, CallerFine
<1>13. caller' = [caller EXCEPT ![c] = caller'[c]]
  BY <1>1 DEF GetInstallationToken, Lookup, ReadTable, Keep, Lock, HostAnswers, HostRefuses,
       Used, CallerTo, Use
<1> QED
  BY <1>1, <1>4, <1>11, <1>12, <1>13 DEF CallersFine, CallerFine

\* A clock that waits for callers beyond the margin.
LEMMA TickCallers == ASSUME TokenInv, Tick, UNCHANGED hasTable PROVE CallersFine'
<1>1. /\ now \in Nat /\ now' = now + 1 /\ caller' = caller
      /\ \A c \in Caller : caller[c].since \in Nat
      /\ \A c \in Caller : caller[c].pc # "idle" => now < caller[c].since + Margin
  BY DEF TokenInv, TokenTypeOK, Tick, Request
<1>2. CallersFine /\ Margin \in Nat
  BY FineCallers, TimeAssumption
<1> QED
  BY <1>1, <1>2 DEF CallersFine, CallerFine, Slack

--------------------------------------------------------------------------------
(* The cache and its lock.                                                 *)

\* Only a caller that finds the lock free, and no token, asks the host.
LEMMA AsksUnderLock ==
    ASSUME TokenInv, NEW c \in Caller, GetInstallationToken(c), caller'[c].pc = "ask"
    PROVE  LockFree(c) /\ ~ Good(Cached(c).until) /\ cache' = cache
<1>1. caller \in [Caller -> Request] /\ caller[c] \in Request
  BY DEF TokenInv, TokenTypeOK
<1>2. ~ Lookup(c)
  <2>1. Lookup(c) => caller'[c].pc \in {"use", "table", "lock"}
    BY <1>1 DEF Lookup
  <2> QED
    BY <2>1
<1>3. ~ ReadTable(c) /\ ~ Keep(c)
  BY <1>1 DEF ReadTable, Keep, CallerTo, Use, Request
<1>4. ~ HostAnswers(c) /\ ~ HostRefuses(c) /\ ~ Used(c)
  BY <1>1 DEF HostAnswers, HostRefuses, Used, Use, NoRequest, Request
<1>5. Lock(c)
  BY <1>2, <1>3, <1>4 DEF GetInstallationToken
<1>6. ~ Good(Cached(c).until)
  BY <1>1, <1>5 DEF Lock, Use, Request
<1> QED
  BY <1>5, <1>6 DEF Lock

\* The cache of a process where a caller asks is written by that caller alone.
LEMMA CacheUnderLock ==
    ASSUME TokenInv, NEW c \in Caller, GetInstallationToken(c),
           NEW d \in Caller \ {c}, caller[d].pc = "ask"
    PROVE  cache'[Home[d]] = cache[Home[d]]
<1>1. cache \in [Server -> Entry] /\ Home[c] \in Server /\ Home[d] \in Server
  BY HomeAssumption DEF TokenInv, TokenTypeOK
<1>2. CASE Keep(c)
  BY <1>1, <1>2 DEF Keep, LockFree
<1>3. CASE HostAnswers(c)
  BY <1>1, <1>3 DEF HostAnswers, TokenInv, OneAsks
<1>4. CASE cache' = cache
  BY <1>4
<1> QED
  BY <1>2, <1>3, <1>4 DEF GetInstallationToken, Lookup, ReadTable, Lock, HostRefuses, Used

LEMMA LockStep ==
    ASSUME TokenInv, NEW c \in Caller, GetInstallationToken(c), UNCHANGED hasTable
    PROVE  OneAsks' /\ AsksWithoutToken'
<1>1. OneAsks'
  <2> SUFFICES ASSUME NEW a \in Caller, NEW b \in Caller, a # b,
                      caller'[a].pc = "ask", caller'[b].pc = "ask", Home[a] = Home[b]
               PROVE  FALSE
    BY DEF OneAsks
  <2>1. CASE a # c /\ b # c
    BY <2>1, OtherCallersStay DEF TokenInv, OneAsks
  <2>2. CASE a = c
    BY <2>2, OtherCallersStay, AsksUnderLock DEF LockFree
  <2>3. CASE b = c
    BY <2>3, OtherCallersStay, AsksUnderLock DEF LockFree
  <2> QED
    BY <2>1, <2>2, <2>3
<1>2. AsksWithoutToken'
  <2> SUFFICES ASSUME NEW a \in Caller, caller'[a].pc = "ask"
               PROVE  ~ Good(Cached(a).until)'
    BY DEF AsksWithoutToken
  <2>1. now' = now
    BY CallCallers
  <2>2. CASE a = c
    BY <2>1, <2>2, AsksUnderLock DEF Good, Cached
  <2>3. CASE a # c
    BY <2>1, <2>3, OtherCallersStay, CacheUnderLock DEF TokenInv, AsksWithoutToken, Good, Cached
  <2> QED
    BY <2>2, <2>3
<1> QED
  BY <1>1, <1>2

LEMMA CacheStep ==
    ASSUME TokenInv, NEW c \in Caller, GetInstallationToken(c), UNCHANGED hasTable
    PROVE  cache' \in [Server -> Entry] /\ shared' \in Nat /\ CacheAlive'
<1>1. /\ cache \in [Server -> Entry] /\ shared \in Nat /\ now \in Nat
      /\ caller[c] \in Request /\ Home[c] \in Server
  BY HomeAssumption DEF TokenInv, TokenTypeOK
<1>2. Slack' = Slack /\ Slack \in Nat /\ Lifetime \in Nat /\ Recached \in Nat
      /\ Recached < Lifetime
  BY TimeAssumption DEF Slack
<1>3. CASE Keep(c)
  <2>1. /\ caller[c].token \in Nat /\ caller[c].token # 0 /\ Slack = Recached
        /\ now < caller[c].token
    BY <1>1, <1>3, TimeAssumption DEF Keep, TokenInv, TokenTypeOK, RequestAlive, Request, Slack
  <2>2. /\ cache' = [cache EXCEPT ![Home[c]] =
                        [token |-> caller[c].token, until |-> now + Recached]]
        /\ shared' = shared
    BY <1>3 DEF Keep
  <2>3. [token |-> caller[c].token, until |-> now + Recached] \in Entry
    BY <1>1, <1>2, <2>1 DEF Entry
  <2>4. now + Recached <= caller[c].token + Slack
    BY <1>1, <1>2, <2>1
  <2> QED
    BY <1>1, <1>2, <2>1, <2>2, <2>3, <2>4 DEF TokenInv, CacheAlive
<1>4. CASE HostAnswers(c)
  <2>1. /\ cache' = [cache EXCEPT ![Home[c]] =
                        [token |-> now + Lifetime, until |-> now + Lifetime]]
        /\ shared' \in {shared, now + Lifetime}
    BY <1>4 DEF HostAnswers
  <2>2. /\ [token |-> now + Lifetime, until |-> now + Lifetime] \in Entry
        /\ now + Lifetime # 0 /\ now + Lifetime <= now + Lifetime + Slack
        /\ now + Lifetime \in Nat
    BY <1>1, <1>2 DEF Entry
  <2> QED
    BY <1>1, <1>2, <2>1, <2>2 DEF TokenInv, CacheAlive
<1>5. CASE cache' = cache /\ shared' = shared
  BY <1>1, <1>2, <1>5 DEF TokenInv, CacheAlive
<1> QED
  BY <1>3, <1>4, <1>5 DEF GetInstallationToken, Lookup, ReadTable, Lock, HostRefuses, Used

LEMMA TokenStep == TokenInv /\ [TokenNext]_tokenVars => TokenInv'
<1> SUFFICES ASSUME TokenInv, [TokenNext]_tokenVars
             PROVE  TokenInv'
  OBVIOUS
<1>1. ASSUME NEW c \in Caller, GetInstallationToken(c), UNCHANGED hasTable
      PROVE  TokenInv'
  <2>1. CallersFine' /\ now' = now
    BY <1>1, CallCallers
  <2>2. OneAsks' /\ AsksWithoutToken'
    BY <1>1, LockStep
  <2>3. cache' \in [Server -> Entry] /\ shared' \in Nat /\ CacheAlive'
    BY <1>1, CacheStep
  <2> QED
    BY <1>1, <2>1, <2>2, <2>3 DEF TokenInv, TokenTypeOK, CallersFine, CallerFine, RequestAlive
<1>2. CASE Tick /\ UNCHANGED hasTable
  <2>1. CallersFine'
    BY <1>2, TickCallers
  <2>2. /\ now \in Nat /\ now' = now + 1 /\ UNCHANGED <<cache, shared, caller>>
        /\ cache \in [Server -> Entry]
    BY <1>2 DEF Tick, TokenInv, TokenTypeOK
  <2>3. CacheAlive' /\ OneAsks'
    BY <1>2, <2>2 DEF TokenInv, CacheAlive, OneAsks, Slack
  <2>4. AsksWithoutToken'
    <3> SUFFICES ASSUME NEW c \in Caller, caller[c].pc = "ask"
                 PROVE  ~ Good(Cached(c).until)'
      BY <2>2 DEF AsksWithoutToken
    <3>1. Cached(c).until \in Nat /\ Cached(c)' = Cached(c)
      BY <2>2, HomeAssumption DEF Cached, Entry
    <3>2. ~ Good(Cached(c).until)
      BY DEF TokenInv, AsksWithoutToken
    <3> QED
      BY <2>2, <3>1, <3>2, TimeAssumption DEF Good, Cached
  <2> QED
    BY <1>2, <2>1, <2>2, <2>3, <2>4 DEF TokenInv, TokenTypeOK, CallersFine, CallerFine, RequestAlive
<1>3. CASE UNCHANGED tokenVars
  BY <1>3 DEF tokenVars, TokenInv, TokenTypeOK, OneAsks, AsksWithoutToken, CacheAlive,
       RequestAlive, Slack, Good, Cached
<1> QED
  BY <1>1, <1>2, <1>3 DEF TokenNext

\* A process never asks the host for a token while it has one.
THEOREM TokensAreShared == TokenSpec => []AsksWithoutToken
<1>1. TokenInv => AsksWithoutToken
  BY DEF TokenInv
<1> QED
  BY <1>1, TokenInitInv, TokenStep, PTL DEF TokenSpec

\* A token is alive while it is used, or dead no longer than the cache keeps one
\* that came from the table.
THEOREM TokensAreAlive == TokenSpec => []TokenAlive
<1>1. TokenInv => TokenAlive
  <2> SUFFICES ASSUME TokenInv, NEW c \in Caller, caller[c].pc = "use"
               PROVE  now < caller[c].token + Slack
    BY DEF TokenAlive
  <2>1. /\ now \in Nat /\ caller[c].since \in Nat /\ caller[c].token \in Nat
        /\ Slack \in Nat /\ Margin \in Nat
    BY TimeAssumption DEF TokenInv, TokenTypeOK, Request, Slack
  <2>2. now <= caller[c].since + Margin /\ caller[c].since + Margin < caller[c].token + Slack
    BY DEF TokenInv, RequestAlive
  <2> QED
    BY <2>1, <2>2
<1> QED
  BY <1>1, TokenInitInv, TokenStep, PTL DEF TokenSpec

--------------------------------------------------------------------------------
(* StickyComment: the comment, and those of others.                        *)

LEMMA NotWritingType ==
    /\ NotWriting \in Writing /\ NotWriting.pc = "idle"
    /\ NotWriting.first = 0 /\ NotWriting.extra = {}
BY DEF NotWriting, Writing

LEMMA WritingSet ==
    ASSUME CommentTypeOK, NEW w \in Writer, NEW l \in Writing,
           writing' = [writing EXCEPT ![w] = l]
    PROVE  /\ writing'[w] = l
           /\ \A v \in Writer \ {w} : writing'[v] = writing[v]
           /\ writing' \in [Writer -> Writing]
BY DEF CommentTypeOK

\* A step of a call that only moves on, knowing perhaps that it is not alone.
Moves(w) ==
    /\ writing' \in [Writer -> Writing]
    /\ \A v \in Writer \ {w} : writing'[v] = writing[v]
    /\ writing'[w].table = writing[w].table /\ writing'[w].first = writing[w].first
    /\ writing'[w].same = writing[w].same /\ writing'[w].extra = writing[w].extra
    /\ writing'[w].alone => writing[w].alone

LEMMA MovesOn ==
    ASSUME CommentTypeOK, NEW w \in Writer, NEW pc \in {"idle", "list", "write", "delete"},
           NEW alone \in BOOLEAN, alone => writing[w].alone,
           writing' = [writing EXCEPT ![w] = [writing[w] EXCEPT !.pc = pc, !.alone = alone]]
    PROVE  Moves(w) /\ writing'[w].pc = pc /\ writing'[w].alone = alone
<1> DEFINE m == [writing[w] EXCEPT !.pc = pc, !.alone = alone]
<1>1. writing[w] \in Writing
  BY DEF CommentTypeOK
<1>2. m = [writing[w] EXCEPT !.pc = pc, !.alone = alone]
  OBVIOUS
<1> HIDE DEF m
<1>3. /\ m \in Writing /\ m.pc = pc /\ m.alone = alone
      /\ m.table = writing[w].table /\ m.first = writing[w].first
      /\ m.same = writing[w].same /\ m.extra = writing[w].extra
  <2>1. m \in Writing /\ m.pc = pc /\ m.first = writing[w].first
           /\ m.table = writing[w].table /\ m.extra = writing[w].extra
    BY <1>1, <1>2 DEF Writing
  <2>2. m.alone = alone /\ m.same = writing[w].same
    BY <1>1, <1>2 DEF Writing
  <2> QED
    BY <2>1, <2>2
<1>4. /\ writing'[w] = m /\ writing' \in [Writer -> Writing]
      /\ \A v \in Writer \ {w} : writing'[v] = writing[v]
  BY <1>2, <1>3, WritingSet
<1> QED
  BY <1>3, <1>4 DEF Moves

\* The comments stay where they are, but for those of a set that go.
Posts(comment) ==
    /\ made < MaxComment /\ made' = made + 1
    /\ DOMAIN comments' = DOMAIN comments \cup {made + 1}
    /\ comments'[made + 1] = comment
    /\ \A i \in DOMAIN comments : comments'[i] = comments[i]

LEMMA PostPosts ==
    ASSUME CommentTypeOK, NEW comment \in Comment, Post(comment)
    PROVE  /\ Posts(comment)
           /\ comments' \in [DOMAIN comments' -> Comment] /\ DOMAIN comments' \subseteq 1..made'
           /\ made' \in 0..MaxComment /\ made + 1 \notin DOMAIN comments
           /\ 1..made \subseteq 1..made' /\ 0..made \subseteq 0..made'
<1>1. /\ made \in Nat /\ made < MaxComment /\ MaxComment \in Nat /\ made' = made + 1
      /\ DOMAIN comments \subseteq 1..made /\ comments \in [DOMAIN comments -> Comment]
  BY CommentAssumption DEF CommentTypeOK, Post
<1>2. made + 1 \notin 1..made /\ 1..made \subseteq 1..(made + 1) /\ made + 1 \in 1..(made + 1)
         /\ 0..made \subseteq 0..(made + 1) /\ made + 1 \in 0..MaxComment
  BY <1>1
<1>3. comments' = [i \in DOMAIN comments \cup {made + 1} |->
                       IF i = made + 1 THEN comment ELSE comments[i]]
  BY DEF Post
<1>4. /\ DOMAIN comments' = DOMAIN comments \cup {made + 1}
      /\ comments'[made + 1] = comment
      /\ \A i \in DOMAIN comments : comments'[i] = comments[i]
  BY <1>1, <1>2, <1>3
<1>5. comments' \in [DOMAIN comments' -> Comment]
  BY <1>1, <1>2, <1>3
<1> QED
  BY <1>1, <1>2, <1>4, <1>5 DEF Posts

\* What each step of a call does to the comments and to its own locals.
Begins(w) ==
    /\ UNCHANGED <<table, comments, made>>
    /\ writing[w].pc = "idle" /\ writing'[w].pc = "list"
    /\ writing'[w].first = 0 /\ writing'[w].extra = {}
    /\ writing'[w].alone => \A v \in Writer : writing[v].pc = "idle"
    /\ \A v \in Writer \ {w} :
          /\ ~ writing'[v].alone
          /\ writing'[v].pc = writing[v].pc /\ writing'[v].first = writing[v].first
          /\ writing'[v].extra = writing[v].extra

LEMMA BeginTypes ==
    ASSUME CommentTypeOK, NEW w \in Writer, BeginWrite(w)
    PROVE  /\ Begins(w) /\ writing' \in [Writer -> Writing] /\ begun' \in 0..MaxCalls
           /\ writing'[w].table = table
<1> DEFINE b == Busy = {}
           l == [NotWriting EXCEPT !.pc = "list", !.table = table, !.alone = b]
<1>1. /\ l \in Writing /\ l.pc = "list" /\ l.first = 0 /\ l.extra = {} /\ l.table = table
      /\ l.alone = b
  <2>1. table \in Nat /\ b \in BOOLEAN
    BY CommentAssumption DEF CommentTypeOK
  <2>2. l = [NotWriting EXCEPT !.pc = "list", !.table = table, !.alone = b]
    OBVIOUS
  <2> HIDE DEF b, l
  <2>3. /\ l \in Writing /\ l.pc = "list" /\ l.first = 0 /\ l.extra = {} /\ l.table = table
        /\ l.alone = b
    <3>1. l \in Writing /\ l.pc = "list" /\ l.first = 0 /\ l.extra = {} /\ l.table = table
      BY <2>1, <2>2 DEF NotWriting, Writing
    <3>2. l.alone = b
      BY <2>2 DEF NotWriting
    <3> QED
      BY <3>1, <3>2
  <2> QED
    BY <2>3 DEF b
<1>2. ASSUME NEW v \in Writer, NEW m, m = [writing[v] EXCEPT !.alone = FALSE]
      PROVE  /\ m \in Writing /\ m.alone = FALSE /\ m.pc = writing[v].pc
             /\ m.first = writing[v].first /\ m.extra = writing[v].extra
  <2>1. writing[v] \in Writing
    BY DEF CommentTypeOK
  <2> QED
    BY <1>2, <2>1 DEF Writing
<1>3. writing' = [v \in Writer |-> IF v = w THEN l ELSE [writing[v] EXCEPT !.alone = FALSE]]
  BY DEF BeginWrite
<1> HIDE DEF l
<1>4. writing'[w] = l
  BY <1>3
<1>5. \A v \in Writer \ {w} : writing'[v] = [writing[v] EXCEPT !.alone = FALSE]
  BY <1>3
<1>6. \A v \in Writer \ {w} :
         /\ writing'[v] \in Writing
         /\ writing'[v].alone = FALSE /\ writing'[v].pc = writing[v].pc
         /\ writing'[v].first = writing[v].first /\ writing'[v].extra = writing[v].extra
  BY <1>2, <1>5
<1>7. writing' \in [Writer -> Writing]
  BY <1>1, <1>3, <1>4, <1>6
<1>8. Busy = {} => \A v \in Writer : writing[v].pc = "idle"
  BY DEF Busy
<1>9. writing'[w].alone => \A v \in Writer : writing[v].pc = "idle"
  BY <1>1, <1>4, <1>8
<1>10. writing[w].pc = "idle" /\ UNCHANGED <<table, comments, made>> /\ begun' = begun + 1
          /\ begun < MaxCalls
  BY DEF BeginWrite
<1>11. begun' \in 0..MaxCalls
  <2>1. begun \in 0..MaxCalls /\ MaxCalls \in Nat
    BY CommentAssumption DEF CommentTypeOK
  <2> QED
    BY <1>10, <2>1
<1> QED
  BY <1>1, <1>4, <1>6, <1>7, <1>9, <1>10, <1>11 DEF Begins

\* An answer of the host that has room for every comment has all of them.
LEMMA WholePage ==
    ASSUME CommentTypeOK, CommentPage >= MaxComment
    PROVE  Page = DOMAIN comments
<1> SUFFICES ASSUME NEW i \in DOMAIN comments
             PROVE  Cardinality({j \in DOMAIN comments : j <= i}) <= CommentPage
  BY DEF Page
<1>1. made \in Nat /\ made <= MaxComment /\ MaxComment \in Nat /\ CommentPage \in Nat
  BY CommentAssumption DEF CommentTypeOK
<1>2. IsFiniteSet(1..made) /\ Cardinality(1..made) = made
  <2>1. Cardinality(1..made) = IF 1 > made THEN 0 ELSE made - 1 + 1
    BY <1>1, FS_Interval
  <2> QED
    BY <1>1, <2>1, FS_Interval
<1>3. {j \in DOMAIN comments : j <= i} \subseteq 1..made
  BY DEF CommentTypeOK
<1> DEFINE S == {j \in DOMAIN comments : j <= i}
<1> HIDE DEF S
<1>4. IsFiniteSet(S) /\ Cardinality(S) <= Cardinality(1..made)
  BY <1>2, <1>3, FS_Subset DEF S
<1>5. Cardinality(S) \in Nat
  BY <1>4, FS_CardinalityType
<1>6. Cardinality(S) <= CommentPage
  BY <1>1, <1>2, <1>4, <1>5
<1> QED
  BY <1>6 DEF S

Lists(w) ==
    /\ UNCHANGED <<table, comments, made, begun>>
    /\ \A v \in Writer \ {w} : writing'[v] = writing[v]
    /\ writing'[w].table = writing[w].table
    /\ writing[w].pc = "list" /\ writing'[w].pc \in {"idle", "write", "delete"}
    /\ writing'[w].alone => writing[w].alone
    /\ onGitLab => writing'[w].pc = "delete"
    /\ ~ onGitLab /\ onRoot => writing'[w].pc = "write"
    /\ \E own \in SUBSET {i \in DOMAIN comments : Owns(comments[i])} :
          /\ CommentPage >= MaxComment /\ writing'[w].alone =>
                \A i \in DOMAIN comments : Owns(comments[i]) => i \in own
          /\ writing'[w].first = 0 => own = {}
          /\ writing'[w].first # 0 => writing'[w].first \in own
          /\ writing'[w].extra = own \ {writing'[w].first}
          /\ writing'[w].same => own # {} /\ comments[writing'[w].first] = Own(w)

LEMMA ListTypes ==
    ASSUME CommentTypeOK, NEW w \in Writer, List(w)
    PROVE  Lists(w) /\ writing' \in [Writer -> Writing]
<1>1. PICK fails \in {FALSE} \cup (IF "list" \in CommentFaults THEN {TRUE} ELSE {}) :
         LET own == IF fails THEN {} ELSE {i \in Page : Owns(comments[i])} IN
         \E first \in own \cup {0} :
            /\ first = 0 => own = {}
            /\ \A i \in own : first <= i
            /\ writing' = [writing EXCEPT
                  ![w].pc = IF own # {} /\ ~ onRoot /\ ~ onGitLab THEN "idle"
                            ELSE IF onGitLab THEN "delete" ELSE "write",
                  ![w].first = first,
                  ![w].same = own # {} /\ comments[first] = Own(w),
                  ![w].extra = own \ {first},
                  ![w].alone = @ /\ ~ fails]
  BY DEF List
<1> DEFINE own == IF fails THEN {} ELSE {i \in Page : Owns(comments[i])}
<1>2. PICK first \in own \cup {0} :
            /\ first = 0 => own = {}
            /\ \A i \in own : first <= i
            /\ writing' = [writing EXCEPT
                  ![w].pc = IF own # {} /\ ~ onRoot /\ ~ onGitLab THEN "idle"
                            ELSE IF onGitLab THEN "delete" ELSE "write",
                  ![w].first = first,
                  ![w].same = own # {} /\ comments[first] = Own(w),
                  ![w].extra = own \ {first},
                  ![w].alone = @ /\ ~ fails]
  BY <1>1
<1> DEFINE pc == IF own # {} /\ ~ onRoot /\ ~ onGitLab THEN "idle"
                 ELSE IF onGitLab THEN "delete" ELSE "write"
           same == own # {} /\ comments[first] = Own(w)
           extra == own \ {first}
           alone == writing[w].alone /\ ~ fails
           l == [writing[w] EXCEPT !.pc = pc, !.first = first, !.same = same,
                                   !.extra = extra, !.alone = alone]
<1>3. writing[w] \in Writing /\ writing \in [Writer -> Writing]
  BY DEF CommentTypeOK
<1>4. own \subseteq {i \in DOMAIN comments : Owns(comments[i])} /\ own \subseteq Nat \ {0}
  <2>1. Page \subseteq DOMAIN comments /\ DOMAIN comments \subseteq 1..made /\ made \in Nat
    BY CommentAssumption DEF Page, CommentTypeOK
  <2>2. \A i \in 1..made : i \in Nat \ {0}
    BY <2>1
  <2> QED
    BY <2>1, <2>2
<1> HIDE DEF own
<1>5. CommentPage >= MaxComment /\ ~ fails =>
         \A i \in DOMAIN comments : Owns(comments[i]) => i \in own
  BY WholePage DEF own
<1>6. writing' = [writing EXCEPT ![w] = l]
  BY <1>2, <1>3
<1>7. /\ pc \in {"idle", "write", "delete"} /\ (onGitLab => pc = "delete")
      /\ ~ onGitLab /\ onRoot => pc = "write"
  OBVIOUS
<1>8. /\ first \in Nat /\ extra \in SUBSET (Nat \ {0})
      /\ first = 0 => own = {}
      /\ first # 0 => first \in own
  <2>1. first \in own \cup {0} /\ (first = 0 => own = {})
    BY <1>2
  <2> QED
    BY <1>4, <2>1
<1>9. same \in BOOLEAN /\ (same => own # {} /\ comments[first] = Own(w)) /\ extra = own \ {first}
  OBVIOUS
<1>10. alone \in BOOLEAN /\ (alone => writing[w].alone) /\ (alone => ~ fails)
  BY <1>1, <1>3 DEF Writing
<1>11. l = [writing[w] EXCEPT !.pc = pc, !.first = first, !.same = same,
                              !.extra = extra, !.alone = alone]
  OBVIOUS
<1> HIDE DEF l, pc, same, extra, alone
<1>12. /\ l \in Writing /\ l.pc = pc /\ l.first = first /\ l.extra = extra
       /\ l.table = writing[w].table
  BY <1>3, <1>7, <1>8, <1>9, <1>10, <1>11 DEF Writing
<1>13. l.same = same /\ l.alone = alone
  BY <1>3, <1>11 DEF Writing
<1>14. /\ writing'[w] = l /\ writing' \in [Writer -> Writing]
       /\ \A v \in Writer \ {w} : writing'[v] = writing[v]
  BY <1>6, <1>12, WritingSet
<1>15. writing[w].pc = "list" /\ UNCHANGED <<table, comments, made, begun>>
  BY DEF List
<1>16. \E o \in SUBSET {i \in DOMAIN comments : Owns(comments[i])} :
          /\ CommentPage >= MaxComment /\ writing'[w].alone =>
                \A i \in DOMAIN comments : Owns(comments[i]) => i \in o
          /\ writing'[w].first = 0 => o = {}
          /\ writing'[w].first # 0 => writing'[w].first \in o
          /\ writing'[w].extra = o \ {writing'[w].first}
          /\ writing'[w].same => o # {} /\ comments[writing'[w].first] = Own(w)
  <2>1. CommentPage >= MaxComment /\ writing'[w].alone =>
           \A i \in DOMAIN comments : Owns(comments[i]) => i \in own
    BY <1>5, <1>10, <1>13, <1>14
  <2>2. /\ writing'[w].first = 0 => own = {}
        /\ writing'[w].first # 0 => writing'[w].first \in own
        /\ writing'[w].extra = own \ {writing'[w].first}
    BY <1>8, <1>9, <1>12, <1>14
  <2>3. writing'[w].same => own # {} /\ comments[writing'[w].first] = Own(w)
    BY <1>9, <1>12, <1>13, <1>14
  <2> QED
    BY <1>4, <2>1, <2>2, <2>3
<1>17. writing'[w].alone => writing[w].alone
  BY <1>10, <1>13, <1>14
<1> QED
  BY <1>7, <1>12, <1>14, <1>15, <1>16, <1>17 DEF Lists

\* A call that fails to list, or to write.
Fails(w) ==
    /\ UNCHANGED <<table, comments, made, begun>>
    /\ writing[w].pc # "idle"
    /\ Moves(w) /\ ~ writing'[w].alone

LEMMA FailTypes ==
    ASSUME CommentTypeOK, NEW w \in Writer, ListFails(w) \/ WriteFails(w)
    PROVE  Fails(w)
<1>1. UNCHANGED <<table, comments, made, begun>> /\ writing[w].pc # "idle"
  BY DEF ListFails, WriteFails
<1>2. \E pc \in {"idle", "delete"} :
         writing' = [writing EXCEPT ![w] = [writing[w] EXCEPT !.pc = pc, !.alone = FALSE]]
  BY DEF ListFails, WriteFails, CommentTypeOK, Writing
<1> QED
  BY <1>1, <1>2, MovesOn DEF Fails

Writes(w) ==
    /\ UNCHANGED <<table, begun>>
    /\ Moves(w) /\ writing[w].pc = "write"
    /\ writing'[w].pc = IF onGitLab \/ writing[w].extra = {} THEN "idle" ELSE "delete"
    /\ \/ writing[w].same /\ UNCHANGED <<comments, made>>
       \/ ~ writing[w].same /\ writing[w].first = 0 /\ Posts(Own(w))
       \/ /\ ~ writing[w].same /\ writing[w].first # 0 /\ UNCHANGED made
          /\ DOMAIN comments' = DOMAIN comments
          /\ \A i \in DOMAIN comments :
                comments'[i] = IF i = writing[w].first THEN Own(w) ELSE comments[i]

LEMMA OwnType == ASSUME CommentTypeOK, NEW w \in Writer PROVE Own(w) \in Comment
<1>1. writing[w] \in Writing
  BY DEF CommentTypeOK
<1>2. writing[w].table \in Nat
  BY <1>1 DEF Writing
<1> QED
  BY <1>2 DEF Own, Comment

\* The set of comments is one.
CommentsFit ==
    /\ made' \in 0..MaxComment /\ 1..made \subseteq 1..made' /\ 0..made \subseteq 0..made'
    /\ DOMAIN comments' \subseteq 1..made' /\ comments' \in [DOMAIN comments' -> Comment]

LEMMA WriteTypes ==
    ASSUME CommentTypeOK, NEW w \in Writer, Write(w)
    PROVE  Writes(w) /\ CommentsFit
<1>1. /\ writing[w].pc = "write" /\ UNCHANGED <<table, begun>>
      /\ AfterWrite(w)
  BY DEF Write
<1> DEFINE pc == IF onGitLab \/ writing[w].extra = {} THEN "idle" ELSE "delete"
<1>2. writing[w] \in Writing /\ writing[w].alone \in BOOLEAN /\ writing[w].same \in BOOLEAN
  BY DEF CommentTypeOK, Writing
<1>3. writing' = [writing EXCEPT ![w] = [writing[w] EXCEPT !.pc = pc, !.alone = writing[w].alone]]
  <2>1. [writing[w] EXCEPT !.pc = pc] = [writing[w] EXCEPT !.pc = pc, !.alone = writing[w].alone]
    BY <1>2 DEF Writing
  <2>2. writing' = [writing EXCEPT ![w] = [writing[w] EXCEPT !.pc = pc]]
    BY <1>1 DEF AfterWrite, WriterTo, CommentTypeOK
  <2> QED
    BY <2>1, <2>2
<1>4. pc \in {"idle", "list", "write", "delete"}
  OBVIOUS
<1>5. Moves(w) /\ writing'[w].pc = pc
  <2> HIDE DEF pc
  <2> QED
    BY <1>2, <1>3, <1>4, MovesOn
<1>6. /\ made \in Nat /\ made \in 0..MaxComment /\ DOMAIN comments \subseteq 1..made
      /\ comments \in [DOMAIN comments -> Comment]
  BY CommentAssumption DEF CommentTypeOK
<1>7. CASE writing[w].same
  <2>1. UNCHANGED <<comments, made>>
    BY <1>7 DEF Write
  <2> QED
    BY <1>1, <1>5, <1>6, <1>7, <2>1 DEF Writes, CommentsFit
<1>8. CASE ~ writing[w].same /\ writing[w].first = 0
  <2>1. Post(Own(w))
    BY <1>8 DEF Write
  <2> QED
    BY <1>1, <1>5, <1>8, <2>1, OwnType, PostPosts DEF Writes, CommentsFit
<1>9. CASE ~ writing[w].same /\ writing[w].first # 0
  <2>1. /\ comments' = [i \in DOMAIN comments |->
                           IF i = writing[w].first THEN Own(w) ELSE comments[i]]
        /\ UNCHANGED made
    BY <1>9 DEF Write
  <2>2. comments' \in [DOMAIN comments -> Comment] /\ DOMAIN comments' = DOMAIN comments
    BY <1>6, <2>1, OwnType
  <2>3. \A i \in DOMAIN comments :
           comments'[i] = IF i = writing[w].first THEN Own(w) ELSE comments[i]
    BY <2>1
  <2> QED
    BY <1>1, <1>5, <1>6, <1>9, <2>1, <2>2, <2>3 DEF Writes, CommentsFit
<1> QED
  BY <1>7, <1>8, <1>9

Deletes(w) ==
    /\ UNCHANGED <<table, made, begun>>
    /\ Moves(w) /\ writing[w].pc = "delete"
    /\ writing'[w].pc = IF onGitLab THEN "write" ELSE "idle"
    /\ \E gone \in SUBSET writing[w].extra :
          /\ writing'[w].alone => gone = writing[w].extra
          /\ DOMAIN comments' = DOMAIN comments \ gone
    /\ \A i \in DOMAIN comments' : comments'[i] = comments[i]

LEMMA DeleteTypes ==
    ASSUME CommentTypeOK, NEW w \in Writer, DeleteDuplicates(w)
    PROVE  Deletes(w) /\ CommentsFit
<1>1. PICK gone \in SUBSET writing[w].extra :
          /\ comments' = [i \in DOMAIN comments \ gone |-> comments[i]]
          /\ writing' = [writing EXCEPT ![w].pc = IF onGitLab THEN "write" ELSE "idle",
                                        ![w].alone = @ /\ gone = writing[w].extra]
  BY DEF DeleteDuplicates
<1> DEFINE pc == IF onGitLab THEN "write" ELSE "idle"
           alone == writing[w].alone /\ gone = writing[w].extra
<1>2. writing[w] \in Writing /\ writing[w].alone \in BOOLEAN
  BY DEF CommentTypeOK, Writing
<1>3. writing' = [writing EXCEPT ![w] = [writing[w] EXCEPT !.pc = pc, !.alone = alone]]
  BY <1>1 DEF CommentTypeOK
<1>4. /\ pc \in {"idle", "list", "write", "delete"} /\ alone \in BOOLEAN
      /\ alone => writing[w].alone
      /\ alone => gone = writing[w].extra
  BY <1>2
<1>5. Moves(w) /\ writing'[w].pc = pc /\ writing'[w].alone = alone
  <2> HIDE DEF pc, alone
  <2> QED
    BY <1>3, <1>4, MovesOn
<1>6. /\ DOMAIN comments' = DOMAIN comments \ gone
      /\ \A i \in DOMAIN comments' : comments'[i] = comments[i]
  BY <1>1
<1>7. /\ made \in Nat /\ made \in 0..MaxComment /\ DOMAIN comments \subseteq 1..made
      /\ comments \in [DOMAIN comments -> Comment]
  BY CommentAssumption DEF CommentTypeOK
<1>8. comments' \in [DOMAIN comments' -> Comment]
  BY <1>1, <1>7
<1>9. writing[w].pc = "delete" /\ UNCHANGED <<table, made, begun>>
  BY DEF DeleteDuplicates
<1>10. writing'[w].alone => gone = writing[w].extra
  BY <1>4, <1>5
<1> QED
  BY <1>5, <1>6, <1>7, <1>8, <1>9, <1>10 DEF Deletes, CommentsFit

\* A person's comment, and a change of the table.
Talks == \E by \in {"person", "mention"} : Posts([by |-> by, table |-> 0]) /\ UNCHANGED writing

\* A step of a call, as one of these.
Ensures(w) == Begins(w) \/ Lists(w) \/ Fails(w) \/ Writes(w) \/ Deletes(w)

LEMMA CommentSteps ==
    ASSUME CommentTypeOK, CommentNext
    PROVE  /\ CommentTypeOK'
           /\ UNCHANGED <<onRoot, onGitLab>>
           /\ 1..made \subseteq 1..made'
           /\ \/ UNCHANGED <<comments, writing>>
              \/ Talks
              \/ \E w \in Writer : Ensures(w)
<1>1. UNCHANGED <<onRoot, onGitLab>>
  BY DEF CommentNext, SameHost
<1>2. /\ made \in Nat /\ made \in 0..MaxComment /\ DOMAIN comments \subseteq 1..made
      /\ comments \in [DOMAIN comments -> Comment] /\ writing \in [Writer -> Writing]
      /\ table \in 0..MaxChange /\ begun \in 0..MaxCalls
      /\ \A w \in Writer : writing[w].first \in 0..made /\ writing[w].extra \subseteq 1..made
  BY CommentAssumption DEF CommentTypeOK
<1>3. ASSUME CommentsFit, writing' \in [Writer -> Writing],
             table' \in 0..MaxChange, begun' \in 0..MaxCalls,
             \A w \in Writer : writing'[w].first \in 0..made' /\ writing'[w].extra \subseteq 1..made'
      PROVE  CommentTypeOK' /\ 1..made \subseteq 1..made'
  <2>1. AHost' /\ onRoot' \in BOOLEAN
    BY <1>1 DEF CommentTypeOK, AHost
  <2> QED
    BY <1>3, <2>1 DEF CommentTypeOK, CommentsFit
<1>4. UNCHANGED <<comments, made>> => CommentsFit
  BY <1>2 DEF CommentsFit
<1>5. ASSUME NEW w \in Writer, CommentsFit, Moves(w), UNCHANGED <<table, begun>>
      PROVE  CommentTypeOK' /\ 1..made \subseteq 1..made'
  <2>1. \A v \in Writer : writing'[v].first = writing[v].first /\ writing'[v].extra = writing[v].extra
    BY <1>5 DEF Moves
  <2>2. \A v \in Writer :
           writing'[v].first \in 0..made' /\ writing'[v].extra \subseteq 1..made'
    BY <1>2, <1>5, <2>1 DEF CommentsFit
  <2> QED
    BY <1>2, <1>3, <1>5, <2>2 DEF Moves
<1>6. ASSUME TableChanges
      PROVE  CommentTypeOK' /\ 1..made \subseteq 1..made'
  <2>1. UNCHANGED <<comments, made, writing, begun>> /\ table' \in 0..MaxChange
    <3>1. table < MaxChange /\ table' = table + 1 /\ MaxChange \in Nat
             /\ UNCHANGED <<comments, made, writing, begun>>
      BY <1>6, CommentAssumption DEF TableChanges
    <3> QED
      BY <1>2, <3>1
  <2>2. \A v \in Writer :
           writing'[v].first \in 0..made' /\ writing'[v].extra \subseteq 1..made'
    BY <1>2, <2>1
  <2>3. /\ CommentsFit /\ begun' \in 0..MaxCalls /\ table' \in 0..MaxChange
        /\ writing' \in [Writer -> Writing]
    BY <1>2, <1>4, <2>1
  <2> QED
    BY <1>3, <2>2, <2>3
<1>7. ASSUME NEW by \in {"person", "mention"}, Talk(by)
      PROVE  CommentTypeOK' /\ 1..made \subseteq 1..made' /\ Talks
  <2>1. [by |-> by, table |-> 0] \in Comment
    BY DEF Comment
  <2>2. /\ Posts([by |-> by, table |-> 0]) /\ CommentsFit
        /\ UNCHANGED <<table, writing, begun>>
    BY <1>7, <2>1, PostPosts DEF Talk, CommentsFit
  <2>3. \A v \in Writer :
           writing'[v].first \in 0..made' /\ writing'[v].extra \subseteq 1..made'
    BY <1>2, <2>2 DEF CommentsFit
  <2> QED
    BY <1>2, <1>3, <2>2, <2>3 DEF Talks
<1>8. ASSUME NEW w \in Writer, EnsurePRComment(w)
      PROVE  CommentTypeOK' /\ 1..made \subseteq 1..made' /\ Ensures(w)
  <2>1. CASE BeginWrite(w)
    <3>1. /\ Begins(w) /\ writing' \in [Writer -> Writing] /\ begun' \in 0..MaxCalls
      BY <2>1, BeginTypes
    <3>2. \A v \in Writer :
             \/ writing'[v].first = 0 /\ writing'[v].extra = {}
             \/ writing'[v].first = writing[v].first /\ writing'[v].extra = writing[v].extra
      BY <3>1 DEF Begins
    <3>3. UNCHANGED <<table, comments, made>>
      BY <3>1 DEF Begins
    <3>4. \A v \in Writer :
             writing'[v].first \in 0..made' /\ writing'[v].extra \subseteq 1..made'
      BY <1>2, <3>2, <3>3
    <3> QED
      BY <1>2, <1>3, <1>4, <3>1, <3>3, <3>4 DEF Ensures
  <2>2. CASE List(w)
    <3>1. Lists(w) /\ writing' \in [Writer -> Writing] /\ UNCHANGED <<table, comments, made, begun>>
      BY <2>2, ListTypes DEF Lists
    <3>2. writing'[w].first \in 0..made /\ writing'[w].extra \subseteq 1..made
      <4>1. PICK own \in SUBSET DOMAIN comments :
               /\ writing'[w].first = 0 => own = {}
               /\ writing'[w].first # 0 => writing'[w].first \in own
               /\ writing'[w].extra = own \ {writing'[w].first}
        BY <3>1 DEF Lists
      <4>2. own \subseteq 1..made /\ 1..made \subseteq 0..made /\ 0 \in 0..made
        BY <1>2
      <4> QED
        BY <4>1, <4>2
    <3>3. \A v \in Writer :
             writing'[v].first \in 0..made' /\ writing'[v].extra \subseteq 1..made'
      BY <1>2, <3>1, <3>2 DEF Lists
    <3> QED
      BY <1>2, <1>3, <1>4, <3>1, <3>3 DEF Ensures
  <2>3. CASE ListFails(w) \/ WriteFails(w)
    BY <1>4, <1>5, <2>3, FailTypes DEF Ensures, Fails
  <2>4. CASE Write(w)
    BY <1>5, <2>4, WriteTypes DEF Ensures, Writes
  <2>5. CASE DeleteDuplicates(w)
    BY <1>5, <2>5, DeleteTypes DEF Ensures, Deletes
  <2> QED
    BY <1>8, <2>1, <2>2, <2>3, <2>4, <2>5 DEF EnsurePRComment
<1>9. TableChanges => UNCHANGED <<comments, writing>>
  BY DEF TableChanges
<1> QED
  BY <1>1, <1>6, <1>7, <1>8, <1>9 DEF CommentNext

LEMMA CommentInitTypes == CommentInit => CommentTypeOK
<1> SUFFICES ASSUME CommentInit PROVE CommentTypeOK
  OBVIOUS
<1>1. /\ AHost /\ onRoot \in BOOLEAN /\ table = 0 /\ made = 0 /\ begun = 0
      /\ comments = [i \in {} |-> 0] /\ writing = [w \in Writer |-> NotWriting]
  BY DEF CommentInit
<1>2. comments \in [DOMAIN comments -> Comment] /\ DOMAIN comments = {}
  BY <1>1
<1>3. /\ \A w \in Writer : writing[w] = NotWriting
      /\ 0 \in 0..MaxChange /\ 0 \in 0..MaxComment /\ 0 \in 0..MaxCalls /\ 0 \in 0..0
  BY <1>1, CommentAssumption
<1>4. \A w \in Writer : writing[w].first \in 0..made /\ writing[w].extra \subseteq 1..made
  BY <1>1, <1>3, NotWritingType
<1> QED
  BY <1>1, <1>2, <1>3, <1>4, NotWritingType DEF CommentTypeOK

\* What a call would write over or delete is its own, or taken for its own, as long as
\* it is there: the number of a comment is not used again.
OwnComments ==
    \A w \in Writer, i \in DOMAIN comments :
        i = writing[w].first \/ i \in writing[w].extra => Owns(comments[i])

Bots == {i \in DOMAIN comments : comments[i].by = "bot"}

\* What a call that is alone has found, before it has written,
Located(w) ==
    /\ writing[w].first = 0 => writing[w].extra = {}
    /\ writing[w].first # 0 => writing[w].first \in DOMAIN comments \ writing[w].extra
    /\ writing[w].same => writing[w].first # 0 /\ comments[writing[w].first] = Own(w)
    /\ Bots \subseteq {writing[w].first} \cup writing[w].extra
    /\ onGitLab /\ writing[w].pc = "write" => writing[w].extra \cap DOMAIN comments = {}

\* and what it leaves to delete on GitHub.
Written(w) ==
    \E i \in Bots : /\ i \notin writing[w].extra
                    /\ Bots \subseteq {i} \cup writing[w].extra
                    /\ comments[i].table = writing[w].table

\* A call that nothing has disturbed.
Calm(w) ==
    writing[w].alone /\ writing[w].pc # "idle" =>
        /\ \A v \in Writer \ {w} : writing[v].pc = "idle"
        /\ onRoot \/ onGitLab =>
              /\ writing[w].pc = "write" \/ (writing[w].pc = "delete" /\ onGitLab) => Located(w)
              /\ writing[w].pc = "delete" /\ ~ onGitLab => Written(w)

CommentInv ==
    /\ CommentTypeOK
    /\ OwnComments
    /\ CommentPage >= MaxComment => \A w \in Writer : Calm(w)

LEMMA CommentInitInv == CommentInit => CommentInv
<1> SUFFICES ASSUME CommentInit PROVE CommentInv
  OBVIOUS
<1>1. DOMAIN comments = {} /\ \A w \in Writer : writing[w].pc = "idle"
  BY NotWritingType DEF CommentInit
<1> QED
  BY <1>1, CommentInitTypes DEF CommentInv, OwnComments, Calm

\* What a step keeps of the comments that are not its own.
LEMMA OwnCommentsStep ==
    ASSUME CommentInv, CommentNext
    PROVE  /\ OwnComments'
           /\ \A i \in DOMAIN comments :
                 ~ Owns(comments[i]) => i \in DOMAIN comments' /\ comments'[i] = comments[i]
<1>1. CommentTypeOK /\ OwnComments
  BY DEF CommentInv
<1>2. /\ CommentTypeOK' /\ UNCHANGED <<onRoot, onGitLab>>
      /\ \/ UNCHANGED <<comments, writing>>
         \/ Talks
         \/ \E w \in Writer : Ensures(w)
  BY <1>1, CommentSteps
<1>3. /\ made + 1 \notin DOMAIN comments /\ 0 \notin DOMAIN comments
      /\ \A v \in Writer : made + 1 \notin writing[v].extra /\ writing[v].first # made + 1
  <2>1. made \in Nat /\ DOMAIN comments \subseteq 1..made
    BY <1>1, CommentAssumption DEF CommentTypeOK
  <2>2. made + 1 \notin 1..made /\ made + 1 \notin 0..made /\ 0 \notin 1..made
    BY <2>1
  <2>3. \A v \in Writer : writing[v].first \in 0..made /\ writing[v].extra \subseteq 1..made
    BY <1>1 DEF CommentTypeOK
  <2> QED
    BY <2>1, <2>2, <2>3
<1> DEFINE Kept == \A i \in DOMAIN comments :
               ~ Owns(comments[i]) => i \in DOMAIN comments' /\ comments'[i] = comments[i]
           \* A comment is what it was, a bot's, or new.
           Changed == \A i \in DOMAIN comments' :
               \/ i \in DOMAIN comments /\ comments'[i] = comments[i]
               \/ comments'[i].by = "bot"
               \/ i = made + 1 /\ i \notin DOMAIN comments
           Same == \A v \in Writer :
               writing'[v].first = writing[v].first /\ writing'[v].extra = writing[v].extra
<1>4. Changed /\ Same => OwnComments'
  <2> SUFFICES ASSUME Changed, Same, NEW w \in Writer, NEW i \in DOMAIN comments',
                      i = writing'[w].first \/ i \in writing'[w].extra
               PROVE  \/ comments'[i].by = "bot"
                      \/ comments'[i].by = "mention" /\ onGitLab /\ onRoot
    BY <1>2 DEF OwnComments, Owns
  <2>1. CASE i \in DOMAIN comments /\ comments'[i] = comments[i]
    <3>1. Owns(comments[i])
      BY <1>1, <2>1 DEF OwnComments
    <3> QED
      BY <2>1, <3>1 DEF Owns
  <2>2. i # made + 1
    BY <1>3
  <2> QED
    BY <2>1, <2>2
<1>5. UNCHANGED comments => Changed /\ Kept
  OBVIOUS
<1>6. CASE UNCHANGED <<comments, writing>>
  BY <1>4, <1>5, <1>6
<1>7. CASE Talks
  <2>1. Changed /\ Kept /\ Same
    BY <1>3, <1>7 DEF Talks, Posts
  <2> QED
    BY <1>4, <2>1
<1>8. ASSUME NEW w \in Writer, Ensures(w)
      PROVE  OwnComments' /\ Kept
  <2>1. CASE Begins(w)
    <3>1. UNCHANGED comments /\ (\A v \in Writer :
             \/ writing'[v].first = 0 /\ writing'[v].extra = {}
             \/ writing'[v].first = writing[v].first /\ writing'[v].extra = writing[v].extra)
      BY <2>1 DEF Begins
    <3>2. OwnComments'
      BY <1>1, <1>2, <1>3, <3>1 DEF OwnComments, Owns
    <3> QED
      BY <1>5, <3>1, <3>2
  <2>2. CASE Lists(w)
    <3>1. UNCHANGED comments /\ \A v \in Writer \ {w} : writing'[v] = writing[v]
      BY <2>2 DEF Lists
    <3>2. \A i \in DOMAIN comments :
             i = writing'[w].first \/ i \in writing'[w].extra => Owns(comments[i])
      BY <1>3, <2>2 DEF Lists
    <3>3. OwnComments'
      BY <1>1, <1>2, <3>1, <3>2 DEF OwnComments, Owns
    <3> QED
      BY <1>5, <3>1, <3>3
  <2>3. CASE Fails(w)
    <3>1. UNCHANGED comments /\ Same
      BY <2>3 DEF Fails, Moves
    <3> QED
      BY <1>4, <1>5, <3>1
  <2>4. CASE Writes(w)
    <3>1. Same
      BY <2>4 DEF Writes, Moves
    <3>2. CASE UNCHANGED comments
      BY <1>4, <1>5, <3>1, <3>2
    <3>3. CASE Posts(Own(w))
      <4>1. Changed /\ Kept
        BY <1>3, <3>3 DEF Posts
      <4> QED
        BY <1>4, <3>1, <4>1
    <3>4. CASE /\ DOMAIN comments' = DOMAIN comments
               /\ \A i \in DOMAIN comments :
                     comments'[i] = IF i = writing[w].first THEN Own(w) ELSE comments[i]
      <4>1. Changed
        BY <3>4 DEF Own
      <4>2. Kept
        BY <1>1, <3>4 DEF OwnComments
      <4> QED
        BY <1>4, <3>1, <4>1, <4>2
    <3> QED
      BY <2>4, <3>2, <3>3, <3>4 DEF Writes
  <2>5. CASE Deletes(w)
    <3>1. PICK gone \in SUBSET writing[w].extra : DOMAIN comments' = DOMAIN comments \ gone
      BY <2>5 DEF Deletes
    <3>2. Same /\ \A i \in DOMAIN comments' : comments'[i] = comments[i]
      BY <2>5 DEF Deletes, Moves
    <3>3. Changed
      BY <3>1, <3>2
    <3>4. Kept
      BY <1>1, <3>1, <3>2 DEF OwnComments
    <3> QED
      BY <1>4, <3>2, <3>3, <3>4
  <2> QED
    BY <1>8, <2>1, <2>2, <2>3, <2>4, <2>5 DEF Ensures
<1> QED
  BY <1>2, <1>6, <1>7, <1>8

\* A step of another call, or of none, does not disturb what a call has found: a call
\* that is alone shares the comments with people only.
LEMMA CalmTalk ==
    ASSUME CommentTypeOK, Talks, UNCHANGED <<onRoot, onGitLab>>,
           NEW w \in Writer, Calm(w)
    PROVE  Calm(w)'
<1>1. made + 1 \notin DOMAIN comments /\ made + 1 \notin writing[w].extra /\ 0 \notin DOMAIN comments
  <2>1. made \in Nat /\ DOMAIN comments \subseteq 1..made /\ writing[w].extra \subseteq 1..made
    BY CommentAssumption DEF CommentTypeOK
  <2>2. made + 1 \notin 1..made /\ 0 \notin 1..made
    BY <2>1
  <2> QED
    BY <2>1, <2>2
<1>2. PICK by \in {"person", "mention"} : Posts([by |-> by, table |-> 0])
  BY DEF Talks
<1>3. /\ DOMAIN comments' = DOMAIN comments \cup {made + 1} /\ comments'[made + 1].by # "bot"
      /\ \A i \in DOMAIN comments : comments'[i] = comments[i]
      /\ UNCHANGED writing
  BY <1>2 DEF Posts, Talks
<1>4. Bots' = Bots
  BY <1>1, <1>3 DEF Bots
<1>5. Located(w) => Located(w)'
  BY <1>1, <1>3, <1>4 DEF Located, Own
<1>6. Written(w) => Written(w)'
  <2>1. \A i \in Bots : comments'[i] = comments[i]
    BY <1>3 DEF Bots
  <2> QED
    BY <1>3, <1>4, <2>1 DEF Written
<1> QED
  BY <1>3, <1>5, <1>6 DEF Calm

LEMMA CalmCall ==
    ASSUME CommentTypeOK, CommentPage >= MaxComment, UNCHANGED <<onRoot, onGitLab>>,
           NEW w \in Writer, Calm(w), Ensures(w)
    PROVE  Calm(w)'
<1> SUFFICES ASSUME writing'[w].alone, writing'[w].pc # "idle"
             PROVE  /\ \A v \in Writer \ {w} : writing'[v].pc = "idle"
                    /\ onRoot \/ onGitLab =>
                       /\ (writing'[w].pc = "write" \/ (writing'[w].pc = "delete" /\ onGitLab))
                              => Located(w)'
                       /\ writing'[w].pc = "delete" /\ ~ onGitLab => Written(w)'
  BY DEF Calm
<1>1. 0 \notin DOMAIN comments
  <2>1. made \in Nat /\ DOMAIN comments \subseteq 1..made /\ 0 \notin 1..made
    BY CommentAssumption DEF CommentTypeOK
  <2> QED
    BY <2>1
<1>2. CASE Begins(w)
  <2>1. writing'[w].pc = "list"
    BY <1>2 DEF Begins
  <2>2. \A v \in Writer \ {w} : writing'[v].pc = "idle"
    BY <1>2 DEF Begins
  <2> QED
    BY <2>1, <2>2
<1>3. ASSUME \A v \in Writer \ {w} : writing'[v] = writing[v],
             writing'[w].alone => writing[w].alone, writing[w].pc # "idle"
      PROVE  /\ \A v \in Writer \ {w} : writing'[v].pc = "idle"
             /\ onRoot \/ onGitLab =>
                /\ writing[w].pc = "write" \/ (writing[w].pc = "delete" /\ onGitLab) => Located(w)
                /\ writing[w].pc = "delete" /\ ~ onGitLab => Written(w)
  BY <1>3 DEF Calm
<1>4. CASE Lists(w)
  <2>1. /\ UNCHANGED comments /\ writing[w].pc = "list"
        /\ \A v \in Writer \ {w} : writing'[v] = writing[v]
        /\ writing'[w].alone => writing[w].alone
        /\ onGitLab => writing'[w].pc = "delete"
        /\ ~ onGitLab /\ onRoot => writing'[w].pc = "write"
        /\ writing'[w].table = writing[w].table
    BY <1>4 DEF Lists
  <2>2. PICK own \in SUBSET {i \in DOMAIN comments : Owns(comments[i])} :
          /\ \A i \in DOMAIN comments : Owns(comments[i]) => i \in own
          /\ writing'[w].first = 0 => own = {}
          /\ writing'[w].first # 0 => writing'[w].first \in own
          /\ writing'[w].extra = own \ {writing'[w].first}
          /\ writing'[w].same => own # {} /\ comments[writing'[w].first] = Own(w)
    BY <1>4 DEF Lists
  <2>3. Bots' \subseteq own
    BY <2>1, <2>2 DEF Bots, Owns
  <2>4. Own(w)' = Own(w)
    BY <2>1 DEF Own
  <2>5. onGitLab \/ onRoot => Located(w)'
    BY <2>1, <2>2, <2>3, <2>4 DEF Located
  <2> QED
    BY <1>3, <2>1, <2>5
<1>5. CASE Fails(w)
  BY <1>5 DEF Fails
<1>6. CASE Writes(w)
  <2>1. /\ Moves(w) /\ writing[w].pc = "write"
        /\ writing'[w].pc = IF onGitLab \/ writing[w].extra = {} THEN "idle" ELSE "delete"
    BY <1>6 DEF Writes
  <2>2. ~ onGitLab /\ writing[w].extra # {} /\ writing'[w].pc = "delete"
    BY <2>1
  <2>3. \A v \in Writer \ {w} : writing'[v].pc = "idle"
    BY <1>3, <2>1 DEF Moves
  <2>4. ASSUME onRoot
        PROVE  Written(w)'
    <3>1. Located(w)
      BY <1>3, <2>1, <2>4 DEF Moves
    <3>2. /\ writing[w].first # 0 /\ writing[w].first \in DOMAIN comments \ writing[w].extra
          /\ Bots \subseteq {writing[w].first} \cup writing[w].extra
          /\ writing[w].same => comments[writing[w].first] = Own(w)
      BY <2>2, <3>1 DEF Located
    <3>3. /\ DOMAIN comments' = DOMAIN comments /\ comments'[writing[w].first] = Own(w)
          /\ \A i \in DOMAIN comments : i # writing[w].first => comments'[i] = comments[i]
      BY <1>6, <3>2 DEF Writes
    <3>4. writing[w].first \in Bots' /\ comments'[writing[w].first].table = writing[w].table
      BY <3>2, <3>3 DEF Bots, Own
    <3>5. Bots' \subseteq {writing[w].first} \cup writing[w].extra
      BY <3>2, <3>3 DEF Bots
    <3>6. writing'[w].extra = writing[w].extra /\ writing'[w].table = writing[w].table
      BY <2>1 DEF Moves
    <3> QED
      BY <3>2, <3>4, <3>5, <3>6 DEF Written
  <2> QED
    BY <2>2, <2>3, <2>4
<1>7. CASE Deletes(w)
  <2>1. /\ Moves(w) /\ writing[w].pc = "delete" /\ onGitLab /\ writing'[w].pc = "write"
        /\ DOMAIN comments' = DOMAIN comments \ writing[w].extra
        /\ \A i \in DOMAIN comments' : comments'[i] = comments[i]
    BY <1>7 DEF Deletes
  <2>2. Located(w) /\ \A v \in Writer \ {w} : writing'[v].pc = "idle"
    BY <1>3, <2>1 DEF Moves
  <2>3. /\ writing'[w].table = writing[w].table /\ writing'[w].first = writing[w].first
        /\ writing'[w].same = writing[w].same /\ writing'[w].extra = writing[w].extra
    BY <2>1 DEF Moves
  <2>4. Bots' \subseteq Bots /\ Own(w)' = Own(w)
    BY <2>1, <2>3 DEF Bots, Own
  <2>5. Located(w)'
    BY <2>1, <2>2, <2>3, <2>4 DEF Located
  <2> QED
    BY <2>1, <2>2, <2>5
<1> QED
  BY <1>2, <1>4, <1>5, <1>6, <1>7 DEF Ensures

LEMMA CalmOther ==
    ASSUME NEW v \in Writer, NEW w \in Writer, v # w, Calm(w), Ensures(v)
    PROVE  Calm(w)'
<1>1. CASE Begins(v)
  BY <1>1 DEF Begins, Calm
<1>2. CASE Lists(v) \/ Fails(v) \/ Writes(v) \/ Deletes(v)
  <2>1. writing'[w] = writing[w]
    BY <1>2 DEF Lists, Fails, Writes, Deletes, Moves
  <2>2. CASE ~ writing[w].alone \/ writing[w].pc = "idle"
    BY <2>1, <2>2 DEF Calm
  <2>3. CASE Fails(v) /\ writing[w].alone /\ writing[w].pc # "idle"
    <3>1. writing[v].pc = "idle"
      BY <2>3 DEF Calm
    <3> QED
      BY <2>3, <3>1 DEF Fails
  <2>4. CASE /\ Lists(v) \/ Writes(v) \/ Deletes(v)
             /\ writing[w].alone /\ writing[w].pc # "idle"
    <3>1. writing[v].pc = "idle"
      BY <2>4 DEF Calm
    <3> QED
      BY <2>4, <3>1 DEF Lists, Writes, Deletes
  <2> QED
    BY <1>2, <2>2, <2>3, <2>4
<1> QED
  BY <1>1, <1>2 DEF Ensures

LEMMA CommentInvStep == ASSUME CommentInv, [CommentNext]_commentVars PROVE CommentInv'
<1>1. CASE UNCHANGED commentVars
  <2>1. CommentTypeOK'
    BY <1>1 DEF CommentInv, CommentTypeOK, commentVars, AHost
  <2>2. OwnComments'
    BY <1>1 DEF CommentInv, OwnComments, Owns, commentVars
  <2>3. CommentPage >= MaxComment => \A w \in Writer : Calm(w)'
    BY <1>1 DEF CommentInv, Calm, Located, Written, Bots, Own, commentVars
  <2> QED
    BY <2>1, <2>2, <2>3 DEF CommentInv
<1>2. CASE CommentNext
  <2>1. CommentTypeOK
    BY DEF CommentInv
  <2>2. /\ CommentTypeOK' /\ UNCHANGED <<onRoot, onGitLab>>
        /\ \/ UNCHANGED <<comments, writing>>
           \/ Talks
           \/ \E w \in Writer : Ensures(w)
    BY <1>2, <2>1, CommentSteps
  <2>3. OwnComments'
    BY <1>2, OwnCommentsStep
  <2>4. ASSUME CommentPage >= MaxComment, NEW w \in Writer
        PROVE  Calm(w)'
    <3>1. Calm(w)
      BY <2>4 DEF CommentInv
    <3>2. CASE UNCHANGED <<comments, writing>>
      BY <2>2, <3>1, <3>2 DEF Calm, Located, Written, Bots, Own
    <3>3. CASE Talks
      BY <2>1, <2>2, <3>1, <3>3, CalmTalk
    <3>4. ASSUME NEW v \in Writer, Ensures(v)
          PROVE  Calm(w)'
      <4>1. CASE v = w
        BY <2>1, <2>2, <2>4, <3>1, <3>4, <4>1, CalmCall
      <4>2. CASE v # w
        BY <3>1, <3>4, <4>2, CalmOther
      <4> QED
        BY <4>1, <4>2
    <3> QED
      BY <2>2, <3>2, <3>3, <3>4
  <2> QED
    BY <2>2, <2>3, <2>4 DEF CommentInv
<1> QED
  BY <1>1, <1>2

\* What a call writes over is its own, and one that nothing disturbs knows all that is.
THEOREM CommentInvariant == CommentSpec => []CommentInv
<1>1. CommentInit => CommentInv
  BY CommentInitInv
<1>2. CommentInv /\ [CommentNext]_commentVars => CommentInv'
  BY CommentInvStep
<1> QED
  BY <1>1, <1>2, PTL DEF CommentSpec

\* The numbers of EnsureRootPRComment and EnsureChildPRComment are of comments.
THEOREM CommentTypeCorrect == CommentSpec => []CommentTypeOK
<1>1. CommentInv => CommentTypeOK
  BY DEF CommentInv
<1> QED
  BY <1>1, CommentInvariant, PTL

\* What people write is theirs, whatever calls of EnsureRootPRComment and
\* EnsureChildPRComment run at once, and however many requests of theirs fail.
THEOREM PeopleKeepComments == CommentSpec => PeopleKeepTheirs
<1> DEFINE Kept == \A i \in DOMAIN comments :
               comments[i].by = "person" \/ (comments[i].by = "mention" /\ ~ (onRoot /\ onGitLab))
               => i \in DOMAIN comments' /\ comments'[i] = comments[i]
<1>1. ASSUME CommentInv, [CommentNext]_commentVars
      PROVE  [Kept]_commentVars
  <2>1. CASE UNCHANGED commentVars
    BY <2>1
  <2>2. CASE CommentNext
    <3>1. \A i \in DOMAIN comments :
             ~ Owns(comments[i]) => i \in DOMAIN comments' /\ comments'[i] = comments[i]
      BY <1>1, <2>2, OwnCommentsStep
    <3>2. \A i \in DOMAIN comments :
             comments[i].by = "person" \/ (comments[i].by = "mention" /\ ~ (onRoot /\ onGitLab))
             => ~ Owns(comments[i])
      BY DEF Owns
    <3> QED
      BY <3>1, <3>2
  <2> QED
    BY <1>1, <2>1, <2>2
<1> QED
  BY <1>1, CommentInvariant, PTL DEF CommentSpec, PeopleKeepTheirs

\* The last step of a call that nothing disturbed.
LEMMA LastStep ==
    ASSUME CommentInv, CommentNext, CommentPage >= MaxComment, NEW w \in Writer,
           onRoot \/ onGitLab,
           writing[w].pc # "idle", writing'[w].pc = "idle", writing'[w].alone
    PROVE  \E i \in Bots' : Bots' = {i} /\ comments'[i].table = writing[w].table
<1>1. CommentTypeOK /\ Calm(w)
  BY DEF CommentInv
<1>2. /\ UNCHANGED <<onRoot, onGitLab>>
      /\ \/ UNCHANGED <<comments, writing>>
         \/ Talks
         \/ \E v \in Writer : Ensures(v)
  BY <1>1, CommentSteps
<1>3. writing' # writing
  OBVIOUS
<1>4. PICK v \in Writer : Ensures(v)
  BY <1>2, <1>3 DEF Talks
<1>5. v = w
  BY <1>4 DEF Ensures, Begins, Lists, Fails, Writes, Deletes, Moves
<1>6. Ensures(w) /\ ~ Begins(w) /\ ~ Lists(w) /\ ~ Fails(w)
  BY <1>4, <1>5 DEF Begins, Lists, Fails
<1>7. 0 \notin DOMAIN comments /\ made + 1 \notin DOMAIN comments
  <2>1. made \in Nat /\ DOMAIN comments \subseteq 1..made
    BY <1>1, CommentAssumption DEF CommentTypeOK
  <2>2. 0 \notin 1..made /\ made + 1 \notin 1..made
    BY <2>1
  <2> QED
    BY <2>1, <2>2
<1>8. CASE Writes(w)
  <2>1. /\ writing[w].pc = "write" /\ (onGitLab \/ writing[w].extra = {})
        /\ writing[w].alone
    BY <1>8 DEF Writes, Moves
  <2>2. Located(w)
    BY <1>1, <2>1 DEF Calm
  <2>3. Bots \subseteq {writing[w].first}
    BY <2>1, <2>2 DEF Located, Bots
  <2>4. Own(w).by = "bot" /\ Own(w).table = writing[w].table
    BY DEF Own
  <2>5. CASE writing[w].same /\ UNCHANGED comments
    <3>1. writing[w].first \in DOMAIN comments /\ comments[writing[w].first] = Own(w)
      BY <2>2, <2>5 DEF Located
    <3>2. Bots' = {writing[w].first}
      BY <2>3, <2>4, <2>5, <3>1 DEF Bots
    <3> QED
      BY <2>4, <2>5, <3>1, <3>2
  <2>6. CASE writing[w].first = 0 /\ Posts(Own(w))
    <3>1. Bots = {}
      BY <1>7, <2>3, <2>6 DEF Bots
    <3>2. /\ DOMAIN comments' = DOMAIN comments \cup {made + 1} /\ comments'[made + 1] = Own(w)
          /\ \A i \in DOMAIN comments : comments'[i] = comments[i]
      BY <2>6 DEF Posts
    <3>3. Bots' = {made + 1}
      BY <2>4, <3>1, <3>2 DEF Bots
    <3> QED
      BY <2>4, <3>2, <3>3
  <2>7. CASE /\ writing[w].first # 0 /\ DOMAIN comments' = DOMAIN comments
             /\ \A i \in DOMAIN comments :
                   comments'[i] = IF i = writing[w].first THEN Own(w) ELSE comments[i]
    <3>1. writing[w].first \in DOMAIN comments /\ comments'[writing[w].first] = Own(w)
      BY <2>2, <2>7 DEF Located
    <3>2. Bots' = {writing[w].first}
      BY <2>3, <2>4, <2>7, <3>1 DEF Bots
    <3> QED
      BY <2>4, <3>1, <3>2
  <2> QED
    BY <1>8, <2>5, <2>6, <2>7 DEF Writes
<1>9. CASE Deletes(w)
  <2>1. /\ writing[w].pc = "delete" /\ ~ onGitLab /\ writing[w].alone
        /\ DOMAIN comments' = DOMAIN comments \ writing[w].extra
        /\ \A i \in DOMAIN comments' : comments'[i] = comments[i]
    BY <1>9 DEF Deletes, Moves
  <2>2. Written(w)
    BY <1>1, <2>1 DEF Calm
  <2>3. PICK i \in Bots : /\ i \notin writing[w].extra
                          /\ Bots \subseteq {i} \cup writing[w].extra
                          /\ comments[i].table = writing[w].table
    BY <2>2 DEF Written
  <2>4. i \in DOMAIN comments' /\ comments'[i] = comments[i] /\ comments[i].by = "bot"
    BY <2>1, <2>3 DEF Bots
  <2>5. Bots' = {i}
    BY <2>1, <2>3, <2>4 DEF Bots
  <2> QED
    BY <2>3, <2>4, <2>5
<1> QED
  BY <1>6, <1>8, <1>9 DEF Ensures

\* Where an answer of the host has room for every comment, a call of
\* EnsureRootPRComment, or of a child's on GitLab, that nothing disturbs leaves one
\* comment, whatever earlier calls have left.
THEOREM OneCommentLeft ==
    ASSUME CommentPage >= MaxComment
    PROVE  CommentSpec => OneAfterCall
<1> DEFINE One == \A w \in Writer :
               /\ onRoot \/ onGitLab
               /\ writing[w].pc # "idle" /\ writing'[w].pc = "idle" /\ writing'[w].alone
               => \E i \in DOMAIN comments' :
                     /\ {j \in DOMAIN comments' : comments'[j].by = "bot"} = {i}
                     /\ comments'[i].table = writing[w].table
<1>1. ASSUME CommentInv, [CommentNext]_commentVars
      PROVE  [One]_commentVars
  <2>1. CASE UNCHANGED commentVars
    BY <2>1
  <2>2. CASE CommentNext
    <3>1. SUFFICES ASSUME NEW w \in Writer, onRoot \/ onGitLab,
                          writing[w].pc # "idle", writing'[w].pc = "idle", writing'[w].alone
                   PROVE  \E i \in DOMAIN comments' :
                             /\ {j \in DOMAIN comments' : comments'[j].by = "bot"} = {i}
                             /\ comments'[i].table = writing[w].table
      OBVIOUS
    <3>2. PICK i \in Bots' : Bots' = {i} /\ comments'[i].table = writing[w].table
      BY <1>1, <2>2, <3>1, LastStep
    <3> QED
      BY <3>2 DEF Bots
  <2> QED
    BY <1>1, <2>1, <2>2
<1> QED
  BY <1>1, CommentInvariant, PTL DEF CommentSpec, OneAfterCall

--------------------------------------------------------------------------------
(* MergeRules: what a yes is worth.                                        *)

\* The parts of YesIsTrue that need nothing of the size of an answer.
ApprovedAndChecked ==
    /\ Yes("approval") => \E i \in DOMAIN reviews : reviews[i] = "approved"
    /\ Yes("checks") => \A k \in Required : \E x \in Source : result[k][x] = "success"

LEMMA RulesInitTypes == RulesInit => RulesTypeOK
BY RulesAssumption DEF RulesInit, RulesTypeOK, NoAnswer, Result, ReviewState, File

LEMMA AnswerTypes ==
    ASSUME RulesTypeOK, NEW rule \in {"approval", "checks", "files"}, NEW yes \in BOOLEAN,
           Answers(rule, yes), SameHost
    PROVE  RulesTypeOK'
BY DEF RulesTypeOK, Answers, SameHost, AHost

\* The steps of the pull request forget the last answer.
Forgets == answer' = NoAnswer

LEMMA RulesTypes ==
    ASSUME RulesTypeOK, RulesNext
    PROVE  /\ RulesTypeOK'
           /\ \/ Forgets
              \/ HasApprovedReview
              \/ AreRequiredChecksPassing
              \/ HasNonSubmoduleFilesChanged
<1>1. NoAnswer \in [rule : {"none", "approval", "checks", "files"}, yes : BOOLEAN]
  BY DEF NoAnswer
<1>2. SameHost
  BY DEF RulesNext
<1>3. ASSUME NEW state \in ReviewState, Submit(state)
      PROVE  RulesTypeOK' /\ Forgets
  <2>1. reviews' \in Seq(ReviewState) /\ Len(reviews') <= MaxReview
    BY <1>3, RulesAssumption DEF Submit, RulesTypeOK
  <2> QED
    BY <1>1, <1>2, <1>3, <2>1 DEF Submit, RulesTypeOK, Forgets, SameHost, AHost
<1>4. ASSUME NEW i \in DOMAIN reviews, Dismiss(i)
      PROVE  RulesTypeOK' /\ Forgets
  <2>1. reviews' \in Seq(ReviewState) /\ Len(reviews') <= MaxReview
    BY <1>4 DEF Dismiss, RulesTypeOK, ReviewState
  <2> QED
    BY <1>1, <1>2, <1>4, <2>1 DEF Dismiss, RulesTypeOK, Forgets, SameHost, AHost
<1>5. ASSUME NEW k \in Check, NEW x \in Source, NEW r \in Result, ReportCheck(k, x, r)
      PROVE  RulesTypeOK' /\ Forgets
  <2>1. result' \in [Check -> [Source -> Result]]
    BY <1>5 DEF ReportCheck, RulesTypeOK
  <2> QED
    BY <1>1, <1>2, <1>5, <2>1 DEF ReportCheck, RulesTypeOK, Forgets, SameHost, AHost
<1>6. ASSUME NEW f \in File, PushFile(f)
      PROVE  RulesTypeOK' /\ Forgets
  <2>1. files' \in Seq(File) /\ Len(files') <= MaxFile
    BY <1>6, RulesAssumption DEF PushFile, RulesTypeOK
  <2>2. result' \in [Check -> [Source -> Result]]
    BY <1>6 DEF PushFile, Result
  <2> QED
    BY <1>1, <1>2, <1>6, <2>1, <2>2 DEF PushFile, RulesTypeOK, Forgets, SameHost, AHost
<1>7. CASE HasApprovedReview
  BY <1>2, <1>7, AnswerTypes DEF HasApprovedReview
<1>8. CASE AreRequiredChecksPassing
  BY <1>2, <1>8, AnswerTypes DEF AreRequiredChecksPassing
<1>9. CASE HasNonSubmoduleFilesChanged
  BY <1>2, <1>9, AnswerTypes DEF HasNonSubmoduleFilesChanged
<1> QED
  BY <1>3, <1>4, <1>5, <1>6, <1>7, <1>8, <1>9 DEF RulesNext

LEMMA ApprovalTold ==
    ASSUME RulesTypeOK, HasApprovedReview
    PROVE  /\ answer'.rule = "approval"
           /\ answer'.yes => \E i \in DOMAIN reviews' : reviews'[i] = "approved"
<1>1. PICK fails \in MayFail("reviews") :
         Answers("approval",
                 /\ ~ fails
                 /\ IF onGitLab THEN ApprovedOnGitLab
                    ELSE "approved" \in FirstOf(ReviewPage, reviews))
  BY DEF HasApprovedReview
<1>2. /\ answer'.rule = "approval" /\ reviews' = reviews
      /\ answer'.yes => ApprovedOnGitLab \/ "approved" \in FirstOf(ReviewPage, reviews)
  <2>1. /\ answer'.rule = "approval" /\ reviews' = reviews
        /\ answer'.yes = (/\ ~ fails
                          /\ IF onGitLab THEN ApprovedOnGitLab
                             ELSE "approved" \in FirstOf(ReviewPage, reviews))
    BY <1>1 DEF Answers
  <2> QED
    BY <2>1
<1>3. "approved" \in FirstOf(ReviewPage, reviews) => ApprovedOnGitLab
  BY DEF FirstOf, ApprovedOnGitLab
<1>4. ApprovedOnGitLab => \E i \in DOMAIN reviews' : reviews'[i] = "approved"
  BY <1>2 DEF ApprovedOnGitLab
<1> QED
  BY <1>2, <1>3, <1>4

LEMMA ChecksTold ==
    ASSUME RulesTypeOK, AreRequiredChecksPassing
    PROVE  /\ answer'.rule = "checks"
           /\ answer'.yes =>
                 \A k \in Required : \E x \in Source : result'[k][x] = "success"
<1>1. PICK fails \in [Source -> BOOLEAN] :
         Answers("checks",
                 \A k \in Required :
                     IF onGitLab THEN StatusSucceeded(k, fails)
                     ELSE \E x \in Source : Succeeded(k, x, fails))
  BY DEF AreRequiredChecksPassing
<1>2. /\ answer'.rule = "checks" /\ result' = result
      /\ answer'.yes => \A k \in Required :
             StatusSucceeded(k, fails) \/ \E x \in Source : Succeeded(k, x, fails)
  BY <1>1 DEF Answers
<1> QED
  BY <1>2 DEF StatusSucceeded, Succeeded, Source

LEMMA FilesTold ==
    ASSUME RulesTypeOK, HasNonSubmoduleFilesChanged
    PROVE  /\ answer'.rule = "files"
           /\ FilePage >= MaxFile /\ "gitmodules" \notin RulesFaults /\ answer'.yes /\ ~ onGitLab
              => \A i \in DOMAIN files' : files'[i] = "submodule"
<1>1. PICK fails \in MayFail("files"), unread \in MayFail("gitmodules") :
         Answers("files",
                 /\ ~ fails \/ onGitLab
                 /\ \A f \in (IF onGitLab THEN ChangesOnGitLab(fails)
                              ELSE FirstOf(FilePage, files)) :
                        IsSubmodulePath(f, unread))
  BY DEF HasNonSubmoduleFilesChanged
<1>2. /\ answer'.rule = "files" /\ files' = files
      /\ answer'.yes /\ ~ onGitLab => \A f \in FirstOf(FilePage, files) : IsSubmodulePath(f, unread)
  BY <1>1 DEF Answers
<1>3. ASSUME FilePage >= MaxFile, NEW i \in DOMAIN files
      PROVE  files[i] \in FirstOf(FilePage, files)
  <2>1. files \in Seq(File) /\ Len(files) <= MaxFile /\ MaxFile \in Nat /\ FilePage \in Nat
    BY RulesAssumption DEF RulesTypeOK
  <2>2. i \in Nat /\ i <= FilePage
    BY <1>3, <2>1
  <2> QED
    BY <2>2 DEF FirstOf
<1>4. "gitmodules" \notin RulesFaults => unread = FALSE
  BY <1>1 DEF MayFail
<1> QED
  BY <1>2, <1>3, <1>4 DEF IsSubmodulePath

LEMMA RulesStep ==
    ASSUME RulesTypeOK, RulesNext
    PROVE  /\ ApprovedAndChecked'
           /\ FilePage >= MaxFile /\ "gitmodules" \notin RulesFaults => YesIsTrue'
<1>1. Forgets \/ HasApprovedReview \/ AreRequiredChecksPassing \/ HasNonSubmoduleFilesChanged
  BY RulesTypes
<1>2. CASE Forgets
  BY <1>2 DEF Forgets, NoAnswer, ApprovedAndChecked, YesIsTrue, Yes
<1>3. CASE HasApprovedReview
  BY <1>3, ApprovalTold DEF ApprovedAndChecked, YesIsTrue, Yes
<1>4. CASE AreRequiredChecksPassing
  BY <1>4, ChecksTold DEF ApprovedAndChecked, YesIsTrue, Yes
<1>5. CASE HasNonSubmoduleFilesChanged
  <2>1. onGitLab' = onGitLab
    BY DEF RulesNext, SameHost
  <2> QED
    BY <1>5, <2>1, FilesTold DEF ApprovedAndChecked, YesIsTrue, Yes
<1> QED
  BY <1>1, <1>2, <1>3, <1>4, <1>5

\* The answers of the clients are typed, and so is what they answer about.
THEOREM RulesTypeCorrect == RulesSpec => []RulesTypeOK
<1>1. RulesTypeOK /\ UNCHANGED rulesVars => RulesTypeOK'
  BY DEF RulesTypeOK, rulesVars, AHost
<1> QED
  BY RulesInitTypes, RulesTypes, <1>1, PTL DEF RulesSpec

\* Whatever lists fail and however short the pages are, a pull request is called
\* approved only when a review that was not dismissed approves it, and its checks are
\* called passing only when every required one has succeeded.
THEOREM ApprovalsAndChecksAreTrue == RulesSpec => []ApprovedAndChecked
<1>1. RulesInit => ApprovedAndChecked
  BY DEF RulesInit, ApprovedAndChecked, Yes, NoAnswer
<1>2. RulesTypeOK /\ RulesNext => ApprovedAndChecked'
  BY RulesStep
<1>3. ApprovedAndChecked /\ UNCHANGED rulesVars => ApprovedAndChecked'
  BY DEF ApprovedAndChecked, Yes, rulesVars
<1> QED
  BY <1>1, <1>2, <1>3, RulesTypeCorrect, PTL DEF RulesSpec

\* With .gitmodules readable, and changes that fit in one answer of the host, a pull
\* request without other changes has none either.
THEOREM EveryYesIsTrue ==
    ASSUME FilePage >= MaxFile, "gitmodules" \notin RulesFaults
    PROVE  RulesSpec => []YesIsTrue
<1>1. RulesInit => YesIsTrue
  BY DEF RulesInit, YesIsTrue, Yes, NoAnswer
<1>2. RulesTypeOK /\ RulesNext => YesIsTrue'
  BY RulesStep
<1>3. YesIsTrue /\ UNCHANGED rulesVars => YesIsTrue'
  BY DEF YesIsTrue, Yes, rulesVars
<1> QED
  BY <1>1, <1>2, <1>3, RulesTypeCorrect, PTL DEF RulesSpec

================================================================================
