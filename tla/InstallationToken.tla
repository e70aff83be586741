---------------------------- MODULE InstallationToken --------------------------
(***************************************************************************)
(* GitHubClient.GetInstallationToken: the access token of one installation *)
(* of the GitHub App, kept in the memory of each server process and in a   *)
(* table they share.  A token is the time at which the host ends it.       *)
(***************************************************************************)
EXTENDS Naturals

CONSTANTS Server,     \* processes with a GitHubClient
          Caller,     \* goroutines that ask for a token
          Home,       \* the process of each
          Lifetime,   \* of a token: an hour
          Margin,     \* two minutes
          Recached,   \* of a token taken from the table: fifty minutes
          Horizon     \* bound on the time

ASSUME HomeAssumption == Home \in [Caller -> Server]
ASSUME TimeAssumption ==
    /\ Lifetime \in Nat /\ Margin \in Nat /\ Recached \in Nat /\ Horizon \in Nat
    /\ Margin < Recached /\ Recached < Lifetime

VARIABLES now,       \* the time
          cache,     \* tokenCache: the token, and the time it is taken to end
          shared,    \* app_installation_tokens: the token, which ends then
          hasTable,  \* c.repo # nil, of every process
          caller     \* the locals of each caller

tokenVars == <<now, cache, shared, caller, hasTable>>

Entry == [token : Nat, until : Nat]

\* "ask" holds the write lock of the cache.
Request == [pc : {"idle", "table", "keep", "lock", "ask", "use"},
          token : Nat,
          since : Nat]

NoRequest == [pc |-> "idle", token |-> 0, since |-> 0]

TokenTypeOK ==
    /\ hasTable \in BOOLEAN
    /\ now \in Nat
    /\ cache \in [Server -> Entry]
    /\ shared \in Nat
    /\ caller \in [Caller -> Request]
    /\ \A c \in Caller : caller[c].pc \in {"keep", "use"} <=> caller[c].token # 0

TokenInit ==
    /\ hasTable \in BOOLEAN
    /\ now = 0
    /\ cache = [s \in Server |-> [token |-> 0, until |-> 0]]
    /\ shared = 0
    /\ caller = [c \in Caller |-> NoRequest]

--------------------------------------------------------------------------------

Cached(c) == cache[Home[c]]

Good(until) == now + Margin < until

LockFree(c) ==
    \A d \in Caller : Home[d] = Home[c] => caller[d].pc # "ask"

CallerTo(c, pc) == caller' = [caller EXCEPT ![c].pc = pc]

Use(c, token) == caller' = [caller EXCEPT ![c].pc = "use", ![c].token = token]

Lookup(c) ==
    /\ caller[c].pc = "idle"
    /\ LockFree(c)
    /\ caller' = [caller EXCEPT ![c] =
                   IF Good(Cached(c).until)
                   THEN [pc |-> "use", token |-> Cached(c).token, since |-> now]
                   ELSE [pc    |-> IF hasTable THEN "table" ELSE "lock",
                         token |-> 0,
                         since |-> now]]
    /\ UNCHANGED <<now, cache, shared>>

\* No row, or an error, leads to the host.
ReadTable(c) ==
    /\ caller[c].pc = "table"
    /\ \/ /\ Good(shared)
          /\ caller' = [caller EXCEPT ![c].pc = "keep", ![c].token = shared]
       \/ CallerTo(c, "lock")
    /\ UNCHANGED <<now, cache, shared>>

\* When the token ends is not read from the table.
Keep(c) ==
    /\ caller[c].pc = "keep"
    /\ LockFree(c)
    /\ cache' = [cache EXCEPT ![Home[c]] =
                    [token |-> caller[c].token, until |-> now + Recached]]
    /\ Use(c, caller[c].token)
    /\ UNCHANGED <<now, shared>>

\* Mutant: no second look under the write lock.
LockUnchecked(c) ==
    /\ caller[c].pc = "lock"
    /\ LockFree(c)
    /\ CallerTo(c, "ask")
    /\ UNCHANGED <<now, cache, shared>>

\* Under the write lock the cache is looked at again.
Lock(c) ==
    /\ caller[c].pc = "lock"
    /\ LockFree(c)
    /\ IF Good(Cached(c).until) THEN Use(c, Cached(c).token) ELSE CallerTo(c, "ask")
    /\ UNCHANGED <<now, cache, shared>>

\* Mutant: what the cache is told is the time the token was taken from a table.
HostAnswersRecached(c) ==
    /\ caller[c].pc = "ask"
    /\ cache' = [cache EXCEPT ![Home[c]] = [token |-> now + Lifetime,
                                            until |-> now + Lifetime + Recached]]
    /\ shared' = IF hasTable THEN now + Lifetime ELSE shared
    /\ Use(c, now + Lifetime)
    /\ UNCHANGED now

\* The host's answer; the table's error is ignored.
HostAnswers(c) ==
    /\ caller[c].pc = "ask"
    /\ cache' = [cache EXCEPT ![Home[c]] =
                    [token |-> now + Lifetime, until |-> now + Lifetime]]
    /\ \/ hasTable /\ shared' = now + Lifetime
       \/ shared' = shared
    /\ Use(c, now + Lifetime)
    /\ UNCHANGED now

\* An error, or the personal token instead.
HostRefuses(c) ==
    /\ caller[c].pc = "ask"
    /\ caller' = [caller EXCEPT ![c] = NoRequest]
    /\ UNCHANGED <<now, cache, shared>>

Used(c) ==
    /\ caller[c].pc = "use"
    /\ caller' = [caller EXCEPT ![c] = NoRequest]
    /\ UNCHANGED <<now, cache, shared>>

\* A caller is done with its token within the margin.
Tick ==
    /\ now < Horizon
    /\ \A c \in Caller : caller[c].pc # "idle" => now < caller[c].since + Margin
    /\ now' = now + 1
    /\ UNCHANGED <<cache, shared, caller>>

GetInstallationToken(c) ==
    \/ Lookup(c)
    \/ ReadTable(c)
    \/ Keep(c)
    \/ Lock(c)
    \/ HostAnswers(c)
    \/ HostRefuses(c)
    \/ Used(c)

TokenNext ==
    /\ Tick \/ \E c \in Caller : GetInstallationToken(c)
    /\ UNCHANGED hasTable

TokenSpec == TokenInit /\ [][TokenNext]_tokenVars

--------------------------------------------------------------------------------
(* Properties.                                                             *)

\* A process asks the host for a token only when it has none: callers that wait
\* for the lock together take the first one's answer.
AsksWithoutToken ==
    \A c \in Caller : caller[c].pc = "ask" => ~ Good(Cached(c).until)

\* How long a token may be used after its end: as long as the cache keeps one that
\* was taken from the table, whose end is not read.
Slack == IF hasTable THEN Recached ELSE 0

\* A token is alive as long as its caller uses it; one that was taken from the table
\* is dead no longer than the cache keeps it.
TokenAlive ==
    \A c \in Caller : caller[c].pc = "use" => now < caller[c].token + Slack

================================================================================
