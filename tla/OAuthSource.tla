---------------------------- MODULE OAuthSource ----------------------------
(***************************************************************************)
(* oauth.Source of the Go SDK: a token source whose concurrent callers     *)
(* share one refresh, with the callback that persists refreshed tokens,    *)
(* and an authorization server that may replace the refresh token whenever *)
(* it issues an access token (the old one is then dead).                   *)
(*                                                                         *)
(* Access tokens and refresh tokens are numbered as the server issues      *)
(* them; 0 is no token.  A token without an expiry is one whose lifetime   *)
(* is beyond the bound of the clock.  A response that is not a usable      *)
(* token is a failed request.  The refresh is detached from the contexts   *)
(* of its callers and bounded by a timeout.                                *)
(***************************************************************************)
EXTENDS Integers

CONSTANTS
  Callers,      \* goroutines calling Token
  MaxClock,      \* bound: the clock
  MaxRefreshes, \* bound: refreshes explored
  MaxFaults,    \* bound: faults explored
  EarlyExpiry,  \* earlyExpiry
  Lifetimes,    \* lifetimes of the tokens the server issues
  Rotations     \* whether the server replaces refresh tokens: subset of BOOLEAN

Refreshes == 1 .. MaxRefreshes
Token(a, r, e) == [access |-> a, refresh |-> r, expires |-> e]
NoToken == Token(0, 0, 0)

VARIABLES
  clock,         \* the clock
  token,       \* s.token
  refreshing,  \* s.refreshing: number of the refresh under way, or 0
  started,     \* refreshes started
  phase,       \* of each refresh: "none", "asking", "updating", "ending", "ended"
  using,       \* of each refresh: the refresh token it uses
  result,      \* of each refresh: what it has got, NoToken for an error
  waiting,     \* the refresh each caller waits for, or 0
  found,       \* the access token each caller found when it called
  got,         \* the access token each caller was given last
  stored,      \* what tokenUpdate has persisted
  live,        \* the server: refresh token it honours
  issued,      \* the server: access tokens issued
  faults       \* bound: faults so far

callerVars == <<waiting, found, got>>
refreshVars == <<refreshing, started, phase, using, result>>
serverVars == <<live, issued>>
vars == <<clock, token, refreshVars, callerVars, stored, serverVars, faults>>

Init ==
  /\ clock = 0
  /\ \E a, r \in {0, 1}, e \in Lifetimes : a + r > 0 /\ token = Token(a, r, e)
  /\ refreshing = 0 /\ started = 0
  /\ phase = [k \in Refreshes |-> "none"] /\ using = [k \in Refreshes |-> 0]
  /\ result = [k \in Refreshes |-> NoToken]
  /\ waiting = [c \in Callers |-> 0] /\ found = [c \in Callers |-> 0] /\ got = [c \in Callers |-> 0]
  /\ stored = token
  /\ live = 1 /\ issued = 1 /\ faults = 0

Fault == faults < MaxFaults /\ faults' = faults + 1

Tick == clock < MaxClock /\ clock' = clock + 1
        /\ UNCHANGED <<token, refreshVars, callerVars, stored, serverVars, faults>>

\* Token.Valid.
Valid(t) == t.access # 0 /\ clock + EarlyExpiry < t.expires

\* Token with a token that is good for a while.
TokenValid(c) ==
  /\ waiting[c] = 0 /\ Valid(token)
  /\ found' = [found EXCEPT ![c] = 0] /\ got' = [got EXCEPT ![c] = token.access]
  /\ UNCHANGED <<clock, token, refreshVars, waiting, stored, serverVars, faults>>

\* Another caller has started a refresh.
Shares == refreshing # 0

\* Token with an expired one that cannot be refreshed.
TokenUnavailable(c) ==
  /\ waiting[c] = 0 /\ ~Valid(token) /\ token.refresh = 0
  /\ found' = [found EXCEPT ![c] = token.access] /\ got' = [got EXCEPT ![c] = 0]
  /\ UNCHANGED <<clock, token, refreshVars, waiting, stored, serverVars, faults>>

\* Token with an expired one: the caller joins the refresh or starts it.
TokenExpired(c) ==
  /\ waiting[c] = 0 /\ ~Valid(token) /\ token.refresh # 0
  /\ found' = [found EXCEPT ![c] = token.access]
  /\ IF Shares
     THEN waiting' = [waiting EXCEPT ![c] = refreshing] /\ UNCHANGED refreshVars
     ELSE /\ started < MaxRefreshes
          /\ started' = started + 1 /\ refreshing' = started + 1
          /\ phase' = [phase EXCEPT ![started + 1] = "asking"]
          /\ using' = [using EXCEPT ![started + 1] = token.refresh]
          /\ waiting' = [waiting EXCEPT ![c] = started + 1]
          /\ UNCHANGED result
  /\ UNCHANGED <<clock, token, got, stored, serverVars, faults>>

\* The server issues a token and perhaps a new refresh token.
Issue(rotates) ==
  /\ issued' = issued + 1
  /\ live' = IF rotates THEN live + 1 ELSE live

\* The refresh token of a response, or the one that was used.
NextRefreshToken(k) == live'

\* The refresh request of k is answered; a response without a refresh token
\* keeps the one that was used.
Refresh(k) ==
  /\ phase[k] = "asking" /\ using[k] = live
  /\ \E lifetime \in Lifetimes, rotates \in Rotations :
       /\ Issue(rotates)
       /\ result' = [result EXCEPT ![k] = Token(issued + 1, NextRefreshToken(k), clock + lifetime)]
  /\ phase' = [phase EXCEPT ![k] = "updating"]
  /\ UNCHANGED <<clock, token, refreshing, started, using, callerVars, stored, faults>>

\* The request fails: the server does not honour the token, or the answer is
\* lost before or after the server has dealt with it.
RefreshFails(k) ==
  /\ phase[k] = "asking"
  /\ \/ using[k] # live /\ UNCHANGED <<serverVars, faults>>
     \/ Fault /\ UNCHANGED serverVars
     \/ using[k] = live /\ Fault /\ \E rotates \in Rotations : Issue(rotates)
  /\ phase' = [phase EXCEPT ![k] = "ending"]
  /\ UNCHANGED <<clock, token, refreshing, started, using, result, callerVars, stored>>

\* Mutant: an error of the callback is ignored.
TokenUpdateIgnored(k) ==
  /\ phase[k] = "updating"
  /\ \/ stored' = result[k] /\ UNCHANGED faults
     \/ Fault /\ UNCHANGED stored
  /\ phase' = [phase EXCEPT ![k] = "ending"]
  /\ UNCHANGED <<clock, token, refreshing, started, using, result, callerVars, serverVars>>

\* tokenUpdate persists the token, or fails, which fails the refresh.
TokenUpdate(k) ==
  /\ phase[k] = "updating"
  /\ \/ stored' = result[k] /\ UNCHANGED <<result, faults>>
     \/ Fault /\ result' = [result EXCEPT ![k] = NoToken] /\ UNCHANGED stored
  /\ phase' = [phase EXCEPT ![k] = "ending"]
  /\ UNCHANGED <<clock, token, refreshing, started, using, callerVars, serverVars>>

\* Mutant: a failed refresh leaves its waiters alone.
RefreshEndsSilently(k) ==
  /\ phase[k] = "ending"
  /\ token' = IF result[k] # NoToken THEN result[k] ELSE token
  /\ refreshing' = 0
  /\ phase' = [phase EXCEPT ![k] = IF result[k] # NoToken THEN "ended" ELSE "none"]
  /\ UNCHANGED <<clock, started, using, result, callerVars, stored, serverVars, faults>>

\* The end of the refresh under s.mu: the token, and the waiters' channel.
RefreshEnds(k) ==
  /\ phase[k] = "ending"
  /\ token' = IF result[k] # NoToken THEN result[k] ELSE token
  /\ refreshing' = 0
  /\ phase' = [phase EXCEPT ![k] = "ended"]
  /\ UNCHANGED <<clock, started, using, result, callerVars, stored, serverVars, faults>>

\* The channel of the refresh is closed: its token or its error.
Wake(c) ==
  /\ waiting[c] # 0 /\ phase[waiting[c]] = "ended"
  /\ waiting' = [waiting EXCEPT ![c] = 0]
  /\ got' = [got EXCEPT ![c] = result[waiting[c]].access]
  /\ UNCHANGED <<clock, token, refreshVars, found, stored, serverVars, faults>>

\* The caller's context ends before that.
ContextEnds(c) ==
  /\ waiting[c] # 0
  /\ waiting' = [waiting EXCEPT ![c] = 0]
  /\ got' = [got EXCEPT ![c] = 0]
  /\ UNCHANGED <<clock, token, refreshVars, found, stored, serverVars, faults>>

RefreshStep(k) == Refresh(k) \/ RefreshFails(k) \/ TokenUpdate(k) \/ RefreshEnds(k)

Next ==
  \/ Tick
  \/ \E c \in Callers : TokenValid(c) \/ TokenUnavailable(c) \/ TokenExpired(c) \/ Wake(c) \/ ContextEnds(c)
  \/ \E k \in Refreshes : RefreshStep(k)

Spec == Init /\ [][Next]_vars

\* The refresh goroutine runs, its request ends in time or at its timeout, and
\* callers whose channel is closed wake up.  No context has to end.
Fairness ==
  /\ \A k \in Refreshes : WF_vars(RefreshStep(k))
  /\ \A c \in Callers : WF_vars(Wake(c))

-----------------------------------------------------------------------------
\* One refresh is under way at a time, and as long as nothing failed it uses
\* the refresh token the server honours, also when the server replaces it every
\* time: no two callers spend the same one.
RefreshTokenUsable ==
  /\ \A k \in Refreshes : phase[k] \in {"asking", "updating", "ending"} => k = refreshing
  /\ faults = 0 =>
       /\ refreshing = 0 => token.refresh \in {0, live}
       /\ \A k \in Refreshes : phase[k] = "asking" => using[k] = live

\* What callers can see has been persisted: a crash at any moment loses no
\* token that was in use, and no failed persistence is papered over.
PersistedBeforeVisible ==
  /\ token = stored \/ refreshing # 0
  /\ \A c \in Callers : got[c] <= stored.access

\* A caller that found the token expired never gets that one (or an older one)
\* back from the refresh it waited for.
WaitersGetNewToken ==
  \A c \in Callers : got[c] # 0 /\ waiting[c] = 0 => got[c] > found[c]

\* The tokens of a source can be relied on: the refresh token it will use, and
\* the access tokens it has handed out.
TokensSound == RefreshTokenUsable /\ PersistedBeforeVisible /\ WaitersGetNewToken

\* Whoever waits for a refresh is answered, without any context ending.
TokenReturns == \A c \in Callers : (waiting[c] # 0) ~> (waiting[c] = 0)
=============================================================================
