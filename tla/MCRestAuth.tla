----------------------------- MODULE MCRestAuth -----------------------------
(***************************************************************************)
(* A small instance for TLC of the requests of the REST services: the HMAC *)
(* strategy that signs them (SignedTransport), the OAuth source behind the *)
(* bearer strategy (OAuthSource), the processes that share the credentials *)
(* such a source refreshes (CliSession, where a source is one of the       *)
(* commands), and the iterators that make one request per page             *)
(* (Pagination).  They share no state and are explored one at a time.      *)
(***************************************************************************)
EXTENDS SignedTransport

CONSTANTS
  MaxClock, MaxRefreshes, MaxFaults, EarlyExpiry, Lifetimes, Rotations,  \* OAuthSource
  Commands, MaxLogins, MaxTokens, MaxLapses, Rotating,                   \* CliSession
  Absent, Limits, Offsets, DefaultPage, MaxPage, MaxItems, MaxChanges    \* Pagination

\* What the proofs need of the bounds; a server replaces refresh tokens or not,
\* and the default page is one that the endpoint serves.
ASSUME MCRestAuthAssumption ==
  /\ MaxRefreshes \in Nat
  /\ MaxLogins \in Nat /\ MaxTokens \in Nat \ {0} /\ Rotating \subseteq BOOLEAN
  /\ MaxItems \in Nat /\ MaxPage \in Nat /\ DefaultPage \in 1 .. MaxPage
  /\ Limits \cup Offsets \subseteq Int \cup {Absent}

VARIABLES
  clock, token, refreshing, started, phase, using, result, waiting, found, got,
  stored, live, issued, faults,                                          \* OAuthSource
  env, keyring, cmd, family, answer, login, granted, honoured, owner, minted,
  rotating, lost, lapses,                                                \* CliSession
  coll, reports, bounded, first, limit, offset, page, count, hasMore, yielded,
  pagePhase, original, came, went,                                       \* Pagination
  layer  \* the layer that a behaviour explores

sourceVars ==
  <<clock, token, refreshing, started, phase, using, result, waiting, found, got,
    stored, live, issued, faults>>
profileVars ==
  <<env, keyring, cmd, family, answer, login, granted, honoured, owner, minted,
    rotating, lost, lapses>>
pageVars ==
  <<coll, reports, bounded, first, limit, offset, page, count, hasMore, yielded,
    pagePhase, original, came, went>>

Source == INSTANCE OAuthSource
Cli == INSTANCE CliSession
Pages == INSTANCE Pagination WITH phase <- pagePhase

\* The layers that are not explored stay in one initial state.
AuthInit ==
  /\ Init /\ Source!Init /\ Cli!Init /\ Pages!Init
  /\ layer \in {"signing", "source", "profile", "pages"}
  /\ layer # "source" => token = Source!Token(1, 1, 0)
  /\ layer # "profile" => env = "nothing" /\ rotating
  /\ layer # "pages" => coll = <<>> /\ reports

AuthNext ==
  /\ UNCHANGED layer
  /\ \/ layer = "signing" /\ Next /\ UNCHANGED <<sourceVars, profileVars, pageVars>>
     \/ layer = "source" /\ Source!Next /\ UNCHANGED <<vars, profileVars, pageVars>>
     \/ layer = "profile" /\ Cli!Next /\ UNCHANGED <<vars, sourceVars, pageVars>>
     \/ layer = "pages" /\ Pages!Next /\ UNCHANGED <<vars, sourceVars, profileVars>>

AuthSpec ==
  /\ AuthInit
  /\ [][AuthNext]_<<vars, sourceVars, profileVars, pageVars, layer>>
  /\ Fairness /\ Source!Fairness

\* The tokens of an OAuth source can be relied on.
TokensSound == Source!TokensSound

\* Whoever executes a request returns, and whoever waits for a refresh is answered.
RequestsReturn == ExecuteReturns /\ Source!TokenReturns

\* A saved profile can be refreshed, whatever processes share it, and credentials
\* of different owners are never paired.
KeyringSound == Cli!KeyringUsable /\ Cli!KeyringIsOwn

\* An iteration to the end misses nothing and repeats nothing.
PagesComplete == Pages!PagesComplete
=============================================================================
