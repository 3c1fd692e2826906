---------------------------- MODULE CliSession -----------------------------
(***************************************************************************)
(* The credentials of one profile of the Go CLI: the keyring of the        *)
(* operating system, and the processes that share it.  Each private        *)
(* command loads a credential family and, when it holds a refresh token,   *)
(* runs an oauth.Source (module OAuthSource) that persists what it         *)
(* refreshes; auth login obtains a family through a loopback callback;     *)
(* auth logout removes it.  Any process may exit or be killed at any       *)
(* moment.                                                                 *)
(*                                                                         *)
(* A family is the refresh token, numbered as the server issues it, and    *)
(* the OAuth client it goes with; the access token is the one issued with  *)
(* it and may be due for a refresh at any time.  Clients are numbered by   *)
(* the login that used them; 0 is the client of the user's environment.    *)
(* Environments without a refresh token start commands that keep no state  *)
(* and are left out.                                                       *)
(***************************************************************************)
EXTENDS Integers

CONSTANTS
  Commands,    \* processes running private commands
  MaxLogins,   \* bound: logins explored
  MaxTokens,   \* bound: refresh tokens the server issues
  MaxLapses,   \* bound: lost answers and keyring errors
  Rotating     \* whether the server replaces refresh tokens: subset of BOOLEAN

Logins == 1 .. MaxLogins
Clients == 0 .. MaxLogins
Family(r, client) == [refresh |-> r, client |-> client]
NoFamily == Family(0, 0)
EnvFamily == Family(1, 0)

VARIABLES
  env,      \* what the environment holds: "nothing", "client" (an ID alone), "tokens"
  keyring,  \* the profile in the keyring
  cmd,      \* of each command: "off", "ready", "asking", "answered"
  family,   \* what each command refreshes with: its source's token and client
  answer,   \* what the server has answered to it
  login,    \* of each login: "none", "waiting", "exchanging", "saving", "ended"
  granted,  \* what each login has been granted
  honoured, \* the server: refresh tokens it honours
  owner,    \* the server: client it issued each of them to
  minted,   \* the server: how many it has issued
  rotating, \* the server: whether it replaces refresh tokens
  lost,     \* clients whose current refresh token has reached no keyring
  lapses    \* bound: faults so far

cmdVars == <<cmd, family, answer>>
loginVars == <<login, granted>>
issuerVars == <<honoured, owner, minted>>
vars == <<env, keyring, cmdVars, loginVars, issuerVars, rotating, lost, lapses>>

Init ==
  /\ env \in {"nothing", "client", "tokens"} /\ keyring = NoFamily
  /\ cmd = [c \in Commands |-> "off"]
  /\ family = [c \in Commands |-> NoFamily] /\ answer = [c \in Commands |-> NoFamily]
  /\ login = [l \in Logins |-> "none"] /\ granted = [l \in Logins |-> NoFamily]
  /\ honoured = {1} /\ owner = [r \in 1 .. MaxTokens |-> 0] /\ minted = 1
  /\ rotating \in Rotating /\ lost = {} /\ lapses = 0

Lapse == lapses < MaxLapses /\ lapses' = lapses + 1

\* The server issues a new refresh token to a client, in place of those in spent.
Mint(client, spent) ==
  /\ minted < MaxTokens /\ minted' = minted + 1
  /\ owner' = [owner EXCEPT ![minted + 1] = client]
  /\ honoured' = (honoured \ spent) \cup {minted + 1}

(***************************************************************************)
(* auth login and auth logout.                                             *)
(***************************************************************************)
\* The listener has its port, and the browser is sent to the server.
LoginStarts(l) ==
  /\ login[l] = "none"
  /\ \A k \in Logins : k < l => login[k] # "none"
  /\ \A k \in Logins : login[k] # "waiting"
  /\ login' = [login EXCEPT ![l] = "waiting"]
  /\ UNCHANGED <<env, keyring, cmdVars, granted, issuerVars, rotating, lost, lapses>>

\* The first callback with the state of login l decides.  What belongs to other
\* logins, has no code or comes later is turned away.
Callback(l, approved) ==
  /\ login[l] = "waiting"
  /\ login' = [login EXCEPT ![l] = IF approved THEN "exchanging" ELSE "ended"]
  /\ UNCHANGED <<env, keyring, cmdVars, granted, issuerVars, rotating, lost, lapses>>

\* The code is exchanged for tokens of the login's client.
Exchange(l) ==
  /\ login[l] = "exchanging" /\ Mint(l, {})
  /\ granted' = [granted EXCEPT ![l] = Family(minted + 1, l)]
  /\ login' = [login EXCEPT ![l] = "saving"]
  /\ UNCHANGED <<env, keyring, cmdVars, rotating, lost, lapses>>

\* keyring.Set.
LoginSaves(l) ==
  /\ login[l] = "saving"
  /\ keyring' = granted[l]
  /\ login' = [login EXCEPT ![l] = "ended"] /\ granted' = [granted EXCEPT ![l] = NoFamily]
  /\ UNCHANGED <<env, cmdVars, issuerVars, rotating, lost, lapses>>

\* The login is interrupted, refused, or fails to save what it was granted.
LoginFails(l) ==
  /\ login[l] \in {"waiting", "exchanging", "saving"}
  /\ login' = [login EXCEPT ![l] = "ended"] /\ granted' = [granted EXCEPT ![l] = NoFamily]
  /\ UNCHANGED <<env, keyring, cmdVars, issuerVars, rotating, lost, lapses>>

\* Nothing is revoked, and commands that run keep what they have loaded.
Logout ==
  /\ keyring # NoFamily /\ keyring' = NoFamily
  /\ UNCHANGED <<env, cmdVars, loginVars, issuerVars, rotating, lost, lapses>>

(***************************************************************************)
(* Private commands.                                                       *)
(***************************************************************************)
\* LoadWithOrigin: one complete family of one source, the environment first.
Loaded == IF env = "tokens" THEN EnvFamily ELSE keyring

\* A refresh token is used only if it can be persisted where it came from.
Accepted == env # "tokens"

CommandStarts(c) ==
  /\ cmd[c] = "off" /\ Loaded.refresh # 0 /\ Accepted
  /\ cmd' = [cmd EXCEPT ![c] = "ready"] /\ family' = [family EXCEPT ![c] = Loaded]
  /\ UNCHANGED <<env, keyring, answer, loginVars, issuerVars, rotating, lost, lapses>>

\* The access token is due, and the source asks for another one.
RefreshStarts(c) ==
  /\ cmd[c] = "ready" /\ cmd' = [cmd EXCEPT ![c] = "asking"]
  /\ UNCHANGED <<env, keyring, family, answer, loginVars, issuerVars, rotating, lost, lapses>>

Honours(f) == f.refresh \in honoured /\ owner[f.refresh] = f.client

\* The server grants the refresh that f stands for, with its refresh token or
\* a new one.
Grant(f) ==
  /\ Honours(f)
  /\ IF rotating THEN Mint(f.client, {f.refresh}) ELSE UNCHANGED issuerVars

Answer(c) ==
  /\ cmd[c] = "asking" /\ Grant(family[c])
  /\ answer' = [answer EXCEPT ![c] = IF rotating THEN Family(minted', family[c].client) ELSE family[c]]
  /\ cmd' = [cmd EXCEPT ![c] = "answered"]
  /\ UNCHANGED <<env, keyring, family, loginVars, rotating, lost, lapses>>

Refused(c) ==
  /\ cmd[c] = "asking" /\ ~Honours(family[c])
  /\ cmd' = [cmd EXCEPT ![c] = "ready"]
  /\ UNCHANGED <<env, keyring, family, answer, loginVars, issuerVars, rotating, lost, lapses>>

\* The process forgets an answer, or never got it although the server granted it.
Loses(c) == lost' = IF rotating THEN lost \cup {family[c].client} ELSE lost

\* The request or its answer is lost, or times out.
NoAnswer(c) ==
  /\ cmd[c] = "asking" /\ Lapse
  /\ \/ UNCHANGED <<issuerVars, lost>>
     \/ Grant(family[c]) /\ Loses(c)
  /\ cmd' = [cmd EXCEPT ![c] = "ready"]
  /\ UNCHANGED <<env, keyring, family, answer, loginVars, rotating>>

\* Mutant: the record is written back as it was loaded.
UpdatedStale(c) == family[c]

\* The record the command loaded, with the new tokens.
Updated(c) == Family(answer[c].refresh, family[c].client)

\* The callback of the source: CredentialStore.Set, and then the source uses
\* the new token.
TokenUpdate(c) ==
  /\ cmd[c] = "answered"
  /\ keyring' = Updated(c) /\ family' = [family EXCEPT ![c] = answer[c]]
  /\ cmd' = [cmd EXCEPT ![c] = "ready"] /\ answer' = [answer EXCEPT ![c] = NoFamily]
  /\ UNCHANGED <<env, loginVars, issuerVars, rotating, lost, lapses>>

\* The keyring refuses, and the source keeps the token it had.
TokenUpdateFails(c) ==
  /\ cmd[c] = "answered" /\ Lapse /\ Loses(c)
  /\ cmd' = [cmd EXCEPT ![c] = "ready"] /\ answer' = [answer EXCEPT ![c] = NoFamily]
  /\ UNCHANGED <<env, keyring, family, loginVars, issuerVars, rotating>>

\* The command ends or is killed, also while a refresh is under way.
CommandEnds(c) ==
  /\ cmd[c] # "off"
  /\ \/ cmd[c] \in {"ready", "asking"} /\ UNCHANGED <<issuerVars, lost>>
     \/ cmd[c] = "asking" /\ Grant(family[c]) /\ Loses(c)
     \/ cmd[c] = "answered" /\ Loses(c) /\ UNCHANGED issuerVars
  /\ cmd' = [cmd EXCEPT ![c] = "off"]
  /\ family' = [family EXCEPT ![c] = NoFamily] /\ answer' = [answer EXCEPT ![c] = NoFamily]
  /\ UNCHANGED <<env, keyring, loginVars, rotating, lapses>>

CommandStep(c) ==
  \/ CommandStarts(c) \/ RefreshStarts(c) \/ Answer(c) \/ Refused(c) \/ NoAnswer(c)
  \/ TokenUpdate(c) \/ TokenUpdateFails(c) \/ CommandEnds(c)

Next ==
  \/ \E l \in Logins :
       \/ LoginStarts(l) \/ Exchange(l) \/ LoginSaves(l) \/ LoginFails(l)
       \/ \E approved \in BOOLEAN : Callback(l, approved)
  \/ Logout
  \/ \E c \in Commands : CommandStep(c)

Spec == Init /\ [][Next]_vars

-----------------------------------------------------------------------------
\* A saved profile can be refreshed: unless an answer of the server was lost on
\* its way to the keyring, the refresh token in the keyring is one the server
\* honours or is about to be replaced by such, whatever commands, logins and
\* logouts run at the same time, spend the same token or overwrite each other.
KeyringUsable ==
  keyring # NoFamily /\ keyring.client \notin lost =>
    \/ keyring.refresh \in honoured
    \/ \E c \in Commands : cmd[c] = "answered" /\ answer[c].client = keyring.client

\* Credentials of different owners are never paired, and what the environment
\* holds never ends up in the keyring: every refresh goes out with the client its
\* token was issued to, and the keyring holds what some login was granted.
KeyringIsOwn ==
  /\ keyring # NoFamily => keyring.client # 0 /\ owner[keyring.refresh] = keyring.client
  /\ \A c \in Commands : cmd[c] # "off" => owner[family[c].refresh] = family[c].client
=============================================================================
