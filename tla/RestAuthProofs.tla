--------------------------- MODULE RestAuthProofs ---------------------------
(***************************************************************************)
(* Proofs about the authentication of requests: SignedTransport for any    *)
(* number of callers, calls and retries and any clock, OAuthSource for any *)
(* number of callers and refreshes, lifetimes and faults, CliSession for   *)
(* any number of processes and logins, and Pagination for collections and  *)
(* pages of any size that change any number of times.                      *)
(*                                                                         *)
(* NoncesUnique and AwaitedNonceIsNewest are not inductive: the gate has   *)
(* to be known to keep every other caller from signing and sending between *)
(* the swap of a nonce and the end of its attempt, and lastNonce to bound  *)
(* all nonces there are.  MutatesOnce needs that a mutating call is still  *)
(* unsent before its attempt, and unexecuted while it is on the wire.      *)
(*                                                                         *)
(* The tokens of a source are sound because one refresh is under way at a  *)
(* time and the newest token is known at each of its stages; a keyring is  *)
(* usable because a token on its way to it is honoured and held by nobody  *)
(* else, as long as the server replaces tokens.  An iteration is complete  *)
(* because every item is behind it, in its page or still ahead in the      *)
(* collection, whatever moves meanwhile.                                   *)
(***************************************************************************)
EXTENDS MCRestAuth, SequenceTheorems, FiniteSetTheorems, TLAPS

InExecute == {"clock", "load", "swap", "send", "await", "backoff"}

\* Who is past the gate holds it, only Execute has the later labels, and who
\* backs off has an attempt left.
GateHeld ==
  \A c \in Callers :
    /\ Kind(c) # "nonce" /\ pc[c] \in InExecute => gate = c
    /\ pc[c] \in {"gate", "send", "await", "backoff"} => Kind(c) # "nonce"
    /\ pc[c] = "backoff" => attempt[c] < MaxRetries

\* lastNonce bounds every nonce there is.
NoncesBounded ==
  /\ high <= lastNonce
  /\ \A c \in Callers : nonce[c] <= lastNonce /\ last[c] <= lastNonce
  /\ \A r \in wire : r.nonce <= lastNonce

\* A nonce that is signed but not sent is larger than all that were sent, and
\* stays so until another nonce is sent; no two requests have the same nonce.
SignedIsNewest ==
  /\ \A c \in Callers :
       /\ pc[c] = "send" => nonce[c] > high /\ \A r \in wire : r.nonce < nonce[c]
       /\ pc[c] = "await" => \A r \in wire : r.nonce <= nonce[c]
  /\ \A r, s \in wire : r.nonce = s.nonce => r = s

\* Calls are numbered as they are made.
Numbered ==
  /\ \A c \in Callers : call[c] <= calls /\ (pc[c] # "idle" => call[c] # 0)
  /\ \A c, d \in Callers : c # d /\ call[c] # 0 => call[c] # call[d]
  /\ \A r \in wire : r.call <= calls
  /\ \A k \in CallIds : k > calls => executed[k] = 0
  /\ method[0] = "nonce"

Unsent == {"gate", "clock", "load", "swap", "send"}

\* A mutating call is unsent, then on the wire once and unexecuted, then
\* executed at most once.
SentOnce ==
  \A k \in CallIds : method[k] = "post" =>
    /\ executed[k] <= 1
    /\ \A r, s \in wire : r.call = k /\ s.call = k => r = s
    /\ \A r \in wire : r.call = k => executed[k] = 0
    /\ \A c \in Callers : call[c] = k =>
         /\ pc[c] # "backoff"
         /\ pc[c] \in Unsent => executed[k] = 0 /\ \A r \in wire : r.call # k

\* The two halves of the inductive invariant.
NonceInv == TypeOK /\ GateHeld /\ NoncesBounded /\ NoncesUnique /\ SignedIsNewest /\ AwaitedNonceIsNewest
CallInv == Numbered /\ SentOnce

Inv == NonceInv /\ CallInv

LEMMA InitInv == Init => Inv
  BY SignedTransportAssumption
  DEF Init, Inv, NonceInv, CallInv, TypeOK, GateHeld, NoncesBounded, NoncesUnique, SignedIsNewest,
      AwaitedNonceIsNewest, Numbered, SentOnce, Kind, CallIds, Kinds, Labels, InExecute, Unsent, Requests

LEMMA StutterInv == Inv /\ UNCHANGED vars => Inv'
  BY DEF Inv, NonceInv, CallInv, TypeOK, GateHeld, NoncesBounded, NoncesUnique, SignedIsNewest,
         AwaitedNonceIsNewest, Numbered, SentOnce, Kind, vars, callerVars, exchangeVars

\* A new call has a number nobody has, and nothing has happened for it.
LEMMA CallKeeps ==
  ASSUME Inv, NEW c \in Callers, NEW k \in Kinds, Call(c, k)
  PROVE  Inv'
<1> USE SignedTransportAssumption DEF Inv, NonceInv, CallInv
<1>0. /\ calls' = calls + 1 /\ calls' \in CallIds /\ pc[c] = "idle"
      /\ method' = [method EXCEPT ![calls + 1] = k] /\ call' = [call EXCEPT ![c] = calls + 1]
      /\ attempt' = [attempt EXCEPT ![c] = 0] /\ nonce' = [nonce EXCEPT ![c] = 0]
      /\ pc' = [pc EXCEPT ![c] = IF k = "nonce" THEN "clock" ELSE "gate"]
      /\ UNCHANGED <<lastNonce, gate, now, last, wire, high, executed>>
  BY DEF Call, Goto, exchangeVars, TypeOK, CallIds
<1>1. TypeOK'
  <2>1. calls + 1 \in 0 .. MaxCalls BY <1>0 DEF CallIds, TypeOK
  <2>2. calls' \in 0 .. MaxCalls /\ method' \in [0 .. MaxCalls -> Kinds] /\ call' \in [Callers -> 0 .. MaxCalls]
    BY <1>0, <2>1 DEF TypeOK
  <2>3. pc' \in [Callers -> Labels]
    BY <1>0 DEF TypeOK, Labels
  <2>4. attempt' \in [Callers -> 0 .. MaxRetries] /\ nonce' \in [Callers -> Nat]
    BY <1>0 DEF TypeOK
  <2> QED BY <1>0, <2>2, <2>3, <2>4 DEF TypeOK
<1>2. \A d \in Callers : d # c => Kind(d)' = Kind(d)
  BY <1>0 DEF TypeOK, Numbered, Kind, CallIds
<1>3. Kind(c)' = k
  BY <1>0 DEF TypeOK, Kind, CallIds
<1>a. /\ \A d \in Callers : d # c => /\ pc'[d] = pc[d] /\ call'[d] = call[d]
                                      /\ attempt'[d] = attempt[d] /\ nonce'[d] = nonce[d]
      /\ k = "nonce" => pc'[c] = "clock"
      /\ k # "nonce" => pc'[c] = "gate"
      /\ nonce'[c] = 0 /\ call'[c] = calls + 1
      /\ gate' = gate /\ wire' = wire /\ high' = high /\ executed' = executed
      /\ lastNonce' = lastNonce /\ last' = last
  BY <1>0 DEF TypeOK
<1>4. GateHeld'
  <2>1. ASSUME NEW d \in Callers, d # c
        PROVE  /\ Kind(d)' # "nonce" /\ pc'[d] \in InExecute => gate' = d
               /\ pc'[d] \in {"gate", "send", "await", "backoff"} => Kind(d)' # "nonce"
               /\ pc'[d] = "backoff" => attempt'[d] < MaxRetries
    BY <1>a, <1>2, <2>1 DEF GateHeld
  <2>2. /\ Kind(c)' # "nonce" /\ pc'[c] \in InExecute => gate' = c
        /\ pc'[c] \in {"gate", "send", "await", "backoff"} => Kind(c)' # "nonce"
        /\ pc'[c] = "backoff" => attempt'[c] < MaxRetries
    BY <1>a, <1>3 DEF InExecute
  <2> QED BY <2>1, <2>2 DEF GateHeld
<1>5. NoncesBounded' /\ NoncesUnique'
  <2>1. lastNonce \in Nat BY DEF TypeOK
  <2>2. NoncesBounded' BY <1>a, <2>1 DEF NoncesBounded
  <2>3. NoncesUnique' BY <1>a DEF NoncesUnique
  <2> QED BY <2>2, <2>3
<1>6. SignedIsNewest' /\ AwaitedNonceIsNewest'
  BY <1>a DEF SignedIsNewest, AwaitedNonceIsNewest
<1>7. Numbered'
  <2>0. /\ \A d \in Callers : call'[d] = (IF d = c THEN calls + 1 ELSE call[d]) /\ call[d] \in Nat
        /\ calls \in Nat /\ \A d \in Callers : d # c => pc'[d] = pc[d]
    BY <1>0 DEF TypeOK
  <2>1. \A d \in Callers : call'[d] <= calls' /\ (pc'[d] # "idle" => call'[d] # 0)
    BY <1>0, <2>0 DEF Numbered
  <2>2. \A d, e \in Callers : d # e /\ call'[d] # 0 => call'[d] # call'[e]
    BY <2>0 DEF Numbered
  <2>3. \A r \in wire' : r.call <= calls'
    <3> SUFFICES ASSUME NEW r \in wire PROVE r.call <= calls + 1
      BY <1>0
    <3>1. r.call \in CallIds /\ r.call <= calls /\ calls \in Nat BY DEF Numbered, TypeOK, Requests
    <3> QED BY <3>1 DEF CallIds
  <2>4. \A j \in CallIds : j > calls' => executed'[j] = 0
    BY <1>0 DEF Numbered, TypeOK, CallIds
  <2>5. method'[0] = "nonce"
    BY <1>0 DEF Numbered, TypeOK
  <2> QED BY <2>1, <2>2, <2>3, <2>4, <2>5 DEF Numbered
<1>8. SentOnce'
  <2> SUFFICES ASSUME NEW j \in CallIds, method'[j] = "post"
               PROVE  /\ executed[j] <= 1
                      /\ \A r, s \in wire : r.call = j /\ s.call = j => r = s
                      /\ \A r \in wire : r.call = j => executed[j] = 0
                      /\ \A d \in Callers : call'[d] = j =>
                           /\ pc'[d] # "backoff"
                           /\ pc'[d] \in Unsent => executed[j] = 0 /\ \A r \in wire : r.call # j
    BY <1>0 DEF SentOnce
  <2>1. CASE j = calls + 1
    <3>1. executed[j] = 0 /\ calls \in Nat
      BY <2>1 DEF Numbered, TypeOK, CallIds
    <3>2. \A r \in wire : r.call # j
      BY <2>1, <3>1 DEF Numbered, TypeOK, CallIds, Requests
    <3>3. \A d \in Callers : call'[d] = j => pc'[d] # "backoff"
      <4> SUFFICES ASSUME NEW d \in Callers, call'[d] = j PROVE pc'[d] # "backoff"
        OBVIOUS
      <4>1. d = c BY <2>1, <1>0, <3>1 DEF Numbered, TypeOK
      <4> QED BY <4>1, <1>0 DEF TypeOK
    <3> QED BY <3>1, <3>2, <3>3
  <2>2. CASE j # calls + 1
    <3>1. method[j] = "post"
      BY <2>2, <1>0 DEF TypeOK, CallIds
    <3>2. \A d \in Callers : call'[d] = j => d # c /\ call[d] = j /\ pc'[d] = pc[d]
      BY <2>2, <1>a
    <3> QED BY <3>1, <3>2 DEF SentOnce
  <2> QED BY <2>1, <2>2
<1> QED BY <1>1, <1>4, <1>5, <1>6, <1>7, <1>8

\* A step that moves the control of c, to a label at which nothing of c is on
\* its way, and touches neither nonces that exist nor calls.
Moved(c) ==
  /\ pc[c] # "idle" /\ pc'[c] \in {"idle", "clock", "load", "swap"}
  /\ pc'[c] # "idle" => pc[c] \in Unsent \cup {"backoff"}
  /\ \A d \in Callers : d # c => pc'[d] = pc[d]
  /\ UNCHANGED <<lastNonce, calls, method, call, nonce, wire, high, executed>>

LEMMA MovedKeeps ==
  ASSUME Inv, NEW c \in Callers, Moved(c)
  PROVE  NoncesUnique' /\ SignedIsNewest' /\ AwaitedNonceIsNewest' /\ Numbered' /\ SentOnce'
<1> USE DEF Inv, NonceInv, CallInv, Moved
<1>1. \A d \in Callers : pc'[d] \in {"send", "await", "backoff"} => pc'[d] = pc[d]
  OBVIOUS
<1>2. \A d \in Callers : pc'[d] # "idle" => pc[d] # "idle"
  OBVIOUS
<1>3. \A d \in Callers : pc'[d] \in Unsent => pc[d] \in Unsent \cup {"backoff"}
  BY DEF Unsent
<1>4. /\ lastNonce' = lastNonce /\ calls' = calls /\ method' = method /\ call' = call
      /\ nonce' = nonce /\ wire' = wire /\ high' = high /\ executed' = executed
  OBVIOUS
<1> HIDE DEF Moved
<1>5. NoncesUnique' BY <1>4 DEF NoncesUnique
<1>6. SignedIsNewest' BY <1>1, <1>4 DEF SignedIsNewest
<1>7. AwaitedNonceIsNewest' BY <1>1, <1>4 DEF AwaitedNonceIsNewest
<1>8. Numbered' BY <1>2, <1>4 DEF Numbered
<1>9. SentOnce' BY <1>1, <1>3, <1>4 DEF SentOnce
<1> QED BY <1>5, <1>6, <1>7, <1>8, <1>9

\* What a change of one entry does to the control.
LEMMA Going ==
  ASSUME TypeOK, NEW c \in Callers, NEW label \in Labels, Goto(c, label)
  PROVE  /\ pc' \in [Callers -> Labels] /\ pc'[c] = label
         /\ \A d \in Callers : d # c => pc'[d] = pc[d]
  BY DEF Goto, TypeOK

\* Steps that change the control of c and nothing the nonces or calls depend on.
LEMMA ControlKeeps ==
  ASSUME Inv, NEW c \in Callers,
         AcquireRequest(c) \/ GiveUp(c) \/ ReadClock(c) \/ Load(c) \/ Backoff(c)
  PROVE  Inv'
<1> USE SignedTransportAssumption DEF Inv, NonceInv, CallInv
<1>0. "idle" \in Labels /\ "clock" \in Labels /\ "load" \in Labels /\ "swap" \in Labels
  BY DEF Labels
<1>1. CASE AcquireRequest(c)
  <2>1. /\ pc[c] = "gate" /\ gate = NoCaller /\ gate' = c /\ Goto(c, "clock")
        /\ UNCHANGED <<lastNonce, calls, method, call, attempt, now, last, nonce, wire, high, executed>>
    BY <1>1 DEF AcquireRequest, callerVars, exchangeVars
  <2>2. /\ pc' \in [Callers -> Labels] /\ pc'[c] = "clock"
        /\ \A d \in Callers : d # c => pc'[d] = pc[d]
    BY <1>0, <2>1, Going
  <2>3. TypeOK' BY <2>1, <2>2 DEF TypeOK
  <2>4. GateHeld' BY <2>1, <2>2 DEF GateHeld, InExecute, Kind
  <2>5. NoncesBounded' BY <2>1 DEF NoncesBounded
  <2>6. Moved(c) BY <2>1, <2>2 DEF Moved, Unsent
  <2> QED BY <2>3, <2>4, <2>5, <2>6, MovedKeeps
<1>2. CASE GiveUp(c)
  <2>1. /\ pc[c] \in {"gate", "clock", "send", "backoff"}
        /\ Goto(c, "idle") /\ gate' = IF gate = c THEN NoCaller ELSE gate
        /\ UNCHANGED <<lastNonce, calls, method, call, attempt, now, last, nonce, wire, high, executed>>
    BY <1>2 DEF GiveUp, Return, callerVars, exchangeVars
  <2>2. /\ pc' \in [Callers -> Labels] /\ pc'[c] = "idle"
        /\ \A d \in Callers : d # c => pc'[d] = pc[d]
    BY <1>0, <2>1, Going
  <2>3. TypeOK' BY <2>1, <2>2 DEF TypeOK
  <2>4. GateHeld' BY <2>1, <2>2 DEF GateHeld, InExecute, Kind
  <2>5. NoncesBounded' BY <2>1 DEF NoncesBounded
  <2>6. Moved(c) BY <2>1, <2>2 DEF Moved
  <2> QED BY <2>3, <2>4, <2>5, <2>6, MovedKeeps
<1>3. CASE ReadClock(c)
  <2>1. /\ pc[c] = "clock" /\ Goto(c, "load")
        /\ \E t \in 0 .. MaxTime : now' = [now EXCEPT ![c] = t]
        /\ UNCHANGED <<lastNonce, gate, calls, method, call, attempt, last, nonce, wire, high, executed>>
    BY <1>3 DEF ReadClock, exchangeVars
  <2>2. /\ pc' \in [Callers -> Labels] /\ pc'[c] = "load"
        /\ \A d \in Callers : d # c => pc'[d] = pc[d]
    BY <1>0, <2>1, Going
  <2>3. TypeOK'
    <3>1. now' \in [Callers -> 0 .. MaxTime]
      <4>1. PICK t \in 0 .. MaxTime : now' = [now EXCEPT ![c] = t] BY <2>1
      <4>2. now \in [Callers -> 0 .. MaxTime] BY DEF TypeOK
      <4> HIDE DEF Inv
      <4> QED BY <4>1, <4>2
    <3> QED BY <2>1, <2>2, <3>1 DEF TypeOK
  <2>4. GateHeld' BY <2>1, <2>2 DEF GateHeld, InExecute, Kind
  <2>5. NoncesBounded' BY <2>1 DEF NoncesBounded
  <2>6. Moved(c) BY <2>1, <2>2 DEF Moved, Unsent
  <2> QED BY <2>3, <2>4, <2>5, <2>6, MovedKeeps
<1>4. CASE Load(c)
  <2>1. /\ pc[c] = "load" /\ Goto(c, "swap") /\ last' = [last EXCEPT ![c] = lastNonce]
        /\ UNCHANGED <<lastNonce, gate, calls, method, call, attempt, now, nonce, wire, high, executed>>
    BY <1>4 DEF Load, exchangeVars
  <2>2. /\ pc' \in [Callers -> Labels] /\ pc'[c] = "swap"
        /\ \A d \in Callers : d # c => pc'[d] = pc[d]
    BY <1>0, <2>1, Going
  <2>3. TypeOK' BY <2>1, <2>2 DEF TypeOK
  <2>4. GateHeld' BY <2>1, <2>2 DEF GateHeld, InExecute, Kind
  <2>5. NoncesBounded' BY <2>1 DEF NoncesBounded, TypeOK
  <2>6. Moved(c) BY <2>1, <2>2 DEF Moved, Unsent
  <2> QED BY <2>3, <2>4, <2>5, <2>6, MovedKeeps
<1>5. CASE Backoff(c)
  <2>1. /\ pc[c] = "backoff" /\ Goto(c, "clock") /\ attempt' = [attempt EXCEPT ![c] = @ + 1]
        /\ UNCHANGED <<lastNonce, gate, calls, method, call, now, last, nonce, wire, high, executed>>
    BY <1>5 DEF Backoff, exchangeVars
  <2>2. /\ pc' \in [Callers -> Labels] /\ pc'[c] = "clock"
        /\ \A d \in Callers : d # c => pc'[d] = pc[d]
    BY <1>0, <2>1, Going
  <2>3. attempt \in [Callers -> 0 .. MaxRetries] /\ attempt[c] < MaxRetries
    BY <2>1 DEF TypeOK, GateHeld
  <2>4. attempt[c] + 1 \in 0 .. MaxRetries
    <3> HIDE DEF Inv
    <3>1. attempt[c] \in 0 .. MaxRetries BY <2>3
    <3> QED BY <2>3, <3>1
  <2>5. attempt' \in [Callers -> 0 .. MaxRetries] /\ \A d \in Callers : d # c => attempt'[d] = attempt[d]
    <3> HIDE DEF Inv
    <3> QED BY <2>1, <2>3, <2>4
  <2>6. TypeOK' BY <2>1, <2>2, <2>5 DEF TypeOK
  <2>7. GateHeld' BY <2>1, <2>2, <2>5 DEF GateHeld, InExecute, Kind
  <2>8. NoncesBounded' BY <2>1 DEF NoncesBounded
  <2>9. Moved(c) BY <2>1, <2>2 DEF Moved
  <2> QED BY <2>6, <2>7, <2>8, <2>9, MovedKeeps
<1> QED BY <1>1, <1>2, <1>3, <1>4, <1>5

\* A nonce that is swapped in is larger than every nonce there is.
LEMMA SwapKeeps ==
  ASSUME Inv, NEW c \in Callers, Swap(c)
  PROVE  Inv'
<1> USE SignedTransportAssumption DEF Inv, NonceInv, CallInv
<1>1. CASE ~Swappable(c)
  <2>1. /\ pc[c] = "swap" /\ Goto(c, "load")
        /\ UNCHANGED <<lastNonce, gate, calls, method, call, attempt, now, last, nonce, wire, high, executed>>
    BY <1>1 DEF Swap, exchangeVars
  <2>2. /\ pc' \in [Callers -> Labels] /\ pc'[c] = "load"
        /\ \A d \in Callers : d # c => pc'[d] = pc[d]
    <3>1. "load" \in Labels BY DEF Labels
    <3> QED BY <2>1, <3>1, Going
  <2>3. TypeOK' BY <2>1, <2>2 DEF TypeOK
  <2>4. GateHeld' BY <2>1, <2>2 DEF GateHeld, InExecute, Kind
  <2>5. NoncesBounded' BY <2>1 DEF NoncesBounded
  <2>6. Moved(c) BY <2>1, <2>2 DEF Moved, Unsent
  <2> QED BY <2>3, <2>4, <2>5, <2>6, MovedKeeps
<1>2. CASE Swappable(c)
  <2> DEFINE new == Candidate(c)
  <2>1. new \in Nat /\ new > lastNonce
    BY <1>2 DEF Swappable, Candidate, TypeOK
  <2> HIDE DEF new
  <2>2. /\ pc[c] = "swap" /\ lastNonce' = new /\ nonce' = [nonce EXCEPT ![c] = new]
        /\ now' = [now EXCEPT ![c] = 0] /\ last' = [last EXCEPT ![c] = 0]
        /\ pc' = [pc EXCEPT ![c] = IF Kind(c) = "nonce" THEN "idle" ELSE "send"]
        /\ UNCHANGED <<gate, calls, method, call, attempt, wire, high, executed>>
    BY <1>2 DEF Swap, Goto, exchangeVars, new
  <2>3. TypeOK'
    <3>1. pc' \in [Callers -> Labels] BY <2>2 DEF TypeOK, Labels
    <3>2. nonce' \in [Callers -> Nat] /\ last' \in [Callers -> Nat] BY <2>1, <2>2 DEF TypeOK
    <3>3. now' \in [Callers -> 0 .. MaxTime] BY <2>2 DEF TypeOK
    <3>4. lastNonce' \in Nat BY <2>1, <2>2
    <3> QED BY <2>2, <3>1, <3>2, <3>3, <3>4 DEF TypeOK
  <2>4. GateHeld' BY <2>2 DEF GateHeld, TypeOK, InExecute, Kind
  <2>5. /\ lastNonce \in Nat /\ high \in Nat /\ \A r \in wire : r.nonce \in Nat
        /\ \A d \in Callers : nonce[d] \in Nat /\ last[d] \in Nat
    BY DEF TypeOK, Requests
  <2>6. \A d \in Callers : /\ nonce'[d] = IF d = c THEN new ELSE nonce[d]
                           /\ last'[d] = IF d = c THEN 0 ELSE last[d]
    BY <2>2 DEF TypeOK
  <2>7. NoncesBounded'
    BY <2>1, <2>2, <2>5, <2>6 DEF NoncesBounded
  <2>8. NoncesUnique'
    BY <2>1, <2>5, <2>6 DEF NoncesBounded, NoncesUnique
  <2>9. \A d \in Callers : d # c => pc'[d] = pc[d]
    BY <2>2 DEF TypeOK
  <2>10. pc'[c] \in {"idle", "send"}
    BY <2>2 DEF TypeOK
  <2>11. SignedIsNewest'
    BY <2>1, <2>2, <2>5, <2>6, <2>9, <2>10 DEF SignedIsNewest, NoncesBounded
  <2>12. AwaitedNonceIsNewest'
    BY <2>2, <2>6, <2>9, <2>10 DEF AwaitedNonceIsNewest
  <2>13. Numbered' BY <2>2, <2>9 DEF Numbered, TypeOK
  <2>14. SentOnce' BY <2>2, <2>9, <2>10 DEF SentOnce, Unsent
  <2> QED BY <2>3, <2>4, <2>7, <2>8, <2>11, <2>12, <2>13, <2>14
<1> QED BY <1>1, <1>2

\* The request that is sent is the newest, and the first one of a mutating call.
LEMMA SendKeeps ==
  ASSUME Inv, NEW c \in Callers, Send(c)
  PROVE  Inv'
<1> USE SignedTransportAssumption DEF Inv, NonceInv, CallInv
<1> DEFINE req == [nonce |-> nonce[c], call |-> call[c]]
<1>1. /\ pc[c] = "send" /\ wire' = wire \cup {req} /\ pc' = [pc EXCEPT ![c] = "await"]
      /\ UNCHANGED <<lastNonce, gate, calls, method, call, attempt, now, last, nonce, high, executed>>
  BY DEF Send, Goto, callerVars, exchangeVars
<1>2. req \in Requests /\ req.nonce = nonce[c] /\ req.call = call[c]
  BY <1>1 DEF TypeOK, Requests, Numbered, CallIds
<1> HIDE DEF req
<1>3. \A d \in Callers : pc'[d] = IF d = c THEN "await" ELSE pc[d]
  BY <1>1 DEF TypeOK
<1>4. gate = c /\ \A d \in Callers : d # c => pc[d] \notin {"send", "await", "backoff"}
  BY <1>1, <1>3 DEF GateHeld, InExecute
<1>5. /\ lastNonce \in Nat /\ high \in Nat /\ \A r \in wire : r.nonce \in Nat
      /\ \A d \in Callers : nonce[d] \in Nat
  BY DEF TypeOK, Requests
<1>6. TypeOK'
  <2>1. pc' \in [Callers -> Labels] BY <1>1 DEF TypeOK, Labels
  <2> QED BY <1>1, <1>2, <2>1 DEF TypeOK
<1>7. GateHeld' BY <1>1, <1>3 DEF GateHeld, InExecute, Kind
<1>8. NoncesBounded' /\ NoncesUnique' BY <1>1, <1>2 DEF NoncesBounded, NoncesUnique
<1>9. SignedIsNewest' BY <1>1, <1>2, <1>3, <1>4, <1>5 DEF SignedIsNewest
<1>10. AwaitedNonceIsNewest' BY <1>1, <1>2, <1>3, <1>4, <1>5 DEF AwaitedNonceIsNewest, SignedIsNewest
<1>11. Numbered' BY <1>1, <1>2, <1>3 DEF Numbered
<1>12. SentOnce' BY <1>1, <1>2, <1>3 DEF SentOnce, Unsent, Numbered
<1> QED BY <1>6, <1>7, <1>8, <1>9, <1>10, <1>11, <1>12

\* What the end of an attempt does to the control and the gate.
LEMMA AttemptEnded ==
  ASSUME Inv, NEW c \in Callers, NEW final \in BOOLEAN, pc[c] = "await", AttemptEnds(c, final),
         UNCHANGED <<method, call, attempt>>
  PROVE  /\ pc' \in [Callers -> Labels] /\ gate' \in Callers \cup {NoCaller}
         /\ \A d \in Callers : d # c => pc'[d] = pc[d]
         /\ pc'[c] \in {"idle", "backoff"}
         /\ pc'[c] = "backoff" => Kind(c) = "get"
         /\ GateHeld'
<1> USE SignedTransportAssumption DEF Inv, NonceInv
<1>1. CASE pc' = [pc EXCEPT ![c] = "backoff"] /\ gate' = gate /\ attempt[c] < MaxRetries /\ Kind(c) = "get"
  BY <1>1 DEF GateHeld, TypeOK, Labels, InExecute, Kind
<1>2. CASE pc' = [pc EXCEPT ![c] = "idle"] /\ gate' = IF gate = c THEN NoCaller ELSE gate
  BY <1>2 DEF GateHeld, TypeOK, Labels, InExecute, Kind
<1> QED BY <1>1, <1>2 DEF AttemptEnds, Return, Goto, RetriesLeft, IsRetryable

LEMMA NoAnswerKeeps ==
  ASSUME Inv, NEW c \in Callers, NoAnswer(c)
  PROVE  Inv'
<1> USE DEF Inv, NonceInv, CallInv
<1>1. pc[c] = "await" /\ UNCHANGED <<lastNonce, calls, method, call, attempt, now, last, nonce, wire, high, executed>>
  BY DEF NoAnswer, callerVars, exchangeVars
<1>2. /\ pc' \in [Callers -> Labels] /\ gate' \in Callers \cup {NoCaller}
      /\ \A d \in Callers : d # c => pc'[d] = pc[d]
      /\ pc'[c] \in {"idle", "backoff"} /\ (pc'[c] = "backoff" => Kind(c) = "get")
      /\ GateHeld'
  <2> PICK final \in BOOLEAN : AttemptEnds(c, final) BY DEF NoAnswer
  <2> QED BY <1>1, AttemptEnded
<1>3. TypeOK' BY <1>1, <1>2 DEF TypeOK
<1>4. NoncesBounded' /\ NoncesUnique' BY <1>1 DEF NoncesBounded, NoncesUnique
<1>5. SignedIsNewest' /\ AwaitedNonceIsNewest' BY <1>1, <1>2 DEF SignedIsNewest, AwaitedNonceIsNewest
<1>6. Numbered' BY <1>1, <1>2 DEF Numbered
<1>7. SentOnce' BY <1>1, <1>2 DEF SentOnce, Unsent, Kind
<1> QED BY <1>2, <1>3, <1>4, <1>5, <1>6, <1>7

LEMMA LoseKeeps ==
  ASSUME Inv, NEW r \in wire, Lose(r)
  PROVE  Inv'
<1> USE DEF Inv, NonceInv, CallInv, Lose, callerVars, exchangeVars
<1>1. TypeOK' /\ GateHeld' /\ NoncesBounded' /\ NoncesUnique'
  BY DEF TypeOK, GateHeld, NoncesBounded, NoncesUnique, Kind
<1>2. SignedIsNewest' /\ AwaitedNonceIsNewest'
  BY DEF SignedIsNewest, AwaitedNonceIsNewest
<1>3. Numbered' /\ SentOnce'
  BY DEF Numbered, SentOnce
<1> QED BY <1>1, <1>2, <1>3

\* A request on the wire has not been executed if it mutates, and receiving it
\* does not outdate the one that is awaited.
LEMMA ReceiveKeeps ==
  ASSUME Inv, NEW r \in wire, Receive(r)
  PROVE  Inv'
<1> USE DEF Inv, NonceInv, CallInv
<1>1. wire' = wire \ {r} /\ UNCHANGED <<lastNonce, calls, method, call, attempt, now, last, nonce>>
  BY DEF Receive, callerVars
<1>2. PICK ran \in BOOLEAN, final \in BOOLEAN :
        /\ IF r.nonce <= high THEN ~ran /\ final /\ UNCHANGED high ELSE high' = r.nonce
        /\ executed' = IF ran THEN [executed EXCEPT ![r.call] = @ + 1] ELSE executed
        /\ \/ \E c \in Callers : pc[c] = "await" /\ nonce[c] = r.nonce /\ AttemptEnds(c, final)
           \/ UNCHANGED <<pc, gate>>
  BY DEF Receive
<1> DEFINE Moves ==
      /\ pc' \in [Callers -> Labels] /\ gate' \in Callers \cup {NoCaller} /\ GateHeld'
      /\ \A d \in Callers : \/ pc'[d] = pc[d]
                            \/ /\ pc[d] = "await" /\ pc'[d] \in {"idle", "backoff"}
                               /\ pc'[d] = "backoff" => Kind(d) = "get"
<1>3. Moves
  <2>1. CASE UNCHANGED <<pc, gate>>
    BY <2>1, <1>1 DEF TypeOK, GateHeld, Kind
  <2>2. ASSUME NEW c \in Callers, pc[c] = "await", AttemptEnds(c, final) PROVE Moves
    BY <2>2, <1>1, AttemptEnded
  <2> QED BY <2>1, <2>2, <1>2
<1>4. /\ r.nonce \in Nat /\ r.call \in CallIds /\ high \in Nat /\ lastNonce \in Nat
      /\ \A s \in wire : s.nonce \in Nat
      /\ \A d \in Callers : nonce[d] \in Nat
  BY DEF TypeOK, Requests
<1>5. high' \in Nat /\ (high' = high \/ (high' = r.nonce /\ high' > high))
  BY <1>2, <1>4
<1>6. TypeOK'
  <2>1. executed' \in [CallIds -> Nat] BY <1>2, <1>4 DEF TypeOK
  <2> QED BY <1>1, <1>3, <1>5, <2>1 DEF TypeOK
<1>7. NoncesBounded' /\ NoncesUnique' BY <1>1, <1>4, <1>5 DEF NoncesBounded, NoncesUnique
<1>8. SignedIsNewest' BY <1>1, <1>3, <1>4, <1>5 DEF SignedIsNewest
<1>9. AwaitedNonceIsNewest'
  BY <1>1, <1>3, <1>4, <1>5 DEF AwaitedNonceIsNewest, SignedIsNewest
<1>10. Numbered'
  <2>1. \A k \in CallIds : k > calls' => executed'[k] = 0
    BY <1>1, <1>2, <1>4 DEF Numbered, TypeOK, CallIds
  <2> QED BY <1>1, <1>3, <2>1 DEF Numbered
<1>11. SentOnce'
  <2> SUFFICES ASSUME NEW k \in CallIds, method[k] = "post"
               PROVE  /\ executed'[k] <= 1
                      /\ \A s, t \in wire' : s.call = k /\ t.call = k => s = t
                      /\ \A s \in wire' : s.call = k => executed'[k] = 0
                      /\ \A c \in Callers : call[c] = k =>
                           /\ pc'[c] # "backoff"
                           /\ pc'[c] \in Unsent => executed'[k] = 0 /\ \A s \in wire' : s.call # k
    BY <1>1 DEF SentOnce
  <2>1. CASE k # r.call
    <3>1. executed'[k] = executed[k] BY <2>1, <1>2, <1>4 DEF TypeOK
    <3> QED BY <3>1, <1>1, <1>3 DEF SentOnce, Unsent, Kind
  <2>2. CASE k = r.call
    <3>1. executed[k] = 0 /\ \A c \in Callers : call[c] = k => pc[c] \notin Unsent /\ pc[c] # "backoff"
      BY <2>2 DEF SentOnce
    <3>2. executed'[k] \in {0, 1}
      BY <3>1, <2>2, <1>2, <1>4 DEF TypeOK
    <3>3. \A s \in wire' : s.call # k
      BY <2>2, <1>1 DEF SentOnce
    <3> QED BY <3>1, <3>2, <3>3, <1>3 DEF Unsent, Kind
  <2> QED BY <2>1, <2>2
<1> QED BY <1>3, <1>6, <1>7, <1>8, <1>9, <1>10, <1>11

\* Whatever the clocks, the interleaving and the network do: no nonce is given
\* out twice, a caller that waits for an answer is not refused for its nonce,
\* and a mutating request is executed at most once.
THEOREM SigningCorrect == Spec => [](TypeOK /\ RequestsAccepted /\ MutatesOnce)
<1>1. Inv /\ [Next]_vars => Inv'
  <2> SUFFICES ASSUME Inv, [Next]_vars PROVE Inv'
    OBVIOUS
  <2>1. CASE UNCHANGED vars BY <2>1, StutterInv
  <2>2. ASSUME NEW c \in Callers, NEW k \in Kinds, Call(c, k) PROVE Inv' BY <2>2, CallKeeps
  <2>3. ASSUME NEW c \in Callers, AcquireRequest(c) \/ CallerStep(c) \/ GiveUp(c) PROVE Inv'
    BY <2>3, ControlKeeps, SwapKeeps, SendKeeps, NoAnswerKeeps DEF CallerStep
  <2>4. ASSUME NEW r \in wire, Receive(r) \/ Lose(r) PROVE Inv' BY <2>4, ReceiveKeeps, LoseKeeps
  <2> QED BY <2>1, <2>2, <2>3, <2>4 DEF Next
<1>2. Inv => TypeOK /\ RequestsAccepted /\ MutatesOnce
  BY DEF Inv, NonceInv, CallInv, SentOnce, RequestsAccepted, MutatesOnce
<1> QED BY InitInv, <1>1, <1>2, PTL DEF Spec

-----------------------------------------------------------------------------
\* The OAuth source.

LEMMA SourceBounds == MaxRefreshes \in Nat
BY MCRestAuthAssumption

SomeToken(t) == /\ t = Source!Token(t.access, t.refresh, t.expires)
                /\ t.access \in Nat /\ t.refresh \in Nat

SourceType ==
  /\ refreshing \in 0 .. MaxRefreshes /\ started \in 0 .. MaxRefreshes
  /\ live \in Nat /\ issued \in Nat /\ faults \in Nat
  /\ phase \in [Source!Refreshes -> {"none", "asking", "updating", "ending", "ended"}]
  /\ DOMAIN using = Source!Refreshes /\ DOMAIN result = Source!Refreshes
  /\ \A k \in Source!Refreshes : SomeToken(result[k])
  /\ SomeToken(token) /\ SomeToken(stored)
  /\ waiting \in [Callers -> 0 .. MaxRefreshes]
  /\ found \in [Callers -> Nat] /\ got \in [Callers -> Nat]

\* Refreshes are numbered as they start, and the last one alone may be under way.
OneRefresh ==
  /\ refreshing \in {0, started}
  /\ refreshing # 0 => phase[refreshing] \in {"asking", "updating", "ending"}
  /\ \A k \in Source!Refreshes :
       /\ phase[k] \in {"asking", "updating", "ending"} => k = refreshing
       /\ k > started => phase[k] = "none"
       /\ phase[k] \in {"none", "asking"} => result[k] = Source!NoToken
  /\ \A c \in Callers : waiting[c] <= started

\* Where the newest token is.
NewestToken ==
  /\ token.access <= issued /\ stored.access <= issued
  /\ \A k \in Source!Refreshes :
       /\ phase[k] = "asking" => stored = token
       /\ phase[k] = "updating" => /\ stored = token /\ result[k].access > stored.access
                                   /\ result[k].access <= issued
       /\ phase[k] = "ending" =>
            IF result[k] = Source!NoToken THEN stored = token
            ELSE stored = result[k] /\ result[k].access > token.access
       /\ phase[k] = "ended" => result[k].access <= stored.access
  /\ refreshing = 0 => stored = token

\* The refresh token at each stage of a refresh, as long as nothing fails.
TokenHonoured ==
  faults = 0 =>
    /\ refreshing = 0 => token.refresh \in {0, live}
    /\ \A k \in Source!Refreshes :
         /\ phase[k] = "asking" => using[k] = live
         /\ phase[k] \in {"updating", "ending"} => result[k] # Source!NoToken /\ result[k].refresh = live

\* What a caller has been given, or will be given by the refresh it waits for.
CallerServed ==
  \A c \in Callers :
    /\ got[c] <= stored.access /\ found[c] <= issued
    /\ waiting[c] = 0 /\ got[c] # 0 => got[c] > found[c]
    /\ waiting[c] # 0 =>
         /\ phase[waiting[c]] # "none"
         /\ phase[waiting[c]] \in {"asking", "updating", "ending"} => found[c] <= token.access
         /\ phase[waiting[c]] = "ended" /\ result[waiting[c]] # Source!NoToken => result[waiting[c]].access > found[c]

SourceInv == SourceType /\ OneRefresh /\ NewestToken /\ TokenHonoured /\ CallerServed

LEMMA InitSource == Source!Init => SourceInv
<1> SUFFICES ASSUME Source!Init PROVE SourceInv
  OBVIOUS
<1>1. PICK a \in {0, 1}, r \in {0, 1}, e \in Lifetimes : token = Source!Token(a, r, e)
  BY DEF Source!Init
<1>2. SomeToken(token) /\ SomeToken(stored) /\ SomeToken(Source!NoToken)
  BY <1>1 DEF Source!Init, SomeToken, Source!Token, Source!NoToken
<1>3. SourceType
  BY <1>2, SourceBounds DEF Source!Init, SourceType, Source!Refreshes
<1>4. token.access \in {0, 1} /\ token.refresh \in {0, 1}
  BY <1>1 DEF Source!Token
<1>5. OneRefresh /\ NewestToken
  BY <1>4, SourceBounds DEF Source!Init, OneRefresh, NewestToken, Source!Refreshes
<1>6. TokenHonoured /\ CallerServed
  BY <1>4 DEF Source!Init, TokenHonoured, CallerServed, SourceType, SomeToken
<1> QED BY <1>3, <1>5, <1>6 DEF SourceInv

\* What a step of a caller leaves alone, and what it gives the caller.
LEMMA CallerKeeps ==
  ASSUME SourceInv, NEW c \in Callers,
         Source!TokenValid(c) \/ Source!TokenUnavailable(c) \/ Source!TokenExpired(c) \/ Source!Wake(c) \/ Source!ContextEnds(c)
  PROVE  SourceInv'
<1> USE SourceBounds DEF SourceInv, Source!Refreshes
<1>1. CASE Source!TokenValid(c)
  <2>1. /\ found' = [found EXCEPT ![c] = 0] /\ got' = [got EXCEPT ![c] = token.access]
        /\ UNCHANGED <<refreshing, started, phase, using, result, live, issued, faults, token, stored, waiting>>
    BY <1>1 DEF Source!TokenValid, Source!refreshVars, Source!serverVars
  <2>2. SourceType' /\ OneRefresh' /\ NewestToken' /\ TokenHonoured'
    BY <2>1 DEF SourceType, OneRefresh, NewestToken, TokenHonoured, SomeToken
  <2>3. token.access <= stored.access
    BY DEF SourceType, OneRefresh, NewestToken, SomeToken
  <2>4. CallerServed'
    BY <1>1, <2>1, <2>3, SMTT(30) DEF CallerServed, SourceType, SomeToken, Source!TokenValid
  <2> QED BY <2>2, <2>4
<1>2. CASE Source!TokenUnavailable(c)
  <2>1. /\ found' = [found EXCEPT ![c] = token.access] /\ got' = [got EXCEPT ![c] = 0]
        /\ UNCHANGED <<refreshing, started, phase, using, result, live, issued, faults, token, stored, waiting>>
    BY <1>2 DEF Source!TokenUnavailable, Source!refreshVars, Source!serverVars
  <2>2. SourceType' /\ OneRefresh' /\ NewestToken' /\ TokenHonoured'
    BY <2>1 DEF SourceType, OneRefresh, NewestToken, TokenHonoured, SomeToken
  <2>4. CallerServed'
    BY <1>2, <2>1 DEF CallerServed, SourceType, SomeToken, NewestToken, Source!TokenUnavailable
  <2> QED BY <2>2, <2>4
<1>3. CASE Source!TokenExpired(c) /\ Source!Shares
  <2>1. /\ found' = [found EXCEPT ![c] = token.access] /\ waiting' = [waiting EXCEPT ![c] = refreshing]
        /\ UNCHANGED <<refreshing, started, phase, using, result, live, issued, faults, token, stored, got>>
    BY <1>3 DEF Source!TokenExpired, Source!refreshVars, Source!serverVars
  <2>2. SourceType' /\ OneRefresh' /\ NewestToken' /\ TokenHonoured'
    <3>1. SourceType'
      BY <2>1 DEF SourceType, SomeToken
    <3>2. OneRefresh'
      BY <2>1 DEF SourceType, OneRefresh
    <3>3. NewestToken' /\ TokenHonoured'
      BY <2>1 DEF NewestToken, TokenHonoured
    <3> QED BY <3>1, <3>2, <3>3
  <2>4. CallerServed'
    BY <1>3, <2>1 DEF CallerServed, SourceType, SomeToken, NewestToken, OneRefresh, Source!Shares
  <2> QED BY <2>2, <2>4
<1>4. CASE Source!TokenExpired(c) /\ ~Source!Shares
  <2>0. PICK k \in Source!Refreshes : k = started + 1
    BY <1>4 DEF Source!TokenExpired, SourceType
  <2>1. /\ waiting[c] = 0 /\ token.refresh # 0 /\ refreshing = 0
        /\ found' = [found EXCEPT ![c] = token.access] /\ waiting' = [waiting EXCEPT ![c] = k]
        /\ started' = k /\ refreshing' = k /\ phase' = [phase EXCEPT ![k] = "asking"]
        /\ using' = [using EXCEPT ![k] = token.refresh]
        /\ UNCHANGED <<result, live, issued, faults, token, stored, got>>
    BY <1>4, <2>0 DEF Source!TokenExpired, Source!serverVars, Source!Shares
  <2>2. SourceType'
    <3>1. refreshing' \in 0 .. MaxRefreshes /\ started' \in 0 .. MaxRefreshes
      BY <2>1
    <3>2. phase' \in [Source!Refreshes -> {"none", "asking", "updating", "ending", "ended"}] /\ DOMAIN using' = Source!Refreshes
      BY <2>1 DEF SourceType
    <3>3. waiting' \in [Callers -> 0 .. MaxRefreshes]
      BY <2>1 DEF SourceType
    <3>4. found' \in [Callers -> Nat]
      BY <2>1 DEF SourceType, SomeToken
    <3> QED BY <2>1, <3>1, <3>2, <3>3, <3>4 DEF SourceType, SomeToken
  <2>3. OneRefresh'
    BY <2>0, <2>1 DEF OneRefresh, SourceType
  <2>4. NewestToken' /\ TokenHonoured'
    BY <2>0, <2>1 DEF NewestToken, TokenHonoured, SourceType
  <2>5. CallerServed'
    BY <2>0, <2>1 DEF CallerServed, SourceType, SomeToken, NewestToken, OneRefresh
  <2> QED BY <2>2, <2>3, <2>4, <2>5
<1>5. CASE Source!Wake(c)
  <2>1. /\ waiting[c] # 0 /\ phase[waiting[c]] = "ended"
        /\ waiting' = [waiting EXCEPT ![c] = 0] /\ got' = [got EXCEPT ![c] = result[waiting[c]].access]
        /\ UNCHANGED <<refreshing, started, phase, using, result, live, issued, faults, token, stored, found>>
    BY <1>5 DEF Source!Wake, Source!refreshVars, Source!serverVars
  <2>2. PICK k \in Source!Refreshes : k = waiting[c]
    <3>1. waiting[c] \in 0 .. MaxRefreshes
      BY DEF SourceType
    <3>2. waiting[c] \in Source!Refreshes
      BY <2>1, <3>1
    <3> QED BY <3>2
  <2>3. SourceType'
    <3>1. waiting' \in [Callers -> 0 .. MaxRefreshes]
      BY <2>1 DEF SourceType
    <3>2. result[k].access \in Nat
      BY DEF SourceType, SomeToken
    <3>3. got' \in [Callers -> Nat]
      BY <2>1, <2>2, <3>2 DEF SourceType
    <3> QED BY <2>1, <3>1, <3>3 DEF SourceType, SomeToken
  <2>4. OneRefresh' /\ NewestToken' /\ TokenHonoured'
    BY <2>1 DEF OneRefresh, NewestToken, TokenHonoured, SourceType
  <2>5. result[k] = Source!NoToken => result[k].access = 0
    BY DEF Source!NoToken, Source!Token
  <2>6. CallerServed'
    BY <2>1, <2>2, <2>5 DEF CallerServed, SourceType, SomeToken, NewestToken
  <2> QED BY <2>3, <2>4, <2>6
<1>6. CASE Source!ContextEnds(c)
  <2>1. /\ waiting' = [waiting EXCEPT ![c] = 0] /\ got' = [got EXCEPT ![c] = 0]
        /\ UNCHANGED <<refreshing, started, phase, using, result, live, issued, faults, token, stored, found>>
    BY <1>6 DEF Source!ContextEnds, Source!refreshVars, Source!serverVars
  <2>2. SourceType' /\ OneRefresh' /\ NewestToken' /\ TokenHonoured'
    <3>1. SourceType'
      BY <2>1 DEF SourceType, SomeToken
    <3>2. OneRefresh'
      BY <2>1 DEF SourceType, OneRefresh
    <3>3. NewestToken' /\ TokenHonoured'
      BY <2>1 DEF NewestToken, TokenHonoured
    <3> QED BY <3>1, <3>2, <3>3
  <2>4. CallerServed'
    BY <2>1 DEF CallerServed, SourceType, SomeToken
  <2> QED BY <2>2, <2>4
<1> QED BY <1>1, <1>2, <1>3, <1>4, <1>5, <1>6

\* A refresh goes on: it is the one under way.
LEMMA RefreshKeeps ==
  ASSUME SourceInv, NEW k \in Source!Refreshes, Source!RefreshStep(k)
  PROVE  SourceInv'
<1> USE SourceBounds DEF SourceInv, Source!Refreshes
<1>0. k = refreshing /\ k = started /\ k # 0
  BY DEF Source!RefreshStep, Source!Refresh, Source!RefreshFails, Source!TokenUpdate, Source!RefreshEnds, OneRefresh
<1>9. Source!NoToken.access = 0 /\ Source!NoToken.refresh = 0 /\ SomeToken(Source!NoToken)
  BY DEF Source!NoToken, Source!Token, SomeToken
<1>1. CASE Source!Refresh(k)
  <2>1. PICK lifetime \in Lifetimes, rotates \in Rotations :
          /\ issued' = issued + 1 /\ live' = IF rotates THEN live + 1 ELSE live
          /\ result' = [result EXCEPT ![k] = Source!Token(issued + 1, live', clock + lifetime)]
    BY <1>1 DEF Source!Refresh, Source!Issue, Source!NextRefreshToken
  <2>2. /\ phase[k] = "asking" /\ using[k] = live /\ phase' = [phase EXCEPT ![k] = "updating"]
        /\ UNCHANGED <<refreshing, started, using, waiting, found, got, token, stored, faults>>
    BY <1>1 DEF Source!Refresh, Source!callerVars
  <2>3. PICK t : t = Source!Token(issued + 1, live', clock + lifetime)
    OBVIOUS
  <2>4. t.access = issued + 1 /\ t.refresh = live' /\ SomeToken(t) /\ t # Source!NoToken
    BY <2>1, <2>3, <1>9, SMTT(30) DEF Source!Token, SomeToken, SourceType
  <2>5. result' = [result EXCEPT ![k] = t]
    BY <2>1, <2>3
  <2>6. SourceType'
    BY <2>1, <2>2, <2>4, <2>5 DEF SourceType, SomeToken
  <2>7. OneRefresh'
    BY <1>0, <2>2, <2>5 DEF OneRefresh, SourceType
  <2>8. NewestToken'
    <3>1. issued \in Nat /\ issued' = issued + 1 /\ stored.access \in Nat
      BY <2>1 DEF SourceType, SomeToken
    <3>2. stored = token /\ stored.access <= issued
      BY <2>2 DEF NewestToken
    <3>3. /\ phase'[k] = "updating" /\ result'[k] = t
          /\ \A j \in Source!Refreshes : j # k => /\ phase'[j] = phase[j] /\ result'[j] = result[j]
                                           /\ phase[j] \in {"none", "ended"}
      BY <1>0, <2>2, <2>5 DEF OneRefresh, SourceType
    <3>4. result'[k].access > stored.access /\ result'[k].access <= issued'
      BY <2>4, <3>1, <3>2, <3>3
    <3>5. \A j \in Source!Refreshes : phase'[j] = "ended" => result'[j].access <= stored.access
      BY <3>3 DEF NewestToken
    <3>6. stored.access <= issued'
      BY <3>1, <3>2
    <3> QED BY <1>0, <2>2, <3>2, <3>3, <3>4, <3>5, <3>6 DEF NewestToken
  <2>9. TokenHonoured'
    BY <1>0, <2>1, <2>2, <2>4, <2>5 DEF TokenHonoured, OneRefresh, SourceType
  <2>10. CallerServed'
    BY <1>0, <2>1, <2>2, <2>4, <2>5 DEF CallerServed, SourceType, SomeToken
  <2> QED BY <2>6, <2>7, <2>8, <2>9, <2>10
<1>2. CASE Source!RefreshFails(k)
  <2>1. /\ phase[k] = "asking" /\ phase' = [phase EXCEPT ![k] = "ending"]
        /\ UNCHANGED <<refreshing, started, using, result, waiting, found, got, token, stored>>
        /\ result[k] = Source!NoToken
    BY <1>2 DEF Source!RefreshFails, Source!callerVars, OneRefresh
  <2>2. /\ issued' \in {issued, issued + 1} /\ live' \in {live, live + 1} /\ faults' \in Nat /\ faults' # 0
    <3>1. CASE faults' = faults
      <4>1. using[k] # live /\ issued' = issued /\ live' = live
        BY <1>2, <3>1 DEF Source!RefreshFails, Source!Fault, SourceType, Source!serverVars
      <4>2. faults # 0
        BY <2>1, <4>1 DEF TokenHonoured
      <4> QED BY <3>1, <4>1, <4>2 DEF SourceType
    <3>2. CASE faults' = faults + 1
      BY <1>2, <3>2 DEF Source!RefreshFails, Source!Issue, SourceType, Source!serverVars
    <3>3. faults' = faults \/ faults' = faults + 1
      BY <1>2 DEF Source!RefreshFails, Source!Fault
    <3> QED BY <3>1, <3>2, <3>3
  <2>3. SourceType'
    <3>1. phase' \in [Source!Refreshes -> {"none", "asking", "updating", "ending", "ended"}]
      BY <2>1 DEF SourceType
    <3>2. issued' \in Nat /\ live' \in Nat
      BY <2>2 DEF SourceType
    <3> QED BY <2>1, <2>2, <3>1, <3>2 DEF SourceType, SomeToken
  <2>4. OneRefresh'
    BY <1>0, <2>1 DEF OneRefresh, SourceType
  <2>5. NewestToken'
    BY <1>0, <2>1, <2>2 DEF NewestToken, SourceType, SomeToken
  <2>6. TokenHonoured'
    BY <2>2 DEF TokenHonoured
  <2>7. CallerServed'
    BY <1>0, <2>1, <2>2 DEF CallerServed, SourceType, SomeToken
  <2> QED BY <2>3, <2>4, <2>5, <2>6, <2>7
<1>3. CASE Source!TokenUpdate(k)
  <2>1. /\ phase[k] = "updating" /\ phase' = [phase EXCEPT ![k] = "ending"]
        /\ UNCHANGED <<refreshing, started, using, waiting, found, got, token, live, issued>>
    BY <1>3 DEF Source!TokenUpdate, Source!callerVars, Source!serverVars
  <2>2. CASE stored' = result[k] /\ UNCHANGED <<result, faults>>
    <3>1. SourceType'
      BY <2>1, <2>2 DEF SourceType, SomeToken
    <3>2. OneRefresh'
      BY <1>0, <2>1, <2>2 DEF OneRefresh, SourceType
    <3>3. NewestToken'
      <4>1. result[k].access > stored.access /\ result[k].access <= issued /\ stored = token
        BY <2>1 DEF NewestToken
      <4>2. phase'[k] = "ending" /\ \A j \in Source!Refreshes : j # k => phase'[j] = phase[j]
        BY <2>1 DEF SourceType
      <4>3. \A j \in Source!Refreshes : j # k => phase[j] \in {"none", "ended"}
        BY <1>0 DEF OneRefresh, SourceType
      <4>4. result[k] # Source!NoToken /\ refreshing' # 0
        <5>1. stored.access \in Nat /\ result[k].access \in Nat
          BY DEF SourceType, SomeToken
        <5>2. result[k].access # 0
          BY <4>1, <5>1
        <5> QED BY <1>0, <1>9, <2>1, <5>2
      <4>5. \A j \in Source!Refreshes : phase'[j] = "ended" => result[j].access <= stored'.access
        <5>1. \A j \in Source!Refreshes : phase[j] = "ended" => result[j].access <= stored.access
          BY DEF NewestToken
        <5>2. \A j \in Source!Refreshes : result[j].access \in Nat
          BY DEF SourceType, SomeToken
        <5> QED BY <2>2, <4>1, <4>2, <5>1, <5>2 DEF SourceType, SomeToken
      <4>6. \A j \in Source!Refreshes : phase'[j] \notin {"asking", "updating"} /\ (phase'[j] = "ending" => j = k)
        BY <4>2, <4>3
      <4>7. stored'.access <= issued' /\ token'.access <= issued'
        BY <2>1, <2>2, <4>1 DEF NewestToken
      <4>8. stored' = result'[k] /\ result'[k] # Source!NoToken /\ result'[k].access > token'.access
        BY <2>1, <2>2, <4>1, <4>4
      <4>9. \A j \in Source!Refreshes : result'[j] = result[j]
        BY <2>2
      <4> QED BY <4>4, <4>5, <4>6, <4>7, <4>8, <4>9 DEF NewestToken
    <3>4. TokenHonoured'
      BY <1>0, <2>1, <2>2 DEF TokenHonoured, SourceType
    <3>5. CallerServed'
      BY <1>0, <2>1, <2>2 DEF CallerServed, NewestToken, SourceType, SomeToken
    <3> QED BY <3>1, <3>2, <3>3, <3>4, <3>5
  <2>3. CASE Source!Fault /\ result' = [result EXCEPT ![k] = Source!NoToken] /\ UNCHANGED stored
    <3>0. faults' \in Nat /\ faults' # 0
      BY <2>3 DEF Source!Fault, SourceType
    <3>1. SourceType'
      BY <1>9, <2>1, <2>3, <3>0 DEF SourceType, SomeToken
    <3>2. OneRefresh'
      BY <1>0, <2>1, <2>3 DEF OneRefresh, SourceType
    <3>3. NewestToken'
      <4>1. result'[k] = Source!NoToken /\ \A j \in Source!Refreshes : j # k => result'[j] = result[j]
        BY <2>3 DEF SourceType
      <4>2. phase'[k] = "ending" /\ \A j \in Source!Refreshes : j # k => phase'[j] = phase[j]
        BY <2>1 DEF SourceType
      <4>3. stored = token /\ refreshing' # 0
        BY <1>0, <2>1 DEF NewestToken
      <4> QED BY <2>1, <2>3, <4>1, <4>2, <4>3 DEF NewestToken
    <3>4. TokenHonoured'
      BY <3>0 DEF TokenHonoured
    <3>5. CallerServed'
      BY <1>0, <2>1, <2>3 DEF CallerServed, NewestToken, SourceType, SomeToken
    <3> QED BY <3>1, <3>2, <3>3, <3>4, <3>5
  <2> QED BY <1>3, <2>2, <2>3 DEF Source!TokenUpdate
<1>4. CASE Source!RefreshEnds(k)
  <2>1. /\ phase[k] = "ending" /\ phase' = [phase EXCEPT ![k] = "ended"]
        /\ token' = (IF result[k] # Source!NoToken THEN result[k] ELSE token) /\ refreshing' = 0
        /\ UNCHANGED <<started, using, result, waiting, found, got, stored, live, issued, faults>>
    BY <1>4 DEF Source!RefreshEnds, Source!callerVars, Source!serverVars
  <2>2. stored' = token'
    <3>1. IF result[k] = Source!NoToken THEN stored = token ELSE stored = result[k]
      BY <2>1 DEF NewestToken
    <3> QED BY <2>1, <3>1
  <2>3. SourceType'
    <3>1. phase' \in [Source!Refreshes -> {"none", "asking", "updating", "ending", "ended"}]
      BY <2>1 DEF SourceType
    <3>2. refreshing' \in 0 .. MaxRefreshes
      BY <2>1
    <3>3. SomeToken(token)'
      BY <2>1 DEF SourceType, SomeToken
    <3> QED BY <2>1, <3>1, <3>2, <3>3 DEF SourceType, SomeToken
  <2>4. OneRefresh'
    BY <1>0, <2>1 DEF OneRefresh, SourceType
  <2>5. NewestToken'
    BY <1>0, <1>9, <2>1, <2>2 DEF NewestToken, OneRefresh, SourceType, SomeToken
  <2>6. TokenHonoured'
    BY <1>0, <2>1 DEF TokenHonoured, OneRefresh, SourceType
  <2>7. CallerServed'
    BY <1>0, <1>9, <2>1, <2>2 DEF CallerServed, NewestToken, SourceType, SomeToken
  <2> QED BY <2>3, <2>4, <2>5, <2>6, <2>7
<1> QED BY <1>1, <1>2, <1>3, <1>4 DEF Source!RefreshStep

LEMMA SourceStep ==
  ASSUME SourceInv, Source!Next \/ UNCHANGED Source!vars
  PROVE  SourceInv'
<1>1. Source!Tick \/ UNCHANGED Source!vars => SourceInv'
  BY DEF Source!Tick, Source!vars, Source!refreshVars, Source!callerVars, Source!serverVars, SourceInv, SourceType, OneRefresh, NewestToken, TokenHonoured,
         CallerServed, SomeToken
<1> QED BY <1>1, CallerKeeps, RefreshKeeps DEF Source!Next

LEMMA SourceIsSound ==
  ASSUME SourceInv
  PROVE  Source!TokensSound
<1> USE DEF SourceInv
<1>1. Source!RefreshTokenUsable
  BY DEF Source!RefreshTokenUsable, OneRefresh, TokenHonoured
<1>2. Source!PersistedBeforeVisible
  BY DEF Source!PersistedBeforeVisible, NewestToken, CallerServed
<1>3. Source!WaitersGetNewToken
  BY DEF Source!WaitersGetNewToken, CallerServed
<1> QED BY <1>1, <1>2, <1>3 DEF Source!TokensSound

-----------------------------------------------------------------------------
\* The processes of one profile.

LEMMA ProfileBounds == MaxLogins \in Nat /\ MaxTokens \in Nat \ {0} /\ Rotating \subseteq BOOLEAN
BY MCRestAuthAssumption

On(c) == cmd[c] # "off"
Issued(f) == /\ f.refresh \in 1 .. minted /\ f.client \in Cli!Clients \ {0}
             /\ f = Cli!Family(f.refresh, f.client) /\ owner[f.refresh] = f.client

ProfileType ==
  /\ env \in {"nothing", "client", "tokens"}
  /\ cmd \in [Commands -> {"off", "ready", "asking", "answered"}]
  /\ DOMAIN family = Commands /\ DOMAIN answer = Commands
  /\ login \in [Cli!Logins -> {"none", "waiting", "exchanging", "saving", "ended"}]
  /\ DOMAIN granted = Cli!Logins
  /\ minted \in 1 .. MaxTokens /\ owner \in [1 .. MaxTokens -> Cli!Clients]
  /\ honoured \subseteq 1 .. minted /\ rotating \in BOOLEAN

\* Everything held goes with the client it was issued to.
Paired ==
  /\ keyring # Cli!NoFamily => Issued(keyring)
  /\ \A c \in Commands : On(c) => Issued(family[c])
  /\ \A c \in Commands : cmd[c] = "answered" => Issued(answer[c]) /\ answer[c].client = family[c].client
  /\ \A l \in Cli!Logins : login[l] = "saving" => Issued(granted[l])

\* Tokens on their way to the keyring are honoured, and nobody else has them.
Fresh ==
  /\ \A c \in Commands : cmd[c] = "answered" => answer[c].refresh \in honoured
  /\ \A l \in Cli!Logins : login[l] = "saving" => granted[l].refresh \in honoured
  /\ rotating =>
       /\ \A c \in Commands : cmd[c] = "answered" =>
            /\ answer[c].refresh # keyring.refresh
            /\ \A d \in Commands : On(d) => answer[c].refresh # family[d].refresh
            /\ \A d \in Commands \ {c} : cmd[d] = "answered" => answer[c].refresh # answer[d].refresh
       /\ \A l \in Cli!Logins : login[l] = "saving" =>
            /\ granted[l].refresh # keyring.refresh
            /\ \A d \in Commands : /\ On(d) => granted[l].refresh # family[d].refresh
                                   /\ cmd[d] = "answered" => granted[l].refresh # answer[d].refresh
            /\ \A m \in Cli!Logins \ {l} : login[m] = "saving" => granted[l].refresh # granted[m].refresh

\* A server that does not replace tokens honours all of them.
Kept == ~rotating => honoured = 1 .. minted

ProfileInv == ProfileType /\ Paired /\ Fresh /\ Kept /\ Cli!KeyringUsable

LEMMA InitProfile == ASSUME Cli!Init PROVE ProfileInv
<1> USE ProfileBounds
<1>1. ProfileType
  BY DEF Cli!Init, ProfileType, Cli!Logins, Cli!Clients
<1>2. Paired /\ Fresh
  BY DEF Cli!Init, Paired, Fresh, On
<1>3. Kept /\ Cli!KeyringUsable
  BY DEF Cli!Init, Kept, Cli!KeyringUsable
<1> QED BY <1>1, <1>2, <1>3 DEF ProfileInv

\* What the server issues is new, and nothing else changes hands.
LEMMA MintIssues ==
  ASSUME ProfileInv, NEW client \in Cli!Clients \ {0}, NEW spent, Cli!Mint(client, spent)
  PROVE  /\ minted' \in 1 .. MaxTokens /\ minted' = minted + 1
         /\ owner' \in [1 .. MaxTokens -> Cli!Clients]
         /\ owner'[minted'] = client /\ \A r \in 1 .. minted : owner'[r] = owner[r]
         /\ honoured' = (honoured \ spent) \cup {minted'}
         /\ honoured' \subseteq 1 .. minted'
         /\ minted' \notin honoured
<1> USE ProfileBounds DEF ProfileInv, ProfileType
<1>1. PICK n \in 1 .. MaxTokens : n = minted + 1
  BY DEF Cli!Mint
<1>2. minted' = n /\ owner' = [owner EXCEPT ![n] = client] /\ honoured' = (honoured \ spent) \cup {n}
  BY <1>1 DEF Cli!Mint
<1>3. minted \in 1 .. MaxTokens /\ owner \in [1 .. MaxTokens -> Cli!Clients] /\ honoured \subseteq 1 .. minted
  OBVIOUS
<1>4. owner' \in [1 .. MaxTokens -> Cli!Clients] /\ owner'[n] = client /\ \A r \in 1 .. MaxTokens : r # n => owner'[r] = owner[r]
  BY <1>2, <1>3
<1>5. \A r \in 1 .. minted : r # n /\ r \in 1 .. MaxTokens /\ r \in 1 .. n
  BY <1>1, <1>3
<1>6. n \in 1 .. n
  BY <1>1
<1> QED BY <1>1, <1>2, <1>3, <1>4, <1>5, <1>6

LEMMA LoginKeeps ==
  ASSUME ProfileInv, NEW l \in Cli!Logins,
         \/ Cli!LoginStarts(l) \/ Cli!Exchange(l) \/ Cli!LoginSaves(l) \/ Cli!LoginFails(l)
         \/ \E approved \in BOOLEAN : Cli!Callback(l, approved)
  PROVE  ProfileInv'
<1> USE DEF ProfileInv
<1>1. ASSUME \/ Cli!LoginStarts(l) \/ Cli!LoginFails(l)
             \/ \E approved \in BOOLEAN : Cli!Callback(l, approved)
      PROVE  ProfileInv'
  <2>1. /\ UNCHANGED <<env, keyring, Cli!cmdVars, Cli!issuerVars, rotating, lost>>
        /\ login' \in [Cli!Logins -> {"none", "waiting", "exchanging", "saving", "ended"}] /\ DOMAIN granted' = Cli!Logins
        /\ \A m \in Cli!Logins : login'[m] = "saving" => login[m] = "saving" /\ granted'[m] = granted[m]
    <3>1. ASSUME Cli!LoginStarts(l) \/ \E approved \in BOOLEAN : Cli!Callback(l, approved)
          PROVE  \E w \in {"waiting", "exchanging", "ended"} :
                   /\ login' = [login EXCEPT ![l] = w] /\ granted' = granted
                   /\ UNCHANGED <<env, keyring, Cli!cmdVars, Cli!issuerVars, rotating, lost>>
      BY <3>1 DEF Cli!LoginStarts, Cli!Callback
    <3>2. ASSUME Cli!LoginFails(l)
          PROVE  /\ login' = [login EXCEPT ![l] = "ended"] /\ granted' = [granted EXCEPT ![l] = Cli!NoFamily]
                 /\ UNCHANGED <<env, keyring, Cli!cmdVars, Cli!issuerVars, rotating, lost>>
      BY <3>2 DEF Cli!LoginFails
    <3> QED BY <1>1, <3>1, <3>2 DEF ProfileType
  <2>2. ProfileType'
    BY <2>1 DEF ProfileType, Cli!cmdVars, Cli!issuerVars
  <2>3. Paired'
    BY <2>1 DEF Paired, Issued, On, Cli!cmdVars, Cli!issuerVars
  <2>4. Fresh'
    BY <2>1 DEF Fresh, On, Cli!cmdVars, Cli!issuerVars
  <2>5. Kept' /\ Cli!KeyringUsable'
    BY <2>1 DEF Kept, Cli!KeyringUsable, Cli!cmdVars, Cli!issuerVars
  <2> QED BY <2>2, <2>3, <2>4, <2>5
<1>2. ASSUME Cli!Exchange(l) PROVE ProfileInv'
  <2>0. l \in Cli!Clients \ {0} /\ Cli!Mint(l, {})
    BY <1>2, ProfileBounds DEF Cli!Logins, Cli!Clients, Cli!Exchange
  <2>1. /\ minted' \in 1 .. MaxTokens /\ minted' = minted + 1
        /\ owner' \in [1 .. MaxTokens -> Cli!Clients]
        /\ owner'[minted'] = l /\ \A r \in 1 .. minted : owner'[r] = owner[r]
        /\ honoured' = honoured \cup {minted'} /\ honoured' \subseteq 1 .. minted' /\ minted' \notin honoured
    BY <2>0, MintIssues
  <2>2. PICK g : g = Cli!Family(minted', l)
    OBVIOUS
  <2>3. /\ granted' = [granted EXCEPT ![l] = g] /\ login' = [login EXCEPT ![l] = "saving"]
        /\ UNCHANGED <<env, keyring, Cli!cmdVars, rotating, lost>>
    BY <1>2, <2>1, <2>2 DEF Cli!Exchange
  <2>4. g.refresh = minted' /\ g.client = l /\ Issued(g)'
    BY <2>0, <2>1, <2>2 DEF Issued, Cli!Family
  <2>5. ProfileType'
    BY <2>1, <2>3 DEF ProfileType, Cli!cmdVars
  <2>6. Paired'
    <3>1. keyring # Cli!NoFamily => Issued(keyring)'
      BY <2>1, <2>3 DEF Paired, Issued, ProfileType
    <3>2. \A c \in Commands : /\ On(c) => Issued(family[c])'
                              /\ cmd[c] = "answered" => Issued(answer[c])'
      BY <2>1, <2>3 DEF Paired, Issued, ProfileType, Cli!cmdVars
    <3>3. \A m \in Cli!Logins : login[m] = "saving" /\ m # l => Issued(granted[m])'
      BY <2>1, <2>3 DEF Paired, Issued, ProfileType
    <3>4. Issued(granted[l])'
      BY <2>3, <2>4 DEF Issued, ProfileType
    <3> QED BY <2>3, <3>1, <3>2, <3>3, <3>4 DEF Paired, On, ProfileType, Cli!cmdVars
  <2>7. Fresh'
    <3>1. /\ keyring.refresh # g.refresh
          /\ \A c \in Commands : /\ On(c) => family[c].refresh # g.refresh
                                 /\ cmd[c] = "answered" => answer[c].refresh # g.refresh
          /\ \A m \in Cli!Logins : login[m] = "saving" => granted[m].refresh # g.refresh
      BY <2>1, <2>4 DEF Paired, Issued, ProfileType, Cli!NoFamily, Cli!Family
    <3>2. \A m \in Cli!Logins : m # l => login'[m] = login[m] /\ granted'[m] = granted[m]
      BY <2>3 DEF ProfileType
    <3>3. login'[l] = "saving" /\ granted'[l] = g
      BY <2>3 DEF ProfileType
    <3> QED BY <2>1, <2>3, <2>4, <3>1, <3>2, <3>3 DEF Fresh, On, Cli!cmdVars
  <2>8. Kept'
    BY <2>1, <2>3 DEF Kept, ProfileType
  <2>9. Cli!KeyringUsable'
    BY <2>1, <2>3 DEF Cli!KeyringUsable, Cli!cmdVars
  <2> QED BY <2>5, <2>6, <2>7, <2>8, <2>9
<1>3. ASSUME Cli!LoginSaves(l) PROVE ProfileInv'
  <2>1. /\ login[l] = "saving" /\ keyring' = granted[l]
        /\ login' = [login EXCEPT ![l] = "ended"] /\ granted' = [granted EXCEPT ![l] = Cli!NoFamily]
        /\ UNCHANGED <<env, Cli!cmdVars, Cli!issuerVars, rotating, lost>>
    BY <1>3 DEF Cli!LoginSaves
  <2>2. \A m \in Cli!Logins : login'[m] = "saving" => m # l /\ login[m] = "saving" /\ granted'[m] = granted[m]
    BY <2>1 DEF ProfileType
  <2>3. ProfileType'
    BY <2>1 DEF ProfileType, Cli!cmdVars, Cli!issuerVars
  <2>4. Paired'
    BY <2>1, <2>2 DEF Paired, Issued, On, Cli!cmdVars, Cli!issuerVars
  <2>5. Fresh'
    BY <2>1, <2>2 DEF Fresh, On, Cli!cmdVars, Cli!issuerVars
  <2>6. Kept' /\ Cli!KeyringUsable'
    BY <2>1 DEF Kept, Cli!KeyringUsable, Fresh, Cli!issuerVars
  <2> QED BY <2>3, <2>4, <2>5, <2>6
<1> QED BY <1>1, <1>2, <1>3

\* The token a command goes with has reached the server: a new one takes its place,
\* and only the command's own client may be left with a dead one.
LEMMA GrantKeeps ==
  ASSUME ProfileInv, NEW c \in Commands, On(c), Cli!Grant(family[c])
  PROVE  /\ minted' \in 1 .. MaxTokens /\ minted' >= minted
         /\ owner' \in [1 .. MaxTokens -> Cli!Clients]
         /\ \A r \in 1 .. minted : owner'[r] = owner[r]
         /\ honoured' \subseteq 1 .. minted'
         /\ ~rotating => honoured' = honoured /\ minted' = minted
         /\ rotating => /\ minted' = minted + 1 /\ owner'[minted'] = family[c].client
                        /\ honoured' = (honoured \ {family[c].refresh}) \cup {minted'}
<1> USE DEF ProfileInv
<1>1. Issued(family[c])
  BY DEF Paired
<1>2. CASE rotating
  <2>1. Cli!Mint(family[c].client, {family[c].refresh}) /\ family[c].client \in Cli!Clients \ {0}
    BY <1>1, <1>2 DEF Cli!Grant, Issued
  <2>2. PICK u : u = {family[c].refresh}
    OBVIOUS
  <2>3. /\ minted' \in 1 .. MaxTokens /\ minted' = minted + 1 /\ owner' \in [1 .. MaxTokens -> Cli!Clients]
        /\ owner'[minted'] = family[c].client /\ \A r \in 1 .. minted : owner'[r] = owner[r]
        /\ honoured' = (honoured \ u) \cup {minted'} /\ honoured' \subseteq 1 .. minted'
    <3>1. PICK n \in Cli!Clients \ {0} : n = family[c].client
      BY <2>1
    <3> QED BY <2>1, <2>2, <3>1, MintIssues
  <2>4. minted' >= minted
    BY <2>3 DEF ProfileType
  <2>5. owner'[minted'] = family[c].client /\ honoured' = (honoured \ {family[c].refresh}) \cup {minted'}
    BY <2>2, <2>3
  <2> QED BY <1>2, <2>3, <2>4, <2>5
<1>3. CASE ~rotating
  <2>1. honoured' = honoured /\ owner' = owner /\ minted' = minted
    BY <1>3 DEF Cli!Grant, Cli!issuerVars
  <2>2. minted \in 1 .. MaxTokens /\ minted >= minted /\ owner \in [1 .. MaxTokens -> Cli!Clients] /\ honoured \subseteq 1 .. minted
    BY ProfileBounds DEF ProfileType
  <2> QED BY <1>3, <2>1, <2>2
<1> QED BY <1>2, <1>3

LEMMA CommandKeeps ==
  ASSUME ProfileInv, NEW c \in Commands, Cli!CommandStep(c)
  PROVE  ProfileInv'
<1> USE DEF ProfileInv
<1>1. ASSUME Cli!CommandStarts(c) PROVE ProfileInv'
  <2>1. /\ cmd[c] = "off" /\ keyring # Cli!NoFamily
        /\ cmd' = [cmd EXCEPT ![c] = "ready"] /\ family' = [family EXCEPT ![c] = keyring]
        /\ UNCHANGED <<env, keyring, answer, Cli!loginVars, Cli!issuerVars, rotating, lost>>
    BY <1>1 DEF Cli!CommandStarts, Cli!Loaded, Cli!Accepted, Cli!NoFamily, Cli!Family
  <2>2. cmd'[c] = "ready" /\ family'[c] = keyring /\ \A d \in Commands : d # c => cmd'[d] = cmd[d] /\ family'[d] = family[d]
    BY <2>1 DEF ProfileType
  <2>3. ProfileType'
    BY <2>1 DEF ProfileType, Cli!loginVars, Cli!issuerVars
  <2>4. Paired'
    BY <2>1, <2>2 DEF Paired, Issued, On, Cli!loginVars, Cli!issuerVars
  <2>5. Fresh'
    BY <2>1, <2>2 DEF Fresh, On, Cli!loginVars, Cli!issuerVars
  <2>6. Kept' /\ Cli!KeyringUsable'
    BY <2>1, <2>2 DEF Kept, Cli!KeyringUsable, Cli!issuerVars
  <2> QED BY <2>3, <2>4, <2>5, <2>6
\* Nothing is issued and nothing is forgotten.
<1>2. ASSUME \/ Cli!RefreshStarts(c) \/ Cli!Refused(c)
             \/ Cli!NoAnswer(c) /\ UNCHANGED <<Cli!issuerVars, lost>>
             \/ Cli!CommandEnds(c) /\ cmd[c] \in {"ready", "asking"} /\ UNCHANGED <<Cli!issuerVars, lost>>
      PROVE  ProfileInv'
  <2>1. /\ cmd[c] \in {"ready", "asking"}
        /\ UNCHANGED <<env, keyring, Cli!loginVars, Cli!issuerVars, rotating, lost>>
        /\ \E w \in {"ready", "asking", "off"} : cmd' = [cmd EXCEPT ![c] = w]
        /\ DOMAIN family' = Commands /\ DOMAIN answer' = Commands
        /\ \A d \in Commands : d # c => family'[d] = family[d] /\ answer'[d] = answer[d]
        /\ cmd'[c] # "off" => family'[c] = family[c]
    BY <1>2 DEF Cli!RefreshStarts, Cli!Refused, Cli!NoAnswer, Cli!CommandEnds, ProfileType
  <2>2. cmd'[c] \in {"ready", "asking", "off"} /\ \A d \in Commands : d # c => cmd'[d] = cmd[d]
    BY <2>1 DEF ProfileType
  <2>3. ProfileType'
    BY <2>1 DEF ProfileType, Cli!loginVars, Cli!issuerVars
  <2>4. Paired'
    BY <2>1, <2>2 DEF Paired, Issued, On, Cli!loginVars, Cli!issuerVars
  <2>5. Fresh'
    BY <2>1, <2>2 DEF Fresh, On, Cli!loginVars, Cli!issuerVars
  <2>6. Kept' /\ Cli!KeyringUsable'
    BY <2>1, <2>2 DEF Kept, Cli!KeyringUsable, Cli!issuerVars
  <2> QED BY <2>3, <2>4, <2>5, <2>6
<1>3. ASSUME Cli!Answer(c) PROVE ProfileInv'
  <2>0. On(c) /\ Cli!Grant(family[c])
    BY <1>3 DEF Cli!Answer, On
  <2>1. PICK a : a = (IF rotating THEN Cli!Family(minted', family[c].client) ELSE family[c])
    OBVIOUS
  <2>2. /\ cmd[c] = "asking" /\ cmd' = [cmd EXCEPT ![c] = "answered"] /\ answer' = [answer EXCEPT ![c] = a]
        /\ UNCHANGED <<env, keyring, family, Cli!loginVars, rotating, lost>>
    BY <1>3, <2>1 DEF Cli!Answer
  <2>3. /\ minted' \in 1 .. MaxTokens /\ minted' >= minted /\ owner' \in [1 .. MaxTokens -> Cli!Clients]
        /\ \A r \in 1 .. minted : owner'[r] = owner[r]
        /\ honoured' \subseteq 1 .. minted'
        /\ ~rotating => honoured' = honoured /\ minted' = minted
        /\ rotating => /\ minted' = minted + 1 /\ owner'[minted'] = family[c].client
                       /\ honoured' = (honoured \ {family[c].refresh}) \cup {minted'}
    BY <2>0, GrantKeeps
  <2>4. /\ cmd'[c] = "answered" /\ answer'[c] = a
        /\ \A d \in Commands : d # c => cmd'[d] = cmd[d] /\ answer'[d] = answer[d]
    BY <2>2 DEF ProfileType
  <2>5. Issued(family[c]) /\ family[c].refresh \in honoured
    BY <2>0 DEF Paired, Cli!Grant, Cli!Honours
  <2>6. Issued(a)' /\ a.client = family[c].client /\ a.refresh \in honoured'
    <3>1. CASE rotating
      <4>1. a.refresh = minted' /\ a.client = family[c].client /\ a = Cli!Family(a.refresh, a.client)
        BY <2>1, <3>1 DEF Cli!Family
      <4> QED BY <2>3, <2>5, <3>1, <4>1 DEF Issued
    <3>2. CASE ~rotating
      <4>1. a = family[c]
        BY <2>1, <3>2
      <4> QED BY <2>3, <2>5, <3>2, <4>1 DEF Issued, ProfileType
    <3> QED BY <3>1, <3>2
  <2>7. ProfileType'
    BY <2>2, <2>3 DEF ProfileType, Cli!loginVars
  <2>8. Paired'
    <3>1. keyring # Cli!NoFamily => Issued(keyring)'
      BY <2>2, <2>3 DEF Paired, Issued, ProfileType
    <3>2. \A d \in Commands : /\ On(d) => Issued(family[d])'
                              /\ cmd[d] = "answered" /\ d # c => Issued(answer[d])'
      BY <2>2, <2>3, <2>4 DEF Paired, Issued, ProfileType
    <3>3. \A m \in Cli!Logins : login[m] = "saving" => Issued(granted[m])'
      BY <2>2, <2>3 DEF Paired, Issued, ProfileType, Cli!loginVars
    <3>4. Issued(answer[c])'
      BY <2>4, <2>6 DEF Issued
    <3> QED BY <2>0, <2>2, <2>4, <2>6, <3>1, <3>2, <3>3, <3>4 DEF Paired, On, Cli!loginVars
  <2>9. Fresh'
    <3>1. /\ \A d \in Commands : cmd'[d] = "answered" => answer'[d].refresh \in honoured'
          /\ \A m \in Cli!Logins : login'[m] = "saving" => granted'[m].refresh \in honoured'
      <4>1. CASE rotating
        BY <2>0, <2>2, <2>3, <2>4, <2>6, <4>1 DEF Fresh, Cli!loginVars
      <4>2. CASE ~rotating
        BY <2>2, <2>3, <2>4, <2>6, <4>2 DEF Fresh, Cli!loginVars
      <4> QED BY <4>1, <4>2
    <3>2. ASSUME rotating
          PROVE  /\ keyring.refresh # a.refresh
                 /\ \A d \in Commands : /\ On(d) => family[d].refresh # a.refresh
                                        /\ cmd[d] = "answered" => answer[d].refresh # a.refresh
                 /\ \A m \in Cli!Logins : login[m] = "saving" => granted[m].refresh # a.refresh
      <4>1. a.refresh = minted + 1
        BY <2>1, <2>3, <3>2 DEF Cli!Family
      <4> QED BY <4>1 DEF Paired, Issued, ProfileType, Cli!NoFamily, Cli!Family
    <3> QED BY <2>0, <2>2, <2>4, <3>1, <3>2 DEF Fresh, On, Cli!loginVars
  <2>10. Kept'
    BY <2>2, <2>3 DEF Kept
  <2>11. Cli!KeyringUsable'
    <3>1. CASE keyring.refresh = family[c].refresh /\ rotating /\ keyring # Cli!NoFamily
      <4>1. keyring.client = family[c].client
        BY <2>5, <3>1 DEF Paired, Issued
      <4> QED BY <2>2, <2>4, <2>6, <4>1 DEF Cli!KeyringUsable
    <3>2. CASE keyring.refresh # family[c].refresh \/ ~rotating \/ keyring = Cli!NoFamily
      BY <2>2, <2>3, <2>4, <3>2 DEF Cli!KeyringUsable
    <3> QED BY <3>1, <3>2
  <2> QED BY <2>7, <2>8, <2>9, <2>10, <2>11
\* What the server granted reaches nobody.
<1>4. ASSUME Cli!NoAnswer(c) \/ Cli!CommandEnds(c), cmd[c] = "asking", Cli!Grant(family[c]), Cli!Loses(c)
      PROVE  ProfileInv'
  <2>1. /\ UNCHANGED <<env, keyring, Cli!loginVars, rotating>>
        /\ \E w \in {"ready", "off"} : cmd' = [cmd EXCEPT ![c] = w]
        /\ DOMAIN family' = Commands /\ DOMAIN answer' = Commands
        /\ \A d \in Commands : d # c => family'[d] = family[d] /\ answer'[d] = answer[d]
        /\ cmd'[c] # "off" => family'[c] = family[c]
    BY <1>4 DEF Cli!NoAnswer, Cli!CommandEnds, ProfileType
  <2>2. cmd'[c] \in {"ready", "off"} /\ \A d \in Commands : d # c => cmd'[d] = cmd[d]
    BY <2>1 DEF ProfileType
  <2>3. /\ minted' \in 1 .. MaxTokens /\ minted' >= minted /\ owner' \in [1 .. MaxTokens -> Cli!Clients]
        /\ \A r \in 1 .. minted : owner'[r] = owner[r]
        /\ honoured' \subseteq 1 .. minted'
        /\ ~rotating => honoured' = honoured /\ minted' = minted
        /\ rotating => /\ minted' = minted + 1 /\ owner'[minted'] = family[c].client
                       /\ honoured' = (honoured \ {family[c].refresh}) \cup {minted'}
    BY <1>4, GrantKeeps DEF On
  <2>4. ProfileType'
    BY <2>1, <2>3 DEF ProfileType, Cli!loginVars
  <2>5. Paired'
    <3>1. keyring # Cli!NoFamily => Issued(keyring)'
      BY <2>1, <2>3 DEF Paired, Issued, ProfileType
    <3>2. \A d \in Commands : /\ On(d)' => On(d) /\ family'[d] = family[d]
                              /\ cmd'[d] = "answered" => cmd[d] = "answered" /\ d # c
      BY <1>4, <2>1, <2>2 DEF On
    <3>3. \A d \in Commands : On(d)' => Issued(family[d])'
      BY <2>3, <3>2 DEF Paired, Issued, ProfileType
    <3>4. \A d \in Commands : cmd'[d] = "answered" => Issued(answer[d])'
      BY <2>1, <2>3, <3>2 DEF Paired, Issued, ProfileType
    <3>5. \A m \in Cli!Logins : login[m] = "saving" => Issued(granted[m])'
      BY <2>1, <2>3 DEF Paired, Issued, ProfileType, Cli!loginVars
    <3> QED BY <2>1, <3>1, <3>2, <3>3, <3>4, <3>5 DEF Paired, Cli!loginVars
  <2>6. Fresh'
    <3>1. /\ \A d \in Commands : cmd'[d] = "answered" => answer'[d].refresh \in honoured'
          /\ \A m \in Cli!Logins : login'[m] = "saving" => granted'[m].refresh \in honoured'
      <4>1. CASE rotating
        BY <1>4, <2>1, <2>2, <2>3, <4>1 DEF Fresh, On, Cli!loginVars
      <4>2. CASE ~rotating
        BY <2>1, <2>2, <2>3, <4>2 DEF Fresh, Cli!loginVars
      <4> QED BY <4>1, <4>2
    <3> QED BY <1>4, <2>1, <2>2, <3>1 DEF Fresh, On, Cli!loginVars
  <2>7. Kept'
    BY <2>1, <2>3 DEF Kept
  <2>8. Cli!KeyringUsable'
    <3>1. CASE keyring.refresh = family[c].refresh /\ rotating /\ keyring # Cli!NoFamily
      <4>1. keyring.client = family[c].client
        BY <1>4, <3>1 DEF Paired, Issued, On
      <4> QED BY <1>4, <2>1, <3>1, <4>1 DEF Cli!KeyringUsable, Cli!Loses
    <3>2. CASE keyring.refresh # family[c].refresh \/ ~rotating \/ keyring = Cli!NoFamily
      <4>1. lost \subseteq lost'
        BY <1>4 DEF Cli!Loses
      <4> QED BY <1>4, <2>1, <2>2, <2>3, <3>2, <4>1 DEF Cli!KeyringUsable
    <3> QED BY <3>1, <3>2
  <2> QED BY <2>4, <2>5, <2>6, <2>7, <2>8
<1>5. ASSUME Cli!TokenUpdate(c) PROVE ProfileInv'
  <2>1. Cli!Updated(c) = answer[c]
    BY <1>5 DEF Cli!TokenUpdate, Cli!Updated, Paired, Issued, Cli!Family
  <2>2. /\ cmd[c] = "answered" /\ keyring' = answer[c] /\ family' = [family EXCEPT ![c] = answer[c]]
        /\ cmd' = [cmd EXCEPT ![c] = "ready"] /\ answer' = [answer EXCEPT ![c] = Cli!NoFamily]
        /\ UNCHANGED <<env, Cli!loginVars, Cli!issuerVars, rotating, lost>>
    BY <1>5, <2>1 DEF Cli!TokenUpdate
  <2>3. /\ cmd'[c] = "ready" /\ family'[c] = answer[c]
        /\ \A d \in Commands : d # c => cmd'[d] = cmd[d] /\ family'[d] = family[d] /\ answer'[d] = answer[d]
    BY <2>2 DEF ProfileType
  <2>4. ProfileType'
    BY <2>2 DEF ProfileType, Cli!loginVars, Cli!issuerVars
  <2>5. Paired'
    BY <2>2, <2>3 DEF Paired, Issued, On, Cli!loginVars, Cli!issuerVars
  <2>6. Fresh'
    BY <2>2, <2>3 DEF Fresh, On, Cli!loginVars, Cli!issuerVars
  <2>7. Kept' /\ Cli!KeyringUsable'
    BY <2>2, <2>3 DEF Kept, Cli!KeyringUsable, Fresh, Cli!issuerVars
  <2> QED BY <2>4, <2>5, <2>6, <2>7
\* An answer is forgotten.
<1>6. ASSUME Cli!TokenUpdateFails(c) \/ Cli!CommandEnds(c), cmd[c] = "answered", Cli!Loses(c), UNCHANGED Cli!issuerVars
      PROVE  ProfileInv'
  <2>1. /\ UNCHANGED <<env, keyring, Cli!loginVars, rotating>>
        /\ \E w \in {"ready", "off"} : cmd' = [cmd EXCEPT ![c] = w]
        /\ DOMAIN family' = Commands /\ DOMAIN answer' = Commands
        /\ \A d \in Commands : d # c => family'[d] = family[d] /\ answer'[d] = answer[d]
        /\ cmd'[c] # "off" => family'[c] = family[c]
    BY <1>6 DEF Cli!TokenUpdateFails, Cli!CommandEnds, ProfileType
  <2>2. cmd'[c] \in {"ready", "off"} /\ \A d \in Commands : d # c => cmd'[d] = cmd[d]
    BY <2>1 DEF ProfileType
  <2>3. ProfileType'
    BY <1>6, <2>1 DEF ProfileType, Cli!loginVars, Cli!issuerVars
  <2>4. Paired'
    BY <1>6, <2>1, <2>2 DEF Paired, Issued, On, Cli!loginVars, Cli!issuerVars
  <2>5. Fresh'
    BY <1>6, <2>1, <2>2 DEF Fresh, On, Cli!loginVars, Cli!issuerVars
  <2>6. Kept'
    BY <1>6, <2>1 DEF Kept, Cli!issuerVars
  <2>7. Cli!KeyringUsable'
    <3>1. CASE ~rotating
      BY <1>6, <2>1, <3>1 DEF Cli!KeyringUsable, Kept, Paired, Issued, Cli!Loses, Cli!issuerVars
    <3>2. CASE rotating
      <4>1. answer[c].client \in lost' /\ lost \subseteq lost'
        BY <1>6, <3>2 DEF Cli!Loses, Paired
      <4> QED BY <1>6, <2>1, <2>2, <4>1 DEF Cli!KeyringUsable, Cli!issuerVars
    <3> QED BY <3>1, <3>2
  <2> QED BY <2>3, <2>4, <2>5, <2>6, <2>7
<1>7. CASE Cli!NoAnswer(c)
  BY <1>2, <1>4, <1>7 DEF Cli!NoAnswer
<1>8. CASE Cli!CommandEnds(c)
  BY <1>2, <1>4, <1>6, <1>8 DEF Cli!CommandEnds
<1>9. CASE Cli!TokenUpdateFails(c)
  BY <1>6, <1>9 DEF Cli!TokenUpdateFails
<1> QED BY <1>1, <1>2, <1>3, <1>5, <1>7, <1>8, <1>9 DEF Cli!CommandStep

LEMMA ProfileStep ==
  ASSUME ProfileInv, Cli!Next \/ UNCHANGED Cli!vars
  PROVE  ProfileInv'
<1>1. UNCHANGED Cli!vars => ProfileInv'
  BY DEF Cli!vars, Cli!cmdVars, Cli!loginVars, Cli!issuerVars, ProfileInv, ProfileType, Paired, Issued, On, Fresh, Kept, Cli!KeyringUsable
<1>2. Cli!Logout => ProfileInv'
  BY DEF Cli!Logout, Cli!cmdVars, Cli!loginVars, Cli!issuerVars, ProfileInv, ProfileType, Paired, Issued, On, Fresh, Kept, Cli!KeyringUsable,
         Cli!NoFamily, Cli!Family
<1> QED BY <1>1, <1>2, LoginKeeps, CommandKeeps DEF Cli!Next

LEMMA ProfileIsSound ==
  ASSUME ProfileInv
  PROVE  Cli!KeyringUsable /\ Cli!KeyringIsOwn
BY DEF ProfileInv, Paired, Cli!KeyringIsOwn, Issued, On

-----------------------------------------------------------------------------
\* The iterators over pages.

LEMMA PageBounds == /\ MaxPage \in Nat /\ DefaultPage \in 1 .. MaxPage /\ MaxItems \in Nat
                    /\ Limits \cup Offsets \subseteq Int \cup {Absent}
BY MCRestAuthAssumption

LEMMA CountedAlike == \A S : Pages!Cardinality(S) = Cardinality(S)
BY DEF Pages!Cardinality, Cardinality

\* What has been asked for: positions of the collection up to here.
Reached == IF pagePhase = "yielding" THEN offset + count ELSE offset

PageType ==
  /\ coll \in Seq(Nat) /\ page \in Seq(Nat) /\ yielded \in Seq(Nat) /\ original \in Seq(Nat)
  /\ IsFiniteSet(came) /\ first \in Nat /\ limit \in Nat /\ offset \in Nat /\ count \in Nat
  /\ pagePhase \in {"start", "fetching", "yielding", "done", "failed", "stopped"}
  /\ pagePhase = "start" => coll = original /\ page = <<>> /\ yielded = <<>>
  /\ pagePhase \in {"fetching", "yielding"} => limit \in 1 .. MaxPage /\ ~bounded
  /\ pagePhase = "fetching" => page = <<>>

\* Every item is where the iteration has been or is going to be.
Remaining ==
  went = {} /\ pagePhase \in {"fetching", "yielding", "done"} =>
    \A i \in first + 1 .. Len(original) :
      \/ \E j \in 1 .. Len(yielded) : yielded[j] = original[i]
      \/ \E j \in 1 .. Len(page) : page[j] = original[i] /\ pagePhase = "yielding"
      \/ /\ pagePhase # "done" /\ (pagePhase = "yielding" => hasMore /\ count # 0)
         /\ \E j \in 1 .. Len(coll) : j > Reached /\ coll[j] = original[i]

Ascending(s) == \A i, j \in 1 .. Len(s) : i < j => s[i] < s[j]
Below(s, t) == \A i \in 1 .. Len(s), j \in 1 .. Len(t) : s[i] < t[j]
Ahead(s) == \A i \in 1 .. Len(s), j \in 1 .. Len(coll) : j > Reached => s[i] < coll[j]

\* Items come in their order, as long as none came in between.
InOrder ==
  came = {} =>
    /\ Ascending(coll) /\ Ascending(yielded) /\ Ascending(page)
    /\ Below(yielded, page)
    /\ pagePhase \in {"fetching", "yielding"} => Ahead(yielded) /\ Ahead(page)

PageInv == PageType /\ Remaining /\ InOrder

LEMMA InitPages == Pages!Init => PageInv
<1> SUFFICES ASSUME Pages!Init PROVE PageInv
  OBVIOUS
<1>1. PICK n \in 0 .. MaxItems : coll = [i \in 1 .. n |-> i]
  BY DEF Pages!Init
<1>2. n \in Nat /\ \A i \in 1 .. n : i \in Nat
  BY PageBounds
<1>3. coll \in Seq(Nat) /\ Len(coll) = n /\ \A i \in 1 .. n : coll[i] = i
  <2>1. coll \in [1 .. n -> Nat] /\ DOMAIN coll = 1 .. n /\ \A i \in 1 .. n : coll[i] = i
    BY <1>1, <1>2
  <2>2. coll \in Seq(Nat)
    BY <1>2, <2>1, SeqDef
  <2>3. Len(coll) \in Nat /\ 1 .. Len(coll) = 1 .. n
    BY <2>1, <2>2, LenProperties
  <2> QED BY <1>2, <2>1, <2>2, <2>3
<1>4. PageType
  <2>1. <<>> \in Seq(Nat)
    BY EmptySeq
  <2> QED BY <1>3, <2>1, FS_EmptySet DEF Pages!Init, PageType
<1>5. Remaining
  BY DEF Pages!Init, Remaining
<1>6. InOrder
  BY <1>3 DEF Pages!Init, InOrder, Ascending, Below
<1> QED BY <1>4, <1>5, <1>6 DEF PageInv

\* The page that is served, item by item.
LEMMA PageServed ==
  ASSUME PageType, pagePhase = "fetching"
  PROVE  /\ Pages!Served \in Seq(Nat)
         /\ offset + Len(Pages!Served) <= Len(coll) \/ Len(Pages!Served) = 0
         /\ \A j \in 1 .. Len(Pages!Served) : Pages!Served[j] = coll[offset + j]
         /\ Len(Pages!Served) <= limit
         /\ Len(Pages!Served) < limit => offset + Len(Pages!Served) >= Len(coll)
<1> USE DEF PageType
<1>0. /\ Len(coll) \in Nat /\ offset \in Nat /\ limit \in 1 .. MaxPage /\ ~bounded /\ MaxPage \in Nat
      /\ \A i \in 1 .. Len(coll) : coll[i] \in Nat
  BY PageBounds
<1>1. PICK m \in Int : m = IF offset + limit <= Len(coll) THEN offset + limit ELSE Len(coll)
  BY <1>0
<1>2. Pages!Min({offset + limit, offset + MaxPage, Len(coll)}) = m
  <2>1. m \in {offset + limit, offset + MaxPage, Len(coll)} /\ \A x \in {offset + limit, offset + MaxPage, Len(coll)} : m =< x
    BY <1>0, <1>1
  <2>2. \A x \in {offset + limit, offset + MaxPage, Len(coll)} : x \in Int
    BY <1>0
  <2>3. \A x \in {offset + limit, offset + MaxPage, Len(coll)} : x =< m => x = m
    BY <2>1, <2>2, <1>1
  <2> QED BY <2>1, <2>3 DEF Pages!Min
<1>3. Pages!Served = SubSeq(coll, offset + 1, m)
  BY <1>0, <1>2 DEF Pages!Served
<1>4. PICK b \in Int : b = offset + 1
  BY <1>0
<1>5. \A i \in b .. m : coll[i] \in Nat
  BY <1>0, <1>1, <1>4
<1>6. /\ SubSeq(coll, b, m) \in Seq(Nat)
      /\ Len(SubSeq(coll, b, m)) = IF b <= m THEN m - b + 1 ELSE 0
      /\ \A i \in 1 .. m - b + 1 : SubSeq(coll, b, m)[i] = coll[b + i - 1]
  BY <1>5, SubSeqProperties
<1>7. /\ Pages!Served \in Seq(Nat) /\ Len(Pages!Served) = IF b <= m THEN m - b + 1 ELSE 0
      /\ \A i \in 1 .. m - b + 1 : Pages!Served[i] = coll[b + i - 1]
  BY <1>3, <1>4, <1>6
<1>8. \A j \in 1 .. Len(Pages!Served) : Pages!Served[j] = coll[offset + j]
  <2> TAKE j \in 1 .. Len(Pages!Served)
  <2>1. j \in 1 .. m - b + 1 /\ b + j - 1 = offset + j
    BY <1>0, <1>4, <1>7
  <2> QED BY <1>7, <2>1
<1> QED BY <1>0, <1>1, <1>4, <1>7, <1>8

LEMMA StartKeeps ==
  ASSUME PageInv, NEW l \in Limits, NEW o \in Offsets, Pages!Start(l, o)
  PROVE  PageInv'
<1> USE PageBounds DEF PageInv
<1>1. /\ pagePhase = "start" /\ UNCHANGED <<coll, reports, bounded, page, count, hasMore, yielded, original, came, went>>
      /\ coll = original /\ page = <<>> /\ yielded = <<>>
  BY DEF Pages!Start, PageType
<1>2. /\ first' \in Nat /\ limit' \in Nat /\ offset' \in Nat
      /\ \/ pagePhase' = "failed"
         \/ pagePhase' = "fetching" /\ limit' \in 1 .. MaxPage /\ ~bounded /\ first' = offset'
  BY DEF Pages!Start, Pages!Valid, Pages!PageSize, Pages!PageOffset, PageType
<1>3. PageType'
  <2>1. pagePhase' # "start" /\ pagePhase' \in {"fetching", "failed"} /\ (pagePhase' = "fetching" => limit' \in 1 .. MaxPage /\ ~bounded')
    BY <1>1, <1>2
  <2> QED BY <1>1, <1>2, <2>1 DEF PageType
<1>4. Remaining'
  <2>1. CASE pagePhase' = "failed"
    BY <2>1 DEF Remaining
  <2>2. ASSUME pagePhase' = "fetching", NEW i \in first' + 1 .. Len(original)
        PROVE  \E j \in 1 .. Len(coll) : j > offset' /\ coll[j] = original[i]
    <3>1. first' = offset' /\ offset' \in Nat /\ coll = original /\ Len(coll) \in Nat
      <4>1. first' = offset' /\ offset' \in Nat /\ coll = original
        BY <1>1, <1>2, <2>2
      <4>2. Len(coll) \in Nat
        BY DEF PageType
      <4> QED BY <4>1, <4>2
    <3>2. i \in 1 .. Len(coll) /\ i > offset'
      <4>1. PICK n \in Nat, k \in Nat : n = offset' /\ k = Len(coll)
        BY <3>1
      <4>2. i \in n + 1 .. k
        BY <2>2, <3>1, <4>1
      <4>3. i \in 1 .. k /\ i > n
        BY <4>2
      <4> QED BY <4>1, <4>3
    <3> QED BY <3>1, <3>2
  <2>3. pagePhase' = "fetching" => Reached' = offset'
    BY DEF Reached
  <2>4. CASE pagePhase' = "fetching"
    <3>1. \A i \in first' + 1 .. Len(original') : \E j \in 1 .. Len(coll') : j > Reached' /\ coll'[j] = original'[i]
      BY <1>1, <2>2, <2>3, <2>4
    <3> QED BY <2>4, <3>1 DEF Remaining
  <2> QED BY <1>2, <2>1, <2>4
<1>5. InOrder'
  BY <1>1, <1>2 DEF InOrder, Ascending, Below, Ahead
<1> QED BY <1>3, <1>4, <1>5

LEMMA FetchKeeps ==
  ASSUME PageInv, Pages!Fetch
  PROVE  PageInv'
<1> USE DEF PageInv
<1>1. PICK p \in Seq(Nat) :
        /\ p = Pages!Served
        /\ offset + Len(p) <= Len(coll) \/ Len(p) = 0
        /\ \A j \in 1 .. Len(p) : p[j] = coll[offset + j]
        /\ Len(p) <= limit
        /\ Len(p) < limit => offset + Len(p) >= Len(coll)
  BY PageServed DEF Pages!Fetch
<1>2. /\ pagePhase = "fetching" /\ pagePhase' = "yielding" /\ page' = p /\ count' = Len(p)
      /\ hasMore' = IF reports THEN offset + Len(p) < Len(coll) ELSE Len(p) = limit
      /\ UNCHANGED <<coll, reports, bounded, first, limit, offset, yielded, original, came, went>>
  BY <1>1 DEF Pages!Fetch, Pages!HasMore
<1>3. /\ Len(coll) \in Nat /\ Len(p) \in Nat /\ offset \in Nat /\ limit \in 1 .. MaxPage /\ page = <<>>
      /\ MaxPage \in Nat
  BY <1>2, PageBounds DEF PageType
<1>4. PageType'
  BY <1>2, <1>3 DEF PageType
<1>5. Remaining'
  <2> SUFFICES ASSUME went = {}, NEW i \in first + 1 .. Len(original)
               PROVE  \/ \E j \in 1 .. Len(yielded) : yielded[j] = original[i]
                      \/ \E j \in 1 .. Len(p) : p[j] = original[i]
                      \/ /\ hasMore' /\ Len(p) # 0
                         /\ \E j \in 1 .. Len(coll) : j > offset + Len(p) /\ coll[j] = original[i]
    BY <1>2 DEF Remaining, Reached
  <2>1. CASE \E j \in 1 .. Len(yielded) : yielded[j] = original[i]
    BY <2>1
  <2>2. CASE \E j \in 1 .. Len(coll) : j > offset /\ coll[j] = original[i]
    <3>1. PICK j \in 1 .. Len(coll) : j > offset /\ coll[j] = original[i]
      BY <2>2
    <3>2. CASE j <= offset + Len(p)
      <4>1. PICK k \in 1 .. Len(p) : offset + k = j
        <5>1. j - offset \in 1 .. Len(p) /\ offset + (j - offset) = j
          BY <1>3, <3>1, <3>2
        <5> QED BY <5>1
      <4> QED BY <1>1, <3>1, <4>1
    <3>3. CASE j > offset + Len(p)
      <4>1. Len(p) = limit
        BY <1>1, <1>3, <3>3
      <4>2. hasMore' /\ Len(p) # 0
        <5>1. offset + Len(p) < Len(coll)
          BY <1>3, <3>1, <3>3
        <5>2. Len(p) # 0
          BY <1>3, <4>1
        <5> QED BY <1>2, <4>1, <5>1, <5>2
      <4> QED BY <3>1, <3>3, <4>2
    <3>4. j <= offset + Len(p) \/ j > offset + Len(p)
      BY <1>3, <3>1
    <3> QED BY <3>2, <3>3, <3>4
  <2> QED BY <1>2, <1>3, <2>1, <2>2 DEF Remaining, Reached
<1>6. InOrder'
  <2> SUFFICES ASSUME came = {}
               PROVE  /\ Ascending(p) /\ Below(yielded, p)
                      /\ \A i \in 1 .. Len(yielded), j \in 1 .. Len(coll) : j > offset + Len(p) => yielded[i] < coll[j]
                      /\ \A i \in 1 .. Len(p), j \in 1 .. Len(coll) : j > offset + Len(p) => p[i] < coll[j]
    BY <1>2 DEF InOrder, Ascending, Below, Ahead, Reached
  <2>1. Ascending(coll) /\ \A i \in 1 .. Len(yielded), j \in 1 .. Len(coll) : j > offset => yielded[i] < coll[j]
    BY <1>2 DEF InOrder, Ahead, Reached
  <2>2. \A k \in 1 .. Len(p) : offset + k \in 1 .. Len(coll) /\ offset + k > offset
    BY <1>1, <1>3
  <2>3. Ascending(p)
    <3> SUFFICES ASSUME NEW i \in 1 .. Len(p), NEW j \in 1 .. Len(p), i < j PROVE p[i] < p[j]
      BY DEF Ascending
    <3>1. offset + i < offset + j
      BY <1>3
    <3> QED BY <1>1, <2>1, <2>2, <3>1 DEF Ascending
  <2>4. Below(yielded, p)
    BY <1>1, <2>1, <2>2 DEF Below
  <2>5. \A i \in 1 .. Len(yielded), j \in 1 .. Len(coll) : j > offset + Len(p) => yielded[i] < coll[j]
    BY <1>3, <2>1
  <2>6. ASSUME NEW i \in 1 .. Len(p), NEW j \in 1 .. Len(coll), j > offset + Len(p) PROVE p[i] < coll[j]
    <3>1. offset + i < j
      BY <1>3, <2>6
    <3> QED BY <1>1, <2>1, <2>2, <3>1 DEF Ascending
  <2> QED BY <2>3, <2>4, <2>5, <2>6
<1> QED BY <1>4, <1>5, <1>6
LEMMA YieldKeeps ==
  ASSUME PageInv, Pages!Yield
  PROVE  PageInv'
<1> USE DEF PageInv
<1>1. /\ pagePhase = "yielding" /\ page # <<>> /\ pagePhase' \in {"yielding", "stopped"}
      /\ yielded' = Append(yielded, Head(page)) /\ page' = Tail(page)
      /\ UNCHANGED <<coll, reports, bounded, first, limit, offset, count, hasMore, original, came, went>>
  BY DEF Pages!Yield
<1>2. /\ yielded \in Seq(Nat) /\ page \in Seq(Nat) /\ Len(yielded) \in Nat /\ Len(page) \in Nat \ {0}
      /\ Head(page) = page[1] /\ page[1] \in Nat
  BY <1>1, EmptySeq DEF PageType
<1>3. /\ Tail(page) \in Seq(Nat) /\ Len(Tail(page)) = Len(page) - 1
      /\ \A j \in 1 .. Len(Tail(page)) : Tail(page)[j] = page[j + 1]
  BY <1>1, <1>2, HeadTailProperties
<1>4. /\ yielded' \in Seq(Nat) /\ Len(yielded') = Len(yielded) + 1
      /\ yielded'[Len(yielded) + 1] = page[1]
      /\ \A j \in 1 .. Len(yielded) : yielded'[j] = yielded[j]
  BY <1>1, <1>2
<1>5. \A j \in 1 .. Len(page') : j + 1 \in 1 .. Len(page) /\ page'[j] = page[j + 1]
  BY <1>1, <1>2, <1>3
<1>6. \A j \in 1 .. Len(yielded') : \/ j \in 1 .. Len(yielded) /\ yielded'[j] = yielded[j]
                                    \/ j = Len(yielded) + 1 /\ yielded'[j] = page[1]
  BY <1>2, <1>4
<1>7. PageType'
  BY <1>1, <1>3, <1>4 DEF PageType
<1>8. Remaining'
  <2> SUFFICES ASSUME went = {}, pagePhase' = "yielding", NEW i \in first + 1 .. Len(original)
               PROVE  \/ \E j \in 1 .. Len(yielded') : yielded'[j] = original[i]
                      \/ \E j \in 1 .. Len(page') : page'[j] = original[i]
                      \/ /\ hasMore /\ count # 0
                         /\ \E j \in 1 .. Len(coll) : j > offset + count /\ coll[j] = original[i]
    BY <1>1, ZenonT(30) DEF Remaining, Reached
  <2>1. ASSUME NEW j \in 1 .. Len(yielded), yielded[j] = original[i]
        PROVE  \E k \in 1 .. Len(yielded') : yielded'[k] = original[i]
    BY <1>2, <1>4, <2>1
  <2>2. ASSUME NEW j \in 1 .. Len(page), page[j] = original[i]
        PROVE  \/ \E k \in 1 .. Len(yielded') : yielded'[k] = original[i]
               \/ \E k \in 1 .. Len(page') : page'[k] = original[i]
    <3>1. CASE j = 1
      BY <1>2, <1>4, <2>2, <3>1, SMTT(30)
    <3>2. CASE j # 1
      <4>1. PICK k \in 1 .. Len(page') : k + 1 = j
        <5>1. j - 1 \in 1 .. Len(page') /\ (j - 1) + 1 = j
          BY <1>1, <1>2, <1>3, <3>2
        <5> QED BY <5>1
      <4> QED BY <1>5, <2>2, <4>1
    <3> QED BY <3>1, <3>2
  <2> QED BY <1>1, <2>1, <2>2 DEF Remaining, Reached
<1>9. InOrder'
  <2> SUFFICES ASSUME came = {}
               PROVE  /\ Ascending(yielded') /\ Ascending(page') /\ Below(yielded', page')
                      /\ \A i \in 1 .. Len(yielded'), j \in 1 .. Len(coll) : j > offset + count => yielded'[i] < coll[j]
                      /\ \A i \in 1 .. Len(page'), j \in 1 .. Len(coll) : j > offset + count => page'[i] < coll[j]
    BY <1>1 DEF InOrder, Ascending, Below, Ahead, Reached
  <2>1. /\ Ascending(yielded) /\ Ascending(page) /\ Below(yielded, page)
        /\ \A i \in 1 .. Len(yielded), j \in 1 .. Len(coll) : j > offset + count => yielded[i] < coll[j]
        /\ \A i \in 1 .. Len(page), j \in 1 .. Len(coll) : j > offset + count => page[i] < coll[j]
    BY <1>1 DEF InOrder, Ahead, Reached
  <2>2. 1 \in 1 .. Len(page)
    BY <1>2
  <2>3. Ascending(yielded')
    <3> SUFFICES ASSUME NEW i \in 1 .. Len(yielded'), NEW j \in 1 .. Len(yielded'), i < j PROVE yielded'[i] < yielded'[j]
      BY DEF Ascending
    <3>1. i \in 1 .. Len(yielded) /\ yielded'[i] = yielded[i]
      BY <1>2, <1>4, SMTT(30)
    <3> QED BY <1>6, <2>1, <2>2, <3>1 DEF Ascending, Below
  <2>4. Ascending(page')
    <3> SUFFICES ASSUME NEW i \in 1 .. Len(page'), NEW j \in 1 .. Len(page'), i < j PROVE page'[i] < page'[j]
      BY DEF Ascending
    <3> QED BY <1>5, <2>1 DEF Ascending
  <2>5. Below(yielded', page')
    <3> SUFFICES ASSUME NEW i \in 1 .. Len(yielded'), NEW j \in 1 .. Len(page') PROVE yielded'[i] < page'[j]
      BY DEF Below
    <3>1. 1 < j + 1
      OBVIOUS
    <3> QED BY <1>5, <1>6, <2>1, <2>2, <3>1 DEF Ascending, Below
  <2>6. \A i \in 1 .. Len(yielded'), j \in 1 .. Len(coll) : j > offset + count => yielded'[i] < coll[j]
    BY <1>6, <2>1, <2>2
  <2>7. \A i \in 1 .. Len(page'), j \in 1 .. Len(coll) : j > offset + count => page'[i] < coll[j]
    BY <1>5, <2>1
  <2> QED BY <2>3, <2>4, <2>5, <2>6, <2>7
<1> QED BY <1>7, <1>8, <1>9

LEMMA PageEndsKeeps ==
  ASSUME PageInv, Pages!PageEnds
  PROVE  PageInv'
<1> USE DEF PageInv
<1>1. /\ pagePhase = "yielding" /\ page = <<>>
      /\ UNCHANGED <<coll, reports, bounded, first, limit, page, count, hasMore, yielded, original, came, went>>
      /\ \/ pagePhase' = "done" /\ (~hasMore \/ count = 0) /\ offset' = offset
         \/ pagePhase' = "fetching" /\ offset' = offset + count
  BY DEF Pages!PageEnds
<1>2. offset' \in Nat
  BY <1>1 DEF PageType
<1>3. PageType'
  BY <1>1, <1>2 DEF PageType
<1>4. Remaining'
  BY <1>1 DEF Remaining, Reached
<1>5. InOrder'
  BY <1>1 DEF InOrder, Ascending, Below, Ahead, Reached
<1> QED BY <1>3, <1>4, <1>5

\* A sequence with an item put in at i, and without its item at i.
LEMMA PutIn ==
  ASSUME NEW s \in Seq(Nat), NEW i \in 1 .. Len(s) + 1, NEW x \in Nat
  PROVE  \E t \in Seq(Nat) :
           /\ t = SubSeq(s, 1, i - 1) \o <<x>> \o SubSeq(s, i, Len(s))
           /\ Len(t) = Len(s) + 1
           /\ \A j \in 1 .. Len(s) : IF j < i THEN t[j] = s[j] ELSE t[j + 1] = s[j]
<1>t. PICK t : t = SubSeq(s, 1, i - 1) \o <<x>> \o SubSeq(s, i, Len(s))
  OBVIOUS
<1>0. Len(s) \in Nat /\ \A j \in 1 .. Len(s) : s[j] \in Nat
  BY ElementOfSeq
<1>1. PICK a : a = SubSeq(s, 1, i - 1)
  OBVIOUS
<1>2. PICK b : b = SubSeq(s, i, Len(s))
  OBVIOUS
<1>3. PICK n \in Int : n = i - 1
  BY <1>0
<1>4. a \in Seq(Nat) /\ Len(a) = i - 1 /\ \A j \in 1 .. i - 1 : a[j] = s[j]
  <2>1. \A j \in 1 .. n : s[j] \in Nat
    BY <1>0, <1>3
  <2>2. /\ SubSeq(s, 1, n) \in Seq(Nat)
        /\ Len(SubSeq(s, 1, n)) = IF 1 <= n THEN n - 1 + 1 ELSE 0
        /\ \A j \in 1 .. n - 1 + 1 : SubSeq(s, 1, n)[j] = s[1 + j - 1]
    BY <2>1, SubSeqProperties
  <2> QED BY <1>0, <1>1, <1>3, <2>2
<1>5. b \in Seq(Nat) /\ Len(b) = Len(s) - i + 1 /\ \A j \in 1 .. Len(b) : b[j] = s[i + j - 1]
  <2>0. PICK m \in Int : m = Len(s)
    BY <1>0
  <2>1. \A j \in i .. m : s[j] \in Nat
    BY <1>0, <2>0
  <2>2. /\ SubSeq(s, i, m) \in Seq(Nat)
        /\ Len(SubSeq(s, i, m)) = IF i <= m THEN m - i + 1 ELSE 0
        /\ \A j \in 1 .. m - i + 1 : SubSeq(s, i, m)[j] = s[i + j - 1]
    BY <1>0, <2>1, SubSeqProperties
  <2> QED BY <1>0, <1>2, <2>0, <2>2
<1>6. PICK c : c = a \o <<x>>
  OBVIOUS
<1>7. <<x>> \in Seq(Nat) /\ Len(<<x>>) = 1 /\ <<x>>[1] = x
  OBVIOUS
<1>8. c \in Seq(Nat) /\ Len(c) = i /\ \A j \in 1 .. i - 1 : c[j] = s[j]
  <2>1. /\ a \o <<x>> \in Seq(Nat)
        /\ Len(a \o <<x>>) = Len(a) + Len(<<x>>)
        /\ \A j \in 1 .. Len(a) + Len(<<x>>) : (a \o <<x>>)[j] = IF j <= Len(a) THEN a[j] ELSE <<x>>[j - Len(a)]
    BY <1>4, <1>7, ConcatProperties, Zenon
  <2> QED BY <1>0, <1>4, <1>6, <1>7, <2>1
<1>9. /\ t \in Seq(Nat) /\ Len(t) = Len(c) + Len(b)
      /\ \A j \in 1 .. Len(c) + Len(b) : t[j] = IF j <= Len(c) THEN c[j] ELSE b[j - Len(c)]
  <2>1. t = c \o b
    BY <1>1, <1>2, <1>6, <1>t
  <2>2. /\ c \o b \in Seq(Nat)
        /\ Len(c \o b) = Len(c) + Len(b)
        /\ \A j \in 1 .. Len(c) + Len(b) : (c \o b)[j] = IF j <= Len(c) THEN c[j] ELSE b[j - Len(c)]
    BY <1>5, <1>8, ConcatProperties, Zenon
  <2> QED BY <2>1, <2>2
<1>10. ASSUME NEW j \in 1 .. Len(s), j < i PROVE t[j] = s[j]
  BY <1>0, <1>5, <1>8, <1>9, <1>10
<1>11. ASSUME NEW j \in 1 .. Len(s), ~(j < i) PROVE t[j + 1] = s[j]
  <2>1. PICK k \in 1 .. Len(b) : i + k - 1 = j
    <3>1. j - i + 1 \in 1 .. Len(b) /\ i + (j - i + 1) - 1 = j
      BY <1>0, <1>5, <1>11
    <3> QED BY <3>1
  <2>2. j + 1 \in 1 .. Len(c) + Len(b) /\ ~(j + 1 <= Len(c)) /\ (j + 1) - Len(c) = k
    BY <1>0, <1>5, <1>8, <1>11, <2>1
  <2> QED BY <1>5, <1>9, <2>1, <2>2
<1>12. Len(t) = Len(s) + 1
  BY <1>0, <1>5, <1>8, <1>9
<1>13. \A j \in 1 .. Len(s) : IF j < i THEN t[j] = s[j] ELSE t[j + 1] = s[j]
  BY <1>10, <1>11
<1> QED BY <1>9, <1>12, <1>13, <1>t

LEMMA TakenOut ==
  ASSUME NEW s \in Seq(Nat), NEW i \in 1 .. Len(s)
  PROVE  \E t \in Seq(Nat) :
           /\ t = SubSeq(s, 1, i - 1) \o SubSeq(s, i + 1, Len(s))
           /\ Len(t) = Len(s) - 1
           /\ \A j \in 1 .. Len(t) : IF j < i THEN t[j] = s[j] ELSE t[j] = s[j + 1]
<1>t. PICK t : t = SubSeq(s, 1, i - 1) \o SubSeq(s, i + 1, Len(s))
  OBVIOUS
<1>0. Len(s) \in Nat /\ \A j \in 1 .. Len(s) : s[j] \in Nat
  BY ElementOfSeq
<1>1. PICK a : a = SubSeq(s, 1, i - 1)
  OBVIOUS
<1>2. PICK b : b = SubSeq(s, i + 1, Len(s))
  OBVIOUS
<1>3. PICK n \in Int : n = i - 1
  BY <1>0
<1>4. a \in Seq(Nat) /\ Len(a) = i - 1 /\ \A j \in 1 .. i - 1 : a[j] = s[j]
  <2>1. \A j \in 1 .. n : s[j] \in Nat
    BY <1>0, <1>3
  <2>2. /\ SubSeq(s, 1, n) \in Seq(Nat)
        /\ Len(SubSeq(s, 1, n)) = IF 1 <= n THEN n - 1 + 1 ELSE 0
        /\ \A j \in 1 .. n - 1 + 1 : SubSeq(s, 1, n)[j] = s[1 + j - 1]
    BY <2>1, SubSeqProperties
  <2> QED BY <1>0, <1>1, <1>3, <2>2
<1>5. b \in Seq(Nat) /\ Len(b) = Len(s) - i /\ \A j \in 1 .. Len(b) : b[j] = s[i + j]
  <2>0. PICK l \in Int, m \in Int : m = Len(s) /\ l = i + 1
    BY <1>0
  <2>1. \A j \in l .. m : s[j] \in Nat
    BY <1>0, <2>0
  <2>2. /\ SubSeq(s, l, m) \in Seq(Nat)
        /\ Len(SubSeq(s, l, m)) = IF l <= m THEN m - l + 1 ELSE 0
        /\ \A j \in 1 .. m - l + 1 : SubSeq(s, l, m)[j] = s[l + j - 1]
    BY <2>1, SubSeqProperties
  <2>3. \A j \in 1 .. m - l + 1 : l + j - 1 = i + j
    BY <1>0, <2>0
  <2> QED BY <1>0, <1>2, <2>0, <2>2, <2>3
<1>6. /\ t \in Seq(Nat) /\ Len(t) = Len(a) + Len(b)
      /\ \A j \in 1 .. Len(a) + Len(b) : t[j] = IF j <= Len(a) THEN a[j] ELSE b[j - Len(a)]
  <2>1. t = a \o b
    BY <1>1, <1>2, <1>t
  <2>2. /\ a \o b \in Seq(Nat)
        /\ Len(a \o b) = Len(a) + Len(b)
        /\ \A j \in 1 .. Len(a) + Len(b) : (a \o b)[j] = IF j <= Len(a) THEN a[j] ELSE b[j - Len(a)]
    BY <1>4, <1>5, ConcatProperties, Zenon
  <2> QED BY <2>1, <2>2
<1>7. Len(t) = Len(s) - 1
  BY <1>0, <1>4, <1>5, <1>6
<1>8. ASSUME NEW j \in 1 .. Len(t), j < i PROVE t[j] = s[j]
  BY <1>0, <1>4, <1>5, <1>6, <1>8
<1>9. ASSUME NEW j \in 1 .. Len(t), ~(j < i) PROVE t[j] = s[j + 1]
  <2>1. PICK k \in 1 .. Len(b) : k = j - Len(a)
    BY <1>0, <1>4, <1>5, <1>6, <1>9
  <2>2. i + k = j + 1 /\ ~(j <= Len(a)) /\ j \in 1 .. Len(a) + Len(b)
    BY <1>0, <1>4, <1>6, <1>9, <2>1
  <2> QED BY <1>5, <1>6, <2>1, <2>2
<1>13. \A j \in 1 .. Len(t) : IF j < i THEN t[j] = s[j] ELSE t[j] = s[j + 1]
  BY <1>8, <1>9
<1> QED BY <1>6, <1>7, <1>13, <1>t

\* An item that comes in moves others, none of them to where the iteration has been.
LEMMA ItemComesKeeps ==
  ASSUME PageInv, NEW i \in 1 .. Len(coll) + 1, Pages!ItemComes(i)
  PROVE  PageInv'
<1> USE DEF PageInv
<1>0. PICK new : new = MaxItems + Cardinality(came) + 1
  OBVIOUS
<1>1. /\ new = MaxItems + Cardinality(came) + 1
      /\ coll' = SubSeq(coll, 1, i - 1) \o <<new>> \o SubSeq(coll, i, Len(coll))
      /\ came' = came \cup {new}
  <2>1. came' = came \cup {new}
    BY <1>0, CountedAlike DEF Pages!ItemComes
  <2>2. coll' = SubSeq(coll, 1, i - 1) \o <<new>> \o SubSeq(coll, i, Len(coll))
    BY <1>0, CountedAlike DEF Pages!ItemComes
  <2> QED BY <1>0, <2>1, <2>2
<1>2. /\ pagePhase \in {"fetching", "yielding"}
      /\ UNCHANGED <<reports, bounded, first, limit, offset, page, count, hasMore, yielded, pagePhase, original, went>>
  BY DEF Pages!ItemComes, Pages!MayChange, Pages!Iterating
<1>3. new \in Nat /\ IsFiniteSet(came') /\ came' # {}
  <2>1. IsFiniteSet(came)
    BY DEF PageType
  <2>2. Cardinality(came) \in Nat
    BY <2>1, FS_CardinalityType
  <2>3. IsFiniteSet(came \cup {new})
    BY <2>1, FS_AddElement
  <2> QED BY <1>1, <2>2, <2>3, PageBounds
<1>4. PICK s \in Seq(Nat) : s = coll
  BY DEF PageType
<1>5. PICK t \in Seq(Nat) :
        /\ t = SubSeq(s, 1, i - 1) \o <<new>> \o SubSeq(s, i, Len(s))
        /\ Len(t) = Len(s) + 1
        /\ \A j \in 1 .. Len(s) : IF j < i THEN t[j] = s[j] ELSE t[j + 1] = s[j]
  <2>1. i \in 1 .. Len(s) + 1
    BY <1>4
  <2> QED BY <1>3, <2>1, PutIn
<1>11. t = coll'
  BY <1>1, <1>4, <1>5
<1>12. Len(t) = Len(s) + 1 /\ \A j \in 1 .. Len(s) : IF j < i THEN t[j] = s[j] ELSE t[j + 1] = s[j]
  BY <1>5
<1>6. PageType'
  BY <1>2, <1>3, <1>11, <1>5 DEF PageType
<1>7. \A j \in 1 .. Len(coll) : \E k \in 1 .. Len(coll') : k >= j /\ coll'[k] = coll[j]
  <2> TAKE j \in 1 .. Len(coll)
  <2>1. Len(s) \in Nat
    OBVIOUS
  <2>2. CASE j < i
    <3>1. j \in 1 .. Len(t) /\ j >= j /\ t[j] = s[j]
      BY <1>4, <1>12, <2>1, <2>2
    <3> QED BY <1>4, <1>11, <3>1
  <2>3. CASE ~(j < i)
    <3>1. j + 1 \in 1 .. Len(t) /\ j + 1 >= j /\ t[j + 1] = s[j]
      BY <1>4, <1>12, <2>1, <2>3
    <3> QED BY <1>4, <1>11, <3>1
  <2> QED BY <2>2, <2>3
<1>8. ASSUME NEW x, \E j \in 1 .. Len(coll) : j > Reached /\ coll[j] = x
      PROVE  \E j \in 1 .. Len(coll') : j > Reached' /\ coll'[j] = x
  <2>1. Reached' = Reached /\ Reached \in Nat
    BY <1>2 DEF Reached, PageType
  <2>2. PICK j \in 1 .. Len(coll) : j > Reached /\ coll[j] = x
    BY <1>8
  <2>3. PICK k \in 1 .. Len(coll') : k >= j /\ coll'[k] = coll[j]
    BY <1>7
  <2>4. k > Reached
    BY <2>1, <2>2, <2>3
  <2> QED BY <2>1, <2>2, <2>3, <2>4
<1>9. Remaining'
  <2> SUFFICES ASSUME went = {}, pagePhase \in {"fetching", "yielding"}, NEW k \in first + 1 .. Len(original)
               PROVE  \/ \E j \in 1 .. Len(yielded) : yielded[j] = original[k]
                      \/ \E j \in 1 .. Len(page) : page[j] = original[k] /\ pagePhase = "yielding"
                      \/ /\ pagePhase # "done" /\ (pagePhase = "yielding" => hasMore /\ count # 0)
                         /\ \E j \in 1 .. Len(coll') : j > Reached' /\ coll'[j] = original[k]
    BY <1>2 DEF Remaining
  <2>1. \/ \E j \in 1 .. Len(yielded) : yielded[j] = original[k]
        \/ \E j \in 1 .. Len(page) : page[j] = original[k] /\ pagePhase = "yielding"
        \/ /\ pagePhase # "done" /\ (pagePhase = "yielding" => hasMore /\ count # 0)
           /\ \E j \in 1 .. Len(coll) : j > Reached /\ coll[j] = original[k]
    BY DEF Remaining
  <2> QED BY <1>8, <2>1
<1>10. InOrder'
  BY <1>3 DEF InOrder
<1> QED BY <1>6, <1>9, <1>10

\* One that goes away brings others nearer, none of them to where the iteration has been.
LEMMA ItemGoesKeeps ==
  ASSUME PageInv, NEW i \in 1 .. Len(coll), Pages!ItemGoes(i)
  PROVE  PageInv'
<1> USE DEF PageInv
<1>1. /\ pagePhase \in {"fetching", "yielding"} /\ went' # {}
      /\ coll' = SubSeq(coll, 1, i - 1) \o SubSeq(coll, i + 1, Len(coll))
      /\ UNCHANGED <<reports, bounded, first, limit, offset, page, count, hasMore, yielded, pagePhase, original, came>>
  BY DEF Pages!ItemGoes, Pages!MayChange, Pages!Iterating
<1>2. PICK s \in Seq(Nat) : s = coll
  BY DEF PageType
<1>3. PICK t \in Seq(Nat) :
        /\ t = SubSeq(s, 1, i - 1) \o SubSeq(s, i + 1, Len(s))
        /\ Len(t) = Len(s) - 1
        /\ \A j \in 1 .. Len(t) : IF j < i THEN t[j] = s[j] ELSE t[j] = s[j + 1]
  <2>1. i \in 1 .. Len(s)
    BY <1>2
  <2> QED BY <2>1, TakenOut
<1>11. t = coll'
  BY <1>1, <1>2, <1>3
<1>4. PageType'
  BY <1>1, <1>3, <1>11 DEF PageType
<1>5. Remaining'
  BY <1>1 DEF Remaining
<1>6. \A j \in 1 .. Len(coll') : \/ j < i /\ j \in 1 .. Len(coll) /\ coll'[j] = coll[j]
                                 \/ j >= i /\ j + 1 \in 1 .. Len(coll) /\ coll'[j] = coll[j + 1]
  <2>1. Len(t) = Len(s) - 1 /\ \A j \in 1 .. Len(t) : IF j < i THEN t[j] = s[j] ELSE t[j] = s[j + 1]
    BY <1>3
  <2>2. \A j \in 1 .. Len(t) : \/ j < i /\ j \in 1 .. Len(s) /\ t[j] = s[j]
                               \/ j >= i /\ j + 1 \in 1 .. Len(s) /\ t[j] = s[j + 1]
    BY <2>1
  <2> QED BY <1>2, <1>11, <2>2
<1>7. ASSUME came = {} PROVE Ascending(coll')
  <2> SUFFICES ASSUME NEW j \in 1 .. Len(coll'), NEW k \in 1 .. Len(coll'), j < k PROVE coll'[j] < coll'[k]
    BY DEF Ascending
  <2> QED BY <1>6, <1>7 DEF InOrder, Ascending
<1>9. ASSUME came = {}, NEW j \in 1 .. Len(coll'), j > Reached'
      PROVE  /\ \A k \in 1 .. Len(yielded) : yielded[k] < coll'[j]
             /\ \A k \in 1 .. Len(page) : page[k] < coll'[j]
  <2>1. Reached' = Reached /\ Reached \in Nat
    BY <1>1 DEF Reached, PageType
  <2>2. Ahead(yielded) /\ Ahead(page)
    BY <1>1, <1>9 DEF InOrder
  <2>3. PICK m \in 1 .. Len(coll) : m >= j /\ coll'[j] = coll[m]
    <3>1. CASE j < i /\ j \in 1 .. Len(coll) /\ coll'[j] = coll[j]
      BY <3>1
    <3>2. CASE j >= i /\ j + 1 \in 1 .. Len(coll) /\ coll'[j] = coll[j + 1]
      BY <3>2
    <3> QED BY <1>6, <3>1, <3>2
  <2>4. m > Reached
    BY <1>9, <2>1, <2>3
  <2> QED BY <2>2, <2>3, <2>4 DEF Ahead
<1>10. InOrder'
  BY <1>1, <1>7, <1>9 DEF InOrder, Below, Ascending, Ahead
<1> QED BY <1>4, <1>5, <1>10

LEMMA PageStep ==
  ASSUME PageInv, Pages!Next \/ UNCHANGED Pages!vars
  PROVE  PageInv'
<1>1. UNCHANGED Pages!vars => PageInv'
  <2> HAVE UNCHANGED Pages!vars
  <2>1. PageType'
    BY DEF Pages!vars, PageInv, PageType
  <2>2. Remaining'
    BY DEF Pages!vars, PageInv, Remaining, Reached
  <2>3. InOrder'
    BY DEF Pages!vars, PageInv, InOrder, Ascending, Below, Ahead, Reached
  <2> QED BY <2>1, <2>2, <2>3 DEF PageInv
<1>2. Pages!FetchFails => PageInv'
  BY DEF Pages!FetchFails, PageInv, PageType, Remaining, Reached, InOrder, Ascending, Below, Ahead
<1> QED BY <1>1, <1>2, StartKeeps, FetchKeeps, YieldKeeps, PageEndsKeeps, ItemComesKeeps, ItemGoesKeeps DEF Pages!Next

LEMMA PagesAreComplete ==
  ASSUME PageInv
  PROVE  Pages!PagesComplete
<1>1. pagePhase = "done" /\ went = {} => \A i \in first + 1 .. Len(original) : original[i] \in Pages!Got
  BY DEF PageInv, Remaining, Pages!Got
<1>2. ASSUME came = {}, NEW i \in 1 .. Len(yielded), NEW j \in 1 .. Len(yielded), yielded[i] = yielded[j]
      PROVE  i = j
  <2>1. yielded[i] \in Nat /\ ~(yielded[i] < yielded[i])
    BY ElementOfSeq DEF PageInv, PageType
  <2>2. ~(i < j) /\ ~(j < i)
    BY <1>2, <2>1 DEF PageInv, InOrder, Ascending
  <2> QED BY <2>2
<1> QED BY <1>1, <1>2 DEF Pages!PagesComplete

-----------------------------------------------------------------------------
\* Whatever callers, the server and the persistence of tokens do, in any order:
\* the source refreshes with the token the server honours unless something failed,
\* callers see persisted tokens only, and a caller that found its token expired is
\* never given that one again by the refresh it waited for.
THEOREM TokensCorrect == AuthSpec => []TokensSound
<1>1. AuthInit => SourceInv
  BY InitSource DEF AuthInit
<1>2. SourceInv /\ [AuthNext]_<<vars, sourceVars, profileVars, pageVars, layer>> => SourceInv'
  <2>1. UNCHANGED sourceVars => UNCHANGED Source!vars
    BY DEF sourceVars, Source!vars, Source!refreshVars, Source!callerVars, Source!serverVars
  <2> QED BY <2>1, SourceStep DEF AuthNext
<1>3. SourceInv => TokensSound
  BY SourceIsSound DEF TokensSound
<1> QED BY <1>1, <1>2, <1>3, PTL DEF AuthSpec

\* Whatever commands, logins and logouts share a profile, and whenever they end or
\* are killed: the refresh token in the keyring is honoured or about to be replaced
\* unless an answer was lost, and tokens are used with the client they were issued to.
THEOREM KeyringCorrect == AuthSpec => []KeyringSound
<1>1. AuthInit => ProfileInv
  BY InitProfile DEF AuthInit
<1>2. ProfileInv /\ [AuthNext]_<<vars, sourceVars, profileVars, pageVars, layer>> => ProfileInv'
  <2>1. UNCHANGED profileVars => UNCHANGED Cli!vars
    BY DEF profileVars, Cli!vars, Cli!cmdVars, Cli!loginVars, Cli!issuerVars
  <2> QED BY <2>1, ProfileStep DEF AuthNext
<1>3. ProfileInv => KeyringSound
  BY ProfileIsSound DEF KeyringSound
<1> QED BY <1>1, <1>2, <1>3, PTL DEF AuthSpec

\* Whatever the caller asks for and however the collection changes under it: an
\* iteration to the end misses nothing unless something went, and repeats nothing
\* unless something came.
THEOREM IterationCorrect == AuthSpec => []PagesComplete
<1>1. AuthInit => PageInv
  BY InitPages DEF AuthInit
<1>2. PageInv /\ [AuthNext]_<<vars, sourceVars, profileVars, pageVars, layer>> => PageInv'
  <2>1. UNCHANGED pageVars => UNCHANGED Pages!vars
    BY DEF pageVars, Pages!vars
  <2> QED BY <2>1, PageStep DEF AuthNext
<1>3. PageInv => PagesComplete
  BY PagesAreComplete DEF PagesComplete
<1> QED BY <1>1, <1>2, <1>3, PTL DEF AuthSpec
=============================================================================
