-------------------------- MODULE SignedTransport --------------------------
(***************************************************************************)
(* Private REST requests of the Go SDK: transport.Client.Execute with its  *)
(* retries, signed by an HMAC strategy whose monotonic nonces are taken    *)
(* under a request gate, and the exchange, which refuses a nonce that is   *)
(* not larger than every nonce it has seen.                                *)
(*                                                                         *)
(* Callers share one strategy.  A call is an Execute of a safe ("get") or  *)
(* a mutating ("post") method, or a direct use of NextNonce ("nonce"),     *)
(* which does not take the gate.  The clock a nonce is made from, after    *)
(* the calibration by Date headers, may read any time, earlier ones too.   *)
(* A context may end wherever the code looks at it.                        *)
(***************************************************************************)
EXTENDS Integers

CONSTANTS
  Callers,     \* goroutines
  NoCaller,    \* nobody holds the gate
  MaxCalls,    \* bound: calls explored
  MaxRetries,  \* RetryPolicy.MaxRetries
  MaxTime      \* bound: what the clock may read

ASSUME SignedTransportAssumption ==
  /\ NoCaller \notin Callers
  /\ MaxCalls \in Nat /\ MaxRetries \in Nat /\ MaxTime \in Nat

Kinds == {"get", "post", "nonce"}
CallIds == 1 .. MaxCalls

VARIABLES
  lastNonce,  \* monotonicNonce.lastNonce
  gate,       \* holder of requestGate
  calls,      \* calls made so far
  method,     \* what each call does
  pc, call,   \* control of each caller, and the number of its call
  attempt,    \* Execute: attempt
  now, last,  \* Next: its clock reading, and the lastNonce it loaded
  nonce,      \* what Next returned to it
  wire,       \* requests on their way to the exchange
  high,       \* the exchange: largest nonce seen
  executed    \* the exchange: how often it executed the request of each call

callerVars == <<call, attempt, now, last, nonce>>
exchangeVars == <<high, executed>>
vars == <<lastNonce, gate, calls, method, pc, callerVars, wire, exchangeVars>>

Init ==
  /\ lastNonce = 0 /\ gate = NoCaller /\ calls = 0
  /\ pc = [c \in Callers |-> "idle"]
  /\ method = [k \in 0 .. MaxCalls |-> "nonce"] /\ call = [c \in Callers |-> 0]
  /\ attempt = [c \in Callers |-> 0]
  /\ now = [c \in Callers |-> 0] /\ last = [c \in Callers |-> 0] /\ nonce = [c \in Callers |-> 0]
  /\ wire = {} /\ high = 0 /\ executed = [k \in CallIds |-> 0]

Kind(c) == method[call[c]]

Goto(c, label) == pc' = [pc EXCEPT ![c] = label]

Call(c, k) ==
  /\ pc[c] = "idle" /\ calls < MaxCalls
  /\ calls' = calls + 1
  /\ method' = [method EXCEPT ![calls + 1] = k] /\ call' = [call EXCEPT ![c] = calls + 1]
  /\ attempt' = [attempt EXCEPT ![c] = 0] /\ nonce' = [nonce EXCEPT ![c] = 0]
  /\ Goto(c, IF k = "nonce" THEN "clock" ELSE "gate")
  /\ UNCHANGED <<lastNonce, gate, now, last, wire, exchangeVars>>

AcquireRequest(c) ==
  /\ pc[c] = "gate" /\ gate = NoCaller
  /\ gate' = c
  /\ Goto(c, "clock")
  /\ UNCHANGED <<lastNonce, calls, method, callerVars, wire, exchangeVars>>

\* Mutant: the release is forgotten.
ReturnKeepsGate(c) == Goto(c, "idle") /\ UNCHANGED gate

\* Execute returns; the gate is released if it was taken.
Return(c) ==
  /\ Goto(c, "idle")
  /\ gate' = IF gate = c THEN NoCaller ELSE gate

\* The context has ended, or the payload cannot be signed.
GiveUp(c) ==
  /\ Kind(c) # "nonce" /\ pc[c] \in {"gate", "clock", "send", "backoff"}
  /\ Return(c)
  /\ UNCHANGED <<lastNonce, calls, method, callerVars, wire, exchangeVars>>

(***************************************************************************)
(* monotonicNonce.Next.                                                    *)
(***************************************************************************)
ReadClock(c) ==
  /\ pc[c] = "clock"
  /\ \E t \in 0 .. MaxTime : now' = [now EXCEPT ![c] = t]
  /\ Goto(c, "load")
  /\ UNCHANGED <<lastNonce, gate, calls, method, call, attempt, last, nonce, wire, exchangeVars>>

Load(c) ==
  /\ pc[c] = "load"
  /\ last' = [last EXCEPT ![c] = lastNonce]
  /\ Goto(c, "swap")
  /\ UNCHANGED <<lastNonce, gate, calls, method, call, attempt, now, nonce, wire, exchangeVars>>

\* The time, or what follows the last nonce.
Candidate(c) == IF now[c] <= last[c] THEN last[c] + 1 ELSE now[c]

\* Mutant: the new nonce is stored without a comparison.
SwappableAlways(c) == TRUE

Swappable(c) == lastNonce = last[c]

\* CompareAndSwap, and another turn of the loop when it fails.
Swap(c) ==
  /\ pc[c] = "swap"
  /\ IF Swappable(c)
     THEN /\ lastNonce' = Candidate(c)
          /\ nonce' = [nonce EXCEPT ![c] = Candidate(c)]
          /\ now' = [now EXCEPT ![c] = 0] /\ last' = [last EXCEPT ![c] = 0]
          /\ Goto(c, IF Kind(c) = "nonce" THEN "idle" ELSE "send")
     ELSE Goto(c, "load") /\ UNCHANGED <<lastNonce, nonce, now, last>>
  /\ UNCHANGED <<gate, calls, method, call, attempt, wire, exchangeVars>>

(***************************************************************************)
(* An attempt: httpClient.Do and what follows.                             *)
(***************************************************************************)
Send(c) ==
  /\ pc[c] = "send"
  /\ wire' = wire \cup {[nonce |-> nonce[c], call |-> call[c]]}
  /\ Goto(c, "await")
  /\ UNCHANGED <<lastNonce, gate, calls, method, callerVars, exchangeVars>>

\* Mutant: any method is retried.
IsRetryableAlways(c) == TRUE

\* IsRetryable, for an error or a status that allows a retry.
IsRetryable(c) == Kind(c) = "get"

RetriesLeft(c) == attempt[c] < MaxRetries

\* The attempt of c ends with a success or a final error, or with one that is
\* retried if the method and the number of attempts allow it.
AttemptEnds(c, final) ==
  IF ~final /\ RetriesLeft(c) /\ IsRetryable(c)
  THEN Goto(c, "backoff") /\ UNCHANGED gate
  ELSE Return(c)

\* The exchange receives request r: it refuses the nonce, refuses the request
\* (busy, invalid) or executes it.  Its answer reaches a caller that waits.
Receive(r) ==
  /\ r \in wire
  /\ wire' = wire \ {r}
  /\ \E ran, final \in BOOLEAN :
       /\ IF r.nonce <= high THEN ~ran /\ final /\ UNCHANGED high ELSE high' = r.nonce
       /\ executed' = IF ran THEN [executed EXCEPT ![r.call] = @ + 1] ELSE executed
       /\ \/ \E c \in Callers :
               pc[c] = "await" /\ nonce[c] = r.nonce /\ AttemptEnds(c, final)
          \/ UNCHANGED <<pc, gate>>  \* the answer is lost
  /\ UNCHANGED <<lastNonce, calls, method, callerVars>>

\* The attempt fails without an answer; the request may still arrive.
NoAnswer(c) ==
  /\ pc[c] = "await"
  /\ \E final \in BOOLEAN : AttemptEnds(c, final)
  /\ UNCHANGED <<lastNonce, calls, method, callerVars, wire, exchangeVars>>

\* The request is lost.
Lose(r) ==
  /\ r \in wire /\ wire' = wire \ {r}
  /\ UNCHANGED <<lastNonce, gate, calls, method, pc, callerVars, exchangeVars>>

\* The timer fires: the next attempt signs again.
Backoff(c) ==
  /\ pc[c] = "backoff"
  /\ attempt' = [attempt EXCEPT ![c] = @ + 1]
  /\ Goto(c, "clock")
  /\ UNCHANGED <<lastNonce, gate, calls, method, call, now, last, nonce, wire, exchangeVars>>

CallerStep(c) ==
  ReadClock(c) \/ Load(c) \/ Swap(c) \/ Send(c) \/ NoAnswer(c) \/ Backoff(c)

Next ==
  \/ \E c \in Callers, k \in Kinds : Call(c, k)
  \/ \E c \in Callers : AcquireRequest(c) \/ CallerStep(c) \/ GiveUp(c)
  \/ \E r \in wire : Receive(r) \/ Lose(r)

Spec == Init /\ [][Next]_vars

\* Goroutines run, HTTP calls and timers end, and the waiters of a channel are
\* served in turn.
Fairness == \A c \in Callers : WF_vars(CallerStep(c)) /\ SF_vars(AcquireRequest(c))

-----------------------------------------------------------------------------
Requests == [nonce : Nat, call : CallIds]
Labels == {"idle", "gate", "clock", "load", "swap", "send", "await", "backoff"}

\* Every variable has its type, and no call makes more attempts than allowed.
TypeOK ==
  /\ lastNonce \in Nat /\ high \in Nat /\ calls \in 0 .. MaxCalls
  /\ gate \in Callers \cup {NoCaller}
  /\ pc \in [Callers -> Labels]
  /\ method \in [0 .. MaxCalls -> Kinds] /\ call \in [Callers -> 0 .. MaxCalls]
  /\ attempt \in [Callers -> 0 .. MaxRetries]
  /\ now \in [Callers -> 0 .. MaxTime] /\ last \in [Callers -> Nat] /\ nonce \in [Callers -> Nat]
  /\ wire \subseteq Requests
  /\ executed \in [CallIds -> Nat]

\* No two callers ever hold the same nonce, however Next calls interleave and
\* whatever the clock reads, the ones that bypass the gate included.
NoncesUnique ==
  \A c, d \in Callers : c # d /\ nonce[c] # 0 => nonce[c] # nonce[d]

\* A request whose answer is awaited is never refused for its nonce: while it
\* is on its way the exchange has seen no nonce as large, in spite of retries,
\* other callers and late arrivals of attempts given up.
AwaitedNonceIsNewest ==
  \A c \in Callers, r \in wire : pc[c] = "await" /\ r.nonce = nonce[c] => r.nonce > high

\* No request is refused because of the others that are on their way.
RequestsAccepted == NoncesUnique /\ AwaitedNonceIsNewest

\* A mutating request is executed at most once, even when its answer is lost
\* or times out and the request arrives afterwards.
MutatesOnce ==
  \A k \in CallIds : method[k] = "post" => executed[k] <= 1

\* Execute returns although all calls pass one gate and no context ends: who
\* holds the gate gives it back, on whatever path it leaves.
ExecuteReturns == \A c \in Callers : (pc[c] = "gate") ~> (pc[c] = "idle")
=============================================================================
