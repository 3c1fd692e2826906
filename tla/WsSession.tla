----------------------------- MODULE WsSession -----------------------------
(***************************************************************************)
(* WebSocketSession of the TypeScript SDK and the streams on top of it:    *)
(* connecting, reconnecting with a limited number of attempts, correlated  *)
(* requests, durable subscriptions that are replayed, liveness checks.     *)
(*                                                                         *)
(* There is one event loop.  A step is a task (an event of a socket, a     *)
(* timer, the end of an awaited promise of the environment), the           *)
(* continuation of a promise (which runs before the next task), or a call  *)
(* of the application.  The application is called back in the middle of    *)
(* the handler of the open event, and its own continuations mix with those *)
(* of the session, so its calls may come between any two steps.            *)
(*                                                                         *)
(* Attempts and their sockets are named by the socketAttempt number they   *)
(* were given.  Every subscription has a stream name of its own.  A        *)
(* subscription in the map always has its flag active set: it is reset     *)
(* only by code that also removes it.                                      *)
(***************************************************************************)
EXTENDS Integers, Sequences, SequencesExt, FiniteSets

CONSTANTS
  Subs,           \* subscriptions, each with its stream
  Requests,       \* calls of request()
  Ping,           \* the request of the liveness check
  None,           \* no caller
  HasHeaders,     \* whether there is a headersFactory
  MaxReconnects,  \* maxReconnectAttempts
  MaxAttempt,     \* bound: socketAttempt
  MaxFaults       \* bound: faults, deadlines and calls of reconnect()

ASSUME WsSessionAssumption ==
  /\ HasHeaders \in BOOLEAN
  /\ MaxReconnects \in Nat /\ MaxAttempt \in Nat /\ MaxFaults \in Nat
  /\ Subs \cap (Requests \cup {Ping}) = {} /\ Ping \notin Requests /\ None \notin Subs \cup Requests

Attempts == 1 .. MaxAttempt
Reqs     == Requests \cup {Ping}
Callers  == Subs \cup Reqs

VARIABLES
  state,      \* connectionState.kind
  waiting,    \* callers that await the deferred of connectionState
  cont,       \* its outcome for a caller whose continuation is queued
  seq,        \* socketAttempt
  active,     \* activeAttempt, 0 if undefined
  phase,      \* where each attempt is
  initial,    \* attempts made by ensureConnected
  by,         \* ... and the caller whose deadline they have
  catches,    \* prepareSocket: attempts whose failure is about to be caught
  socket,     \* this.socket, 0 if undefined
  sock,       \* each socket: "none", "connecting", "open", "closed"
  timer,      \* reconnectTimer is set
  stable,     \* the socket stableConnectionTimer is set for
  tries,      \* reconnectAttempt
  replaying,  \* the socket whose open event is being handled
  subs,       \* keys of this.subscriptions
  sent,       \* ... with sent
  replay,     \* ... with replayOnOpen
  sentHere,   \* subscribe: local variable sent
  openAt,     \* subscribe: subscriptionSocketAttempt, 0 unless subscribedWhileOpen
  pend,       \* this.pending, subscriptions: "none", "first", "again" (first, replayed), "replay"
  ready,      \* the promise ready of each subscription
  gone,       \* subscribe: local variable closed
  unsubs,     \* subscriptions whose UNSUBSCRIBE request is queued
  stream,     \* streamState
  rpc,        \* control of each request
  pending,    \* this.pending, requests
  sentOn,     \* the socket a request was written to
  late,       \* requests whose deadline passed while they waited for the connection
  wire,       \* frames written to the socket and not handled by the exchange
  server,     \* what the exchange streams on it
  faults,     \* bound: faults so far
  disowned    \* history: a failure that was caught late has met a newer attempt

connVars == <<state, waiting, cont>>
attVars  == <<seq, active, phase, initial, by, catches>>
sockVars == <<socket, sock, timer, stable, tries, replaying>>
subVars  == <<subs, sent, replay, sentHere, openAt, pend, ready, gone, unsubs, stream>>
reqVars  == <<rpc, pending, sentOn, late>>
netVars  == <<wire, server>>
sessionVars == <<connVars, attVars, sockVars, subVars, reqVars, netVars, faults>>
vars == <<sessionVars, disowned>>

Init ==
  /\ state = "idle" /\ waiting = {} /\ cont = [c \in Callers |-> "none"]
  /\ seq = 0 /\ active = 0 /\ phase = [k \in Attempts |-> "none"]
  /\ initial = {} /\ by = [k \in Attempts |-> None] /\ catches = {}
  /\ socket = 0 /\ sock = [k \in Attempts |-> "none"] /\ timer = FALSE /\ stable = 0 /\ tries = 0
  /\ replaying = 0
  /\ subs = {} /\ sent = {} /\ replay = {} /\ sentHere = {} /\ openAt = [s \in Subs |-> 0]
  /\ pend = [s \in Subs |-> "none"] /\ ready = [s \in Subs |-> "none"] /\ gone = {} /\ unsubs = {}
  /\ stream = [s \in Subs |-> "none"]
  /\ rpc = [r \in Reqs |-> "idle"] /\ pending = {} /\ sentOn = [r \in Reqs |-> 0] /\ late = {}
  /\ wire = <<>> /\ server = {}
  /\ faults = 0 /\ disowned = FALSE

Fault == faults < MaxFaults /\ faults' = faults + 1

\* No continuation is queued and no handler is under way: the next task may run.
Quiet ==
  /\ replaying = 0 /\ catches = {} /\ unsubs = {} /\ rpc[Ping] # "err"
  /\ \A c \in Callers : cont[c] = "none"

(***************************************************************************)
(* Parts of handlers.                                                      *)
(***************************************************************************)

\* deferred.resolve or deferred.reject.
Settle(outcome) ==
  /\ waiting' = {}
  /\ cont' = [c \in Callers |-> IF c \in waiting THEN outcome ELSE cont[c]]

\* openSocket up to its first await, for the caller whose deadline it has.
OpenSocket(caller) ==
  /\ seq < MaxAttempt
  /\ seq' = seq + 1 /\ active' = seq + 1
  /\ phase' = [phase EXCEPT ![seq + 1] = IF HasHeaders THEN "headers" ELSE "creating"]
  /\ initial' = IF caller = None THEN initial ELSE initial \cup {seq + 1}
  /\ by' = [by EXCEPT ![seq + 1] = caller]
  /\ UNCHANGED catches

\* ensureConnected, and what the caller does with the promise.
EnsureConnected(c) ==
  IF state = "open"
  THEN cont' = [cont EXCEPT ![c] = "ok"] /\ UNCHANGED <<state, waiting, attVars>>
  ELSE /\ waiting' = waiting \cup {c} /\ UNCHANGED cont
       /\ IF state = "idle"
          THEN state' = "connecting" /\ OpenSocket(c)
          ELSE UNCHANGED <<state, attVars>>

\* rejectRequests.  A liveness check whose failure is about to be caught will
\* find the connection gone, and is over.
RejectRequests ==
  /\ pending' = {}
  /\ rpc' = [r \in Reqs |-> CASE r \in pending -> "err"
                             [] r = Ping /\ rpc[r] = "err" -> "idle"
                             [] OTHER -> rpc[r]]

\* Subscriptions X leave the map and this.pending; a ready promise that is
\* still awaited is rejected, which marks the handle closed.
Drop(X) ==
  /\ subs' = subs \ X /\ sent' = sent \ X /\ replay' = replay \ X
  /\ pend' = [s \in Subs |-> IF s \in X THEN "none" ELSE pend[s]]
  /\ ready' = [s \in Subs |-> IF s \in X /\ ready[s] = "pending" THEN "err" ELSE ready[s]]
  /\ gone' = gone \cup {s \in X : ready[s] = "pending"}

\* WebSocketStreamImpl.fail for the streams X.
Fail(X) ==
  stream' = [s \in Subs |-> IF s \in X /\ stream[s] \in {"active", "reconnecting"} THEN "failed" ELSE stream[s]]

\* The stream's listeners for the session's events error, reconnecting and resubscribed.
StreamsOnError == Fail({s \in Subs : stream[s] # "reconnecting"})
StreamsOnReconnecting ==
  stream' = [s \in Subs |-> IF stream[s] = "active" THEN "reconnecting" ELSE stream[s]]
StreamOnResubscribed(s) ==
  stream' = [stream EXCEPT ![s] = IF @ = "reconnecting" THEN "active" ELSE @]

\* Where an attempt is once it is aborted.
Aborted(at) == IF at = "creating" THEN "late" ELSE "ended"

\* failConnection, when attempt k (0 if none) is active: it has no socket yet.
FailConnection(k, at, failed) ==
  /\ timer' = FALSE /\ stable' = 0
  /\ active' = 0 /\ catches' = failed \cup ({k} \ {0})
  /\ phase' = [j \in Attempts |-> IF j = k THEN Aborted(at[j]) ELSE at[j]]
  /\ state' = "idle" /\ Settle("err")
  /\ Drop(subs) /\ Fail(subs)
  /\ RejectRequests
  /\ UNCHANGED tries

\* Mutant: subscriptions without an acknowledgement are not replayed.
MarkReplayAcknowledged == replay \cup {s \in subs : pend[s] = "none"}

MarkReplay == replay \cup subs

\* Mutant: a first acknowledgement that is asked for again is not a replay.
PendAgainForgotten(s) == IF pend[s] = "none" THEN "replay" ELSE pend[s]

\* The acknowledgement subscription s waits for once it is replayed.
PendAgain(s) ==
  CASE pend[s] = "none" -> "replay" [] pend[s] = "first" -> "again" [] OTHER -> pend[s]

\* The part of scheduleReconnect that makes another attempt later.
Retry ==
  /\ state' = "reconnecting" /\ timer' = TRUE /\ tries' = tries + 1
  /\ RejectRequests
  /\ replay' = MarkReplay
  /\ pend' = [s \in Subs |-> IF s \in subs THEN PendAgain(s) ELSE pend[s]]
  /\ StreamsOnReconnecting
  /\ UNCHANGED <<waiting, cont, stable, subs, sent, ready, gone>>

RetriesLeft == tries < MaxReconnects

\* scheduleReconnect, in a step that moves socketAttempt by bump and leaves
\* attempt k active, the attempts in the phases at, and the failures in failed
\* to be caught.
ScheduleReconnect(fatal, bump, k, at, failed) ==
  /\ IF timer \/ state = "closed"
     THEN /\ UNCHANGED <<connVars, timer, stable, tries, subs, sent, replay, pend, ready, gone, stream, rpc, pending>>
          /\ seq' = seq + bump /\ active' = k /\ phase' = at /\ catches' = failed
     ELSE IF ~fatal /\ RetriesLeft
     THEN Retry /\ seq' = seq + bump /\ active' = k /\ phase' = at /\ catches' = failed
     ELSE FailConnection(k, at, failed) /\ seq' = seq + bump + 1
  /\ UNCHANGED <<initial, by, sentHere, openAt, unsubs, sentOn, late>>

\* Mutant: the callers are not told.
GiveUpSilently == state' = "idle" /\ UNCHANGED <<waiting, cont>>

\* The failure of an initial attempt: idle, and the deferred rejected.
GiveUp == state' = "idle" /\ Settle("err")

NoReconnect ==
  UNCHANGED <<timer, stable, tries, subVars, reqVars, initial, by>>

Write(frame) == wire' = Append(wire, frame)

(***************************************************************************)
(* Connection attempts.                                                    *)
(***************************************************************************)

\* The headers are there; the socket factory is called if they are still wanted.
HeadersReady(k) ==
  /\ Quiet /\ phase[k] = "headers"
  /\ phase' = [phase EXCEPT ![k] = IF active = k THEN "creating" ELSE "ended"]
  /\ UNCHANGED <<connVars, seq, active, initial, by, catches, sockVars, subVars, reqVars, netVars, faults>>

\* The headers or the socket cannot be had.  Without headers a reconnect is pointless.
AttemptFails(k) ==
  /\ Quiet /\ phase[k] \in {"headers", "creating"} /\ Fault
  /\ LET left == IF active = k THEN 0 ELSE active
         at   == [phase EXCEPT ![k] = "ended"]
     IN \/ /\ k \in initial /\ (state = "connecting" \/ phase[k] = "creating")
           /\ IF state = "connecting" THEN GiveUp ELSE UNCHANGED connVars
           /\ active' = left /\ phase' = at /\ UNCHANGED <<seq, catches>> /\ NoReconnect
        \/ /\ ~(k \in initial /\ (state = "connecting" \/ phase[k] = "creating"))
           /\ ScheduleReconnect(phase[k] = "headers", 0, left, at, catches)
  /\ UNCHANGED <<socket, sock, replaying, netVars>>

\* The socket becomes this.socket, and its events are listened to.
Created(k) ==
  /\ Quiet /\ active = k /\ phase[k] = "creating" /\ seq = k
  /\ phase' = [phase EXCEPT ![k] = "socket"]
  /\ socket' = k /\ sock' = [sock EXCEPT ![k] = "connecting"]
  /\ wire' = <<>> /\ server' = {}
  /\ UNCHANGED <<connVars, seq, active, initial, by, catches, timer, stable, tries, replaying, subVars, reqVars, faults>>

Unwanted(k) == \/ phase[k] = "late"
               \/ phase[k] = "creating" /\ active # k

\* Mutant: a socket that comes too late is kept.
LateSocketKept(k) ==
  /\ Quiet /\ Unwanted(k)
  /\ phase' = [phase EXCEPT ![k] = "ended"] /\ sock' = [sock EXCEPT ![k] = "connecting"]
  /\ UNCHANGED <<connVars, seq, active, initial, by, catches, socket, timer, stable, tries, replaying, subVars,
                 reqVars, netVars, faults>>

\* The factory delivers a socket to an attempt that was given up.
LateSocket(k) ==
  /\ Quiet /\ Unwanted(k)
  /\ phase' = [phase EXCEPT ![k] = "ended"] /\ sock' = [sock EXCEPT ![k] = "closed"]
  /\ UNCHANGED <<connVars, seq, active, initial, by, catches, socket, timer, stable, tries, replaying, subVars,
                 reqVars, netVars, faults>>

\* The deadline of the active attempt passes (abort in openSocket).  For an
\* initial attempt it is the deadline of the caller that began it.  The
\* rejection of what the attempt awaited is about to be caught.
AttemptDeadline(k) ==
  /\ Quiet /\ active = k /\ Fault
  /\ k \in initial => by[k] \in waiting
  /\ socket' = IF socket = k THEN 0 ELSE socket
  /\ sock' = [sock EXCEPT ![k] = IF socket = k THEN "closed" ELSE @]
  /\ LET at     == [phase EXCEPT ![k] = Aborted(@)]
         failed == IF phase[k] = "socket" THEN catches ELSE catches \cup {k}
     IN \/ /\ k \in initial
           /\ GiveUp /\ seq' = seq + 1 /\ active' = 0 /\ phase' = at /\ catches' = failed
           /\ late' = late \cup ({by[k]} \cap Reqs)
           /\ UNCHANGED <<timer, stable, tries, subVars, rpc, pending, sentOn, initial, by>>
        \/ k \notin initial /\ ScheduleReconnect(FALSE, 1, 0, at, failed)
  /\ UNCHANGED <<replaying, netVars>>

\* prepareSocket: the attempt has failed.
PreparedFails == IF state = "connecting" THEN GiveUp ELSE UNCHANGED connVars

\* prepareSocket or openSocket catches the failure of aborted attempt k.
AttemptCaught(k) ==
  /\ replaying = 0 /\ k \in catches
  /\ \/ /\ k \in initial /\ catches' = catches \ {k}
        /\ PreparedFails
        /\ UNCHANGED <<seq, active, phase>> /\ NoReconnect
     \/ k \notin initial /\ ScheduleReconnect(FALSE, 0, active, phase, catches \ {k})
  /\ UNCHANGED <<socket, sock, replaying, netVars, faults>>

\* The reconnect timer fires.
TimerFires ==
  /\ Quiet /\ timer
  /\ timer' = FALSE
  /\ state' = IF state = "reconnecting" THEN "connecting" ELSE state
  /\ OpenSocket(None)
  /\ UNCHANGED <<waiting, cont, socket, sock, stable, tries, replaying, subVars, reqVars, netVars, faults>>

\* The connection has been up for stableConnectionMs.
StableFires ==
  /\ Quiet /\ stable # 0
  /\ stable' = 0
  /\ tries' = IF socket = stable /\ state = "open" THEN 0 ELSE tries
  /\ UNCHANGED <<connVars, attVars, socket, sock, timer, replaying, subVars, reqVars, netVars, faults>>

(***************************************************************************)
(* Events of the current socket (others are ignored).                      *)
(***************************************************************************)

\* The open event, up to the call of the application's listeners.
OnOpen ==
  /\ Quiet /\ socket # 0 /\ sock[socket] = "connecting"
  /\ sock' = [sock EXCEPT ![socket] = "open"]
  /\ active' = IF active = socket THEN 0 ELSE active
  /\ state' = "open" /\ Settle("ok")
  /\ stable' = IF tries = 0 THEN 0 ELSE socket
  /\ replaying' = socket
  /\ UNCHANGED <<seq, phase, initial, by, catches, socket, timer, tries, subVars, reqVars, netVars, faults>>

Current(k) == socket = k /\ state = "open"

\* The rest of it: subscriptions are replayed.
ReplayOnOpen ==
  /\ replaying # 0
  /\ replaying' = 0
  /\ IF Current(replaying)
     THEN wire' = wire \o SetToSeq({<<"subscribe", s>> : s \in replay}) /\ sent' = sent \cup replay /\ replay' = {}
     ELSE UNCHANGED <<wire, sent, replay>>
  /\ UNCHANGED <<connVars, attVars, socket, sock, timer, stable, tries, subs, sentHere, openAt, pend, ready, gone,
                 unsubs, stream, reqVars, server, faults>>

\* The connection ends: the socket is fenced, closed and replaced.
Replace(fatal) ==
  /\ socket' = 0 /\ sock' = [k \in Attempts |-> IF k = socket THEN "closed" ELSE sock[k]]
  /\ ScheduleReconnect(fatal, 0, IF active = socket THEN 0 ELSE active, phase, catches)

\* One of the replayed subscriptions cannot be sent.
ReplayFails ==
  /\ replaying # 0 /\ Current(replaying) /\ replay # {} /\ Fault
  /\ replaying' = 0
  /\ Replace(FALSE)
  /\ UNCHANGED netVars

\* The error event.
OnError ==
  /\ Quiet /\ socket # 0 /\ sock[socket] # "closed" /\ Fault
  /\ Replace(FALSE)
  /\ UNCHANGED <<replaying, netVars>>

\* The close event: of the peer, with a code that may be fatal, or of an own close().
OnClose ==
  /\ Quiet /\ socket # 0
  /\ IF sock[socket] = "closed" THEN UNCHANGED faults ELSE Fault
  /\ IF state = "reconnecting"
     THEN /\ sock' = [sock EXCEPT ![socket] = "closed"]
          /\ active' = IF active = socket THEN 0 ELSE active
          /\ UNCHANGED <<connVars, seq, phase, initial, by, catches, socket, timer, stable, tries, subVars, reqVars>>
     ELSE \E fatal \in BOOLEAN : (fatal => sock[socket] # "closed") /\ Replace(fatal)
  /\ UNCHANGED <<replaying, netVars>>

\* A frame that cannot be parsed; it may be the answer of anything.
OnMalformedFrame ==
  /\ Quiet /\ state = "open" /\ sock[socket] = "open" /\ Fault
  /\ RejectRequests
  /\ StreamsOnError
  /\ UNCHANGED <<connVars, attVars, sockVars, subs, sent, replay, sentHere, openAt, pend, ready, gone, unsubs,
                 sentOn, late, netVars>>

\* A frame that is too long or not a string: the socket is closed.
OnBadFrame ==
  /\ Quiet /\ state = "open" /\ sock[socket] = "open" /\ Fault
  /\ StreamsOnError
  /\ sock' = [sock EXCEPT ![socket] = "closed"]
  /\ UNCHANGED <<connVars, attVars, socket, timer, stable, tries, replaying, subs, sent, replay, sentHere, openAt,
                 pend, ready, gone, unsubs, reqVars, netVars>>

\* The exchange handles the next frame; route finds the call its answer is for.
Handled(method, id) ==
  /\ Quiet /\ state = "open" /\ sock[socket] = "open"
  /\ wire # <<>> /\ Head(wire) = <<method, id>> /\ wire' = Tail(wire)
  /\ UNCHANGED <<connVars, attVars, sockVars, sentHere, openAt, unsubs, sentOn, late>>

\* A subscription is acknowledged, for the first time or after its replay.
Acknowledged(s) ==
  /\ Handled("subscribe", s)
  /\ server' = server \cup {s}
  /\ pend' = [pend EXCEPT ![s] = "none"]
  /\ ready' = [ready EXCEPT ![s] = IF pend[s] \in {"first", "again"} THEN "ok" ELSE @]
  /\ IF pend[s] \in {"again", "replay"} THEN StreamOnResubscribed(s) ELSE UNCHANGED stream
  /\ UNCHANGED <<subs, sent, replay, gone, rpc, pending, faults>>

\* A subscription is refused: it and its stream are over.
Refused(s) ==
  /\ Handled("subscribe", s) /\ Fault
  /\ IF pend[s] # "none"
     THEN Drop({s}) /\ Fail({s})
     ELSE UNCHANGED <<subs, sent, replay, pend, ready, gone, stream>>
  /\ UNCHANGED <<server, rpc, pending>>

Unsubscribed(s) ==
  /\ Handled("unsubscribe", s)
  /\ server' = server \ {s}
  /\ UNCHANGED <<subs, sent, replay, pend, ready, gone, stream, rpc, pending, faults>>

Answered(r) ==
  /\ Handled("request", r)
  /\ pending' = pending \ {r}
  /\ rpc' = [rpc EXCEPT ![r] = CASE r \notin pending -> @ [] r = Ping -> "idle" [] OTHER -> "ok"]
  /\ UNCHANGED <<server, subs, sent, replay, pend, ready, gone, stream, faults>>

(***************************************************************************)
(* Subscriptions.                                                          *)
(***************************************************************************)
Subscribe(s) ==
  /\ ready[s] = "none" /\ state # "closed"
  /\ EnsureConnected(s)
  /\ subs' = subs \cup {s} /\ pend' = [pend EXCEPT ![s] = "first"] /\ ready' = [ready EXCEPT ![s] = "pending"]
  /\ openAt' = [openAt EXCEPT ![s] = IF state = "open" THEN seq ELSE 0]
  /\ stream' = [stream EXCEPT ![s] = "active"]
  /\ UNCHANGED <<sockVars, sent, replay, sentHere, gone, unsubs, reqVars, netVars, faults>>

\* The subscription is still wanted, and the replay has not sent it.
ToSend(s) ==
  /\ s \in subs \ (gone \cup sent \cup replay) /\ state = "open"
  /\ openAt[s] # 0 => seq = openAt[s]

\* The continuation of subscribe when the connection is there, or is not.
SubscribeContinues(s) ==
  /\ replaying = 0 /\ cont[s] # "none"
  /\ cont' = [cont EXCEPT ![s] = "none"]
  /\ IF cont[s] = "ok" /\ ToSend(s)
     THEN \/ Write(<<"subscribe", s>>) /\ sentHere' = sentHere \cup {s} /\ sent' = sent \cup {s}
             /\ UNCHANGED <<subs, replay, pend, ready, gone, stream, faults>>
          \/ Fault /\ Drop({s}) /\ Fail({s}) /\ UNCHANGED <<wire, sentHere>>
     ELSE /\ IF cont[s] = "err" THEN Drop({s}) /\ Fail({s})
             ELSE UNCHANGED <<subs, sent, replay, pend, ready, gone, stream>>
          /\ UNCHANGED <<wire, sentHere, faults>>
  /\ UNCHANGED <<state, waiting, attVars, sockVars, openAt, unsubs, reqVars, server>>

WasSent(s) == s \in sentHere \cup sent

\* sendUnsubscribe, before its request.
QueueUnsubscribe(s) == unsubs' = IF WasSent(s) /\ state = "open" THEN unsubs \cup {s} ELSE unsubs

\* The acknowledgement takes too long, or the caller's signal is aborted.
ReadyDeadline(s) ==
  /\ Quiet /\ ready[s] = "pending" /\ Fault /\ ~(active # 0 /\ by[active] = s)
  /\ Drop({s}) /\ Fail({s})
  /\ QueueUnsubscribe(s)
  /\ UNCHANGED <<connVars, attVars, sockVars, sentHere, openAt, reqVars, netVars>>

\* The application closes the stream and with it the subscription.
CloseStream(s) ==
  /\ ready[s] # "none" /\ stream[s] # "closed"
  /\ stream' = [stream EXCEPT ![s] = "closed"]
  /\ subs' = subs \ {s} /\ sent' = sent \ {s} /\ replay' = replay \ {s}
  /\ pend' = [pend EXCEPT ![s] = "none"]
  /\ ready' = [ready EXCEPT ![s] = IF @ = "pending" THEN "err" ELSE @]
  /\ gone' = gone \cup {s}
  /\ IF s \in gone THEN UNCHANGED unsubs ELSE QueueUnsubscribe(s)
  /\ UNCHANGED <<connVars, attVars, sockVars, sentHere, openAt, reqVars, netVars, faults>>

\* The UNSUBSCRIBE request is sent, unless the connection was lost meanwhile.
SendUnsubscribe(s) ==
  /\ replaying = 0 /\ s \in unsubs
  /\ unsubs' = unsubs \ {s}
  /\ IF state = "open" THEN Write(<<"unsubscribe", s>>) ELSE UNCHANGED wire
  /\ UNCHANGED <<connVars, attVars, sockVars, subs, sent, replay, sentHere, openAt, pend, ready, gone, stream,
                 reqVars, server, faults>>

(***************************************************************************)
(* Requests and the liveness check.                                        *)
(***************************************************************************)
Request(r) ==
  /\ rpc[r] = "idle" /\ state \notin {"closed", "reconnecting"}
  /\ r = Ping => state = "open" /\ Quiet
  /\ rpc' = [rpc EXCEPT ![r] = "connecting"]
  /\ EnsureConnected(r)
  /\ UNCHANGED <<sockVars, subVars, pending, sentOn, late, netVars, faults>>

\* The continuation of request once the connection promise is settled.
RequestContinues(r) ==
  /\ replaying = 0 /\ cont[r] # "none"
  /\ cont' = [cont EXCEPT ![r] = "none"]
  /\ IF cont[r] = "ok" /\ r \notin late /\ state = "open"
     THEN /\ sentOn' = [sentOn EXCEPT ![r] = socket]
          /\ \/ Write(<<"request", r>>) /\ pending' = pending \cup {r}
                /\ rpc' = [rpc EXCEPT ![r] = "await"] /\ UNCHANGED faults
             \/ Fault /\ rpc' = [rpc EXCEPT ![r] = "err"] /\ UNCHANGED <<wire, pending>>
     ELSE rpc' = [rpc EXCEPT ![r] = "err"] /\ UNCHANGED <<wire, pending, sentOn, faults>>
  /\ UNCHANGED <<state, waiting, attVars, sockVars, subVars, late, server>>

\* The deadline of request r passes, while it waits for an answer or for a
\* connection somebody else is making.
RequestDeadline(r) ==
  /\ Quiet /\ Fault
  /\ \/ /\ r \in pending /\ pending' = pending \ {r}
        /\ rpc' = [rpc EXCEPT ![r] = "err"] /\ UNCHANGED late
     \/ /\ r \in waiting \ late /\ ~(active # 0 /\ by[active] = r)
        /\ late' = late \cup {r} /\ UNCHANGED <<rpc, pending>>
  /\ UNCHANGED <<connVars, attVars, sockVars, subVars, sentOn, netVars>>

\* reconnect(), which does nothing unless the connection is open.
Reconnect ==
  /\ state = "open" /\ socket # 0 /\ Fault
  /\ Replace(FALSE)
  /\ UNCHANGED <<replaying, netVars>>

\* runLiveness catches the failure of its request, and calls reconnect().
LivenessFails ==
  /\ replaying = 0 /\ rpc[Ping] = "err"
  /\ IF state = "open"
     THEN Replace(FALSE)
     ELSE /\ rpc' = [rpc EXCEPT ![Ping] = "idle"]
          /\ UNCHANGED <<connVars, attVars, socket, sock, timer, stable, tries, subVars, pending, sentOn, late>>
  /\ UNCHANGED <<replaying, netVars, faults>>

Close ==
  /\ state # "closed"
  /\ state' = "closed" /\ Settle("err") /\ seq' = seq + 1
  /\ timer' = FALSE /\ stable' = 0
  /\ RejectRequests
  /\ Drop(subs)
  /\ stream' = [s \in Subs |-> IF stream[s] = "none" THEN "none" ELSE "closed"]
  /\ active' = 0 /\ socket' = 0
  /\ phase' = [k \in Attempts |-> IF k = active THEN Aborted(phase[k]) ELSE phase[k]]
  /\ sock' = [k \in Attempts |-> IF k \in {active, socket} /\ sock[k] # "none" THEN "closed" ELSE sock[k]]
  /\ catches' = catches \cup {k \in {active} \ {0} : phase[k] # "socket"}
  /\ UNCHANGED <<tries, initial, by, replaying, sentHere, openAt, unsubs, sentOn, late, netVars, faults>>

(***************************************************************************)
(* The whole session.                                                      *)
(***************************************************************************)
Step ==
  \/ \E k \in Attempts : \/ HeadersReady(k) \/ AttemptFails(k) \/ Created(k) \/ LateSocket(k)
                         \/ AttemptDeadline(k)
  \/ TimerFires \/ StableFires
  \/ OnOpen \/ ReplayOnOpen \/ ReplayFails \/ OnError \/ OnClose
  \/ OnMalformedFrame \/ OnBadFrame
  \/ \E s \in Subs : \/ Subscribe(s) \/ SubscribeContinues(s) \/ ReadyDeadline(s)
                     \/ CloseStream(s) \/ SendUnsubscribe(s)
                     \/ Acknowledged(s) \/ Refused(s) \/ Unsubscribed(s)
  \/ \E r \in Reqs : Request(r) \/ RequestContinues(r) \/ RequestDeadline(r) \/ Answered(r)
  \/ Reconnect \/ LivenessFails \/ Close

\* prepareSocket does not ask whose failure it caught.  If a newer attempt is
\* active, that one loses its state to it.
Next ==
  \/ Step /\ UNCHANGED disowned
  \/ \E k \in Attempts : AttemptCaught(k) /\ disowned' = (disowned \/ active # 0)

Spec == Init /\ [][Next]_vars

\* The event loop goes on: continuations run, timers fire, and what the session
\* asks of its environment is answered once the faults are over.
Fairness ==
  /\ \A k \in Attempts : /\ WF_sessionVars(HeadersReady(k)) /\ WF_sessionVars(Created(k))
                         /\ WF_sessionVars(AttemptCaught(k))
  /\ WF_sessionVars(TimerFires) /\ WF_sessionVars(OnOpen) /\ WF_sessionVars(ReplayOnOpen) /\ WF_sessionVars(OnClose)
  /\ WF_sessionVars(LivenessFails)
  /\ \A s \in Subs : WF_sessionVars(SubscribeContinues(s)) /\ WF_sessionVars(SendUnsubscribe(s))
  /\ \A r \in Reqs : WF_sessionVars(RequestContinues(r))

FairSpec == Spec /\ Fairness

(***************************************************************************)
(* Properties.                                                             *)
(***************************************************************************)

\* How often the exchange has been asked to stream s and has not handled it.
Asked(s) == Cardinality({i \in DOMAIN wire : wire[i] = <<"subscribe", s>>})

\* On an open connection the exchange streams every subscription of the map, or
\* has been asked to, once: whatever connections were lost since it was made,
\* whether or not it was acknowledged, and though both the replay of the open
\* event and the continuation of subscribe may send it.  It streams nothing
\* else, or has been asked to stop.  It holds until a failure that is caught late
\* takes the state of a newer attempt away.
ServedExactly ==
  ~disowned /\ Quiet /\ state = "open" /\ sock[socket] = "open" =>
    /\ \A s \in subs : Asked(s) + (IF s \in server THEN 1 ELSE 0) = 1
    /\ \A s \in server \ subs : \E i \in DOMAIN wire : wire[i] = <<"unsubscribe", s>>

\* A socket that is not closed is this.socket (those of attempts that were
\* abandoned, and those that were replaced, are closed), and a request in
\* this.pending was written to it, on an open connection: scheduleReconnect,
\* failConnection and close leave no request behind that the next connection
\* could never answer.  It holds until a failure that is caught late takes the
\* state of a newer attempt away.
SocketsOwned ==
  ~disowned =>
    /\ \A k \in Attempts : sock[k] \in {"connecting", "open"} => k = socket
    /\ \A r \in pending : state = "open" /\ sentOn[r] = socket

\* A stream that shows "reconnecting" on an open connection is waiting for an
\* acknowledgement that will make it active again, and a stream that has neither
\* failed nor been closed still has its subscription.
StreamsTruthful ==
  \A s \in Subs :
    /\ stream[s] = "reconnecting" /\ state = "open" => pend[s] \in {"again", "replay"}
    /\ stream[s] \in {"active", "reconnecting"} => s \in subs

\* Whoever awaits the connection is told how it went: the deferred survives
\* failed attempts and is settled in the end, so that time and again nobody is
\* waiting.
ConnectSettles == []<>(waiting = {})
=============================================================================
