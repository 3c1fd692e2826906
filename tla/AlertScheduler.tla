--------------------------- MODULE AlertScheduler ---------------------------
(***************************************************************************)
(* The MCP server's alert daemon: its Scheduler, the rules file it shares  *)
(* with the tools of the MCP server (another process, here the editor),    *)
(* and the reloads the tools request after each change.                    *)
(*                                                                         *)
(* Both are event loops: an action runs from one await to the next.  The   *)
(* file is replaced atomically, but AlertStore reads it, changes the       *)
(* contents and writes all of it back, so a write can undo another.        *)
(* All rules watch one symbol and are numbered in the order of the file;   *)
(* the datasources polled over REST are dispatched like the symbol.        *)
(***************************************************************************)
EXTENDS Integers, FiniteSetsExt, Functions

CONSTANTS
  N,           \* rules are 1 .. N
  OneShots,    \* rules that fire once
  Cooldown,    \* of the other rules
  MaxRunning,  \* bound: evaluations, and reloads, that run at a time
  MaxTicks,    \* bound: evaluations
  MaxEvents    \* bound: changes made by the editor, deaths of the daemon, failed
               \* requests of the WebSocket manager, and steps of the clock

Rules == 1 .. N
Ticks == 1 .. MaxRunning
Reloads == 1 .. MaxRunning

VARIABLES
  file,        \* alerts.json: [status, stamp] of each rule; an "absent" one is not yet
               \* created; stamp is lastFiredAt, or 0
  clock,
  memory,      \* RuleState.lastFiredAt of each rule, or 0
  tick,        \* evaluations: "idle"; "listing"; "listed", with the stamps of the rules
               \* still to be dispatched; "notifying" of the first, with the time it
               \* fired; "saving" it, with the contents read
  reload,      \* reloads: "idle", "requested"; "listed", "subscribing" or
               \* "unsubscribing", with the rules it found enabled
  subscribed,  \* the symbol is in subscribedSymbols
  listeners,   \* listeners the scheduler has registered for the symbol
  handle,      \* wsUnsubs can remove one of them
  announced,   \* the daemon's port is known: its start is over
  editor,      \* "idle"; "writing", with the contents; "notifying"
  lastFire,    \* history: when each rule fired last, or 0
  forgotten,   \* history: rules whose memory a reload dropped since
  before,      \* history: rules that fired last before the daemon's last restart
  unsaved,     \* history: rules whose last firing a restart or a write has lost
  hazards,     \* history: what can keep the daemon from following the file
  evaluations, events  \* bounds

daemonVars == <<memory, subscribed, listeners, handle, announced>>
history == <<lastFire, forgotten, before, unsaved, hazards>>
bounds == <<evaluations, events>>
vars == <<file, clock, daemonVars, tick, reload, editor, history, bounds>>

None == [r \in Rules |-> 0]

Idle == [phase |-> "idle"]

\* i is the first of tasks that is idle: they are interchangeable.
FirstIdle(tasks, i) == tasks[i] = Idle /\ \A j \in 1 .. i - 1 : tasks[j] # Idle

\* The first reload is due.
Starting == [l \in Reloads |-> IF l = 1 THEN [phase |-> "requested"] ELSE Idle]

Init ==
  /\ file \in [Rules -> [status : {"absent", "on", "off"}, stamp : {0}]]
  /\ clock = 1 /\ memory = None
  /\ tick = [t \in Ticks |-> Idle] /\ reload = Starting /\ editor = Idle
  /\ subscribed = FALSE /\ listeners = 0 /\ handle = FALSE /\ announced = FALSE
  /\ lastFire = None
  /\ forgotten = {} /\ before = {} /\ unsaved = {} /\ hazards = {}
  /\ evaluations = 0 /\ events = 0

Enabled(contents) == {r \in Rules : contents[r].status = "on"}

TimePasses ==
  /\ events < MaxEvents /\ events' = events + 1
  /\ clock' = clock + 1
  /\ UNCHANGED <<file, daemonVars, tick, reload, editor, history, evaluations>>

\* The file is replaced.  A rule whose last firing it showed and shows no more is
\* unsaved.
Write(contents) ==
  /\ file' = contents
  /\ unsaved' = unsaved \cup
       {r \in Rules : lastFire[r] # 0 /\ file[r].stamp = lastFire[r] /\ contents[r].stamp # lastFire[r]}

(***************************************************************************)
(* Evaluations.                                                            *)
(***************************************************************************)
Tick(t, state) == tick' = [tick EXCEPT ![t] = state]

\* A price arrives.
OnPriceUpdate(t) ==
  /\ listeners > 0 /\ evaluations < MaxTicks /\ FirstIdle(tick, t)
  /\ evaluations' = evaluations + 1
  /\ Tick(t, [phase |-> "listing"])
  /\ UNCHANGED <<file, clock, daemonVars, reload, editor, history, events>>

\* The enabled rules are listed, also when nobody listens any more.
RulesListed(t) ==
  /\ tick[t].phase = "listing"
  /\ Tick(t, IF Enabled(file) = {} THEN Idle
             ELSE [phase |-> "listed", stamps |-> [r \in Enabled(file) |-> file[r].stamp]])
  /\ UNCHANGED <<file, clock, daemonVars, reload, editor, history, bounds>>

\* The rule that is dispatched next.
At(t) == Min(DOMAIN tick[t].stamps)

\* The evaluation goes on with the next rule, or is over.
Advance(t) ==
  LET left == DOMAIN tick[t].stamps \ {At(t)} IN
  Tick(t, IF left = {} THEN Idle
          ELSE [phase |-> "listed", stamps |-> Restrict(tick[t].stamps, left)])

\* evaluateRule: the stamp in memory counts for more than the one listed.
CoolingDown(r, listed) ==
  LET stamp == IF memory[r] # 0 THEN memory[r] ELSE listed IN
  stamp # 0 /\ (r \in OneShots \/ clock - stamp < Cooldown)

\* dispatch of a rule that is cooling down, or whose condition is not met.
Passes(t) ==
  /\ tick[t].phase = "listed"
  /\ Advance(t)
  /\ UNCHANGED <<file, clock, daemonVars, reload, editor, history, bounds>>

\* Mutant: the stamp is left to store.update.
StampedLater(r) == UNCHANGED memory

\* The firing is remembered before anything is awaited.
Stamped(r) == memory' = [memory EXCEPT ![r] = clock]

\* dispatch of a rule that fires, to the notifier.
Fires(t) ==
  LET r == At(t) IN
  /\ tick[t].phase = "listed" /\ ~CoolingDown(r, tick[t].stamps[r])
  /\ Stamped(r)
  /\ Tick(t, [phase |-> "notifying", stamps |-> tick[t].stamps, firedAt |-> clock])
  /\ lastFire' = [lastFire EXCEPT ![r] = clock]
  /\ forgotten' = forgotten \ {r} /\ before' = before \ {r} /\ unsaved' = unsaved \ {r}
  /\ UNCHANGED <<file, clock, subscribed, listeners, handle, announced, reload, editor, hazards, bounds>>

\* The notifier and the logger have returned or thrown, and store.update reads.  It
\* throws if the rule was deleted, which ends the evaluation.
Notified(t) ==
  /\ tick[t].phase = "notifying"
  /\ Tick(t, IF file[At(t)].status = "deleted" THEN Idle
             ELSE [phase |-> "saving", stamps |-> tick[t].stamps, firedAt |-> tick[t].firedAt, read |-> file])
  /\ UNCHANGED <<file, clock, daemonVars, reload, editor, history, bounds>>

\* store.update writes.  A change made since it read is undone.
Saved(t) ==
  LET r == At(t)
      read == tick[t].read IN
  /\ tick[t].phase = "saving"
  /\ Write([read EXCEPT ![r] =
       [status |-> IF r \in OneShots THEN "off" ELSE @.status, stamp |-> tick[t].firedAt]])
  /\ hazards' = hazards \cup
       (IF \E q \in Rules : read[q].status # file[q].status THEN {"undone"} ELSE {})
  /\ Advance(t)
  /\ UNCHANGED <<clock, daemonVars, reload, editor, lastFire, forgotten, before, bounds>>

(***************************************************************************)
(* Reloads.                                                                *)
(***************************************************************************)
Reload(l, state) == reload' = [reload EXCEPT ![l] = state]

Listed(l) == reload[l].phase \in {"listed", "subscribing", "unsubscribing"}

\* The rules are listed, maybe while another reload works on others.
Lists(l) ==
  /\ reload[l].phase = "requested"
  /\ Reload(l, [phase |-> "listed", rules |-> Enabled(file)])
  /\ hazards' = hazards \cup
       (IF \E k \in Reloads : Listed(k) /\ reload[k].rules # Enabled(file) THEN {"overlap"} ELSE {})
  /\ UNCHANGED <<file, clock, daemonVars, tick, editor, lastFire, forgotten, before, unsaved, bounds>>

\* The end of reload: rules that are not enabled are forgotten.
ReloadEnds(l) ==
  /\ memory' = [r \in Rules |-> IF r \in reload[l].rules THEN memory[r] ELSE 0]
  /\ forgotten' = forgotten \cup {r \in Rules \ reload[l].rules : memory[r] # 0}
  /\ Reload(l, Idle)

\* reconcileWsSubscriptions, to its first request or its end.
Reconciles(l) ==
  /\ reload[l].phase = "listed"
  /\ IF subscribed = (reload[l].rules # {})
     THEN ReloadEnds(l)
     ELSE /\ Reload(l, [reload[l] EXCEPT !.phase = IF subscribed THEN "unsubscribing" ELSE "subscribing"])
          /\ UNCHANGED <<memory, forgotten>>
  /\ UNCHANGED <<file, clock, subscribed, listeners, handle, announced, tick, editor,
                 lastFire, before, unsaved, hazards, bounds>>

Subscribed(l) ==
  /\ reload[l].phase = "subscribing"
  /\ listeners' = listeners + 1 /\ handle' = TRUE /\ subscribed' = TRUE
  /\ ReloadEnds(l)
  /\ UNCHANGED <<file, clock, announced, tick, editor, lastFire, before, unsaved, hazards, bounds>>

\* Mutant: the symbol stays in subscribedSymbols.
RemovedInPart == listeners' = (IF handle THEN listeners - 1 ELSE listeners) /\ UNCHANGED subscribed

\* wsUnsubs removes the listener it knows.
Removed == listeners' = (IF handle THEN listeners - 1 ELSE listeners) /\ subscribed' = FALSE

Unsubscribed(l) ==
  /\ reload[l].phase = "unsubscribing"
  /\ Removed /\ handle' = FALSE
  /\ ReloadEnds(l)
  /\ UNCHANGED <<file, clock, announced, tick, editor, lastFire, before, unsaved, hazards, bounds>>

\* The WebSocket manager throws, and so does reload.  (The first reload would end
\* the process.)
ReloadFails(l) ==
  /\ reload[l].phase \in {"subscribing", "unsubscribing"} /\ announced /\ events < MaxEvents
  /\ events' = events + 1
  /\ Reload(l, Idle)
  /\ hazards' = hazards \cup {"failed"}
  /\ UNCHANGED <<file, clock, daemonVars, tick, editor, lastFire, forgotten, before,
                 unsaved, evaluations>>

\* The first reload was the last step of start, and writeDaemonMeta follows.
Announces ==
  /\ ~announced /\ reload[1] = Idle /\ announced' = TRUE
  /\ UNCHANGED <<file, clock, memory, subscribed, listeners, handle, tick, reload, editor, history, bounds>>

(***************************************************************************)
(* The editor: one of the tools changes a rule and requests a reload.      *)
(***************************************************************************)

\* gemini_alert_create, gemini_alert_update and gemini_alert_delete, to the write.
Edits(r, status) ==
  /\ editor = Idle /\ events < MaxEvents
  /\ file[r].status # "deleted" /\ status # file[r].status
  /\ file[r].status = "absent" => status # "deleted"
  /\ events' = events + 1
  /\ editor' = [phase |-> "writing", contents |-> [file EXCEPT ![r].status = status]]
  /\ UNCHANGED <<file, clock, daemonVars, tick, reload, history, evaluations>>

EditWritten ==
  /\ editor.phase = "writing" /\ editor' = [phase |-> "notifying"]
  /\ Write(editor.contents)
  /\ UNCHANGED <<clock, daemonVars, tick, reload, lastFire, forgotten, before, hazards, bounds>>

\* notifyDaemonReload: the daemon starts another reload, or nobody listens at the
\* port that is known.
Notifies ==
  /\ editor.phase = "notifying" /\ editor' = Idle
  /\ \/ /\ announced
        /\ \E l \in Reloads : FirstIdle(reload, l) /\ Reload(l, [phase |-> "requested"])
        /\ UNCHANGED hazards
     \/ /\ ~announced
        /\ hazards' = hazards \cup (IF reload[1].phase = "requested" THEN {} ELSE {"missed"})
        /\ UNCHANGED reload
  /\ UNCHANGED <<file, clock, daemonVars, tick, lastFire, forgotten, before, unsaved, bounds>>

\* The daemon dies at any point, and the supervisor starts it again.
Restart ==
  /\ events < MaxEvents /\ events' = events + 1
  /\ memory' = None /\ tick' = [t \in Ticks |-> Idle] /\ reload' = Starting
  /\ subscribed' = FALSE /\ listeners' = 0 /\ handle' = FALSE /\ announced' = FALSE
  /\ before' = {r \in Rules : lastFire[r] # 0}
  /\ unsaved' = unsaved \cup {r \in before' : file[r].stamp # lastFire[r]}
  /\ forgotten' = {} /\ hazards' = {}
  /\ UNCHANGED <<file, clock, editor, lastFire, evaluations>>

TickStep(t) == OnPriceUpdate(t) \/ RulesListed(t) \/ Passes(t) \/ Fires(t) \/ Notified(t) \/ Saved(t)

ReloadStep(l) == Lists(l) \/ Reconciles(l) \/ Subscribed(l) \/ Unsubscribed(l) \/ ReloadFails(l)

Next ==
  \/ TimePasses
  \/ \E t \in Ticks : TickStep(t)
  \/ \E l \in Reloads : ReloadStep(l)
  \/ \E r \in Rules, status \in {"on", "off", "deleted"} : Edits(r, status)
  \/ EditWritten \/ Notifies
  \/ Announces \/ Restart

Spec == Init /\ [][Next]_vars

-----------------------------------------------------------------------------
Due(r) == lastFire[r] = 0 \/ (r \notin OneShots /\ clock - lastFire[r] >= Cooldown)

FiresNow(t) == tick[t].phase = "listed" /\ tick'[t].phase = "notifying"

\* However many evaluations overlap with each other, with slow notifiers and with
\* reloads, an alert does not fire again within its cooldown, nor a one-shot
\* alert at all, unless a reload has dropped what the daemon remembers of it;
\* after a restart, unless the last firing had not reached the file or another
\* write had undone it.
CooldownHolds ==
  [][\A t \in Ticks : FiresNow(t) =>
        LET r == At(t) IN Due(r) \/ r \in forgotten \/ (r \in before /\ r \in unsaved)]_vars

Quiet == announced /\ editor = Idle /\ \A l \in Reloads : reload[l] = Idle

\* Once reloads are over the symbol is watched if some rule is enabled, although
\* evaluations disable rules and reloads of the same rules may overlap: unless
\* reloads of different rules overlapped, one failed, the daemon was not yet
\* announced when a rule changed, or the save of a firing undid a change.
RulesWatched == Quiet /\ hazards = {} /\ Enabled(file) # {} => subscribed /\ listeners > 0

\* The same although reloads of different rules overlapped: a reload reconciles the
\* subscriptions with the rules it read, after any change of them.  This is not an
\* invariant: the reload of an older reading may act last (see the README).
ReloadsReconcile ==
  Quiet /\ hazards \subseteq {"overlap"} /\ Enabled(file) # {} => subscribed /\ listeners > 0
=============================================================================
