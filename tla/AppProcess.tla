----------------------------- MODULE AppProcess -----------------------------
(***************************************************************************)
(* One server process from its start to its end (startApplication): the    *)
(* connection to MongoDB with its bounded retries, the HTTP server, the     *)
(* inventory reconciliation monitor and the graceful shutdown.              *)
(*                                                                         *)
(* Between two awaits the code runs alone, and what mongoose does to its    *)
(* readyState it tells the listeners at once: a step is the code from one   *)
(* await to the next, or an event from outside - a connection lost or back, *)
(* a tick of the timer, a request, a SIGTERM.                               *)
(*                                                                         *)
(* Log lines are left out, but for the breaches and recoveries the monitor  *)
(* announces.                                                               *)
(***************************************************************************)
EXTENDS Naturals

CONSTANTS
  MaxRetries,    \* DB_CONNECT_MAX_RETRIES
  MonitorEnabled,  \* INVENTORY_RECONCILIATION_MONITOR_ENABLED
  Thresholds,    \* INVENTORY_RECONCILIATION_ALERT_..._THRESHOLD
  BatchSize,     \* INVENTORY_RECONCILIATION_MONITOR_TENANT_BATCH_SIZE
  MaxInFlight,   \* bound: connections that carry requests at once
  MaxTicks       \* bound: ticks of the timer

Metric == {"drift", "failed", "skipped"}

ASSUME ProcessAssumption ==
  /\ MaxRetries \in Nat /\ BatchSize \in Nat /\ MaxInFlight \in Nat /\ MaxTicks \in Nat
  /\ MonitorEnabled \in BOOLEAN
  /\ Thresholds \in [Metric -> Nat \ {0}]

VARIABLES
  phase,      \* where startApplication or shutdown is
  trigger,    \* what asked for the shutdown
  exitCode,   \* of the process: none yet, 0 or 1
  handlers,   \* is the SIGTERM handler registered
  attempt,    \* of the connection
  ready,      \* readyState of the mongoose connection
  client,     \* is there an open MongoClient behind it
  reported,   \* the state the connection manager keeps for /health
  server,     \* the HTTP server
  inflight,   \* requests being served, each on its connection
  idle,       \* connections that have been answered since the server is closing
  timer,      \* is the interval of the monitor set
  sweep,      \* where the running sweep is
  left,       \* tenants it has yet to check
  found,      \* what it has found: has any tenant drifted, has any check failed
  snapshot,   \* monitorSnapshot: its status and its counters
  announced,  \* the alerts the log last said are breached
  ticks

process == <<phase, trigger, exitCode, handlers, attempt>>
database == <<ready, client, reported>>
http == <<server, inflight, idle>>
monitor == <<timer, sweep, left, found, snapshot, announced, ticks>>
processVars == <<process, database, http, monitor>>

Disconnected == "disconnected"
Starting == {"new", "connecting", "waiting", "bootstrap", "listen", "giving_up"}
Stopping == {"closing", "disconnecting"}
Final == {"failed", "stopped", "stop_failed", "killed"}
Ready == {Disconnected, "connected", "connecting", "disconnecting"}

ProcessTypeOK ==
  /\ phase \in Starting \cup {"ready"} \cup Stopping \cup Final
  /\ trigger \in {"none", "manual", "SIGTERM"}
  /\ exitCode \in {"none", "zero", "one"}
  /\ handlers \in BOOLEAN
  /\ attempt \in 0..(MaxRetries + 1)
  /\ ready \in Ready /\ reported \in Ready
  /\ client \in {"open", "closed"}
  /\ server \in {"none", "listening", "closing", "closed"}
  /\ inflight \in 0..MaxInFlight /\ idle \in 0..(MaxInFlight - inflight)
  /\ server # "closing" => idle = 0
  /\ timer \in BOOLEAN
  /\ sweep \in {"none", "settings", "tenants", "checks"}
  /\ left \in 0..BatchSize
  /\ found \in SUBSET {"drift", "failed"}
  /\ snapshot \in [status : {"disabled", "idle", "running"}, drift : Nat, failed : Nat, skipped : Nat]
  /\ announced \subseteq Metric
  /\ ticks \in Nat
  /\ ready = "connected" => client = "open"

ProcessInit ==
  /\ phase = "new" /\ trigger = "none" /\ exitCode = "none"
  /\ handlers = FALSE /\ attempt = 0
  /\ ready = Disconnected /\ reported = Disconnected /\ client = "closed"
  /\ server = "none" /\ inflight = 0 /\ idle = 0
  /\ timer = FALSE /\ sweep = "none" /\ left = 0 /\ found = {}
  /\ snapshot = [status |-> "disabled", drift |-> 0, failed |-> 0, skipped |-> 0]
  /\ announced = {} /\ ticks = 0

-----------------------------------------------------------------------------
(* The connection and its manager.                                          *)

\* updateState, told by the listeners or by the manager itself.
Becomes(state) == ready' = state /\ reported' = state

\* The driver loses the connection and finds it again: the MongoClient stays open.
Lose ==
  /\ phase # "killed" /\ ready = "connected"
  /\ Becomes(Disconnected)
  /\ UNCHANGED <<client, process, http, monitor>>

Return ==
  /\ phase # "killed" /\ ready = Disconnected /\ client = "open"
  /\ Becomes("connected")
  /\ UNCHANGED <<client, process, http, monitor>>

\* One attempt of connect begins.
Attempt(n) ==
  /\ attempt' = n
  /\ phase' = "connecting"
  /\ Becomes("connecting")
  /\ UNCHANGED client

ConnectSucceeds ==
  /\ phase = "connecting"
  /\ Becomes("connected") /\ client' = "open"
  /\ phase' = "bootstrap"
  /\ UNCHANGED <<trigger, exitCode, handlers, attempt, http, monitor>>

\* Mutated form of ConnectFails: one attempt too many.
ConnectFailsLate ==
  /\ phase = "connecting"
  /\ Becomes(Disconnected)
  /\ IF attempt = MaxRetries + 2 THEN phase' = "failed" /\ exitCode' = "one"
     ELSE phase' = "waiting" /\ UNCHANGED exitCode
  /\ UNCHANGED <<client, trigger, handlers, attempt, http, monitor>>

\* The last attempt fails the start.
ConnectFails ==
  /\ phase = "connecting"
  /\ Becomes(Disconnected)
  /\ IF attempt = MaxRetries + 1 THEN phase' = "failed" /\ exitCode' = "one"
     ELSE phase' = "waiting" /\ UNCHANGED exitCode
  /\ UNCHANGED <<client, trigger, handlers, attempt, http, monitor>>

\* Mutated form of RetryConnect: the attempts are not counted.
RetryUncounted ==
  /\ phase = "waiting"
  /\ Attempt(attempt)
  /\ UNCHANGED <<trigger, exitCode, handlers, http, monitor>>

RetryConnect ==
  /\ phase = "waiting"
  /\ Attempt(attempt + 1)
  /\ UNCHANGED <<trigger, exitCode, handlers, http, monitor>>

\* disconnect: a connection that is down is taken to be closed.
Disconnect(closing, closed) ==
  IF ready = Disconnected THEN closed /\ UNCHANGED database
  ELSE /\ Becomes("disconnecting")
       /\ closing
       /\ UNCHANGED client

-----------------------------------------------------------------------------
(* The monitor.                                                             *)

\* refreshInventoryReconciliationAlerts.
Alerts(s) == {m \in Metric : s[m] >= Thresholds[m]}

\* emitSloTransitions: a breach is announced, and the recovery of two of the metrics.
Emit(s) == announced' = Alerts(s) \cup (announced \cap {"skipped"})

\* executeSweep finds no sweep running.
SweepStarts(s) ==
  /\ snapshot' = [s EXCEPT !.status = "running"]
  /\ sweep' = "settings"
  /\ UNCHANGED <<left, found, announced>>

\* The sweep has ended: markInventoryReconciliationRunCompleted or ...RunFailed.
SweepEnds(s) ==
  /\ snapshot' = [s EXCEPT !.status = "idle"]
  /\ Emit(s)
  /\ sweep' = "none" /\ left' = 0 /\ found' = {}
  /\ UNCHANGED <<timer, ticks, process, database, http>>

Completed(f) ==
  [snapshot EXCEPT !.drift = IF "drift" \in f THEN @ + 1 ELSE 0,
                   !.failed = IF "failed" \in f THEN @ + 1 ELSE 0]

\* Mutated form of Tick: a tick that is skipped is not announced.
TickQuietly ==
  /\ timer /\ phase # "killed" /\ ticks < MaxTicks
  /\ ticks' = ticks + 1
  /\ IF sweep = "none" THEN SweepStarts(snapshot)
     ELSE /\ snapshot' = [snapshot EXCEPT !.skipped = @ + 1]
          /\ UNCHANGED <<sweep, left, found, announced>>
  /\ UNCHANGED <<timer, process, database, http>>

\* The interval calls executeSweep: a tick that finds a sweep running is skipped.
Tick ==
  /\ timer /\ phase # "killed" /\ ticks < MaxTicks
  /\ ticks' = ticks + 1
  /\ IF sweep = "none" THEN SweepStarts(snapshot)
     ELSE /\ snapshot' = [snapshot EXCEPT !.skipped = @ + 1]
          /\ Emit([snapshot EXCEPT !.skipped = @ + 1])
          /\ UNCHANGED <<sweep, left, found>>
  /\ UNCHANGED <<timer, process, database, http>>

\* The tenants of the rollout, and those of them that are active.
FindTenants ==
  /\ phase # "killed" /\ ready = "connected"
  /\ \/ sweep = "settings" /\ sweep' = "tenants"
     \/ sweep = "tenants" /\ sweep' = "checks"
  /\ \E n \in (IF sweep = "settings" THEN 1..BatchSize ELSE 0..left) : left' = n
  /\ UNCHANGED <<timer, found, snapshot, announced, ticks, process, database, http>>

\* No tenant matches, or every tenant has been checked.
SweepCompletes ==
  /\ phase # "killed"
  /\ \/ sweep = "settings" /\ ready = "connected"
     \/ sweep = "checks" /\ left = 0
  /\ SweepEnds(Completed(found))

\* getReconciliation of one tenant: in order, drift, or an error that is only counted.
CheckTenant ==
  /\ phase # "killed" /\ sweep = "checks" /\ left > 0
  /\ left' = left - 1
  /\ \/ ready = "connected" /\ (found' = found \/ found' = found \cup {"drift"})
     \/ found' = found \cup {"failed"}
  /\ UNCHANGED <<timer, sweep, snapshot, announced, ticks, process, database, http>>

SweepFails ==
  /\ phase # "killed" /\ sweep \in {"settings", "tenants"}
  /\ SweepEnds([snapshot EXCEPT !.failed = @ + 1])

\* startInventoryReconciliationMonitor: the first sweep starts at once.
StartMonitor ==
  IF MonitorEnabled THEN timer' = TRUE /\ SweepStarts(snapshot) /\ UNCHANGED ticks
  ELSE UNCHANGED monitor

-----------------------------------------------------------------------------
(* startApplication.                                                        *)

\* buildGoLiveConfigurationReadiness: in production a delivery key may be missing.
PreflightFails ==
  /\ phase = "new"
  /\ phase' = "failed" /\ exitCode' = "one"
  /\ UNCHANGED <<trigger, handlers, attempt, database, http, monitor>>

\* connect, of a manager that has not connected yet.
Start ==
  /\ phase = "new"
  /\ Attempt(1)
  /\ UNCHANGED <<trigger, exitCode, handlers, http, monitor>>

\* After an error the start disconnects and rejects.
GiveUp ==
  /\ Disconnect(phase' = "giving_up" /\ UNCHANGED exitCode, phase' = "failed" /\ exitCode' = "one")
  /\ UNCHANGED <<trigger, handlers, attempt, http, monitor>>

BootstrapSettings ==
  /\ phase = "bootstrap"
  /\ ready = "connected"
  /\ phase' = "listen"
  /\ UNCHANGED <<trigger, exitCode, handlers, attempt, database, http, monitor>>

BootstrapFails == phase = "bootstrap" /\ GiveUp

\* The server listens: monitor and handler follow in the same turn.
Listen ==
  /\ phase = "listen"
  /\ phase' = "ready" /\ server' = "listening" /\ handlers' = TRUE
  /\ StartMonitor
  /\ UNCHANGED <<trigger, exitCode, attempt, database, inflight, idle>>

ListenFails == phase = "listen" /\ GiveUp

-----------------------------------------------------------------------------
(* Requests.                                                                *)

Accept ==
  /\ phase # "killed" /\ server = "listening" /\ inflight < MaxInFlight
  /\ inflight' = inflight + 1
  /\ UNCHANGED <<server, idle, process, database, monitor>>

\* close ends the connections that are idle then, and accepts no other; one that was
\* busy may be kept alive and carry the next request.
AcceptOnIdle ==
  /\ phase # "killed" /\ server = "closing" /\ idle > 0
  /\ inflight' = inflight + 1 /\ idle' = idle - 1
  /\ UNCHANGED <<server, process, database, monitor>>

Respond ==
  /\ phase # "killed" /\ inflight > 0
  /\ inflight' = inflight - 1
  /\ \/ UNCHANGED idle
     \/ server = "closing" /\ idle' = idle + 1
  /\ UNCHANGED <<server, process, database, monitor>>

\* keepAliveTimeout, or the client.
CloseIdle ==
  /\ phase # "killed" /\ idle > 0
  /\ idle' = idle - 1
  /\ UNCHANGED <<server, inflight, process, database, monitor>>

-----------------------------------------------------------------------------
(* shutdown.                                                                *)

\* shutdown runs once, whoever asks for it first: the monitor stops, the server closes.
Shutdown(who) ==
  IF trigger # "none" THEN UNCHANGED <<phase, trigger, server, timer>>
  ELSE /\ trigger' = who
       /\ phase' = "closing"
       /\ server' = "closing"
       /\ timer' = FALSE

\* The caller of startApplication holds the shutdown.
ShutdownCalled ==
  /\ phase \in {"ready"} \cup Stopping
  /\ Shutdown("manual")
  /\ UNCHANGED <<exitCode, handlers, attempt, database, inflight, idle, sweep, left, found,
                 snapshot, announced, ticks>>

\* once: the handler is there for one signal; a signal nobody handles ends the process.
Signal ==
  /\ phase # "killed"
  /\ IF handlers
     THEN handlers' = FALSE /\ Shutdown("SIGTERM")
     ELSE phase' = "killed" /\ UNCHANGED <<handlers, trigger, server, timer>>
  /\ UNCHANGED <<exitCode, attempt, database, inflight, idle, sweep, left, found,
                 snapshot, announced, ticks>>

\* The shutdown has ended; its handlers are disposed of.
Shut(how, code) ==
  /\ phase' = how
  /\ exitCode' = IF trigger = "SIGTERM" THEN code ELSE exitCode
  /\ handlers' = FALSE

\* Mutated form of ServerClosed: the requests under way are not waited for.
ServerClosedAtOnce ==
  /\ phase = "closing" /\ idle = 0
  /\ server' = "closed"
  /\ Disconnect(phase' = "disconnecting" /\ UNCHANGED <<exitCode, handlers>>, Shut("stopped", "zero"))
  /\ UNCHANGED <<trigger, attempt, inflight, idle, monitor>>

\* close calls back when the last connection has ended, and with no error: the server
\* was listening.  Then disconnect.
ServerClosed ==
  /\ phase = "closing" /\ inflight = 0 /\ idle = 0
  /\ server' = "closed"
  /\ Disconnect(phase' = "disconnecting" /\ UNCHANGED <<exitCode, handlers>>, Shut("stopped", "zero"))
  /\ UNCHANGED <<trigger, attempt, inflight, idle, monitor>>

\* What the end of disconnect means: the start has failed, or the shutdown is over.
AfterDisconnect(how, code) ==
  /\ phase \in {"giving_up", "disconnecting"}
  /\ IF phase = "giving_up" THEN phase' = "failed" /\ exitCode' = "one" /\ UNCHANGED handlers
     ELSE Shut(how, code)
  /\ UNCHANGED <<trigger, attempt, http, monitor>>

DisconnectSucceeds ==
  /\ AfterDisconnect("stopped", "zero")
  /\ Becomes(Disconnected) /\ client' = "closed"

\* The start ignores the error, the shutdown fails with it.
DisconnectFails ==
  /\ AfterDisconnect("stop_failed", "one")
  /\ \E state \in {Disconnected, "disconnecting"} : Becomes(state)
  /\ UNCHANGED client

-----------------------------------------------------------------------------
StartOrStop ==
  \/ PreflightFails \/ Start \/ ConnectSucceeds \/ ConnectFails \/ RetryConnect
  \/ BootstrapSettings \/ BootstrapFails \/ Listen \/ ListenFails
  \/ ServerClosed \/ DisconnectSucceeds \/ DisconnectFails

ProcessNext ==
  \/ StartOrStop
  \/ ShutdownCalled \/ Signal
  \/ Lose \/ Return
  \/ Accept \/ AcceptOnIdle \/ Respond \/ CloseIdle
  \/ Tick \/ FindTenants \/ CheckTenant \/ SweepCompletes \/ SweepFails

ProcessSpec == ProcessInit /\ [][ProcessNext]_processVars

\* The event loop runs what has been called back, a handler answers its request, and a
\* connection that stays idle times out.
FairProcess ==
  ProcessSpec /\ WF_processVars(StartOrStop) /\ WF_processVars(Respond) /\ WF_processVars(CloseIdle)

-----------------------------------------------------------------------------
(* Properties.                                                              *)

\* What /health and the log say is so: the state of the database is that of the connection
\* (ENTORNOS_Y_RESILIENCIA.md, section 8: "health coherente con el estado real"), the
\* monitor is running exactly while a sweep is, and the alerts that have been announced and
\* not recovered are those of the snapshot (connection.ts:226, inventory-reconciliation-
\* monitor.ts:198).
HealthTellsTheTruth ==
  /\ reported = ready
  /\ snapshot.status = "running" <=> sweep # "none"
  /\ announced = Alerts(snapshot)

\* The process disconnects when nothing is left that needs the database but a sweep; a
\* shutdown that is over has closed all there was to close, unless the connection happened
\* to be down: disconnect then leaves a client that goes on reconnecting (connection.ts:351,
\* ENTORNOS_Y_RESILIENCIA.md, section 7: "cerrar DB correctamente").
ShutdownReleases ==
  [][/\ phase' = "disconnecting" => inflight' = 0 /\ server' = "closed" /\ ~timer'
     /\ phase' = "stopped" /\ phase # "stopped" =>
          /\ inflight' = 0 /\ server' = "closed" /\ ~timer'
          /\ client' = "closed" \/ ready = Disconnected]_processVars

\* The clients do not go on for ever with requests on connections they keep busy:
\* nothing in the code ends those (runtime.ts:114 waits for close without a limit).
ClientsStop == <>[][~AcceptOnIdle]_processVars

\* A start ends ready or failed, after a bounded number of attempts, and a shutdown ends
\* however many requests it finds and whatever the connection does meanwhile, when the
\* clients stop (runtime.ts:133, 255).
StartsAndStopsEnd ==
  /\ phase \in Starting ~> phase \notin Starting
  /\ ClientsStop => (phase \in Stopping ~> phase \in Final)
=============================================================================
