# Leetha: TLA+ models and proofs

Leetha watches a network passively, builds a host and device inventory from what it
hears, and raises findings about it. This directory holds TLA+ models of its core, the
TLC configurations that check them on small instances, and TLAPS proofs of the main
properties for every instance. Paths below are relative to `src/src/leetha/`, those of the
Rust sensor to `src/sensor/`.

## 1. The system

### Components, their state and their operations

| Component | State | Operations that change it |
|---|---|---|
| Packet pipeline (`core/pipeline.py`) | per-MAC caches: evidence buffer, OUI vendors, gateway flags, finished look-ups, last-seen times | `process`: learn gateways, scrub, evict, look up, cross-validate, fix the address, upsert the host, run rules, mark known, store the verdict, resolve the identity |
| Evidence fusion (`evidence/engine.py`) | none | `compute`, `cap_evidence` |
| Tables (`store/hosts.py`, `verdicts.py`, `overrides.py`, `findings.py`, `identities.py`, `snapshots.py`, `database.py`) | SQLite rows, one connection per thread | upserts with conflict clauses, status changes, pruning, clearing |
| Automatic baseline (`baseline.py`, `sensor_state` row) | first capture, last discovery, window closed, heartbeat | minute tick, burst re-entry, outage recovery, finish, restart |
| Device rows (`store/database.py`) | `devices`, `_known_macs` | `upsert_device`, authorization, presence, clear |
| Presence (`presence/sweeper.py`, `rules/presence.py`, `app.py:_check_infra_offline`) | `is_online`, offline findings | sweep, transition callback, infrastructure check |
| Rules (`rules/`) | module-level cooldowns | evaluate: new_host, low_certainty, identity_shift, randomization, behaviour |
| Web and CLI (`ui/web/routers`, `cli_*.py`) | none of their own | marks, overrides, authorization, findings, imports, learning window, clear |
| Spoofing detection (`analysis/spoofing.py`) | bindings, flip histories, cooldowns | ARP inspection, device update, gateway learning |
| Capture (`capture/engine.py`, `dedup.py`) | sniffer threads, TTL cache | start, stop, deduplicate |
| Remote sensor (`sensor/src/main.rs`, `buffer.rs`) | capture threads, a channel of frames, a ring buffer | connect and reconnect, capture, forward, start and stop on command |
| Sensor server (`capture/remote/`, `ui/web/routers/remote.py`) | sessions by name, the saved selection of interfaces | accept, restore the selection, ingest frames, start, stop, disconnect |
| Probing (`probe/scheduler.py`) | probe targets, pool | none in use: the scheduler is built and shut down, but given no work |
| Inventory scheduler (`inventory/scheduler.py`) | importer configurations, backoff | tick, success, failure |
| Application (`app.py`) | tasks, process thread, subscribers | start, stop, watchdog, fan-out |

### How they interact

Four kinds of actors share the database. The *process thread* takes packets off the
capture queue and runs `Pipeline.process` on its own event loop, its own `Pipeline` object
and its own SQLite connection. The *application's event loop* runs the sweeper, the
baseline loop, the analysis loop, the one-shot re-evaluation and the sensor listener. The
*web handlers* run on that loop too under `run_web_async`; under `run_web` the application
and the sensor listener live on the loop of a background thread and the web handlers on
uvicorn's own loop (`ui/web/app.py:3784-3852`), so that a handler of a sensor and a request
interleave anywhere, not only at an `await`. *CLI commands* are other processes on the same
file. Every connection is opened with `isolation_level=None` and autocommits
(`store/database.py:417`), so `commit()` does nothing, the unit of interleaving is one
statement (or one explicit transaction), and whatever a coroutine read before an `await`
may be stale after it. `Database._mu` keeps the writers of one process apart; a command has
a lock of its own. Remote sensors are processes on other machines that talk to the server
over one WebSocket connection each. The process thread writes `hosts`, `verdicts` and
`findings`, never `devices`; the sweeper and the importers write `devices`.

The order of start matters: the process thread and the sensor listener run, and
`start_capture` starts the capture engine, before `_detect_local_macs` has collected this
machine's own addresses (`app.py:264-273, 349-352`). A failed detection is only logged.
`_probe_result_callback` (`app.py:1387`) has no caller, and the models have no action for it.

### What is hard

* Interleavings at every `await` between the process thread and the other loops, on rows
  that are read, changed in memory and written back whole.
* Two threads that share a sensor's session object and the file of saved selections
  without a lock.
* Corrections of several autocommitted statements, one of which may fail unnoticed.
* Errors: nearly every database access of `process` is wrapped in a `try` that swallows it.
* Kills and restarts between two writes that belong together; outages of the sensor;
  connections that end without either side noticing at once.
* Blocking: sensor threads that wait for room in a channel, and a task that waits for
  the threads.
* Caches that must agree with each other (`_evidence_buffer`, `_oui_vendors`,
  `_last_seen`, `_lookup_done`) or with a table (`_known_macs`).
* Order of arrival: a MAC may be found to be a gateway before, after or between the
  packets whose evidence this discredits.

The hazards are listed one by one, with the line where they bite, in `PROJECT.json`.

### What makes each part correct

* Pipeline: gateways do not take the identity of what they reflect; addresses are not
  stolen by forwarded traffic; every host is announced exactly once, and this machine
  not any more once it knows its addresses; the caches can be emptied.
* Operator actions: what the operator sets is what the row says.
* Baseline: learning ends; what is stamped stays stamped; every discovery counts;
  warnings agree with the stamp; a reopened window really learns.
* Presence: what is shown is one sample of all devices and does not stay wrong; one open
  offline finding per outage and author, resolved on return.
* Authorization: the audit trail agrees with the row and is a path; the cleanup of bulk
  approvals spares what a human decided.
* Findings: what is resolved stays resolved until somebody reopens it; no snooze is for ever.
* Sensors: the sensor captures what the operator selected, the server shows what the
  sensor does, one session per name, frames in order and once, no thread left over
  without a cause, a stop that stops and is not undone.
* Spoofing, deduplication, importers: one alert per cooldown, backoff that resets.

## 2. Modules

| Module | What it is |
|---|---|
| `Pipeline` | the packet pipeline and every other writer of the rows it shares |
| `MCPipeline` | instances for TLC |
| `PipelineProofs` | type correctness, gateway evidence |
| `AnnounceProofs` | announcements, eviction, addresses |
| `Baseline` | learning window, device rows, grading of new_host |
| `MCBaseline` | instances for TLC |
| `BaselineProofs` | type correctness, warnings, stamps, the discovery clock |
| `Presence` | sweeper, transition findings, infrastructure check, and what races with them |
| `PresenceView` | abstract specification of the presence column, implemented by `Presence` |
| `MCPresence` | instances for TLC |
| `PresenceProofs` | type correctness, the refinement, findings |
| `Triage` | authorization with its audit trail, the life of findings |
| `MCTriage` | instances for TLC |
| `TriageProofs` | type correctness, audit trail, cleanup, resolved findings |
| `Sensor` | one remote sensor, its connections, and the server's side of them |
| `MCSensor` | instances for TLC |
| `SensorProofs` | type correctness, selection, sessions, threads, the hang |
| `FrameProofs` | frames arrive in order and once |
| `ShownProofs` | the shown state is the sensor's |

### Pipeline

`Receive` is `process` up to its first use of the host row; it only touches the thread's
memory, so it is one step. Then one action per database access: `CheckGatewayIp`,
`CheckPublicIp`, `ReadDisposition`, `UpsertHost`, `EvaluateRules`, `MarkKnown`,
`StoreVerdict`. `cur`, `evs`, `lip` and `ldisp` are the handler's locals. With
`DbFaults`, each access may fail the way the code's `except` clauses allow.

The other writers are actions between them: `WebRead`/`SetOverride`/`WebWrite` (bulk mark
and override, which read a row, await, and write it back), `WebUnmark`/`ForgetOverride`,
`Import`, `ClearVerdicts`/`ClearHosts`/`ClearFindings`,
`ReevaluateRead`/`ReevaluateWrite`, and `Restart`, which drops all memory and keeps the
database. `DetectLocalMacs` adds any part of this machine's addresses to `detected`, at any
moment and possibly never; until then its interfaces are treated like any other host. `Restart` stands for a kill at any point.

Data is abstracted to what the properties tell apart. Evidence is its source class (OUI,
gateway, forwarded multicast, the device's own), its vendor and what
cross-validation left of its certainty; vendors are compared for equality where the code
uses a substring match. A verdict is its evidence chain. A host row is its disposition
and IPv4 address. The dominant vendor among the votes is any vendor with a vote.
`found` counts the new_host findings of a MAC and saturates at 2.

`excused`, `reset`, `raced` and `blind` are history variables. They record the events that
legitimately break a promise (an operator marks a host known; a swallowed fault, a kill
or a clear comes between two writes; another writer touches the row during a packet; the addresses are detected between
the disposition a packet was judged by and its finding), so that the properties say exactly what is left when none of these happened.

### Baseline

Time is counted in units of a quarter of an hour, the learning floor. The baseline loop
beats every minute, so it beats in every unit in which the sensor runs (`Advance`).
`TickRead`, `TickBurst`, `TickClose` and `TickBeat` are `evaluate_window` and
`record_heartbeat` between awaits; `TickReenter`, `TickDowngrade` and `TickReopen` are the
three statements of `apply_burst_reentry`, which commit one by one. The failure of the
second is swallowed; any other error ends the tick (`TickFail`), and a kill may come between
any two. `Begin`, `LoadKnown`, `StampContext`, `WriteDevice` and `RecordDiscovery` are
`upsert_device` between awaits, run by two concurrent writers: the
sweeper, which inserts the rows missing from its snapshot, and the DHCP lease upload, which
then writes the host too (`ImportHost`). The packet thread is reduced to `Capture`,
`GradeNewHost` and `AddFinding`. `Crash`, `Start` and `Recover` are an outage; sweeper,
web and capture are up before the outage check runs, as in `LeethaApp.start`.
`crossed` marks the MACs whose grading overlapped a correction, a kill or a clear, `torn`
those whose correction a fault or a kill cut between contexts and findings, `relearn` the time at which an outage last reopened the window.

### Presence

`SweepRead` is the query of `sweep_once`, with the rows the loop will have to treat;
`SweepInsert` and `SweepFlip` are its accesses per row, in any order because the query
has none, and `Callback` is one call of `handle_presence_transition`. `SweepFails` and
`CallbackFails` are failed accesses: the first drops the pass with all its callbacks, the
second leaves one finding unwritten or unresolved. `InfraBegin`, `InfraHost`, `InfraLook`,
`InfraAdd`, `InfraFails` and `InfraEnds` are `_check_infra_offline` between its awaits. Packets, the
operator (`PatchThreshold`, `Resolve`, the three steps of a clear) and `Restart` come in
between. A host is its `last_active`, a device row its `is_online`, `last_seen` and
threshold; the thresholds by type and randomization are the constant `Usual`. Time is
counted in the 30 seconds within which `last_active` does not move. `lost` is a history
variable: a fault or a clear hit the findings of the device since it last came online.

`PresenceView` says what the column promises: a value that was sampled for all devices at
one instant, or "online" for a forgotten one. `Presence` implements it with `Fresh` as the
real state, `sampled` as the sample and `Shown` as the column.

### Triage

One device and its new_host findings. A request goes through the stages of its handler:
`Ensure` (`_ensure_device_row`), `ReadState`, `Update`, `Insert`, `Silence` for a
decision; `ResetRead` or `CleanupRead` and then `Update` and `Insert` for
`baseline_reset` and `clear_baseline_attestations`; `List` and `Apply` for the incident
handlers, which list first and update one finding at a time. Requests come from the
server, where `Free` is `Database._mu`, or from commands, which are not held back by it.
`torn`, and `seen`, `clean`, `alone` and `solo` of a request or row, are history
variables: they say whether another write, a fault or a clear came between the parts of
a write.

### Sensor

The sensor is modelled in both modes. In controlled mode the server chooses the
interfaces; `Command` takes a command off the wire and raises the stop flags,
`ThreadStops` is a thread that sees its flag, and `StartCaptures` and `StopCaptures` go on
once all are `Joined`. A thread blocked on the full channel holds its frame in `held` and
continues with `Unblock`. In direct mode (`-i`) one thread captures from the start and
frames wait in the channel and in the ring buffer while there is no connection
(`ConnectFails`, `DirectSendFails`, `drain`). Each connection has a number; the wire is
two queues per connection, which keep their order and lose what is written after the
connection is cut (`Cut`, `Leave`), as TCP does.

An operator submits a *list* of interfaces, kept as the set of its names and the set of
those that come twice: `StartCaptures` then starts two threads under one name, and the one
whose handle is overwritten goes to `stray`, where no stop flag reaches it.

On the server, `Accept`, `Receive` and `HandlerEnds` are `handle_sensor`. The restored
selection is loaded (`Restore`), sent (`RestoreSend`) and shown (`RestoreShow`) in three
steps; a request opens and so empties the file (`WebBegin`), fills it (`WebSave`), sends
(`WebSend`) and, when its send has returned, sets the session's state (`Resume`). The steps
of the two interleave freely, as on two threads; `SetTogether` is `set_state` run by both at
once, which may mix the two states. `crossed` is a history variable: the connections on
which a request was sent between the load and the send of a different selection, or whose
load met the save of a request to an earlier connection. `ServerCrash` while `Saving`
leaves the file truncated, as `_save` writes it in place. Frames are numbered; the ring
holds frames of one size.

## 3. Runs

| Run | Checks | Expected |
|---|---|---|
| `PipelineEvidence` | `GatewayEvidenceClean`, `Evictable`, `AddressKept` | pass (2.2 M states) |
| `PipelineAnnounce` | `TypeOK`, `KnownAnnounced`, `NewHostOnce`, `LocalNeverAnnounced` | pass (0.65 M states) |
| `BaselineWindow` | `TypeOK`, `WarningMonitored`, `DiscoveryCounted`, `ContextFinal`, `LearningEnds` | pass (0.94 M states) |
| `PresenceSweep` | `TypeOK`, `FindingsTrackRows`, `OneOpenPerOutage`, `ImplementsView`, `ViewConverges` | pass (0.48 M states) |
| `TriageDecisions` | `TypeOK`, `AuditAgrees`, `AuditIsPath`, `HandApprovalKept`, `ResolvedStays`, `SnoozeEnds` | pass (0.32 M states) |
| `SensorSession` | `TypeOK`, `CaptureMatchesSelection`, `ShownMatchesSensor`, `OneSession`, `FramesInOrder`, `LeakHasCause`, `HangIsFinal` | pass (2.7 M states) |
| `PipelineReflected` | `GatewayIdentityNotReflected` | violated |
| `PipelineOverride` | `OverrideSynced` | violated |
| `BaselineGrading` | `GradeMatchesStamp` | violated |
| `BaselineOutage` | `OutageRelearned` | violated |
| `SensorStop` | `CaptureStops` | violated |
| `SensorRestore` | `StopHolds` | violated |

**PipelineEvidence** has two MACs and a cache bound of one, so the packets of one MAC
evict the other and gateways lose and regain their cached vendor. The router's packets
are an OFFER, a Router Advertisement, reflected multicast of the other vendor with a
public address, and ARP from a second LAN address. The bridge is infrastructure by its OUI. Imports write a
row before the first packet.

**PipelineAnnounce** has one MAC, because rows of different MACs do not interact, and all
writers, faults and restarts at once. The MAC may be found to be this machine's own at any
moment, or never.

**BaselineWindow** has one MAC written by both writers, a burst threshold of one so that
one device is a burst, and one outage, failed tick or request (`MaxOps`), which is enough
for each to meet every state of the others. The swallowed failure of the correction is not
bounded. It runs in automatic mode with a cap above and below the
floor, and in manual mode. `LearningEnds` needs weak fairness of the baseline loop:
`_baseline_loop` catches every exception and runs as long as the process does.

**PresenceSweep** has a device of infrastructure and an ordinary one, a threshold of one
unit that the operator may double, and a clock of two units, so that a device can go
silent, come back and go silent again around one pass. One upset (request, failed access,
clear or restart) may hit any step. `ViewConverges` needs weak fairness of the sweeper's
own steps: `run` catches every exception and starts a pass every minute. Failed passes
are limited by the bound on upsets.

**TriageDecisions** has two requests in progress at a time, each from the web or a
command, and two faults. Operators may give `baseline` as their reason: the cleanup
recognizes bulk approvals by this text, so `AuditAgrees` and `AuditIsPath` are stated for
trails in which only approvals carry it (`Honest`). The device may start as approved by
the old `baseline set`. `SnoozeEnds` needs weak fairness of the clock and of
`_unsnooze_loop`, which catches every exception. Deadlock is not checked: once the
bounded requests are done nothing needs to happen.

**SensorSession** has one interface, a channel of one frame and a ring of two, so that
threads block and the ring overflows, two connections, so that the second meets the end of
the first and restores its selection, two requests and two faults. `FewFrames` gives each
mode the bounds it needs: three frames and one request in direct mode, which reads no
command, two frames and two requests in the other, which has no ring. The operator's list
names the interface twice; a list that names it once behaves like one whose second thread
captures nothing. Deadlock is not checked: the stuck stop below is one, and so are exhausted
bounds. `HangIsFinal` says how final that stop is.

The violated runs state what a comment or a page of the documentation says and show the
code doing something else:

1. *Reflected identity.* Gateway learning creates the buffer entry whose absence triggers
   the OUI look-up. A router first heard as a DHCP server has no OUI vendor, and a
   reflected packet of another vendor becomes its own reference.
2. *Override.* `hosts.upsert` never leaves `known`, so an override or a bulk mark to
   `suspicious` on a known host has no effect on the host.
3. *Grading.* The rule reads the context from a row the sweeper has not inserted yet and
   grades INFO; the sweeper then stamps the device `monitored`.
4. *Outage.* The window is reopened, but elapsed time is still measured from the first
   start and is past the cap: the first tick closes the window again.
5. *Stop.* `stop_captures` waits for the capture threads in the task that empties their
   channel. A thread that waits for room in the full channel never sees its stop flag:
   the sensor hangs, although the documentation says it stops all threads. The run assumes
   that threads and the loop keep running (`Fairness`).
6. *Restore.* A sensor reconnects, its handler loads the saved selection, and before it
   sends it an operator's stop is saved and sent from the other thread. The sensor receives
   the stop and then the old selection: it captures although nothing is selected, and no
   later message corrects it.

One more disagreement is modelled without a run of its own: the documentation says that
*Disconnect* closes the sensor's connection; `disconnect_sensor` only forgets the session.
The connection's handler keeps ingesting, and when it ends it unregisters whatever session
the name then stands for. `OneSession` and `FramesInOrder` are therefore stated for
histories in which nobody used it (`kicked`).

Some hazards of `PROJECT.json` name no property although they are modelled. There the code
does break the promise, and the property excuses exactly that case with a history variable:
another writer between the check and the write of an address (`raced`), a fault or a clear
between a device row and its findings (`lost`), two writes of an audit trail that overlap
(`solo`), a disconnected sensor (`kicked`), a burst correction that was cut short (`torn`).
A kill between the correction's last two statements leaves the burst's devices stamped
`learning` under a window that is still closed; no property says otherwise. A truncated
`sensor_config.json` loses the selection, and requests fail on it until it is removed.

Every property of a passing run has a mutant in `PROJECT.json`: a changed definition under
which TLC finds the property violated. The mutated forms stand beside the originals.

### Bounds

`MaxTracked`, `MaxTime`, `MaxOps`, `MaxFaults`, `MaxUpsets`, `MaxConns`, `MaxFrames`, the
capacities `Cap` and `RingCap` and the saturation of `found` at 2 are the only bounds. The
proofs hold for every value of all but the last.

## 4. Proofs

All theorems hold for every set of MACs, vendors, addresses and packets, every
configuration and every bound, from the assumptions `PipelineAssumption`,
`BaselineAssumption`, `PresenceAssumption`, `TriageAssumption` and `SensorAssumption`,
which only give the constants their types and make `None` a value of its own.

| Theorem | Argument |
|---|---|
| `TypeCorrect` | `TypeInv`: besides `TypeOK`, there is a packet in progress whenever `pc` is not idle |
| `GatewayEvidenceStaysClean` | `EvidenceInv`: the evidence in flight is as clean as the buffer it is about to join (`InFlightClean`), and a MAC that is not tracked has none (`UntrackedEmpty`). It needs that cross-validation and scrubbing return only clean evidence, that capping returns a subset, and that eviction drops evidence and vendor together |
| `KnownHostsAnnounced` | `KnownInv`: between the rules and the known mark the announcement is already there |
| `NewHostFiresOnce` | `OnceInv`: a host with a finding is known in the table, or its handler has yet to mark it |
| `LocalInterfacesSilent` | `LocalInv`: from the detection on the handler of such a MAC carries the disposition `self`, whatever the row said, unless it had read the disposition before (`blind`) |
| `CachesEvictable` | `EvictInv`: every per-MAC cache is a subset of `_last_seen`, also for the packet in progress |
| `AddressesKept` | `AddressInv`: what the checks established of the local address still holds when it is written, unless `raced` |
| `BaselineTypeCorrect` | inductive as it stands |
| `WarningsAreMonitored` | the severity a packet already read is justified too; between the first two statements of the correction the exception is its own devices |
| `ContextsAreFinal` | from the first statement of the correction to its last the rows of its devices are stamped `learning`, whoever writes them in between; the rest is step by step |
| `DiscoveriesCounted` | every MAC in `_known_macs`, or in a snapshot about to become it, has a row or a writer that will count it; and no time lies in the future |
| `PresenceTypeCorrect` | inductive as it stands |
| `SweeperImplementsView` | step by step from the type invariant: a row's update publishes the sample, an inserted row is shown as before (online), a clear forgets |
| `PresenceFindingsTrack`, `OutagesReportedOnce` | `FindingInv`: `PassInv` (a device has at most one callback pending; what remains to be treated has none, and has a row or will get one), `DeviceInv` (finding, row and pending callback of one device fit together), `InfraInv` (a suspect about to be reported has no open finding of the check) |
| `TriageTypeCorrect` | inductive as it stands |
| `AuditTrailAgrees`, `AuditTrailIsPath` | `AuditInv`: the server's lock has one holder (`MutexInv`); a writer no other process interfered with is alone between its two statements, and the row holds what it wrote (`WriterInv`); what a request read before is the trail's end unless rows were added since (`KnowInv`); a cleared device is one whose trail was left behind (`ClearedInv`) |
| `HandApprovalsKept` | from `AuditInv`: between the cleanup's look and its update only commands, or a cleanup that is one, can add a row |
| `ResolvedFindingsStay` | step by step: only `update_status` clears the flag, and only reopen calls it with a status that does |
| `SensorTypeCorrect` | inductive as it stands; needs that pushing into the ring keeps its capacity |
| `NameHasOneSession` | a running handler without a registration is possible only after `kicked` |
| `LeaksHaveCause` | `ThreadInv`: `ConnInv` says which phases have a connection, that a stop is one of the controlled mode and has a task, and that the direct mode owns its thread outside any connection; `EndInv` how a connection with threads ended; `ListsInv` that every list that is saved, loaded, requested, on a wire or being carried out repeats only names some operator repeated, which is what bounds the strays (`StrayInv`) |
| `CapturesFollowSelection` | `SelectInv`: on a live connection that no request holds or has crossed, what the commands under way lead to (`Aim`: the last command on the wire, else the one being carried out, else what the threads do) is the saved selection, or will be once the loaded one is sent, or is still nothing as long as the discovery message is on its way (`AimInv`). What is loaded is what is saved (`RestoreInv`), a request sends what it saved (`WebInv`), the discovery message is the first of its connection (`FirstInv`), an unused connection has carried nothing (`UnusedInv`), and running and failed captures are apart (`ApartInv`) |
| `HangsAreFinal` | step by step from `ConnInv`: nothing the loop does is possible while it stops, and a thread that is not blocked leaves the blocked one alone |
| `FramesArriveInOrder` | `FrameInv`: the places a frame of an interface passes through - ingested, on a wire, taken out of the ring, in the ring, in the channel, held by a thread - form one line in which numbers only grow (`OrderInv`), unless `kicked`; no number is above the counter of captured frames (`BoundInv`); a thread holds a frame of its own interface (`HeldInv`); during a connection the ring is empty (`RingInv`); and only a running handler has anything to read (`ServedInv`), so that with `OneSession` there is one wire to order |
| `ShownStateIsTrue` | `ShownInv`: of the writers of the shown state the last one wins, and it is right: the last request to return will set `Aim`, which is what is saved (`ContInv`), the last report on the wire tells what the threads do (`ReportInv`), a restored selection that is still to be shown has its report behind it (`SentInv`), and without any of them the state is right already (`SessionInv`); a session nobody has used is fresh (`BlankInv`). State and selection are right or wrong separately, so that two threads that mix them do no harm. It rests on `SelectInv` |

Only model-checked: `LearningEnds`, `ViewConverges` and `SnoozeEnds`, because liveness under
fairness is out of the prover's reach; and the violated properties. Every safety property
of a passing run is proved. The inductive invariants of the sensor were first checked by
TLC on the instance of SensorSession.

## 5. Not modelled

Most of the repository's lines are data or transform it: vendor and signature tables,
packet parsers and processors, fingerprint look-ups and their download, topology, attack
surface, timeline, console, CLI output, the web front end. They keep no state of their own
and run without concurrency; their outcome is an input of the models. This is why the
models, which hold the parts that share state, cover a small share of the lines.

Score arithmetic of the fusion is not modelled. IPv6 addresses, sightings, identity
resolution and rules other than new_host are left out of `Pipeline`, as is cap_evidence's
total of 100 items (its limit per source is not). Of database faults `Baseline` has those
of the baseline loop only. `Presence` leaves out severities and the notification of a finding, and the
infrastructure check's limit of 1000 verdicts. `Triage` leaves out notes, `prune_resolved`
and findings of other rules. `Sensor` leaves out heartbeats, `capture_error` messages,
certificates and revocation, the build and deployment of sensors, and the second endpoint
in `ui/web/app.py`. Two sends to one socket from two loops meet in the `websockets` library,
whose locks belong to one loop; how it fails there is external and not modelled, beyond that
a send may return an error. Active probing is left out because nothing starts a probe. `PROJECT.json` lists every component with its status.

## 6. Plan

What a next step would add, most valuable first:

1. `AddressVerifier`: bindings, flip-flop detection, cooldowns, learned gateways.
2. `Capture`: TTL deduplication at capacity with concurrent sniffers, as a refinement of an
   atomic cache.
3. `Scheduler`: inventory backoff, with concurrent edits.
4. `Fanout`: process thread, watchdog, drop-oldest queues; liveness of packet processing.
5. Identity correlation in `Pipeline`; fusion operators checked against a reference definition.

Each of them would bring its own inductive invariants; the bindings of `AddressVerifier` and
the atomic cache are the ones worth proving first.
