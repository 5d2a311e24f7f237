------------------------------ MODULE Baseline ------------------------------
(***************************************************************************)
(* The automatic baseline: the learning window (baseline.py and the        *)
(* sensor_state row of store/database.py), the devices rows that are       *)
(* stamped with it, and the new_host findings graded by the stamp          *)
(* (rules/discovery.py).                                                   *)
(*                                                                         *)
(* Actors: the baseline loop and the presence sweeper, the web handlers    *)
(* (under run_web on another event loop) and the packet thread, which      *)
(* writes hosts but never devices.  The connection commits every statement *)
(* by itself, so an action is what runs between two awaits and writes with *)
(* one statement.  Database._mu, an asyncio lock that two event loops      *)
(* share, is given no credit: no interleaving is left out because of it.   *)
(***************************************************************************)
EXTENDS Integers, FiniteSets

CONSTANTS
    Macs,
    Configs,         \* the baseline_* settings the sensor may run with
    Floor,           \* LEARNING_FLOOR
    BurstWindow,     \* BURST_WINDOW
    BurstThreshold,  \* BURST_THRESHOLD
    Ratio,           \* 1 / SATURATION_RATIO
    MaxTime,         \* bound on the clock
    MaxOps,          \* bound on the number of requests, outages and failed ticks
    None             \* "no value"

Times == 0..MaxTime
Modes == {"automatic", "manual", "always_learning"}
Contexts   == {"learning", "monitored"}
Severities == {"info", "warning", "critical"}
Writers    == {"sweeper", "importer"}
JobType    == [step : {"load", "stamp", "write", "count", "host"}, mac : Macs,
               ctx : Contexts \cup {None}, first : Times, new : BOOLEAN,
               rows : SUBSET Macs]

ASSUME BaselineAssumption ==
    /\ Configs \subseteq [mode : Modes, quiet : Nat, maxWindow : Nat]
    /\ Floor \in Nat /\ BurstWindow \in Nat /\ Ratio \in Nat
    /\ BurstThreshold \in Nat \ {0}
    /\ MaxTime \in Nat /\ MaxOps \in Nat
    /\ None \notin Macs /\ None \notin Times /\ None \notin Severities
    /\ None \notin JobType

VARIABLES
    now, phase,
    ops,             \* requests, outages and failed ticks so far
    conf,            \* the configuration in force
    \* the sensor_state row
    firstCapture, lastDiscovery, closed, heartbeat,
    \* the devices table; context "none": no row
    context, firstSeen, passive,
    \* the hosts and findings tables
    seen,            \* hosts.last_active, None: no row
    known,           \* MACs whose hosts.disposition is no longer "new"
    finding,         \* severity of the new_host finding, "none": none yet
    \* memory of the process
    knownMacs,       \* Database._known_macs, None: not loaded
    job,             \* the device write each of the two writers is at
    sweep,           \* rest of the sweeper's snapshot: MAC -> last_active
    tick,            \* where the baseline loop is
    packet,          \* the packet whose rules are running
    clearing,        \* where clear_database is
    \* history
    crossed,         \* MACs whose grading overlapped a correction
    torn,            \* MACs whose burst correction a fault or a kill cut in two
    relearn          \* when an outage last reopened the window

sensor  == <<firstCapture, lastDiscovery, closed, heartbeat>>
devices == <<context, firstSeen, passive>>
hosts   == <<seen, known, finding>>
tasks   == <<job, sweep, tick, packet, clearing>>
past    == <<crossed, torn, relearn>>
vars    == <<now, phase, ops, conf, sensor, devices, hosts, knownMacs,
             tasks, past>>

TickType   == [step : {"idle", "burst", "reenter", "downgrade", "reopen",
                        "close", "beat"},
               macs : SUBSET Macs, at : Times]
PacketType == [mac : Macs, sev : Severities \cup {None}]

Idle       == [step |-> "idle", macs |-> {}, at |-> 0]
AtBeat     == [step |-> "beat", macs |-> {}, at |-> 0]
Alive      == phase # "down"
Request    == ops < MaxOps /\ ops' = ops + 1

\* MACs noted as new whose row, or discovery, is still to be written.
Unwritten  == {m \in Macs : \E w \in Writers :
                  job[w] # None /\ job[w].new /\ job[w].mac = m}

-----------------------------------------------------------------------------
(* Pure parts.                                                             *)

\* should_close_window; the cap is tested before the floor.
ShouldCloseFloorFirst(at, first, last) ==
    LET elapsed == at - first
    IN  /\ elapsed >= Floor
        /\ \/ elapsed >= conf.maxWindow
           \/ at - last >= conf.quiet /\ Ratio * (at - last) >= elapsed
ShouldClose(at, first, last) ==
    LET elapsed == at - first
    IN  \/ elapsed >= conf.maxWindow
        \/ /\ elapsed >= Floor
           /\ at - last >= conf.quiet
           /\ Ratio * (at - last) >= elapsed

\* discovery_context is stamped by the insert and kept by every later upsert.
StoredContextLastWins(m, ctx) == IF ctx = None THEN "learning" ELSE ctx
StoredContextNoDefault(m, ctx) == IF context[m] # "none" THEN context[m] ELSE ctx
StoredContext(m, ctx) ==
    IF context[m] # "none" THEN context[m]
    ELSE IF ctx = None THEN "learning" ELSE ctx

\* NewHostRule's severity; a missing row counts as found while learning, and
\* only a device that has a row can have been rejected.
Severity(m, rejected) ==
    IF context[m] # "none" /\ ~passive[m] THEN "info"
    ELSE IF context[m] # "none" /\ rejected THEN "critical"
    ELSE IF context[m] = "monitored" THEN "warning" ELSE "info"

\* _burst_macs
BurstMacs(since) ==
    {m \in Macs : context[m] = "monitored" /\ firstSeen[m] >= since}

\* What apply_burst_reentry leaves of a finding.
DowngradedNever(m) == finding[m]
Downgraded(m) ==
    IF m \in tick.macs /\ finding[m] = "warning" THEN "info" ELSE finding[m]

\* The burst's devices whose WARNING is still to be corrected.
Pending == {m \in tick.macs : finding[m] = "warning"}

\* Only the write that noted the MAC as new counts as a discovery.
CountsNever(j) == FALSE
Counts(j) == j.new

-----------------------------------------------------------------------------
(* Time, outages, start.                                                   *)

\* The unit of the clock is a quarter of an hour: starting takes no time, and the
\* baseline loop, which sleeps for a minute, beats in every unit it runs in.
Advance ==
    /\ phase # "starting"
    /\ phase = "running" => heartbeat = now
    /\ now < MaxTime
    /\ now' = now + 1
    /\ UNCHANGED <<phase, ops, conf, sensor, devices, hosts, knownMacs, tasks, past>>

Crash ==
    /\ Alive
    /\ Request
    /\ phase' = "down"
    /\ knownMacs' = None
    /\ job' = [w \in Writers |-> None]
    /\ sweep' = [m \in Macs |-> None]
    /\ tick' = Idle
    /\ packet' = None
    /\ clearing' = "idle"
    /\ crossed' = crossed \cup Unwritten
    /\ torn' = IF tick.step = "downgrade" THEN torn \cup Pending ELSE torn
    /\ UNCHANGED <<now, conf, sensor, devices, hosts, relearn>>

\* LeethaApp.start: capture, sweeper and web come up before the outage check.
Start ==
    /\ phase = "down"
    /\ phase' = "starting"
    /\ UNCHANGED <<now, ops, conf, sensor, devices, hosts, knownMacs, tasks, past>>

\* recover_from_outage, after which the baseline loop is started.
Recover ==
    /\ phase = "starting"
    /\ phase' = "running"
    /\ IF closed /\ now - heartbeat >= conf.maxWindow
       THEN closed' = FALSE /\ relearn' = now
       ELSE UNCHANGED <<closed, relearn>>
    /\ UNCHANGED <<now, ops, conf, firstCapture, lastDiscovery, heartbeat,
                   devices, hosts, knownMacs, tasks, crossed, torn>>

-----------------------------------------------------------------------------
(* The baseline loop: evaluate_window, then record_heartbeat.              *)

TickRead ==
    /\ phase = "running" /\ tick.step = "idle"
    /\ tick' = IF closed THEN [step |-> "burst", macs |-> {}, at |-> now]
               ELSE IF /\ conf.mode = "automatic"
                       /\ ShouldClose(now, firstCapture, lastDiscovery)
               THEN [step |-> "close", macs |-> {}, at |-> now]
               ELSE AtBeat
    /\ UNCHANGED <<now, phase, ops, conf, sensor, devices, hosts, knownMacs,
                   job, sweep, packet, clearing, past>>

TickBurst ==
    /\ tick.step = "burst"
    /\ LET macs == BurstMacs(tick.at - BurstWindow)
       IN  tick' = IF Cardinality(macs) >= BurstThreshold
                   THEN [step |-> "reenter", macs |-> macs, at |-> 0]
                   ELSE AtBeat
    /\ UNCHANGED <<now, phase, ops, conf, sensor, devices, hosts, knownMacs,
                   job, sweep, packet, clearing, past>>

\* apply_burst_reentry, three statements.  The contexts are taken back ...
TickReenter ==
    /\ tick.step = "reenter"
    /\ context' = [m \in Macs |-> IF m \in tick.macs /\ context[m] # "none"
                                  THEN "learning" ELSE context[m]]
    /\ crossed' = crossed \cup {m \in tick.macs : packet # None /\ packet.mac = m}
    /\ tick' = [step |-> "downgrade", macs |-> tick.macs, at |-> 0]
    /\ UNCHANGED <<now, phase, ops, conf, sensor, firstSeen, passive, hosts,
                   knownMacs, job, sweep, packet, clearing, torn, relearn>>

\* ... then the findings; this failure is swallowed and the correction goes on ...
TickDowngrade ==
    /\ tick.step = "downgrade"
    /\ \/ /\ finding' = [m \in Macs |-> Downgraded(m)]
          /\ UNCHANGED torn
       \/ /\ torn' = torn \cup Pending
          /\ UNCHANGED finding
    /\ tick' = [step |-> "reopen", macs |-> tick.macs, at |-> 0]
    /\ UNCHANGED <<now, phase, ops, conf, sensor, devices, seen, known, knownMacs,
                   job, sweep, packet, clearing, crossed, relearn>>

\* ... and at last the window is open again.
TickReopen ==
    /\ tick.step = "reopen"
    /\ closed' = FALSE
    /\ tick' = AtBeat
    /\ UNCHANGED <<now, phase, ops, conf, firstCapture, lastDiscovery, heartbeat,
                   devices, hosts, knownMacs, job, sweep, packet, clearing, past>>

\* Any other database error ends the tick, without a heartbeat: _baseline_loop
\* logs it and sleeps.
TickFail ==
    /\ tick.step \notin {"idle", "downgrade"}
    /\ Request
    /\ tick' = Idle
    /\ UNCHANGED <<now, phase, conf, sensor, devices, hosts, knownMacs,
                   job, sweep, packet, clearing, past>>

\* close_learning_window: a no-op when somebody closed it meanwhile.
TickClose ==
    /\ tick.step = "close"
    /\ closed' = TRUE
    /\ tick' = AtBeat
    /\ UNCHANGED <<now, phase, ops, conf, firstCapture, lastDiscovery, heartbeat,
                   devices, hosts, knownMacs, job, sweep, packet, clearing, past>>

TickBeat ==
    /\ tick.step = "beat"
    /\ heartbeat' = now
    /\ tick' = Idle
    /\ UNCHANGED <<now, phase, ops, conf, firstCapture, lastDiscovery, closed,
                   devices, hosts, knownMacs, job, sweep, packet, clearing, past>>

BaselineLoop ==
    \/ TickRead \/ TickBurst \/ TickReenter \/ TickDowngrade \/ TickReopen
    \/ TickClose \/ TickBeat

\* The operator's "finish learning now" and "restart learning".
FinishLearning ==
    /\ Alive /\ ~closed /\ Request
    /\ closed' = TRUE
    /\ UNCHANGED <<now, phase, conf, firstCapture, lastDiscovery, heartbeat,
                   devices, hosts, knownMacs, tasks, past>>

RestartLearning ==
    /\ Alive /\ closed /\ Request
    /\ closed' = FALSE
    /\ UNCHANGED <<now, phase, conf, firstCapture, lastDiscovery, heartbeat,
                   devices, hosts, knownMacs, tasks, past>>

-----------------------------------------------------------------------------
(* upsert_device: note the MAC, read the window, write the row.            *)

\* A known MAC skips the stamp.  The MAC counts as known before its row exists.
Note(w, m, first, loaded) ==
    /\ knownMacs' = loaded \cup {m}
    /\ job' = [job EXCEPT ![w] =
          [step |-> IF m \in loaded THEN "write" ELSE "stamp", mac |-> m,
           ctx |-> None, first |-> first, new |-> m \notin loaded, rows |-> {}]]

\* The first write of the process loads _known_macs, across an await: of two
\* writers that both find it missing, the later one overwrites what the earlier
\* one noted.
Begin(w, m, first) ==
    \/ /\ knownMacs # None
       /\ Note(w, m, first, knownMacs)
    \/ /\ knownMacs = None
       /\ job' = [job EXCEPT ![w] =
             [step |-> "load", mac |-> m, ctx |-> None, first |-> first,
              new |-> FALSE, rows |-> {n \in Macs : context[n] # "none"}]]
       /\ UNCHANGED knownMacs

LoadKnown(w) ==
    /\ job[w] # None /\ job[w].step = "load"
    /\ Note(w, job[w].mac, job[w].first, job[w].rows)
    /\ UNCHANGED <<now, phase, ops, conf, sensor, devices, hosts, sweep, tick,
                   packet, clearing, past>>

\* The sweeper reads hosts and devices once, then inserts the missing rows.
SweepRead ==
    /\ Alive /\ job["sweeper"] = None /\ \A m \in Macs : sweep[m] = None
    /\ sweep' = [m \in Macs |-> IF context[m] = "none" THEN seen[m] ELSE None]
    /\ UNCHANGED <<now, phase, ops, conf, sensor, devices, hosts, knownMacs,
                   job, tick, packet, clearing, past>>

SweepInsert(m) ==
    /\ job["sweeper"] = None /\ sweep[m] # None
    /\ Begin("sweeper", m, sweep[m])
    /\ sweep' = [sweep EXCEPT ![m] = None]
    /\ UNCHANGED <<now, phase, ops, conf, sensor, devices, hosts, tick, packet,
                   clearing, past>>

\* upload_dhcp_leases, for one lease.
ImportLease(m) ==
    /\ Alive /\ job["importer"] = None /\ Request
    /\ Begin("importer", m, now)
    /\ UNCHANGED <<now, phase, conf, sensor, devices, hosts, sweep, tick,
                   packet, clearing, past>>

StampContext(w) ==
    /\ job[w] # None /\ job[w].step = "stamp"
    /\ job' = [job EXCEPT ![w] = [step |-> "write", mac |-> @.mac,
                ctx |-> IF closed THEN "monitored" ELSE "learning",
                first |-> @.first, new |-> @.new, rows |-> {}]]
    /\ UNCHANGED <<now, phase, ops, conf, sensor, devices, hosts, knownMacs,
                   sweep, tick, packet, clearing, past>>

\* Once the row is written and counted the importer goes on to the host.
Written(w) ==
    job' = [job EXCEPT ![w] =
        IF w = "sweeper" THEN None
        ELSE [step |-> "host", mac |-> @.mac, ctx |-> None, first |-> @.first,
              new |-> FALSE, rows |-> {}]]

WriteDevice(w) ==
    /\ job[w] # None /\ job[w].step = "write"
    /\ LET j == job[w]
       IN  /\ context' = [context EXCEPT ![j.mac] = StoredContext(j.mac, j.ctx)]
           /\ firstSeen' = [firstSeen EXCEPT ![j.mac] =
                               IF @ = None \/ j.first < @ THEN j.first ELSE @]
           /\ passive' = [passive EXCEPT ![j.mac] = @ \/ w = "sweeper"]
           /\ IF Counts(j) THEN job' = [job EXCEPT ![w].step = "count"]
              ELSE Written(w)
    /\ UNCHANGED <<now, phase, ops, conf, sensor, hosts, knownMacs, sweep, tick,
                   packet, clearing, past>>

\* _record_discovery_no_commit, a statement of its own.
RecordDiscovery(w) ==
    /\ job[w] # None /\ job[w].step = "count"
    /\ lastDiscovery' = now
    /\ Written(w)
    /\ UNCHANGED <<now, phase, ops, conf, firstCapture, closed, heartbeat, devices,
                   hosts, knownMacs, sweep, tick, packet, clearing, past>>

\* The importer also upserts the host, as "new".
ImportHost ==
    /\ job["importer"] # None /\ job["importer"].step = "host"
    /\ LET j == job["importer"]
       IN  seen' = [seen EXCEPT ![j.mac] = IF @ = None \/ @ < j.first THEN j.first ELSE @]
    /\ job' = [job EXCEPT !["importer"] = None]
    /\ UNCHANGED <<now, phase, ops, conf, sensor, devices, known, finding,
                   knownMacs, sweep, tick, packet, clearing, past>>

-----------------------------------------------------------------------------
(* The packet thread, reduced to what grading needs (see Pipeline).        *)

\* A packet upserts its host; when it carries evidence and the host is still
\* new, the rules run.
Capture(m, evidence) ==
    /\ Alive /\ packet = None
    /\ seen' = [seen EXCEPT ![m] = now]
    /\ packet' = IF evidence /\ m \notin known THEN [mac |-> m, sev |-> None]
                 ELSE None
    /\ UNCHANGED <<now, phase, ops, conf, sensor, devices, known, finding,
                   knownMacs, job, sweep, tick, clearing, past>>

\* The rule's three reads act as one: only TickReenter and ClearDevices take a
\* context back, and both mark the packet as crossed.
GradeNewHost ==
    /\ packet # None /\ packet.sev = None
    /\ \E rejected \in BOOLEAN :
          packet' = [mac |-> packet.mac, sev |-> Severity(packet.mac, rejected)]
    /\ UNCHANGED <<now, phase, ops, conf, sensor, devices, hosts, knownMacs, job,
                   sweep, tick, clearing, past>>

\* The finding is added, then the host counts as known.
AddFinding ==
    /\ packet # None /\ packet.sev # None
    /\ finding' = [finding EXCEPT ![packet.mac] = packet.sev]
    /\ known' = known \cup {packet.mac}
    /\ packet' = None
    /\ UNCHANGED <<now, phase, ops, conf, sensor, devices, seen, knownMacs, job,
                   sweep, tick, clearing, past>>

-----------------------------------------------------------------------------
(* Clearing the database.                                                  *)

\* clear_database: devices, then hosts, then findings.  _known_macs stays.
ClearDevices ==
    /\ Alive /\ clearing = "idle" /\ Request
    /\ context' = [m \in Macs |-> "none"]
    /\ firstSeen' = [m \in Macs |-> None]
    /\ passive' = [m \in Macs |-> FALSE]
    /\ clearing' = "hosts"
    /\ crossed' = Macs
    /\ UNCHANGED <<now, phase, conf, sensor, hosts, knownMacs, job, sweep,
                   tick, packet, torn, relearn>>

ClearHosts ==
    /\ clearing = "hosts"
    /\ seen' = [m \in Macs |-> None]
    /\ known' = {}
    /\ clearing' = "findings"
    /\ UNCHANGED <<now, phase, ops, conf, sensor, devices, finding, knownMacs,
                   job, sweep, tick, packet, past>>

ClearFindings ==
    /\ clearing = "findings"
    /\ finding' = [m \in Macs |-> "none"]
    /\ clearing' = "idle"
    /\ UNCHANGED <<now, phase, ops, conf, sensor, devices, seen, known, knownMacs,
                   job, sweep, tick, packet, past>>

-----------------------------------------------------------------------------
\* A fresh install: the sensor_state row has just been seeded.
Init ==
    /\ now = 0 /\ phase = "starting" /\ ops = 0
    /\ conf \in Configs
    /\ firstCapture = 0 /\ lastDiscovery = 0 /\ closed = FALSE /\ heartbeat = 0
    /\ context = [m \in Macs |-> "none"] /\ firstSeen = [m \in Macs |-> None]
    /\ passive = [m \in Macs |-> FALSE]
    /\ seen = [m \in Macs |-> None] /\ known = {} /\ finding = [m \in Macs |-> "none"]
    /\ knownMacs = None
    /\ job = [w \in Writers |-> None] /\ sweep = [m \in Macs |-> None]
    /\ tick = Idle /\ packet = None /\ clearing = "idle"
    /\ crossed = {} /\ torn = {} /\ relearn = None

Next ==
    \/ Advance \/ Crash \/ Start \/ Recover
    \/ BaselineLoop \/ TickFail
    \/ FinishLearning \/ RestartLearning
    \/ SweepRead
    \/ \E m \in Macs : SweepInsert(m) \/ ImportLease(m)
    \/ \E w \in Writers : \/ LoadKnown(w) \/ StampContext(w)
                          \/ WriteDevice(w) \/ RecordDiscovery(w)
    \/ ImportHost
    \/ \E m \in Macs, evidence \in BOOLEAN : Capture(m, evidence)
    \/ GradeNewHost \/ AddFinding
    \/ ClearDevices \/ ClearHosts \/ ClearFindings

Spec == Init /\ [][Next]_vars

\* _baseline_loop swallows every exception and runs until the process stops.
FairSpec == Spec /\ WF_vars(BaselineLoop)

-----------------------------------------------------------------------------
(* Properties.                                                             *)

\* Every variable of the baseline keeps its type; a row always has a context
\* and a first_seen together.
TypeOK ==
    /\ now \in Times /\ phase \in {"down", "starting", "running"}
    /\ ops \in 0..MaxOps /\ conf \in Configs
    /\ firstCapture \in Times /\ lastDiscovery \in Times
    /\ closed \in BOOLEAN /\ heartbeat \in Times
    /\ context \in [Macs -> Contexts \cup {"none"}]
    /\ firstSeen \in [Macs -> Times \cup {None}]
    /\ passive \in [Macs -> BOOLEAN]
    /\ seen \in [Macs -> Times \cup {None}] /\ known \subseteq Macs
    /\ finding \in [Macs -> Severities \cup {"none"}]
    /\ knownMacs \in (SUBSET Macs) \cup {None}
    /\ job \in [Writers -> JobType \cup {None}]
    /\ sweep \in [Macs -> Times \cup {None}]
    /\ tick \in TickType /\ packet \in PacketType \cup {None}
    /\ clearing \in {"idle", "hosts", "findings"}
    /\ crossed \subseteq Macs /\ torn \subseteq Macs /\ relearn \in Times \cup {None}
    /\ \A m \in Macs : context[m] = "none" <=> firstSeen[m] = None

\* A device whose new_host finding is a WARNING is one the sensor holds for
\* monitored: burst re-entry corrects the findings after the contexts, and
\* nothing else takes a context back.  Excepted are the devices the correction is
\* just between the two statements for, those for which a fault or a kill ended
\* it there, a packet whose severity was read before the correction and is
\* written after it, and a cleared database.
WarningMonitored ==
    \A m \in Macs \ (crossed \cup torn) : finding[m] = "warning" =>
        \/ context[m] = "monitored"
        \/ tick.step = "downgrade" /\ m \in tick.macs

\* Saturation measures new devices (_note_device_write): no row is younger than
\* last_discovery_at, whichever of two concurrent writers inserted it, once the
\* one that noted the MAC as new has written.  (A MAC that comes back after
\* "clear database" is still in _known_macs and does not count again.)
DiscoveryCounted ==
    \A m \in Macs \ (crossed \cup Unwritten) :
        context[m] # "none" => firstSeen[m] <= lastDiscovery

\* The stamp of a row is final ("first write is final", _DEVICE_UPSERT_SQL),
\* whoever writes the row next: only the burst correction changes one, to
\* learning and for the burst's own devices; and when it has run to its end, none
\* of them is monitored again under a window that is open, whatever was written
\* between its three statements (short of "clear database").
ContextFinal ==
    [][/\ \A m \in Macs :
            context[m] # "none" /\ context'[m] \notin {"none", context[m]} =>
                context'[m] = "learning" /\ tick.step = "reenter" /\ m \in tick.macs
       /\ tick.step = "reopen" /\ tick' = AtBeat =>
            ~closed' /\ \A m \in tick.macs \ crossed : context'[m] = "learning"]_vars

\* "A hard cap ends learning even on a network that never settles", also when
\* the cap is shorter than the floor (should_close_window): in automatic mode,
\* past the cap, a running sensor eventually has a closed window.
LearningEnds ==
    (conf.mode = "automatic" /\ phase = "running"
        /\ now - firstCapture >= conf.maxWindow)
    ~> (closed \/ phase = "down")

\* "Severity is decided by whether the sensor had learned the network when this
\* device appeared" (NewHostRule): a device on the wire that the sensor records
\* as an arrival after learning was not announced as INFO.
GradeMatchesStamp ==
    \A m \in Macs \ crossed :
        context[m] = "monitored" /\ passive[m] => finding[m] # "info"

\* "Minimum observation time before the window may close at all" (LEARNING_FLOOR):
\* learning that a long outage reopened lasts at least that long.
OutageRelearned ==
    tick.step = "close" /\ relearn # None => tick.at - relearn >= Floor

=============================================================================
