--------------------------- MODULE BaselineProofs ---------------------------
(***************************************************************************)
(* Proofs about Baseline, for every set of MACs, every configuration and   *)
(* every bound on the clock and on the number of requests and outages.     *)
(***************************************************************************)
EXTENDS Baseline, TLAPS

LEMMA IdleType == Idle \in TickType /\ AtBeat \in TickType
  BY BaselineAssumption DEF Idle, AtBeat, TickType, Times

LEMMA JobTypeOf ==
  ASSUME TypeOK, NEW w \in Writers, job[w] # None
  PROVE  /\ job[w] \in JobType
         /\ job[w].mac \in Macs /\ job[w].first \in Times
         /\ job[w].ctx \in Contexts \cup {None} /\ job[w].new \in BOOLEAN
         /\ job[w].rows \in SUBSET Macs
  BY DEF TypeOK, JobType

\* The device write a writer notes, or begins, is well-formed.
LEMMA NoteType ==
  ASSUME TypeOK, NEW w \in Writers, NEW m \in Macs, NEW first \in Times,
         NEW loaded \in SUBSET Macs, Note(w, m, first, loaded)
  PROVE  /\ knownMacs' \in (SUBSET Macs) \cup {None}
         /\ job' \in [Writers -> JobType \cup {None}]
<1> DEFINE j == [step |-> IF m \in loaded THEN "write" ELSE "stamp", mac |-> m,
                 ctx |-> None, first |-> first, new |-> m \notin loaded, rows |-> {}]
<1>1. j \in JobType
  BY DEF JobType
<1>2. knownMacs' = loaded \cup {m} /\ job' = [job EXCEPT ![w] = j]
  BY DEF Note
<1>3. QED
  BY <1>1, <1>2 DEF TypeOK

LEMMA BeginType ==
  ASSUME TypeOK, NEW w \in Writers, NEW m \in Macs, NEW first \in Times,
         Begin(w, m, first)
  PROVE  /\ knownMacs' \in (SUBSET Macs) \cup {None}
         /\ job' \in [Writers -> JobType \cup {None}]
<1> DEFINE j == [step |-> "load", mac |-> m, ctx |-> None, first |-> first,
                 new |-> FALSE, rows |-> {n \in Macs : context[n] # "none"}]
<1>1. CASE knownMacs # None
  <2>1. knownMacs \in SUBSET Macs
    BY <1>1 DEF TypeOK
  <2>2. QED
    BY <1>1, <2>1, NoteType DEF Begin
<1>2. CASE knownMacs = None
  <2>1. j \in JobType
    BY DEF JobType
  <2>2. job' = [job EXCEPT ![w] = j] /\ knownMacs' = knownMacs
    BY <1>2 DEF Begin
  <2>3. QED
    BY <2>1, <2>2 DEF TypeOK
<1>3. QED
  BY <1>1, <1>2

LEMMA StoredContextType ==
  ASSUME TypeOK, NEW m \in Macs, NEW ctx \in Contexts \cup {None}
  PROVE  StoredContext(m, ctx) \in Contexts
  BY DEF StoredContext, TypeOK, Contexts

LEMMA WrittenType ==
  ASSUME TypeOK, NEW w \in Writers, job[w] # None, Written(w)
  PROVE  job' \in [Writers -> JobType \cup {None}]
<1> DEFINE h == [step |-> "host", mac |-> job[w].mac, ctx |-> None,
                 first |-> job[w].first, new |-> FALSE, rows |-> {}]
<1>1. h \in JobType
  BY JobTypeOf DEF JobType
<1>2. job' = [job EXCEPT ![w] = IF w = "sweeper" THEN None ELSE h]
  BY DEF Written
<1>3. QED
  BY <1>1, <1>2 DEF TypeOK

-----------------------------------------------------------------------------
(* Type correctness.                                                       *)

LEMMA TypeStep ==
  ASSUME TypeOK, [Next]_vars
  PROVE  TypeOK'
<1> USE BaselineAssumption
<1>1. CASE Advance
  BY <1>1 DEF Advance, TypeOK, Times, sensor, devices, hosts, tasks, past
<1>2. CASE Crash
  <2>1. Unwritten \subseteq Macs /\ Pending \subseteq Macs
    BY DEF Unwritten, Pending, TypeOK, TickType
  <2>2. QED
    BY <1>2, <2>1, IdleType DEF Crash, Request, TypeOK, sensor, devices, hosts
<1>3. CASE Start
  BY <1>3 DEF Start, TypeOK, sensor, devices, hosts, tasks, past
<1>4. CASE Recover
  BY <1>4 DEF Recover, TypeOK, devices, hosts, tasks
<1>5. CASE TickRead
  <2>1. tick' \in TickType
    BY <1>5, IdleType DEF TickRead, TickType, TypeOK
  <2>2. QED
    BY <1>5, <2>1 DEF TickRead, TypeOK, sensor, devices, hosts, past
<1>6. CASE TickBurst
  <2>1. tick' \in TickType
    BY <1>6, IdleType DEF TickBurst, TickType, TypeOK, BurstMacs, Times
  <2>2. QED
    BY <1>6, <2>1 DEF TickBurst, TypeOK, sensor, devices, hosts, past
<1>7. CASE TickReenter
  <2>1. tick.macs \subseteq Macs /\ tick' \in TickType
    BY <1>7 DEF TickReenter, TypeOK, TickType, Times
  <2>2. context' \in [Macs -> Contexts \cup {"none"}]
        /\ \A m \in Macs : context'[m] = "none" <=> context[m] = "none"
    BY <1>7 DEF TickReenter, TypeOK, Contexts
  <2>3. QED
    BY <1>7, <2>1, <2>2 DEF TickReenter, TypeOK, sensor, hosts
<1>26. CASE TickDowngrade
  <2>1. Pending \subseteq Macs /\ tick' \in TickType
    BY <1>26 DEF TickDowngrade, Pending, TypeOK, TickType, Times
  <2>2. finding' \in [Macs -> Severities \cup {"none"}]
    BY <1>26 DEF TickDowngrade, Downgraded, TypeOK, Severities
  <2>3. QED
    BY <1>26, <2>1, <2>2 DEF TickDowngrade, TypeOK, sensor, devices
<1>27. CASE TickReopen
  BY <1>27, IdleType DEF TickReopen, TypeOK, devices, hosts, past
<1>28. CASE TickFail
  <2>1. ops' \in 0..MaxOps
    BY <1>28 DEF TickFail, Request, TypeOK
  <2>2. QED
    BY <1>28, <2>1, IdleType DEF TickFail, TypeOK, sensor, devices, hosts, past
<1>8. CASE TickClose
  BY <1>8, IdleType DEF TickClose, TypeOK, devices, hosts, past
<1>9. CASE TickBeat
  BY <1>9, IdleType DEF TickBeat, TypeOK, devices, hosts, past
<1>10. CASE FinishLearning \/ RestartLearning
  <2>1. ops' \in 0..MaxOps
    BY <1>10 DEF FinishLearning, RestartLearning, Request, TypeOK
  <2>2. QED
    BY <1>10, <2>1 DEF FinishLearning, RestartLearning, TypeOK, devices, hosts, tasks, past
<1>11. CASE SweepRead
  BY <1>11 DEF SweepRead, TypeOK, sensor, devices, hosts, past
<1>12. ASSUME NEW m \in Macs, SweepInsert(m) PROVE TypeOK'
  <2>1. sweep[m] \in Times
    BY <1>12 DEF SweepInsert, TypeOK
  <2>2. QED
    BY <1>12, <2>1, BeginType DEF SweepInsert, Writers, TypeOK, sensor, devices, hosts, past
<1>13. ASSUME NEW m \in Macs, ImportLease(m) PROVE TypeOK'
  <2>1. now \in Times
    BY DEF TypeOK
  <2>2. QED
    BY <1>13, <2>1, BeginType
       DEF ImportLease, Request, Writers, TypeOK, sensor, devices, hosts, past
<1>14. ASSUME NEW w \in Writers, StampContext(w) PROVE TypeOK'
  <2>1. job' \in [Writers -> JobType \cup {None}]
    BY <1>14, JobTypeOf DEF StampContext, TypeOK, JobType, Contexts
  <2>2. QED
    BY <1>14, <2>1 DEF StampContext, TypeOK, sensor, devices, hosts, past
<1>15. ASSUME NEW w \in Writers, WriteDevice(w) PROVE TypeOK'
  <2> DEFINE j == job[w]
  <2>1. j \in JobType /\ j.mac \in Macs /\ j.first \in Times
        /\ StoredContext(j.mac, j.ctx) \in Contexts
    BY <1>15, JobTypeOf, StoredContextType DEF WriteDevice
  <2>2. job' \in [Writers -> JobType \cup {None}]
    <3>1. CASE Counts(j)
      <4>1. [j EXCEPT !.step = "count"] \in JobType
        BY <2>1 DEF JobType
      <4>2. job' = [job EXCEPT ![w] = [j EXCEPT !.step = "count"]]
        BY <1>15, <3>1 DEF WriteDevice
      <4>3. QED
        BY <4>1, <4>2 DEF TypeOK
    <3>2. CASE ~Counts(j)
      BY <1>15, <3>2, WrittenType DEF WriteDevice
    <3>3. QED
      BY <3>1, <3>2
  <2>4. /\ context' \in [Macs -> Contexts \cup {"none"}]
        /\ firstSeen' \in [Macs -> Times \cup {None}]
        /\ passive' \in [Macs -> BOOLEAN]
    BY <1>15, <2>1 DEF WriteDevice, TypeOK
  <2>5. \A m \in Macs : context'[m] = "none" <=> firstSeen'[m] = None
    BY <1>15, <2>1 DEF WriteDevice, TypeOK, Contexts
  <2>6. QED
    BY <1>15, <2>2, <2>4, <2>5 DEF WriteDevice, TypeOK, sensor, hosts, past
<1>16. CASE ImportHost
  <2>1. job["importer"].mac \in Macs /\ job["importer"].first \in Times
    BY <1>16, JobTypeOf DEF ImportHost, Writers
  <2>2. QED
    BY <1>16, <2>1 DEF ImportHost, Writers, TypeOK, sensor, devices, past
<1>17. ASSUME NEW m \in Macs, NEW evidence \in BOOLEAN, Capture(m, evidence)
       PROVE  TypeOK'
  BY <1>17 DEF Capture, TypeOK, PacketType, sensor, devices, past
<1>18. CASE GradeNewHost
  <2>1. packet.mac \in Macs /\ \A r \in BOOLEAN : Severity(packet.mac, r) \in Severities
    BY <1>18 DEF GradeNewHost, TypeOK, PacketType, Severity, Severities
  <2>2. QED
    BY <1>18, <2>1 DEF GradeNewHost, TypeOK, PacketType, sensor, devices, hosts, past
<1>19. CASE AddFinding
  <2>1. packet.mac \in Macs /\ packet.sev \in Severities
    BY <1>19 DEF AddFinding, TypeOK, PacketType
  <2>2. QED
    BY <1>19, <2>1 DEF AddFinding, TypeOK, sensor, devices, past
<1>20. CASE ClearDevices
  BY <1>20 DEF ClearDevices, Request, TypeOK, sensor, hosts
<1>21. CASE ClearHosts
  BY <1>21 DEF ClearHosts, TypeOK, sensor, devices, past
<1>22. CASE ClearFindings
  BY <1>22 DEF ClearFindings, TypeOK, sensor, devices, past
<1>23. CASE UNCHANGED vars
  BY <1>23 DEF vars, TypeOK, sensor, devices, hosts, tasks, past
<1>24. ASSUME NEW w \in Writers, LoadKnown(w) PROVE TypeOK'
  BY <1>24, JobTypeOf, NoteType DEF LoadKnown, TypeOK, sensor, devices, hosts, past
<1>29. ASSUME NEW w \in Writers, RecordDiscovery(w) PROVE TypeOK'
  BY <1>29, WrittenType DEF RecordDiscovery, TypeOK, devices, hosts, past
<1>25. QED
  BY <1>1, <1>2, <1>3, <1>4, <1>5, <1>6, <1>7, <1>8, <1>9, <1>10, <1>11, <1>12,
     <1>13, <1>14, <1>15, <1>16, <1>17, <1>18, <1>19, <1>20, <1>21, <1>22, <1>23, <1>24,
     <1>26, <1>27, <1>28, <1>29 DEF Next, BaselineLoop

LEMMA InitType == Init => TypeOK
<1> SUFFICES ASSUME Init PROVE TypeOK
  OBVIOUS
<1>1. 0 \in Times /\ 0 \in 0..MaxOps
  BY BaselineAssumption DEF Times
<1>2. context \in [Macs -> Contexts \cup {"none"}]
      /\ finding \in [Macs -> Severities \cup {"none"}]
  BY DEF Init
<1>3. job \in [Writers -> JobType \cup {None}]
  BY DEF Init
<1>4. \A m \in Macs : context[m] = "none" <=> firstSeen[m] = None
  BY DEF Init
<1>5. QED
  BY <1>1, <1>2, <1>3, <1>4, IdleType DEF Init, TypeOK

\* The baseline's state always has its type.
THEOREM BaselineTypeCorrect == Spec => []TypeOK
<1>1. Init => TypeOK
  BY InitType
<1>2. TypeOK /\ [Next]_vars => TypeOK'
  BY TypeStep
<1>3. QED
  BY <1>1, <1>2, PTL DEF Spec

-----------------------------------------------------------------------------
(* A WARNING belongs to a monitored device.  The severity a packet has     *)
(* already read must be justified too.                                     *)

WarningInv ==
    /\ WarningMonitored
    /\ packet # None /\ packet.sev = "warning" /\ packet.mac \notin crossed
          => context[packet.mac] = "monitored"

LEMMA WarningInvStep ==
  ASSUME TypeOK, WarningInv, [Next]_vars
  PROVE  WarningInv'
<1> USE DEF WarningInv, WarningMonitored
<1>1. CASE Crash
  BY <1>1 DEF Crash, Pending, devices, hosts
<1>2. CASE TickReenter
  <2>1. packet # None => packet.mac \in Macs
    BY DEF TypeOK, PacketType
  <2>2. QED
    BY <1>2, <2>1 DEF TickReenter, TypeOK, hosts
<1>11. CASE TickDowngrade
  <2>1. tick'.step # "downgrade" /\ tick.step = "downgrade"
        /\ UNCHANGED <<context, packet, crossed>>
    BY <1>11 DEF TickDowngrade, devices
  <2>2. \A m \in Macs \ (crossed \cup torn') :
            finding'[m] = "warning" => finding[m] = "warning" /\ m \notin tick.macs
    BY <1>11 DEF TickDowngrade, Downgraded, Pending, TypeOK
  <2>3. torn \subseteq torn'
    BY <1>11 DEF TickDowngrade
  <2>4. QED
    BY <2>1, <2>2, <2>3
<1>12. CASE TickRead \/ TickBurst \/ TickReopen \/ TickFail \/ TickClose \/ TickBeat
  <2>1. tick.step # "downgrade" /\ UNCHANGED <<context, finding, packet, crossed, torn>>
    BY <1>12 DEF TickRead, TickBurst, TickReopen, TickFail, TickClose, TickBeat, devices,
                 hosts, past
  <2>2. QED
    BY <2>1
<1>3. ASSUME NEW w \in Writers, WriteDevice(w) PROVE WarningInv'
  <2>1. \A m \in Macs : context[m] = "monitored" => context'[m] = "monitored"
    BY <1>3, JobTypeOf DEF WriteDevice, StoredContext, TypeOK
  <2>2. packet # None => packet.mac \in Macs
    BY DEF TypeOK, PacketType
  <2>3. QED
    BY <1>3, <2>1, <2>2 DEF WriteDevice, hosts, past
<1>4. ASSUME NEW m \in Macs, NEW evidence \in BOOLEAN, Capture(m, evidence)
      PROVE  WarningInv'
  <2>1. packet' # None => packet'.sev = None
    BY <1>4 DEF Capture
  <2>2. QED
    BY <1>4, <2>1, BaselineAssumption DEF Capture, Severities, devices, past
<1>5. CASE GradeNewHost
  <2>1. packet.mac \in Macs
    BY <1>5 DEF GradeNewHost, TypeOK, PacketType
  <2>2. \A r \in BOOLEAN : Severity(packet.mac, r) = "warning"
                              => context[packet.mac] = "monitored"
    BY DEF Severity
  <2>3. QED
    BY <1>5, <2>2 DEF GradeNewHost, devices, hosts, past
<1>6. CASE AddFinding
  <2>1. packet.mac \in Macs
    BY <1>6 DEF AddFinding, TypeOK, PacketType
  <2>2. QED
    BY <1>6, <2>1 DEF AddFinding, TypeOK, devices, past
<1>7. CASE ClearDevices
  <2>1. packet # None => packet.mac \in Macs
    BY DEF TypeOK, PacketType
  <2>2. QED
    BY <1>7, <2>1 DEF ClearDevices, hosts
<1>8. CASE ClearFindings
  BY <1>8 DEF ClearFindings, devices, past
<1>9. CASE \/ Advance \/ Start \/ Recover
           \/ FinishLearning \/ RestartLearning \/ SweepRead
           \/ ImportHost \/ ClearHosts \/ UNCHANGED vars
           \/ \E m \in Macs : SweepInsert(m) \/ ImportLease(m)
           \/ \E w \in Writers : LoadKnown(w) \/ StampContext(w) \/ RecordDiscovery(w)
  <2>1. UNCHANGED <<context, finding, packet, crossed, torn, tick>>
    BY <1>9 DEF Advance, Start, Recover, RecordDiscovery, FinishLearning,
                RestartLearning, SweepRead, ImportHost, ClearHosts,
                SweepInsert, ImportLease, LoadKnown, StampContext, vars, devices, hosts,
                tasks, past
  <2>2. QED
    BY <2>1
<1>10. QED
  BY <1>1, <1>2, <1>3, <1>4, <1>5, <1>6, <1>7, <1>8, <1>9, <1>11, <1>12
     DEF Next, BaselineLoop

\* Burst re-entry leaves no WARNING behind for a device it took back to learning,
\* whatever runs between its statements, unless a fault or a kill stopped it
\* there or the device's packet was being graded meanwhile.
THEOREM WarningsAreMonitored == Spec => []WarningMonitored
<1>1. Init => TypeOK /\ WarningInv
  BY InitType DEF Init, WarningInv, WarningMonitored
<1>2. TypeOK /\ WarningInv /\ [Next]_vars => TypeOK' /\ WarningInv'
  BY TypeStep, WarningInvStep
<1>3. WarningInv => WarningMonitored
  BY DEF WarningInv
<1>4. QED
  BY <1>1, <1>2, <1>3, PTL DEF Spec

-----------------------------------------------------------------------------
(* The stamp of a row.  While the correction is under way, the burst's     *)
(* devices keep the rows it saw: an upsert never changes a stamp, and only *)
(* "clear database" removes a row.                                         *)

ContextInv ==
    /\ tick.step = "reenter" => \A m \in tick.macs \ crossed : context[m] # "none"
    /\ tick.step \in {"downgrade", "reopen"} =>
          \A m \in tick.macs \ crossed : context[m] = "learning"

ContextStep ==
    /\ \A m \in Macs :
          context[m] # "none" /\ context'[m] \notin {"none", context[m]} =>
              context'[m] = "learning" /\ tick.step = "reenter" /\ m \in tick.macs
    /\ tick.step = "reopen" /\ tick' = AtBeat =>
          ~closed' /\ \A m \in tick.macs \ crossed : context'[m] = "learning"

LEMMA ContextNext ==
  ASSUME TypeOK, ContextInv, [Next]_vars
  PROVE  ContextInv' /\ ContextStep
<1> USE DEF ContextInv, ContextStep
<1>1. tick.macs \subseteq Macs
  BY DEF TypeOK, TickType
<1>2. CASE TickReenter
  BY <1>1, <1>2 DEF TickReenter, TypeOK
<1>3. ASSUME NEW w \in Writers, WriteDevice(w) PROVE ContextInv' /\ ContextStep
  <2>1. \A m \in Macs : context[m] # "none" => context'[m] = context[m]
    BY <1>3, JobTypeOf DEF WriteDevice, StoredContext, TypeOK
  <2>2. tick.step = "reopen" => tick' # AtBeat
    BY <1>3 DEF WriteDevice, AtBeat
  <2>3. QED
    BY <1>1, <1>3, <2>1, <2>2 DEF WriteDevice, past
<1>4. CASE ClearDevices
  <2>1. tick.step = "reopen" => tick' # AtBeat
    BY <1>4 DEF ClearDevices, AtBeat
  <2>2. QED
    BY <1>1, <1>4, <2>1 DEF ClearDevices
<1>5. CASE TickBurst
  <2>1. \A m \in BurstMacs(tick.at - BurstWindow) : context[m] = "monitored"
    BY DEF BurstMacs
  <2>2. QED
    BY <1>5, <2>1 DEF TickBurst, AtBeat, devices, past
<1>6. CASE TickDowngrade
  BY <1>1, <1>6 DEF TickDowngrade, AtBeat, devices
<1>7. CASE TickReopen
  BY <1>1, <1>7 DEF TickReopen, AtBeat, devices
<1>8. CASE TickRead \/ TickFail \/ TickClose \/ TickBeat \/ Crash
  <2>1. UNCHANGED context /\ tick'.step \notin {"reenter", "downgrade", "reopen"}
    BY <1>8 DEF TickRead, TickFail, TickClose, TickBeat, Crash, Idle, AtBeat, devices
  <2>2. tick.step = "reopen" => tick' # AtBeat
    BY <1>8 DEF TickRead, TickFail, TickClose, TickBeat, Crash, Idle, AtBeat
  <2>3. QED
    BY <2>1, <2>2
<1>9. CASE \/ Advance \/ Start \/ Recover
           \/ FinishLearning \/ RestartLearning \/ SweepRead
           \/ ImportHost \/ ClearHosts \/ UNCHANGED vars
           \/ GradeNewHost \/ AddFinding \/ ClearFindings
           \/ \E m \in Macs : SweepInsert(m) \/ ImportLease(m)
           \/ \E w \in Writers : LoadKnown(w) \/ StampContext(w) \/ RecordDiscovery(w)
           \/ \E m \in Macs, evidence \in BOOLEAN : Capture(m, evidence)
  <2>1. UNCHANGED <<context, tick, crossed>>
    BY <1>9 DEF Advance, Start, Recover, RecordDiscovery,
                FinishLearning, RestartLearning, SweepRead, ImportHost, ClearHosts,
                GradeNewHost, AddFinding, ClearFindings, Capture,
                SweepInsert, ImportLease, LoadKnown, StampContext, vars, devices, tasks, past
  <2>2. tick.step = "reopen" => tick' # AtBeat
    BY <2>1 DEF AtBeat
  <2>3. QED
    BY <2>1, <2>2
<1>10. QED
  BY <1>2, <1>3, <1>4, <1>5, <1>6, <1>7, <1>8, <1>9 DEF Next, BaselineLoop

\* Two writers of the same MAC, in whatever order, never change its stamp; the
\* burst correction does, and what it did still stands when it reopens the
\* window.
THEOREM ContextsAreFinal == Spec => ContextFinal
<1>1. Init => TypeOK /\ ContextInv
  BY InitType DEF Init, Idle, ContextInv
<1>2. TypeOK /\ ContextInv /\ [Next]_vars => TypeOK' /\ ContextInv'
  BY TypeStep, ContextNext
<1>3. TypeOK /\ ContextInv /\ [Next]_vars => [ContextStep]_vars
  BY ContextNext
<1>4. QED
  BY <1>1, <1>2, <1>3, PTL DEF Spec, ContextFinal, ContextStep

-----------------------------------------------------------------------------
(* Discoveries are counted.  A write that skips last_discovery_at is one   *)
(* whose MAC already had a row, or is being written by the other writer,   *)
(* which will count it; a cache still being loaded holds only such MACs;   *)
(* and nothing carries a time from the future.                             *)

Covered ==
    {m \in Macs : context[m] # "none" \/ m \in Unwritten \/ m \in crossed}

Past ==
    /\ lastDiscovery <= now
    /\ \A m \in Macs : /\ firstSeen[m] # None => firstSeen[m] <= now
                       /\ seen[m] # None => seen[m] <= now
                       /\ sweep[m] # None => sweep[m] <= now
    /\ \A w \in Writers : job[w] # None => job[w].first <= now

KnownCovered ==
    /\ knownMacs # None => knownMacs \subseteq Covered
    /\ \A w \in Writers :
          job[w] # None => CASE job[w].step = "load" -> /\ job[w].rows \subseteq Covered
                                                        /\ ~job[w].new
                             [] job[w].step = "host" -> ~job[w].new
                             [] job[w].step = "count" ->
                                  context[job[w].mac] # "none" \/ job[w].mac \in crossed
                             [] OTHER -> job[w].mac \in Covered

DiscoveryInv == DiscoveryCounted /\ Past /\ KnownCovered

\* A step that leaves rows, jobs and the cache alone.
LEMMA DiscoveryQuiet ==
  ASSUME DiscoveryInv,
         UNCHANGED <<context, firstSeen, lastDiscovery, job, knownMacs, crossed>>,
         Past'
  PROVE  DiscoveryInv'
<1>1. UNCHANGED Unwritten
  BY DEF Unwritten
<1>2. QED
  BY <1>1 DEF DiscoveryInv, DiscoveryCounted, KnownCovered, Covered

\* A writer that has noted nothing yet may take on any job that is covered
\* afterwards.
LEMMA DiscoveryJob ==
  ASSUME TypeOK, DiscoveryInv, NEW w \in Writers, NEW j \in JobType,
         job[w] # None => job[w].step = "load",
         job' = [job EXCEPT ![w] = j], j.first <= now, j.step \notin {"host", "count"},
         j.step = "load" => j.rows \subseteq Covered /\ ~j.new,
         j.step # "load" /\ ~j.new => j.mac \in Covered,
         knownMacs' # None => knownMacs' \subseteq
                                 Covered \cup (IF j.new THEN {j.mac} ELSE {}),
         UNCHANGED <<now, context, firstSeen, lastDiscovery, crossed, seen>>,
         \A n \in Macs : sweep'[n] # None => sweep'[n] = sweep[n]
  PROVE  DiscoveryInv'
<1>1. j # None /\ j.mac \in Macs /\ j.new \in BOOLEAN
  BY BaselineAssumption DEF JobType
<1>2. job'[w] = j /\ (\A v \in Writers \ {w} : job'[v] = job[v])
  BY DEF TypeOK
<1>3. job[w] # None => ~job[w].new
  BY DEF DiscoveryInv, KnownCovered
<1>4. Unwritten \subseteq Unwritten'
  BY <1>2, <1>3 DEF Unwritten
<1>5. j.new => j.mac \in Unwritten'
  BY <1>1, <1>2 DEF Unwritten
<1>6. Covered \subseteq Covered' /\ (j.new => j.mac \in Covered')
  BY <1>1, <1>4, <1>5 DEF Covered
<1>7. KnownCovered'
  <2>1. knownMacs' # None => knownMacs' \subseteq Covered'
    BY <1>6
  <2>2. ASSUME NEW v \in Writers, v # w, job'[v] # None
        PROVE  CASE job'[v].step = "load" -> job'[v].rows \subseteq Covered' /\ ~job'[v].new
                 [] job'[v].step = "host" -> ~job'[v].new
                 [] job'[v].step = "count" ->
                      context'[job'[v].mac] # "none" \/ job'[v].mac \in crossed'
                 [] OTHER -> job'[v].mac \in Covered'
    <3>1. job'[v] = job[v] /\ job[v] # None
      BY <1>2, <2>2
    <3>2. QED
      BY <1>6, <3>1 DEF DiscoveryInv, KnownCovered
  <2>3. QED
    BY <1>2, <1>6, <2>1, <2>2 DEF KnownCovered
<1>8. Past'
  BY <1>2 DEF DiscoveryInv, Past
<1>9. DiscoveryCounted'
  BY <1>4 DEF DiscoveryInv, DiscoveryCounted
<1>10. QED
  BY <1>7, <1>8, <1>9 DEF DiscoveryInv

\* Noting a MAC covers it.
LEMMA DiscoveryNote ==
  ASSUME TypeOK, DiscoveryInv, NEW w \in Writers, NEW m \in Macs, NEW first \in Times,
         NEW loaded \in SUBSET Macs, loaded \subseteq Covered,
         Note(w, m, first, loaded), job[w] # None => job[w].step = "load", first <= now,
         UNCHANGED <<now, context, firstSeen, lastDiscovery, crossed, seen>>,
         \A n \in Macs : sweep'[n] # None => sweep'[n] = sweep[n]
  PROVE  DiscoveryInv'
<1> DEFINE j == [step |-> IF m \in loaded THEN "write" ELSE "stamp", mac |-> m,
                 ctx |-> None, first |-> first, new |-> m \notin loaded, rows |-> {}]
<1>1. j \in JobType
  BY DEF JobType
<1>2. knownMacs' = loaded \cup {m} /\ job' = [job EXCEPT ![w] = j]
  BY DEF Note
<1>3. /\ j.first = first /\ j.mac = m /\ j.step \notin {"host", "count", "load"}
      /\ j.new <=> m \notin loaded
  OBVIOUS
<1> HIDE DEF j
<1>4. QED
  BY <1>1, <1>2, <1>3, DiscoveryJob

\* Beginning a write notes the MAC or reads the rows.
LEMMA DiscoveryBegin ==
  ASSUME TypeOK, DiscoveryInv, NEW w \in Writers, NEW m \in Macs, NEW first \in Times,
         Begin(w, m, first), job[w] = None, first <= now,
         UNCHANGED <<now, context, firstSeen, lastDiscovery, crossed, seen>>,
         \A n \in Macs : sweep'[n] # None => sweep'[n] = sweep[n]
  PROVE  DiscoveryInv'
<1>1. CASE knownMacs # None
  <2>1. knownMacs \in SUBSET Macs /\ knownMacs \subseteq Covered
    BY <1>1 DEF TypeOK, DiscoveryInv, KnownCovered
  <2>2. Note(w, m, first, knownMacs)
    BY <1>1 DEF Begin
  <2>3. QED
    BY <2>1, <2>2, DiscoveryNote
<1>2. CASE knownMacs = None
  <2> DEFINE j == [step |-> "load", mac |-> m, ctx |-> None, first |-> first,
                   new |-> FALSE, rows |-> {n \in Macs : context[n] # "none"}]
  <2>1. j \in JobType
    BY DEF JobType
  <2>2. job' = [job EXCEPT ![w] = j] /\ knownMacs' = None
    BY <1>2 DEF Begin
  <2>3. /\ j.first = first /\ j.step = "load" /\ j.new = FALSE
        /\ j.rows \subseteq Covered
    BY DEF Covered
  <2> HIDE DEF j
  <2>4. QED
    BY <2>1, <2>2, <2>3, DiscoveryJob
<1>3. QED
  BY <1>1, <1>2

\* Writing a row either leaves it to be counted or finds it covered.
LEMMA DiscoveryWrite ==
  ASSUME TypeOK, DiscoveryInv, NEW w \in Writers, WriteDevice(w)
  PROVE  DiscoveryInv'
<1> DEFINE j == job[w]
<1>1. j \in JobType /\ j.mac \in Macs /\ j.first \in Times /\ j.first <= now
      /\ j.new \in BOOLEAN /\ StoredContext(j.mac, j.ctx) \in Contexts
  BY JobTypeOf, StoredContextType DEF WriteDevice, DiscoveryInv, Past
<1>2. /\ context'[j.mac] # "none"
      /\ \A n \in Macs \ {j.mac} : context'[n] = context[n] /\ firstSeen'[n] = firstSeen[n]
      /\ firstSeen'[j.mac] \in {firstSeen[j.mac], j.first} \ {None}
      /\ context[j.mac] # "none" => firstSeen'[j.mac] <= firstSeen[j.mac]
  BY <1>1, BaselineAssumption DEF WriteDevice, TypeOK, Contexts, Times
<1>3. /\ \A v \in Writers \ {w} : job'[v] = job[v]
      /\ j.new => /\ job'[w] \in JobType /\ job'[w].step = "count" /\ job'[w].new
                  /\ job'[w].mac = j.mac /\ job'[w].first = j.first
      /\ ~j.new /\ job'[w] # None =>
            job'[w].step = "host" /\ job'[w].first = j.first /\ ~job'[w].new
  <2>1. CASE j.new
    <3>1. job' = [job EXCEPT ![w] = [j EXCEPT !.step = "count"]]
      BY <2>1 DEF WriteDevice, Counts
    <3>2. [j EXCEPT !.step = "count"] \in JobType
      BY <1>1 DEF JobType
    <3>3. QED
      BY <1>1, <2>1, <3>1, <3>2 DEF TypeOK, JobType
  <2>2. CASE ~j.new
    BY <2>2 DEF WriteDevice, Counts, Written, TypeOK
  <2>3. QED
    BY <2>1, <2>2
<1>4. Unwritten' = Unwritten
  <2>1. j # None /\ (j.new => job'[w] # None)
    BY <1>3, BaselineAssumption DEF WriteDevice
  <2>2. QED
    BY <1>3, <2>1 DEF Unwritten
<1>5. UNCHANGED <<now, lastDiscovery, seen, sweep, crossed, knownMacs>>
  BY DEF WriteDevice, sensor, hosts, past
<1>6. j # None /\ j.step = "write" /\ j.mac \in Covered
  BY DEF WriteDevice, DiscoveryInv, KnownCovered
<1>7. Past'
  <2>1. \A m \in Macs : firstSeen'[m] # None => firstSeen'[m] <= now'
    BY <1>1, <1>2, <1>5 DEF DiscoveryInv, Past
  <2>2. \A v \in Writers : job'[v] # None => job'[v].first <= now'
    BY <1>1, <1>3, <1>5 DEF DiscoveryInv, Past
  <2>3. QED
    BY <1>5, <2>1, <2>2 DEF DiscoveryInv, Past
<1>8. KnownCovered'
  <2>1. Covered \subseteq Covered'
    BY <1>2, <1>4, <1>5 DEF Covered
  <2>2. ASSUME NEW v \in Writers, v # w, job'[v] # None
        PROVE  CASE job'[v].step = "load" -> job'[v].rows \subseteq Covered' /\ ~job'[v].new
                 [] job'[v].step = "host" -> ~job'[v].new
                 [] job'[v].step = "count" ->
                      context'[job'[v].mac] # "none" \/ job'[v].mac \in crossed'
                 [] OTHER -> job'[v].mac \in Covered'
    <3>1. job'[v] = job[v] /\ job[v] # None
      BY <1>3, <2>2
    <3>2. job[v].mac \in Macs
      BY <3>1, JobTypeOf
    <3>3. context[job[v].mac] # "none" => context'[job[v].mac] # "none"
      BY <1>2, <3>2
    <3>4. QED
      BY <1>5, <2>1, <3>1, <3>3 DEF DiscoveryInv, KnownCovered
  <2>3. QED
    BY <1>1, <1>2, <1>3, <1>5, <2>1, <2>2 DEF DiscoveryInv, KnownCovered
<1>9. DiscoveryCounted'
  <2> SUFFICES ASSUME NEW m \in Macs \ (crossed' \cup Unwritten'), context'[m] # "none"
               PROVE  firstSeen'[m] <= lastDiscovery'
    BY DEF DiscoveryCounted
  <2>1. firstSeen'[m] # None /\ firstSeen'[m] \in Times
    BY <1>1, <1>2, BaselineAssumption DEF TypeOK
  <2>2. m \notin Unwritten /\ m \notin crossed
    BY <1>4, <1>5
  <2>3. context[m] # "none" /\ firstSeen[m] <= lastDiscovery
    BY <1>2, <1>6, <2>2 DEF DiscoveryInv, DiscoveryCounted, Covered
  <2>4. firstSeen[m] \in Times /\ firstSeen'[m] <= firstSeen[m]
    BY <1>2, <2>1, <2>3 DEF TypeOK, Times
  <2>5. QED
    BY <1>5, <2>1, <2>3, <2>4 DEF TypeOK, Times
<1>10. QED
  BY <1>7, <1>8, <1>9 DEF DiscoveryInv

\* The discovery clock moves to now, which no row is younger than.
LEMMA DiscoveryRecord ==
  ASSUME TypeOK, DiscoveryInv, NEW w \in Writers, RecordDiscovery(w)
  PROVE  DiscoveryInv'
<1> DEFINE j == job[w]
<1>1. j # None /\ j.step = "count" /\ j.mac \in Macs /\ j.first <= now
  BY JobTypeOf DEF RecordDiscovery, DiscoveryInv, Past
<1>2. /\ \A v \in Writers \ {w} : job'[v] = job[v]
      /\ job'[w] # None => job'[w].step = "host" /\ job'[w].first = j.first
                            /\ ~job'[w].new
  BY DEF RecordDiscovery, Written, TypeOK
<1>3. UNCHANGED <<now, context, firstSeen, seen, sweep, crossed, knownMacs>>
      /\ lastDiscovery' = now
  BY DEF RecordDiscovery, devices, hosts, past
<1>4. Unwritten \ {j.mac} \subseteq Unwritten'
  BY <1>2 DEF Unwritten
<1>5. context[j.mac] # "none" \/ j.mac \in crossed
  BY <1>1 DEF DiscoveryInv, KnownCovered
<1>6. Covered \subseteq Covered'
  BY <1>3, <1>4, <1>5 DEF Covered
<1>7. Past'
  BY <1>1, <1>2, <1>3 DEF DiscoveryInv, Past, TypeOK, Times
<1>8. KnownCovered'
  BY <1>2, <1>3, <1>6 DEF DiscoveryInv, KnownCovered
<1>9. DiscoveryCounted'
  BY <1>3, <1>7, BaselineAssumption DEF DiscoveryCounted, Past, TypeOK
<1>10. QED
  BY <1>7, <1>8, <1>9 DEF DiscoveryInv

LEMMA DiscoveryInvStep ==
  ASSUME TypeOK, DiscoveryInv, [Next]_vars
  PROVE  DiscoveryInv'
<1>1. CASE Advance
  <2>1. Past'
    BY <1>1, BaselineAssumption
       DEF Advance, DiscoveryInv, Past, TypeOK, Times, JobType, sensor, devices, hosts, tasks
  <2>2. QED
    BY <1>1, <2>1, DiscoveryQuiet DEF Advance, sensor, devices, tasks, past
<1>2. CASE Crash
  <2>1. Unwritten' = {} /\ \A v \in Writers : job'[v] = None
    BY <1>2 DEF Crash, Unwritten
  <2>2. Past'
    BY <1>2, <2>1 DEF Crash, DiscoveryInv, Past, sensor, devices, hosts
  <2>3. KnownCovered'
    BY <1>2, <2>1 DEF Crash, KnownCovered
  <2>4. DiscoveryCounted'
    BY <1>2, <2>1 DEF Crash, DiscoveryInv, DiscoveryCounted, sensor, devices
  <2>5. QED
    BY <2>2, <2>3, <2>4 DEF DiscoveryInv
<1>3. CASE TickReenter
  <2>1. (\A m \in Macs : context'[m] = "none" <=> context[m] = "none")
        /\ UNCHANGED <<now, lastDiscovery, firstSeen, seen, sweep, job, knownMacs>>
    BY <1>3 DEF TickReenter, TypeOK, sensor, hosts
  <2>2. UNCHANGED Unwritten /\ crossed \subseteq crossed'
    BY <1>3 DEF TickReenter, Unwritten
  <2>3. Covered \subseteq Covered'
    BY <2>1, <2>2 DEF Covered
  <2>4. DiscoveryCounted' /\ Past'
    BY <2>1, <2>2 DEF DiscoveryInv, DiscoveryCounted, Past
  <2>5. KnownCovered'
    BY <2>1, <2>2, <2>3, JobTypeOf DEF DiscoveryInv, KnownCovered
  <2>6. QED
    BY <2>4, <2>5 DEF DiscoveryInv
<1>4. CASE SweepRead
  <2>1. Past'
    BY <1>4 DEF SweepRead, DiscoveryInv, Past, sensor, devices, hosts
  <2>2. QED
    BY <1>4, <2>1, DiscoveryQuiet DEF SweepRead, sensor, devices, past
<1>5. ASSUME NEW m \in Macs, SweepInsert(m) PROVE DiscoveryInv'
  <2>1. sweep[m] \in Times /\ sweep[m] <= now
    BY <1>5 DEF SweepInsert, TypeOK, DiscoveryInv, Past
  <2>2. \A n \in Macs : sweep'[n] # None => sweep'[n] = sweep[n]
    BY <1>5 DEF SweepInsert, TypeOK
  <2>3. QED
    BY <1>5, <2>1, <2>2, DiscoveryBegin DEF SweepInsert, Writers, sensor, devices, hosts, past
<1>6. ASSUME NEW m \in Macs, ImportLease(m) PROVE DiscoveryInv'
  <2>1. now \in Times /\ now <= now
    BY DEF TypeOK, Times
  <2>2. QED
    BY <1>6, <2>1, DiscoveryBegin DEF ImportLease, Writers, sensor, devices, hosts, past
<1>7. ASSUME NEW w \in Writers, StampContext(w) PROVE DiscoveryInv'
  <2>1. /\ \A v \in Writers \ {w} : job'[v] = job[v]
        /\ job'[w].new = job[w].new /\ job'[w].mac = job[w].mac
        /\ job'[w].first = job[w].first /\ job[w].step = "stamp"
    BY <1>7 DEF StampContext, TypeOK
  <2>2. job'[w] # None /\ job[w] # None
    <3>1. job'[w] \in JobType
      BY <1>7, JobTypeOf DEF StampContext, TypeOK, JobType, Contexts
    <3>2. QED
      BY <1>7, <3>1, BaselineAssumption DEF StampContext
  <2>3. UNCHANGED Unwritten
    BY <2>1, <2>2 DEF Unwritten
  <2>4. UNCHANGED <<now, context, firstSeen, lastDiscovery, seen, sweep, knownMacs, crossed>>
    BY <1>7 DEF StampContext, sensor, devices, hosts, past
  <2>5. UNCHANGED Covered
    BY <2>3, <2>4 DEF Covered
  <2>6. Past'
    BY <2>1, <2>2, <2>4 DEF DiscoveryInv, Past
  <2>7. KnownCovered'
    <3>1. job'[w].step = "write"
      BY <1>7 DEF StampContext, TypeOK
    <3>2. job'[w].mac \in Covered'
      BY <2>1, <2>2, <2>5 DEF DiscoveryInv, KnownCovered
    <3>3. QED
      BY <2>1, <2>4, <2>5, <3>1, <3>2 DEF DiscoveryInv, KnownCovered
  <2>8. QED
    BY <2>3, <2>4, <2>6, <2>7 DEF DiscoveryInv, DiscoveryCounted
<1>8. ASSUME NEW w \in Writers, WriteDevice(w) PROVE DiscoveryInv'
  BY <1>8, DiscoveryWrite
<1>9. CASE ImportHost
  <2>1. /\ job["importer"] # None /\ job["importer"].step = "host"
        /\ job'["importer"] = None /\ job'["sweeper"] = job["sweeper"]
    BY <1>9 DEF ImportHost, TypeOK, Writers
  <2>2. PICK i \in Times : i <= now /\ seen' = [seen EXCEPT ![job["importer"].mac] =
                                IF @ = None \/ @ < i THEN i ELSE @]
    BY <1>9, JobTypeOf DEF ImportHost, DiscoveryInv, Past, Writers
  <2>3. UNCHANGED <<now, context, firstSeen, lastDiscovery, sweep, knownMacs, crossed>>
    BY <1>9 DEF ImportHost, sensor, devices, past
  <2>4. Unwritten' = Unwritten
    <3>1. ~job["importer"].new
      BY <2>1 DEF DiscoveryInv, KnownCovered, Writers
    <3>2. QED
      BY <2>1, <3>1 DEF Unwritten, Writers
  <2>5. Past'
    BY <2>1, <2>2, <2>3 DEF DiscoveryInv, Past, TypeOK, Writers
  <2>6. QED
    BY <2>1, <2>3, <2>4, <2>5
       DEF DiscoveryInv, DiscoveryCounted, KnownCovered, Covered, Writers
<1>10. ASSUME NEW m \in Macs, NEW evidence \in BOOLEAN, Capture(m, evidence)
       PROVE  DiscoveryInv'
  <2>1. Past'
    BY <1>10 DEF Capture, DiscoveryInv, Past, TypeOK, Times, sensor, devices
  <2>2. QED
    BY <1>10, <2>1, DiscoveryQuiet DEF Capture, sensor, devices, past
<1>11. CASE ClearDevices
  <2>1. UNCHANGED Unwritten
    BY <1>11 DEF ClearDevices, Unwritten
  <2>2. Covered' = Macs
    BY <1>11 DEF ClearDevices, Covered
  <2>3. KnownCovered'
    BY <1>11, <2>2, JobTypeOf
       DEF ClearDevices, KnownCovered, TypeOK, DiscoveryInv, Covered
  <2>4. Past'
    BY <1>11 DEF ClearDevices, DiscoveryInv, Past, sensor, hosts
  <2>5. DiscoveryCounted'
    BY <1>11 DEF ClearDevices, DiscoveryCounted
  <2>6. QED
    BY <2>3, <2>4, <2>5 DEF DiscoveryInv
<1>12. CASE ClearHosts
  <2>1. Past'
    BY <1>12 DEF ClearHosts, DiscoveryInv, Past, sensor, devices
  <2>2. QED
    BY <1>12, <2>1, DiscoveryQuiet DEF ClearHosts, sensor, devices, past
<1>16. ASSUME NEW w \in Writers, RecordDiscovery(w) PROVE DiscoveryInv'
  BY <1>16, DiscoveryRecord
<1>13. CASE \/ Start \/ Recover \/ TickRead \/ TickBurst \/ TickClose
            \/ TickDowngrade \/ TickReopen \/ TickFail \/ TickBeat
            \/ FinishLearning \/ RestartLearning
            \/ GradeNewHost \/ AddFinding \/ ClearFindings \/ UNCHANGED vars
  <2>1. UNCHANGED <<now, context, firstSeen, lastDiscovery, job, knownMacs, crossed,
                    seen, sweep>>
    BY <1>13 DEF Start, Recover, TickRead, TickBurst, TickClose, TickBeat,
                TickDowngrade, TickReopen, TickFail,
                FinishLearning, RestartLearning, GradeNewHost, AddFinding, ClearFindings,
                vars, sensor, devices, hosts, tasks, past
  <2>2. Past'
    BY <2>1 DEF DiscoveryInv, Past
  <2>3. QED
    BY <2>1, <2>2, DiscoveryQuiet
<1>14. ASSUME NEW w \in Writers, LoadKnown(w) PROVE DiscoveryInv'
  <2>1. /\ job[w].mac \in Macs /\ job[w].first \in Times /\ job[w].rows \in SUBSET Macs
        /\ job[w].first <= now /\ job[w].rows \subseteq Covered
    BY <1>14, JobTypeOf DEF LoadKnown, DiscoveryInv, Past, KnownCovered
  <2>2. QED
    BY <1>14, <2>1, DiscoveryNote DEF LoadKnown, sensor, devices, hosts, past
<1>15. QED
  BY <1>1, <1>2, <1>3, <1>4, <1>5, <1>6, <1>7, <1>8, <1>9, <1>10, <1>11, <1>12,
     <1>13, <1>14, <1>16 DEF Next, BaselineLoop

\* Whichever of two concurrent writers inserts a row, the discovery clock that
\* closes the learning window has seen it.
THEOREM DiscoveriesCounted == Spec => []DiscoveryCounted
<1>1. Init => TypeOK /\ DiscoveryInv
  <2> SUFFICES ASSUME Init PROVE DiscoveryInv
    BY InitType
  <2>1. 0 <= 0 /\ \A w \in Writers : job[w] = None
    BY DEF Init
  <2>2. QED
    BY <2>1 DEF Init, DiscoveryInv, DiscoveryCounted, Past, KnownCovered
<1>2. TypeOK /\ DiscoveryInv /\ [Next]_vars => TypeOK' /\ DiscoveryInv'
  BY TypeStep, DiscoveryInvStep
<1>3. DiscoveryInv => DiscoveryCounted
  BY DEF DiscoveryInv
<1>4. QED
  BY <1>1, <1>2, <1>3, PTL DEF Spec

=============================================================================
