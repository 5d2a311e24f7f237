------------------------------ MODULE Presence ------------------------------
(***************************************************************************)
(* Which devices are online: the sweeper (presence/sweeper.py), the        *)
(* findings of its transitions (rules/presence.py), the separate check of  *)
(* infrastructure devices (app.py, _check_infra_offline), and what races   *)
(* with them: packets, the operator, clearing the database, a restart.     *)
(*                                                                         *)
(* Every database access is a step of its own.  Time is counted in units   *)
(* of 30 seconds, within which hosts.last_active does not move; the clock  *)
(* does not advance between the sweeper's reading it and its query.        *)
(***************************************************************************)
EXTENDS Integers, FiniteSets, Sequences

CONSTANTS
    Macs,
    Infra,           \* those with a verdict of an infrastructure category
    Usual,           \* the threshold by type and randomization of each device
    Default,         \* the default of presence_threshold_seconds
    Settings,        \* the thresholds an operator may set
    InfraLimit,      \* the age at which an infrastructure device is reported
    MaxTime,         \* bound on the clock
    MaxUpsets,       \* bound on requests, failed accesses and restarts
    None             \* "no value"

Times   == 0..MaxTime
Limits  == {Default} \cup Settings
Devices == [online : BOOLEAN, seen : Times, limit : Limits]
Transitions == [mac : Macs, to : {"online", "offline"}]

ASSUME PresenceAssumption ==
    /\ Infra \subseteq Macs
    /\ Usual \in [Macs -> Nat] /\ Default \in Nat /\ Settings \subseteq Nat
    /\ InfraLimit \in Nat /\ MaxTime \in Nat
    /\ MaxUpsets \in Nat
    /\ None \notin Times /\ None \notin Devices /\ None \notin Macs

VARIABLES
    now,
    host,            \* hosts.last_active
    device,          \* the devices row: is_online, last_seen, threshold
    sweep,           \* is a pass running?
    sampled,         \* should_be_online by its query, kept until the next pass
    insert,          \* the last_seen of the devices rows it has to insert
    todo,            \* the rows that remain to be treated
    trans,           \* transitions whose callback has not run
    suspects,        \* devices _check_infra_offline has still to look at
    since,           \* its threshold
    step, suspect,   \* where it stands, and with which device
    open,            \* unresolved device_went_offline findings, by author
    said,            \* the last presence finding added of a device
    clearing,        \* clear_database: what it deletes next
    lost,            \* history: a fault or a clear hit the device's findings
    upsets

pass  == <<sweep, sampled, insert, todo, trans>>
check == <<suspects, since, step, suspect>>
vars  == <<now, host, device, pass, check, open, said, clearing, lost, upsets>>

\* A request of the operator, a failed access or a restart.
Upset == upsets < MaxUpsets /\ upsets' = upsets + 1

-----------------------------------------------------------------------------
(* Pure parts.                                                             *)

\* _effective_threshold: a threshold other than the default is the operator's.
EffectiveThreshold(m) ==
    IF device[m] = None \/ device[m].limit = Default THEN Usual[m]
    ELSE device[m].limit

\* COALESCE(h.last_active, d.last_seen)
LastSeen(m) ==
    IF host[m] # None THEN host[m]
    ELSE IF device[m] # None THEN device[m].seen ELSE None

Fresh(m) == LastSeen(m) = None \/ now - LastSeen(m) < EffectiveThreshold(m)
Shown(m) == device[m] = None \/ device[m].online

\* The rows a pass has to treat.
TreatsSilent(m) == LastSeen(m) # None /\ (device[m] = None \/ (Shown(m) /\ ~Fresh(m)))
Treats(m) == LastSeen(m) # None /\ (device[m] = None \/ Shown(m) # Fresh(m))

\* set_device_online, set_device_offline: an UPDATE, of no row if there is none.
SetOnlineEverywhere(m, b) ==
    [n \in Macs |-> IF device[n] = None THEN None ELSE [device[n] EXCEPT !.online = b]]
SetOnline(m, b) ==
    [device EXCEPT ![m] = IF @ = None THEN @ ELSE [@ EXCEPT !.online = b]]

\* upsert_device of a row with nothing but a last_seen.
UpsertedBare(m, t) ==
    [device EXCEPT ![m] = IF @ = None THEN [online |-> TRUE, seen |-> None, limit |-> Default]
                          ELSE @]
Merged(m, t) ==
    IF device[m] = None THEN [online |-> TRUE, seen |-> t, limit |-> Default]
    ELSE [device[m] EXCEPT !.seen = IF t > device[m].seen THEN t ELSE device[m].seen]
Upserted(m, t) == [device EXCEPT ![m] = Merged(m, t)]

AnyOpen(m) == open[m].sweeper + open[m].infra > 0
Pending(m) == {trans[k].to : k \in {j \in DOMAIN trans : trans[j].mac = m}}

-----------------------------------------------------------------------------
(* Time and traffic.                                                       *)

\* external: the clock.
Tick ==
    /\ now < MaxTime
    /\ now' = now + 1
    /\ UNCHANGED <<host, device, pass, check, open, said, clearing, lost, upsets>>

\* A packet of the device is processed.
Packet(m) ==
    /\ host' = [host EXCEPT ![m] = now]
    /\ UNCHANGED <<now, device, pass, check, open, said, clearing, lost, upsets>>

-----------------------------------------------------------------------------
(* The sweeper.                                                            *)

SweepRead ==
    /\ ~sweep
    /\ sweep' = TRUE
    /\ sampled' = [m \in Macs |-> Fresh(m)]
    /\ insert' = [m \in Macs |-> IF device[m] = None THEN LastSeen(m) ELSE None]
    /\ todo' = {m \in Macs : Treats(m)}
    /\ UNCHANGED <<now, host, device, trans, check, open, said, clearing, lost, upsets>>

\* A missing devices row is inserted first; it counts as online.
SweepInsert(m) ==
    /\ m \in todo
    /\ insert[m] # None
    /\ device' = Upserted(m, insert[m])
    /\ insert' = [insert EXCEPT ![m] = None]
    /\ todo' = IF sampled[m] THEN todo \ {m} ELSE todo
    /\ UNCHANGED <<now, host, sweep, sampled, trans, check, open, said, clearing, lost, upsets>>

SweepFlip(m) ==
    /\ m \in todo
    /\ insert[m] = None
    /\ device' = SetOnline(m, sampled[m])
    /\ trans' = Append(trans, [mac |-> m, to |-> IF sampled[m] THEN "online" ELSE "offline"])
    /\ todo' = todo \ {m}
    /\ UNCHANGED <<now, host, sweep, sampled, insert, check, open, said, clearing, lost, upsets>>

\* An access fails: run() drops the pass, with the callbacks of what is already set.
SweepFails ==
    /\ todo # {}
    /\ Upset
    /\ sweep' = FALSE
    /\ todo' = {} /\ insert' = [m \in Macs |-> None]
    /\ trans' = <<>>
    /\ lost' = [m \in Macs |-> lost[m] \/ Pending(m) # {}]
    /\ UNCHANGED <<now, host, device, sampled, check, open, said, clearing>>

\* handle_presence_transition.
WentOfflineUnlessOpen(m) ==
    /\ IF AnyOpen(m) THEN UNCHANGED <<open, said>>
       ELSE /\ open' = [open EXCEPT ![m].sweeper = @ + 1]
            /\ said' = [said EXCEPT ![m] = "offline"]
    /\ UNCHANGED lost
WentOffline(m) ==
    /\ open' = [open EXCEPT ![m].sweeper = @ + 1]
    /\ said' = [said EXCEPT ![m] = "offline"]
    /\ UNCHANGED lost

CameOnlineKeeps(m) ==
    /\ said' = [said EXCEPT ![m] = "online"]
    /\ lost' = [lost EXCEPT ![m] = FALSE]
    /\ UNCHANGED open
CameOnline(m) ==
    /\ open' = [open EXCEPT ![m] = [sweeper |-> 0, infra |-> 0]]
    /\ said' = [said EXCEPT ![m] = "online"]
    /\ lost' = [lost EXCEPT ![m] = FALSE]

Callback ==
    /\ sweep /\ todo = {} /\ trans # <<>>
    /\ LET t == Head(trans) IN
          \/ t.to = "offline" /\ WentOffline(t.mac)
          \/ t.to = "online" /\ CameOnline(t.mac)
    /\ trans' = Tail(trans)
    /\ UNCHANGED <<now, host, device, sweep, sampled, insert, todo, check, clearing, upsets>>

\* The open findings are not resolved, or the new one is not added: logged, not retried.
CallbackFails ==
    /\ sweep /\ todo = {} /\ trans # <<>>
    /\ Upset
    /\ LET t == Head(trans) IN
          /\ \/ UNCHANGED <<open, said>>
             \/ /\ t.to = "online"
                /\ said' = [said EXCEPT ![t.mac] = "online"]
                /\ UNCHANGED open
             \/ /\ t.to = "online"
                /\ open' = [open EXCEPT ![t.mac] = [sweeper |-> 0, infra |-> 0]]
                /\ UNCHANGED said
          /\ lost' = [lost EXCEPT ![t.mac] = TRUE]
    /\ trans' = Tail(trans)
    /\ UNCHANGED <<now, host, device, sweep, sampled, insert, todo, check, clearing>>

SweepEnds ==
    /\ sweep /\ todo = {} /\ trans = <<>>
    /\ sweep' = FALSE
    /\ UNCHANGED <<now, host, device, sampled, insert, todo, trans, check, open, said, clearing, lost,
                   upsets>>

-----------------------------------------------------------------------------
(* _check_infra_offline.                                                   *)

InfraBegin ==
    /\ step = "idle"
    /\ suspects' = Infra
    /\ since' = now - InfraLimit
    /\ step' = "host"
    /\ UNCHANGED <<now, host, device, pass, suspect, open, said, clearing, lost, upsets>>

InfraHost ==
    /\ step = "host"
    /\ \E m \in suspects :
          /\ suspects' = suspects \ {m}
          /\ IF host[m] = None \/ host[m] >= since
             THEN UNCHANGED <<step, suspect>>
             ELSE step' = "look" /\ suspect' = m
    /\ UNCHANGED <<now, host, device, pass, since, open, said, clearing, lost, upsets>>

\* An open offline finding, whoever wrote it, is enough; a failed look-up is ignored.
InfraLook ==
    /\ step = "look"
    /\ \/ AnyOpen(suspect) /\ step' = "host" /\ suspect' = None /\ UNCHANGED <<lost, upsets>>
       \/ ~AnyOpen(suspect) /\ step' = "add" /\ UNCHANGED <<suspect, lost, upsets>>
       \/ /\ Upset
          /\ step' = "add"
          /\ lost' = [lost EXCEPT ![suspect] = TRUE]
          /\ UNCHANGED suspect
    /\ UNCHANGED <<now, host, device, pass, suspects, since, open, said, clearing>>

InfraAdd ==
    /\ step = "add"
    /\ open' = [open EXCEPT ![suspect].infra = @ + 1]
    /\ step' = "host"
    /\ suspect' = None
    /\ UNCHANGED <<now, host, device, pass, suspects, since, said, clearing, lost, upsets>>

\* An access other than the look-up fails: the analysis loop drops the check.
InfraFails ==
    /\ step \in {"host", "add"}
    /\ Upset
    /\ step' = "idle"
    /\ suspects' = {} /\ since' = 0 /\ suspect' = None
    /\ UNCHANGED <<now, host, device, pass, open, said, clearing, lost>>

InfraEnds ==
    /\ step = "host" /\ suspects = {}
    /\ step' = "idle"
    /\ since' = 0
    /\ UNCHANGED <<now, host, device, pass, suspects, suspect, open, said, clearing, lost, upsets>>

-----------------------------------------------------------------------------
(* The operator and restarts.                                              *)

\* patch_device: the row is created from the host if there is none.
PatchThreshold(m, v) ==
    /\ device[m] # None \/ host[m] # None
    /\ Upset
    /\ LET d == IF device[m] # None THEN device[m]
                ELSE [online |-> TRUE, seen |-> host[m], limit |-> Default]
       IN  device' = [device EXCEPT ![m] = [d EXCEPT !.limit = v]]
    /\ UNCHANGED <<now, host, pass, check, open, said, clearing, lost>>

Resolve(m, by) ==
    /\ open[m][by] > 0
    /\ Upset
    /\ open' = [open EXCEPT ![m][by] = @ - 1]
    /\ UNCHANGED <<now, host, device, pass, check, said, clearing, lost>>

\* clear_database: devices, then hosts, then findings.
ClearDevices ==
    /\ clearing = "none"
    /\ Upset
    /\ device' = [m \in Macs |-> None]
    /\ clearing' = "hosts"
    /\ lost' = [m \in Macs |-> TRUE]
    /\ UNCHANGED <<now, host, pass, check, open, said>>

ClearHosts ==
    /\ clearing = "hosts"
    /\ host' = [m \in Macs |-> None]
    /\ clearing' = "findings"
    /\ UNCHANGED <<now, device, pass, check, open, said, lost, upsets>>

ClearFindings ==
    /\ clearing = "findings"
    /\ open' = [m \in Macs |-> [sweeper |-> 0, infra |-> 0]]
    /\ said' = [m \in Macs |-> "none"]
    /\ clearing' = "none"
    /\ lost' = [m \in Macs |-> TRUE]
    /\ UNCHANGED <<now, host, device, pass, check, upsets>>

\* A kill and a start; what the tasks held in memory is gone.
Restart ==
    /\ Upset
    /\ sweep' = FALSE /\ todo' = {} /\ trans' = <<>>
    /\ insert' = [m \in Macs |-> None]
    /\ step' = "idle" /\ suspects' = {} /\ since' = 0 /\ suspect' = None
    /\ clearing' = "none"
    /\ lost' = [m \in Macs |-> lost[m] \/ Pending(m) # {}]
    /\ UNCHANGED <<now, host, device, sampled, open, said>>

-----------------------------------------------------------------------------
Init ==
    /\ now = 0
    /\ host = [m \in Macs |-> None]
    /\ device = [m \in Macs |-> None]
    /\ sweep = FALSE
    /\ sampled = [m \in Macs |-> TRUE]
    /\ insert = [m \in Macs |-> None]
    /\ todo = {} /\ trans = <<>>
    /\ suspects = {} /\ since = 0 /\ step = "idle" /\ suspect = None
    /\ open = [m \in Macs |-> [sweeper |-> 0, infra |-> 0]]
    /\ said = [m \in Macs |-> "none"]
    /\ clearing = "none"
    /\ lost = [m \in Macs |-> FALSE]
    /\ upsets = 0

SweepRow(m) == SweepInsert(m) \/ SweepFlip(m)
Sweeper == SweepRead \/ (\E m \in Macs : SweepRow(m)) \/ Callback \/ SweepEnds
InfraCheck == InfraBegin \/ InfraHost \/ InfraLook \/ InfraAdd \/ InfraFails \/ InfraEnds
Web ==
    \/ \E m \in Macs :
          \/ \E v \in Settings : PatchThreshold(m, v)
          \/ \E by \in {"sweeper", "infra"} : Resolve(m, by)
    \/ ClearDevices \/ ClearHosts \/ ClearFindings

Next ==
    \/ Tick
    \/ \E m \in Macs : Packet(m)
    \/ Sweeper \/ SweepFails \/ CallbackFails
    \/ InfraCheck
    \/ Web
    \/ Restart

Spec == Init /\ [][Next]_vars

\* run() starts a pass every minute for as long as the program runs.
FairSpec == Spec /\ WF_vars(Sweeper)

-----------------------------------------------------------------------------
(* Properties.                                                             *)

TypeOK ==
    /\ now \in Times
    /\ host \in [Macs -> Times \cup {None}]
    /\ device \in [Macs -> Devices \cup {None}]
    /\ sweep \in BOOLEAN
    /\ sampled \in [Macs -> BOOLEAN]
    /\ insert \in [Macs -> Times \cup {None}]
    /\ todo \in SUBSET Macs /\ trans \in Seq(Transitions)
    /\ suspects \in SUBSET Macs /\ since \in Int
    /\ step \in {"idle", "host", "look", "add"}
    /\ suspect \in Macs \cup {None}
    /\ open \in [Macs -> [sweeper : Nat, infra : Nat]]
    /\ said \in [Macs -> {"none", "offline", "online"}]
    /\ clearing \in {"none", "hosts", "findings"}
    /\ lost \in [Macs -> BOOLEAN]
    /\ upsets \in 0..MaxUpsets

\* What is shown of a device is what one sample of all devices found, or "online" after
\* a clear; however a pass is interrupted, and whatever packets, edits and clears run
\* between its query and its updates (presence/sweeper.py:87-167).
View == INSTANCE PresenceView WITH
            alive <- [m \in Macs |-> Fresh(m)],
            sampled <- sampled,
            shown <- [m \in Macs |-> Shown(m)]
ImplementsView == View!Spec

\* What is shown of a device never disagrees with its state for good: silence beyond
\* the threshold and a return are both noticed, in spite of failed passes, restarts
\* and clears (presence/sweeper.py:209-218).
ViewConverges == \A m \in Macs : []<>(Shown(m) = Fresh(m))

\* Unless a fault or a clear has hit the device's findings since it last came online,
\* the last presence finding agrees with its row, or the callback that will make it
\* agree is on its way (rules/presence.py:32-80, presence/sweeper.py:154-175).
FindingsTrackRows ==
    \A m \in Macs : ~lost[m] =>
        \/ Pending(m) = {IF Shown(m) THEN "online" ELSE "offline"}
        \/ Pending(m) = {} /\ (said[m] = "offline" <=> ~Shown(m))

\* Under the same condition an outage has one open finding of the sweeper and one of
\* the infrastructure check at most, although neither looks under a lock, and none of
\* the sweeper's is open once the device is shown online and its return is reported
\* (app.py:1007-1043, rules/presence.py:57-67).
OneOpenPerOutage ==
    \A m \in Macs : ~lost[m] =>
        /\ open[m].sweeper <= 1
        /\ open[m].infra <= 1
        /\ Shown(m) /\ Pending(m) = {} => open[m].sweeper = 0

=============================================================================
