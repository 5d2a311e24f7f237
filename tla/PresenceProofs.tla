--------------------------- MODULE PresenceProofs ---------------------------
(***************************************************************************)
(* Proofs about Presence, for every set of devices, every threshold and    *)
(* every bound: types, the refinement of PresenceView, and what the        *)
(* findings say.                                                           *)
(***************************************************************************)
EXTENDS Presence, TLAPS

-----------------------------------------------------------------------------
(* Types.                                                                  *)

LEMMA DeviceType ==
  ASSUME TypeOK, NEW m \in Macs, device[m] # None
  PROVE  /\ device[m] \in Devices
         /\ device[m].online \in BOOLEAN /\ device[m].seen \in Times /\ device[m].limit \in Limits
  BY DEF TypeOK, Devices

LEMMA LastSeenType ==
  ASSUME TypeOK, NEW m \in Macs
  PROVE  LastSeen(m) \in Times \cup {None}
  BY DeviceType DEF TypeOK, LastSeen

LEMMA FreshType == \A m : Fresh(m) \in BOOLEAN
  BY DEF Fresh

LEMMA ShownType ==
  ASSUME TypeOK, NEW m \in Macs
  PROVE  Shown(m) \in BOOLEAN
  BY DeviceType DEF Shown

LEMMA SetOnlineType ==
  ASSUME TypeOK, NEW m \in Macs, NEW b \in BOOLEAN
  PROVE  SetOnline(m, b) \in [Macs -> Devices \cup {None}]
<1>1. device[m] # None => [device[m] EXCEPT !.online = b] \in Devices
  BY DeviceType DEF Devices
<1>2. QED
  BY <1>1 DEF TypeOK, SetOnline

LEMMA MergedType ==
  ASSUME TypeOK, NEW m \in Macs, NEW t \in Times
  PROVE  Merged(m, t) \in Devices
<1>1. [online |-> TRUE, seen |-> t, limit |-> Default] \in Devices
  BY DEF Devices, Limits
<1>2. ASSUME device[m] # None
      PROVE  [device[m] EXCEPT !.seen = IF t > device[m].seen THEN t ELSE device[m].seen] \in Devices
  <2>1. (IF t > device[m].seen THEN t ELSE device[m].seen) \in Times
    BY <1>2, DeviceType
  <2>2. QED
    BY <1>2, <2>1, DeviceType DEF Devices
<1>3. QED
  BY <1>1, <1>2 DEF Merged

LEMMA UpsertedType ==
  ASSUME TypeOK, NEW m \in Macs, NEW t \in Times
  PROVE  Upserted(m, t) \in [Macs -> Devices \cup {None}]
  BY MergedType DEF TypeOK, Upserted

LEMMA SweeperType ==
  ASSUME TypeOK, Sweeper \/ SweepFails \/ CallbackFails
  PROVE  TypeOK'
<1>1. CASE SweepRead
  <2>1. sampled' \in [Macs -> BOOLEAN]
    BY <1>1, FreshType DEF SweepRead
  <2>2. insert' \in [Macs -> Times \cup {None}]
    BY <1>1, LastSeenType DEF SweepRead
  <2>3. QED
    BY <1>1, <2>1, <2>2 DEF SweepRead, TypeOK, pass, check
<1>2. ASSUME NEW m \in Macs, SweepInsert(m) PROVE TypeOK'
  <2>1. insert[m] \in Times
    BY <1>2 DEF SweepInsert, TypeOK, pass, check
  <2>2. device' \in [Macs -> Devices \cup {None}]
    BY <1>2, <2>1, UpsertedType DEF SweepInsert
  <2>3. insert' \in [Macs -> Times \cup {None}] /\ todo' \in SUBSET Macs
    BY <1>2 DEF SweepInsert, TypeOK, pass, check
  <2>4. QED
    BY <1>2, <2>2, <2>3 DEF SweepInsert, TypeOK, pass, check
<1>3. ASSUME NEW m \in Macs, SweepFlip(m) PROVE TypeOK'
  <2>1. device' \in [Macs -> Devices \cup {None}]
    <3>1. sampled[m] \in BOOLEAN
      BY DEF TypeOK
    <3>2. QED
      BY <1>3, <3>1, SetOnlineType DEF SweepFlip
  <2>2. [mac |-> m, to |-> IF sampled[m] THEN "online" ELSE "offline"] \in Transitions
    BY DEF Transitions
  <2>3. trans' \in Seq(Transitions) /\ todo' \in SUBSET Macs
    BY <1>3, <2>2 DEF SweepFlip, TypeOK, pass, check
  <2>4. QED
    BY <1>3, <2>1, <2>3 DEF SweepFlip, TypeOK, pass, check
<1>4. CASE SweepFails
  <2>1. trans' \in Seq(Transitions) /\ lost' \in [Macs -> BOOLEAN]
        /\ insert' \in [Macs -> Times \cup {None}] /\ upsets' \in 0..MaxUpsets
    BY <1>4, PresenceAssumption DEF SweepFails, TypeOK, pass, check, Upset
  <2>2. QED
    BY <1>4, <2>1 DEF SweepFails, TypeOK, pass, check
<1>5. ASSUME trans # <<>>
      PROVE  /\ Head(trans) \in Transitions /\ Tail(trans) \in Seq(Transitions)
             /\ Head(trans).mac \in Macs /\ Head(trans).to \in {"online", "offline"}
  <2>1. trans \in Seq(Transitions)
    BY DEF TypeOK
  <2>2. Head(trans) \in Transitions /\ Tail(trans) \in Seq(Transitions)
    BY <1>5, <2>1
  <2>3. QED
    BY <2>2 DEF Transitions
<1>6. CASE Callback
  <2>1. /\ Head(trans) \in Transitions /\ trans' \in Seq(Transitions)
        /\ Head(trans).mac \in Macs
    BY <1>5, <1>6 DEF Callback
  <2>2. ASSUME NEW m \in Macs, WentOffline(m) \/ CameOnline(m)
        PROVE  /\ open' \in [Macs -> [sweeper : Nat, infra : Nat]]
               /\ said' \in [Macs -> {"none", "offline", "online"}]
               /\ lost' \in [Macs -> BOOLEAN]
    <3>1. open[m] \in [sweeper : Nat, infra : Nat]
      BY DEF TypeOK
    <3>2. [open[m] EXCEPT !.sweeper = @ + 1] \in [sweeper : Nat, infra : Nat]
      BY <3>1
    <3>3. [sweeper |-> 0, infra |-> 0] \in [sweeper : Nat, infra : Nat]
      OBVIOUS
    <3>4. open' \in [Macs -> [sweeper : Nat, infra : Nat]]
      BY <2>2, <3>2, <3>3 DEF WentOffline, CameOnline, TypeOK
    <3>5. QED
      BY <2>2, <3>4 DEF WentOffline, CameOnline, TypeOK
  <2>3. /\ open' \in [Macs -> [sweeper : Nat, infra : Nat]]
        /\ said' \in [Macs -> {"none", "offline", "online"}]
        /\ lost' \in [Macs -> BOOLEAN]
    BY <1>6, <2>1, <2>2 DEF Callback
  <2>4. QED
    BY <1>6, <2>1, <2>3 DEF Callback, TypeOK, pass, check
<1>7. CASE CallbackFails
  <2>1. /\ Head(trans) \in Transitions /\ trans' \in Seq(Transitions)
        /\ Head(trans).mac \in Macs
    BY <1>5, <1>7 DEF CallbackFails
  <2>2. /\ said' = said \/ said' = [said EXCEPT ![Head(trans).mac] = "online"]
        /\ open' = open \/ open' = [open EXCEPT ![Head(trans).mac] = [sweeper |-> 0, infra |-> 0]]
    BY <1>7 DEF CallbackFails
  <2>3. /\ open' \in [Macs -> [sweeper : Nat, infra : Nat]]
        /\ said' \in [Macs -> {"none", "offline", "online"}]
        /\ lost' \in [Macs -> BOOLEAN] /\ upsets' \in 0..MaxUpsets
    <3>1. said' \in [Macs -> {"none", "offline", "online"}]
      BY <2>1, <2>2 DEF TypeOK
    <3>2. lost' = [lost EXCEPT ![Head(trans).mac] = TRUE]
      BY <1>7 DEF CallbackFails
    <3>3. lost' \in [Macs -> BOOLEAN]
      BY <3>2 DEF TypeOK
    <3>4. upsets' \in 0..MaxUpsets
      BY <1>7, PresenceAssumption DEF CallbackFails, TypeOK, Upset
    <3>5. [sweeper |-> 0, infra |-> 0] \in [sweeper : Nat, infra : Nat]
      OBVIOUS
    <3>6. open' \in [Macs -> [sweeper : Nat, infra : Nat]]
      BY <2>1, <2>2, <3>5 DEF TypeOK
    <3>7. QED
      BY <3>1, <3>3, <3>4, <3>6
  <2>4. QED
    BY <1>7, <2>1, <2>3 DEF CallbackFails, TypeOK, pass, check
<1>8. CASE SweepEnds
  BY <1>8 DEF SweepEnds, TypeOK, pass, check
<1>9. QED
  BY <1>1, <1>2, <1>3, <1>4, <1>6, <1>7, <1>8 DEF Sweeper, SweepRow

LEMMA InfraType ==
  ASSUME TypeOK, InfraCheck
  PROVE  TypeOK'
<1>1. CASE InfraBegin
  BY <1>1, PresenceAssumption DEF InfraBegin, TypeOK, pass, check, Times
<1>2. CASE InfraHost
  BY <1>2 DEF InfraHost, TypeOK, pass, check
<1>3. CASE InfraLook
  <2>1. lost' = lost \/ lost' = [lost EXCEPT ![suspect] = TRUE]
    BY <1>3 DEF InfraLook
  <2>2. lost' \in [Macs -> BOOLEAN]
    BY <2>1 DEF TypeOK
  <2>3. upsets' \in 0..MaxUpsets /\ step' \in {"host", "add"} /\ suspect' \in {suspect, None}
    BY <1>3, PresenceAssumption DEF InfraLook, TypeOK, Upset
  <2>4. QED
    BY <1>3, <2>2, <2>3 DEF InfraLook, TypeOK, pass, check
<1>4. CASE InfraAdd
  <2>1. ASSUME NEW m \in Macs
        PROVE  [open[m] EXCEPT !.infra = @ + 1] \in [sweeper : Nat, infra : Nat]
    <3>1. open[m] \in [sweeper : Nat, infra : Nat]
      BY DEF TypeOK
    <3>2. QED
      BY <3>1
  <2>2. open' \in [Macs -> [sweeper : Nat, infra : Nat]]
    BY <1>4, <2>1 DEF InfraAdd, TypeOK, pass, check
  <2>3. QED
    BY <1>4, <2>2 DEF InfraAdd, TypeOK, pass, check
<1>5. CASE InfraEnds
  BY <1>5 DEF InfraEnds, TypeOK, pass, check
<1>6. CASE InfraFails
  BY <1>6, PresenceAssumption DEF InfraFails, Upset, TypeOK, pass, check
<1>7. QED
  BY <1>1, <1>2, <1>3, <1>4, <1>5, <1>6 DEF InfraCheck

LEMMA WebType ==
  ASSUME TypeOK, Web
  PROVE  TypeOK'
<1>1. ASSUME NEW m \in Macs, NEW v \in Settings, PatchThreshold(m, v) PROVE TypeOK'
  <2> DEFINE d == IF device[m] # None THEN device[m]
                  ELSE [online |-> TRUE, seen |-> host[m], limit |-> Default]
  <2>1. d \in Devices
    <3>1. CASE device[m] # None
      BY <3>1, DeviceType
    <3>2. CASE device[m] = None
      <4>1. host[m] \in Times
        BY <1>1, <3>2 DEF PatchThreshold, TypeOK, pass, check
      <4>2. QED
        BY <3>2, <4>1 DEF Devices, Limits
    <3>3. QED
      BY <3>1, <3>2
  <2>2. device' = [device EXCEPT ![m] = [d EXCEPT !.limit = v]]
    BY <1>1 DEF PatchThreshold
  <2> HIDE DEF d
  <2>3. [d EXCEPT !.limit = v] \in Devices
    BY <2>1 DEF Devices, Limits
  <2>4. device' \in [Macs -> Devices \cup {None}]
    BY <2>2, <2>3 DEF TypeOK
  <2>5. QED
    <3>1. upsets' \in 0..MaxUpsets
      BY <1>1, PresenceAssumption DEF PatchThreshold, TypeOK, Upset
    <3>2. UNCHANGED <<now, host, pass, check, open, said, clearing, lost>>
      BY <1>1 DEF PatchThreshold
    <3>3. QED
      BY <2>4, <3>1, <3>2 DEF TypeOK, pass, check
<1>2. ASSUME NEW m \in Macs, NEW by \in {"sweeper", "infra"}, Resolve(m, by) PROVE TypeOK'
  <2>1. [open[m] EXCEPT ![by] = @ - 1] \in [sweeper : Nat, infra : Nat]
    <3>1. open[m] \in [sweeper : Nat, infra : Nat] /\ open[m][by] > 0
      BY <1>2 DEF Resolve, TypeOK
    <3>2. QED
      BY <3>1
  <2>2. open' \in [Macs -> [sweeper : Nat, infra : Nat]]
    BY <1>2, <2>1 DEF Resolve, TypeOK, pass, check
  <2>3. QED
    BY <1>2, <2>2, PresenceAssumption DEF Resolve, TypeOK, pass, check, Upset
<1>3. CASE ClearDevices
  BY <1>3, PresenceAssumption DEF ClearDevices, TypeOK, pass, check, Upset
<1>4. CASE ClearHosts
  BY <1>4 DEF ClearHosts, TypeOK, pass, check
<1>5. CASE ClearFindings
  BY <1>5 DEF ClearFindings, TypeOK, pass, check
<1>6. QED
  BY <1>1, <1>2, <1>3, <1>4, <1>5 DEF Web

LEMMA PresenceTypeStep ==
  ASSUME TypeOK, [Next]_vars
  PROVE  TypeOK'
<1>1. CASE Tick
  BY <1>1, PresenceAssumption DEF Tick, TypeOK, pass, check, Times
<1>2. ASSUME NEW m \in Macs, Packet(m) PROVE TypeOK'
  BY <1>2 DEF Packet, TypeOK, pass, check
<1>3. CASE Restart
  <2>1. trans' \in Seq(Transitions) /\ lost' \in [Macs -> BOOLEAN]
        /\ insert' \in [Macs -> Times \cup {None}] /\ upsets' \in 0..MaxUpsets
    BY <1>3, PresenceAssumption DEF Restart, TypeOK, pass, check, Upset
  <2>2. /\ sweep' = FALSE /\ todo' = {} /\ suspects' = {} /\ since' = 0 /\ step' = "idle"
        /\ suspect' = None /\ clearing' = "none"
    BY <1>3 DEF Restart
  <2>3. UNCHANGED <<now, host, device, sampled, open, said>>
    BY <1>3 DEF Restart
  <2>4. sweep' \in BOOLEAN
    BY <2>2
  <2>5. /\ todo' \in SUBSET Macs /\ suspects' \in SUBSET Macs /\ since' \in Int
        /\ step' \in {"idle", "host", "look", "add"} /\ suspect' \in Macs \cup {None}
        /\ clearing' \in {"none", "hosts", "findings"}
    <3> SUFFICES 0 \in Int
      BY <2>2
    <3> QED
      OBVIOUS
  <2>6. QED
    BY <2>1, <2>3, <2>4, <2>5 DEF TypeOK
<1>4. CASE UNCHANGED vars
  BY <1>4 DEF vars, pass, check, TypeOK
<1>5. QED
  BY <1>1, <1>2, <1>3, <1>4, SweeperType, InfraType, WebType DEF Next

LEMMA PresenceTypeInit == Init => TypeOK
<1> SUFFICES ASSUME Init PROVE TypeOK
  OBVIOUS
<1>1. 0 \in Times /\ 0 \in 0..MaxUpsets /\ 0 \in Int
  BY PresenceAssumption DEF Times
<1>2. trans \in Seq(Transitions) /\ todo \in SUBSET Macs /\ suspects \in SUBSET Macs
  BY DEF Init
<1>3. /\ host \in [Macs -> Times \cup {None}] /\ device \in [Macs -> Devices \cup {None}]
      /\ insert \in [Macs -> Times \cup {None}]
      /\ open \in [Macs -> [sweeper : Nat, infra : Nat]]
      /\ said \in [Macs -> {"none", "offline", "online"}]
  BY DEF Init
<1>4. sampled \in [Macs -> BOOLEAN] /\ lost \in [Macs -> BOOLEAN] /\ sweep \in BOOLEAN
  BY DEF Init
<1>5. /\ now \in Times /\ since \in Int /\ upsets \in 0..MaxUpsets
      /\ step \in {"idle", "host", "look", "add"} /\ suspect \in Macs \cup {None}
      /\ clearing \in {"none", "hosts", "findings"}
  BY <1>1 DEF Init
<1>6. QED
  BY <1>2, <1>3, <1>4, <1>5 DEF TypeOK

\* The types hold in every reachable state, in particular of the rows that the sweeper
\* and the operator create.
THEOREM PresenceTypeCorrect == Spec => []TypeOK
<1>1. TypeOK /\ [Next]_vars => TypeOK'
  BY PresenceTypeStep
<1>2. QED
  BY PresenceTypeInit, <1>1, PTL DEF Spec

-----------------------------------------------------------------------------
(* The refinement: every step is a step of PresenceView, or no step of it. *)

\* A write of the row that leaves is_online alone is no change of what is shown.
LEMMA ShownSame ==
  ASSUME device' = device
  PROVE  \A m \in Macs : Shown(m)' = Shown(m)
  BY DEF Shown

LEMMA UpsertedShown ==
  ASSUME TypeOK, NEW m \in Macs, NEW t \in Times, device' = Upserted(m, t)
  PROVE  \A n \in Macs : Shown(n)' = Shown(n)
<1>1. \A n \in Macs \ {m} : device'[n] = device[n]
  BY DEF Upserted, TypeOK
<1>2. device'[m] = Merged(m, t)
  BY DEF Upserted, TypeOK
<1>3. CASE device[m] = None
  <2>1. Merged(m, t) = [online |-> TRUE, seen |-> t, limit |-> Default]
    BY <1>3 DEF Merged
  <2>2. Shown(m)' /\ Shown(m)
    BY <1>2, <1>3, <2>1 DEF Shown
  <2>3. QED
    BY <1>1, <2>2 DEF Shown
<1>4. CASE device[m] # None
  <2>1. Merged(m, t).online = device[m].online
    BY <1>4, DeviceType DEF Merged, Devices
  <2>2. Merged(m, t) # None
    BY MergedType, PresenceAssumption
  <2>3. \A n \in Macs : n # m => Shown(n)' = Shown(n)
    BY <1>1 DEF Shown
  <2>4. Shown(m)' = Shown(m)
    BY <1>2, <1>4, <2>1, <2>2 DEF Shown
  <2>5. QED
    BY <2>3, <2>4
<1>5. QED
  BY <1>3, <1>4

\* patch_device keeps is_online, and a row it makes counts as online.
LEMMA PatchShown ==
  ASSUME TypeOK, NEW m \in Macs, NEW v \in Settings, PatchThreshold(m, v)
  PROVE  \A n \in Macs : Shown(n)' = Shown(n)
<1> DEFINE d == IF device[m] # None THEN device[m]
                ELSE [online |-> TRUE, seen |-> host[m], limit |-> Default]
<1>1. device' = [device EXCEPT ![m] = [d EXCEPT !.limit = v]]
  BY DEF PatchThreshold
<1>2. d \in Devices
  <2>1. device[m] = None => host[m] \in Times
    BY DEF PatchThreshold, TypeOK
  <2>2. device[m] = None => d \in Devices
    BY <2>1 DEF Devices, Limits
  <2>3. QED
    BY <2>2, DeviceType
<1>3. d.online = Shown(m)
  BY DeviceType DEF Shown
<1> HIDE DEF d
<1>4. [d EXCEPT !.limit = v] \in Devices /\ [d EXCEPT !.limit = v].online = d.online
  BY <1>2 DEF Devices, Limits
<1>5. device'[m] = [d EXCEPT !.limit = v] /\ \A n \in Macs \ {m} : device'[n] = device[n]
  BY <1>1 DEF TypeOK
<1>6. device'[m] # None
  BY <1>4, <1>5, PresenceAssumption
<1>7. Shown(m)' = Shown(m)
  BY <1>3, <1>4, <1>5, <1>6 DEF Shown
<1>8. QED
  BY <1>5, <1>7 DEF Shown

\* set_device_online and set_device_offline show what was sampled, or do nothing.
LEMMA FlipShown ==
  ASSUME TypeOK, NEW m \in Macs, NEW b \in BOOLEAN, device' = SetOnline(m, b)
  PROVE  /\ \A n \in Macs \ {m} : device'[n] = device[n] /\ Shown(n)' = Shown(n)
         /\ device[m] = None => device' = device
         /\ device[m] # None => Shown(m)' = b /\ device'[m] # None
         /\ host' = host /\ now' = now => \A n \in Macs : Fresh(n)' = Fresh(n)
<1>1. \A n \in Macs \ {m} : device'[n] = device[n] /\ Shown(n)' = Shown(n)
  BY DEF SetOnline, TypeOK, Shown
<1>2. device[m] = None => device' = device
  BY DEF SetOnline, TypeOK
<1>3. ASSUME device[m] # None
      PROVE  /\ device'[m] \in Devices /\ device'[m].online = b
             /\ device'[m].seen = device[m].seen /\ device'[m].limit = device[m].limit
  <2>1. device'[m] = [device[m] EXCEPT !.online = b]
    BY <1>3 DEF SetOnline, TypeOK
  <2>2. QED
    BY <1>3, <2>1, DeviceType DEF Devices
<1>4. device[m] # None => Shown(m)' = b /\ device'[m] # None
  BY <1>3, PresenceAssumption DEF Shown
<1>5. ASSUME host' = host, now' = now, NEW n \in Macs PROVE Fresh(n)' = Fresh(n)
  <2>1. device'[n] = None <=> device[n] = None
    BY <1>1, <1>2, <1>4
  <2>2. device[n] # None => device'[n].seen = device[n].seen /\ device'[n].limit = device[n].limit
    BY <1>1, <1>3
  <2>3. LastSeen(n)' = LastSeen(n) /\ EffectiveThreshold(n)' = EffectiveThreshold(n)
    BY <1>5, <2>1, <2>2 DEF LastSeen, EffectiveThreshold
  <2>4. QED
    BY <1>5, <2>3 DEF Fresh
<1>6. QED
  BY <1>1, <1>2, <1>4, <1>5

\* Steps that neither sample nor publish are changes of the real state, if anything.
LEMMA ChangeStep ==
  ASSUME sampled' = sampled, \A m \in Macs : Shown(m)' = Shown(m)
  PROVE  View!Change
<1>1. [m \in Macs |-> Fresh(m)]' \in [Macs -> BOOLEAN]
  BY DEF Fresh
<1>2. [m \in Macs |-> Shown(m)]' = [m \in Macs |-> Shown(m)]
  OBVIOUS
<1>3. QED
  BY <1>1, <1>2 DEF View!Change

LEMMA ViewStep ==
  ASSUME TypeOK, [Next]_vars
  PROVE  [View!Next]_(View!view)
<1>1. ASSUME sampled' = sampled, device' = device PROVE View!Next
  BY <1>1, ChangeStep, ShownSame DEF View!Next
<1>2. CASE Tick
  BY <1>1, <1>2 DEF Tick, pass
<1>3. ASSUME NEW m \in Macs, Packet(m) PROVE View!Next
  BY <1>1, <1>3 DEF Packet, pass
<1>4. CASE SweepRead
  <2>1. sampled' = [m \in Macs |-> Fresh(m)] /\ host' = host /\ device' = device /\ now' = now
    BY <1>4 DEF SweepRead
  <2>2. /\ [m \in Macs |-> Fresh(m)]' = [m \in Macs |-> Fresh(m)]
        /\ [m \in Macs |-> Shown(m)]' = [m \in Macs |-> Shown(m)]
    BY <2>1 DEF Fresh, LastSeen, EffectiveThreshold, Shown
  <2>3. View!Sample
    BY <2>1, <2>2 DEF View!Sample
  <2>4. QED
    BY <2>3 DEF View!Next
<1>5. ASSUME NEW m \in Macs, SweepInsert(m) PROVE View!Next
  <2>1. insert[m] \in Times /\ device' = Upserted(m, insert[m]) /\ sampled' = sampled
    BY <1>5 DEF SweepInsert, TypeOK
  <2>2. QED
    BY <2>1, UpsertedShown, ChangeStep DEF View!Next
<1>6. ASSUME NEW m \in Macs, SweepFlip(m) PROVE View!Next
  <2>1. /\ device' = SetOnline(m, sampled[m]) /\ sampled' = sampled /\ sampled[m] \in BOOLEAN
        /\ host' = host /\ now' = now
    BY <1>6 DEF SweepFlip, TypeOK
  <2>2. CASE device[m] = None
    BY <1>1, <2>1, <2>2, FlipShown
  <2>3. CASE device[m] # None
    <3>1. /\ \A n \in Macs : Fresh(n)' = Fresh(n)
          /\ Shown(m)' = sampled[m] /\ \A n \in Macs \ {m} : Shown(n)' = Shown(n)
      BY <2>1, <2>3, FlipShown
    <3>2. [n \in Macs |-> Fresh(n)]' = [n \in Macs |-> Fresh(n)]
      BY <3>1
    <3>3. [n \in Macs |-> Shown(n)]' = [[n \in Macs |-> Shown(n)] EXCEPT ![m] = sampled[m]]
      BY <3>1
    <3>4. View!Publish(m)
      BY <2>1, <3>2, <3>3 DEF View!Publish
    <3>5. QED
      BY <3>4 DEF View!Next
  <2>4. QED
    BY <2>2, <2>3
<1>7. CASE SweepFails \/ Callback \/ CallbackFails \/ SweepEnds
  BY <1>1, <1>7 DEF SweepFails, Callback, CallbackFails, SweepEnds
<1>8. CASE InfraCheck
  BY <1>1, <1>8 DEF InfraCheck, InfraBegin, InfraHost, InfraLook, InfraAdd, InfraFails, InfraEnds, pass
<1>9. ASSUME NEW m \in Macs, NEW v \in Settings, PatchThreshold(m, v) PROVE View!Next
  <2>1. sampled' = sampled
    BY <1>9 DEF PatchThreshold, pass
  <2>2. QED
    BY <1>9, <2>1, PatchShown, ChangeStep DEF View!Next
<1>10. ASSUME NEW m \in Macs, NEW by \in {"sweeper", "infra"}, Resolve(m, by) PROVE View!Next
  BY <1>1, <1>10 DEF Resolve, pass
<1>11. CASE ClearDevices
  <2>1. device' = [m \in Macs |-> None] /\ sampled' = sampled
    BY <1>11 DEF ClearDevices, pass
  <2>2. [m \in Macs |-> Shown(m)]' = [m \in Macs |-> TRUE]
    BY <2>1 DEF Shown
  <2>3. [m \in Macs |-> Fresh(m)]' \in [Macs -> BOOLEAN]
    BY DEF Fresh
  <2>4. View!Forget
    BY <2>1, <2>2, <2>3 DEF View!Forget
  <2>5. QED
    BY <2>4 DEF View!Next
<1>12. CASE ClearHosts \/ ClearFindings
  BY <1>1, <1>12 DEF ClearHosts, ClearFindings, pass
<1>13. CASE Restart
  BY <1>1, <1>13 DEF Restart
<1>14. CASE UNCHANGED vars
  BY <1>1, <1>14 DEF vars, pass
<1>15. QED
  BY <1>2, <1>3, <1>4, <1>5, <1>6, <1>7, <1>8, <1>9, <1>10, <1>11, <1>12, <1>13, <1>14
     DEF Next, Sweeper, SweepRow, Web

\* The sweeper, however interrupted and whatever runs between its query and its updates,
\* shows of every device what one sample of all of them found.
THEOREM SweeperImplementsView == Spec => ImplementsView
<1>1. Init => View!Init
  <2>1. SUFFICES ASSUME Init PROVE View!Init
    OBVIOUS
  <2>2. \A m \in Macs : Shown(m) = TRUE
    BY <2>1 DEF Init, Shown
  <2>3. \A m \in Macs : Fresh(m) = TRUE
    BY <2>1 DEF Init, Fresh, LastSeen
  <2>4. sampled = [m \in Macs |-> TRUE]
    BY <2>1 DEF Init
  <2>5. QED
    BY <2>2, <2>3, <2>4 DEF View!Init
<1>2. TypeOK /\ [Next]_vars => [View!Next]_(View!view)
  BY ViewStep
<1>3. QED
  BY PresenceTypeCorrect, <1>1, <1>2, PTL DEF Spec, ImplementsView, View!Spec

-----------------------------------------------------------------------------
(* The findings.                                                           *)

\* A pass treats every row once; until a row is treated nothing has moved it.
PassInv ==
    /\ ~sweep => todo = {} /\ trans = <<>>
    /\ \A j, k \in DOMAIN trans : trans[j].mac = trans[k].mac => j = k
    /\ \A m \in todo : Pending(m) = {}
    /\ \A m \in Macs : "online" \in Pending(m) => Shown(m)
    /\ \A m \in todo : sampled[m] \/ Shown(m)
    /\ \A m \in todo : lost[m] \/ insert[m] # None \/ device[m] # None

\* What the findings of one device say; an outage not yet reported has none of the
\* sweeper.
DeviceInv(m) ==
    ~lost[m] =>
        /\ \/ Pending(m) = {IF Shown(m) THEN "online" ELSE "offline"}
           \/ Pending(m) = {} /\ (said[m] = "offline" <=> ~Shown(m))
        /\ Pending(m) = {"offline"} => open[m].sweeper = 0
        /\ open[m].sweeper <= 1 /\ open[m].infra <= 1
        /\ Shown(m) /\ Pending(m) = {} => open[m].sweeper = 0

\* A device about to be reported by the infrastructure check has no finding of it.
InfraInv ==
    /\ step \in {"look", "add"} => suspect \in Macs
    /\ step = "add" => lost[suspect] \/ open[suspect].infra = 0

FindingInv == TypeOK /\ PassInv /\ (\A m \in Macs : DeviceInv(m)) /\ InfraInv

\* The callbacks on their way, when one is queued and when the first one runs.
LEMMA PendingSame ==
  ASSUME trans' = trans
  PROVE  \A m \in Macs : Pending(m)' = Pending(m)
  BY DEF Pending

LEMMA PendingAppend ==
  ASSUME TypeOK, NEW m \in Macs, NEW t \in {"online", "offline"},
         trans' = Append(trans, [mac |-> m, to |-> t])
  PROVE  /\ Pending(m)' = Pending(m) \cup {t}
         /\ \A n \in Macs \ {m} : Pending(n)' = Pending(n)
         /\ DOMAIN trans' = DOMAIN trans \cup {Len(trans) + 1}
         /\ \A k \in DOMAIN trans : trans'[k] = trans[k]
         /\ trans'[Len(trans) + 1] = [mac |-> m, to |-> t]
<1>1. trans \in Seq(Transitions) /\ [mac |-> m, to |-> t] \in Transitions
  BY DEF TypeOK, Transitions
<1>2. /\ DOMAIN trans' = DOMAIN trans \cup {Len(trans) + 1}
      /\ \A k \in DOMAIN trans : trans'[k] = trans[k]
      /\ trans'[Len(trans) + 1] = [mac |-> m, to |-> t]
  BY <1>1
<1>3. QED
  BY <1>2 DEF Pending

LEMMA PendingTail ==
  ASSUME TypeOK, PassInv, NEW h, h = Head(trans), trans # <<>>, trans' = Tail(trans)
  PROVE  /\ h \in Transitions /\ h.mac \in Macs
         /\ Pending(h.mac) = {h.to}
         /\ Pending(h.mac)' = {}
         /\ \A n \in Macs \ {h.mac} : Pending(n)' = Pending(n)
         /\ \A k \in DOMAIN trans' : k \in Nat /\ k + 1 \in DOMAIN trans /\ trans'[k] = trans[k + 1]
         /\ 1 \in DOMAIN trans /\ trans[1] = h
<1>1. trans \in Seq(Transitions)
  BY DEF TypeOK
<1>2. h = trans[1] /\ 1 \in DOMAIN trans /\ h \in Transitions
  BY <1>1
<1>3. h.mac \in Macs
  BY <1>2 DEF Transitions
<1>4. /\ \A k \in DOMAIN trans' : k \in Nat /\ k + 1 \in DOMAIN trans /\ trans'[k] = trans[k + 1] /\ k + 1 # 1
      /\ \A k \in DOMAIN trans : k # 1 => k - 1 \in DOMAIN trans' /\ trans'[k - 1] = trans[k]
  BY <1>1
<1>5. \A j \in DOMAIN trans : trans[j].mac = h.mac => j = 1
  BY <1>2 DEF PassInv
<1>6. Pending(h.mac) = {h.to}
  BY <1>2, <1>5 DEF Pending
<1>7. Pending(h.mac)' = {}
  BY <1>4, <1>5 DEF Pending
<1>8. ASSUME NEW n \in Macs \ {h.mac} PROVE Pending(n)' = Pending(n)
  <2>1. Pending(n)' \subseteq Pending(n)
    BY <1>4 DEF Pending
  <2>2. ASSUME NEW k \in DOMAIN trans, trans[k].mac = n PROVE trans[k].to \in Pending(n)'
    <3>1. k # 1 /\ k - 1 \in DOMAIN trans' /\ trans'[k - 1] = trans[k]
      BY <1>2, <1>4, <2>2
    <3>2. QED
      BY <2>2, <3>1 DEF Pending
  <2>3. Pending(n) \subseteq Pending(n)'
    BY <2>2 DEF Pending
  <2>4. QED
    BY <2>1, <2>3
<1>9. QED
  BY <1>2, <1>3, <1>4, <1>6, <1>7, <1>8

\* Steps that leave the pass, the rows' is_online and the findings of a device alone.
LEMMA DeviceQuiet ==
  ASSUME NEW m \in Macs, DeviceInv(m), Shown(m)' = Shown(m), Pending(m)' = Pending(m),
         said'[m] = said[m], open'[m] = open[m], lost[m] => lost'[m]
  PROVE  DeviceInv(m)'
  BY DEF DeviceInv

LEMMA PassQuiet ==
  ASSUME TypeOK, PassInv, UNCHANGED <<sweep, sampled, todo, trans, insert>>,
         \A m \in Macs : Shown(m) => Shown(m)',
         \A m \in todo : lost[m] \/ device[m] # None => lost'[m] \/ device'[m] # None
  PROVE  PassInv'
<1>1. todo \subseteq Macs
  BY DEF TypeOK
<1>2. \A m \in Macs : Pending(m)' = Pending(m)
  BY PendingSame
<1>3. \A m \in Macs : "online" \in Pending(m)' => Shown(m)'
  BY <1>2 DEF PassInv
<1>4. \A m \in todo' : sampled'[m] \/ Shown(m)'
  BY <1>1 DEF PassInv
<1>5. \A m \in todo' : Pending(m)' = {}
  BY <1>1, <1>2 DEF PassInv
<1>6. QED
  BY <1>3, <1>4, <1>5 DEF PassInv

\* A pass that is gone, with its callbacks.
LEMMA PassGone ==
  ASSUME TypeOK, FindingInv, todo' = {}, trans' = <<>>, device' = device, said' = said, open' = open,
         lost' = [m \in Macs |-> lost[m] \/ Pending(m) # {}]
  PROVE  PassInv' /\ (\A m \in Macs : DeviceInv(m)')
<1>1. \A m \in Macs : Pending(m)' = {}
  BY DEF Pending
<1>2. PassInv'
  <2>1. \A j, k \in DOMAIN trans' : FALSE
    OBVIOUS
  <2>2. QED
    BY <1>1, <2>1 DEF PassInv
<1>3. ASSUME NEW m \in Macs PROVE DeviceInv(m)'
  <2>1. Shown(m)' = Shown(m)
    BY ShownSame
  <2>2. CASE lost'[m]
    BY <2>2 DEF DeviceInv
  <2>3. CASE ~lost'[m]
    <3>1. ~lost[m] /\ Pending(m) = {}
      BY <2>3
    <3>2. QED
      BY <1>1, <2>1, <3>1, DeviceQuiet DEF FindingInv
  <2>4. QED
    BY <2>2, <2>3
<1>4. QED
  BY <1>2, <1>3

LEMMA SweeperFindings ==
  ASSUME FindingInv, TypeOK', Sweeper \/ SweepFails \/ CallbackFails
  PROVE  FindingInv'
<1> USE DEF FindingInv
<1>1. CASE SweepRead
  <2>1. UNCHANGED <<device, trans, open, said, lost, step, suspect>>
    BY <1>1 DEF SweepRead, check
  <2>2. \A m \in Macs : Shown(m)' = Shown(m) /\ Pending(m)' = Pending(m)
    BY <2>1, ShownSame, PendingSame
  <2>3. trans = <<>> /\ \A m \in Macs : Pending(m) = {}
    BY <1>1 DEF SweepRead, PassInv, Pending
  <2>4. ASSUME NEW m \in todo'
        PROVE  m \in Macs /\ (sampled'[m] \/ Shown(m)) /\ (insert'[m] # None \/ device[m] # None)
    <3>1. m \in Macs /\ Treats(m) /\ sampled'[m] = Fresh(m)
          /\ insert'[m] = IF device[m] = None THEN LastSeen(m) ELSE None
      BY <1>1 DEF SweepRead
    <3>2. QED
      BY <3>1, FreshType, ShownType DEF Treats, Shown
  <2>5. PassInv'
    <3>1. sweep'
      BY <1>1 DEF SweepRead
    <3>2. \A m \in todo' : Pending(m)' = {}
      BY <2>2, <2>3, <2>4
    <3>3. \A m \in todo' : sampled'[m] \/ Shown(m)'
      BY <2>2, <2>4
    <3>4. \A m \in todo' : lost'[m] \/ insert'[m] # None \/ device'[m] # None
      BY <2>1, <2>4
    <3>5. \A m \in Macs : "online" \in Pending(m)' => Shown(m)'
      BY <2>2, <2>3
    <3>6. \A j, k \in DOMAIN trans' : trans'[j].mac = trans'[k].mac => j = k
      BY <2>1 DEF PassInv
    <3>7. QED
      BY <3>1, <3>2, <3>3, <3>4, <3>5, <3>6 DEF PassInv
  <2>6. \A m \in Macs : DeviceInv(m)'
    BY <2>1, <2>2, DeviceQuiet
  <2>7. InfraInv'
    BY <2>1 DEF InfraInv
  <2>8. QED
    BY <2>5, <2>6, <2>7
<1>2. ASSUME NEW m \in Macs, SweepInsert(m) PROVE FindingInv'
  <2>1. /\ UNCHANGED <<sweep, sampled, trans, open, said, lost, step, suspect>>
        /\ insert[m] \in Times /\ device' = Upserted(m, insert[m]) /\ m \in todo
        /\ insert' = [insert EXCEPT ![m] = None] /\ todo' \subseteq todo
    BY <1>2 DEF SweepInsert, TypeOK, check
  <2>2. \A n \in Macs : Shown(n)' = Shown(n) /\ Pending(n)' = Pending(n)
    BY <2>1, UpsertedShown, PendingSame
  <2>3. device'[m] # None /\ \A n \in Macs \ {m} : device'[n] = device[n] /\ insert'[n] = insert[n]
    BY <2>1, MergedType, PresenceAssumption DEF Upserted, TypeOK
  <2>4. PassInv'
    <3>1. sweep' /\ todo' \subseteq Macs
      BY <2>1 DEF PassInv, TypeOK
    <3>2. \A n \in todo' : Pending(n)' = {} /\ (sampled'[n] \/ Shown(n)')
      BY <2>1, <2>2, <3>1 DEF PassInv
    <3>3. \A n \in todo' : lost'[n] \/ insert'[n] # None \/ device'[n] # None
      BY <2>1, <2>3, <3>1 DEF PassInv
    <3>4. \A n \in Macs : "online" \in Pending(n)' => Shown(n)'
      BY <2>2 DEF PassInv
    <3>5. \A j, k \in DOMAIN trans' : trans'[j].mac = trans'[k].mac => j = k
      BY <2>1 DEF PassInv
    <3>6. QED
      BY <3>1, <3>2, <3>3, <3>4, <3>5 DEF PassInv
  <2>5. \A n \in Macs : DeviceInv(n)'
    BY <2>1, <2>2, DeviceQuiet
  <2>6. InfraInv'
    BY <2>1 DEF InfraInv
  <2>7. QED
    BY <2>4, <2>5, <2>6
<1>3. ASSUME NEW m \in Macs, SweepFlip(m) PROVE FindingInv'
  <2> DEFINE to == IF sampled[m] THEN "online" ELSE "offline"
  <2>1. /\ UNCHANGED <<sweep, sampled, insert, open, said, lost, step, suspect>>
        /\ device' = SetOnline(m, sampled[m]) /\ m \in todo /\ insert[m] = None
        /\ trans' = Append(trans, [mac |-> m, to |-> to]) /\ todo' = todo \ {m}
    BY <1>3 DEF SweepFlip, check
  <2>2. sampled[m] \in BOOLEAN
    BY DEF TypeOK
  <2>3. /\ \A n \in Macs \ {m} : device'[n] = device[n] /\ Shown(n)' = Shown(n)
        /\ device[m] = None => device' = device
        /\ device[m] # None => Shown(m)' = sampled[m]
    BY <2>1, <2>2, FlipShown
  <2>4. /\ Pending(m)' = Pending(m) \cup {to}
        /\ \A n \in Macs \ {m} : Pending(n)' = Pending(n)
        /\ DOMAIN trans' = DOMAIN trans \cup {Len(trans) + 1}
        /\ \A k \in DOMAIN trans : trans'[k] = trans[k]
        /\ trans'[Len(trans) + 1] = [mac |-> m, to |-> to]
    BY <2>1, PendingAppend
  <2>5. Pending(m) = {} /\ (sampled[m] \/ Shown(m)) /\ (lost[m] \/ device[m] # None) /\ sweep
    BY <2>1 DEF PassInv
  <2>6. Pending(m)' = {to} /\ (sampled[m] => Shown(m)')
    BY <2>3, <2>4, <2>5 DEF Shown
  <2>7. PassInv'
    <3>1. ASSUME NEW k \in DOMAIN trans PROVE trans[k].mac # m
      BY <2>5 DEF Pending
    <3>2. \A j, k \in DOMAIN trans' : trans'[j].mac = trans'[k].mac => j = k
      BY <2>4, <3>1 DEF PassInv
    <3>3. todo' \subseteq Macs \ {m}
      BY <2>1 DEF TypeOK
    <3>4. \A n \in todo' : Pending(n)' = {} /\ (sampled'[n] \/ Shown(n)')
      BY <2>1, <2>3, <2>4, <3>3 DEF PassInv
    <3>5. \A n \in todo' : lost'[n] \/ insert'[n] # None \/ device'[n] # None
      BY <2>1, <2>3, <3>3 DEF PassInv
    <3>6. \A n \in Macs : "online" \in Pending(n)' => Shown(n)'
      BY <2>3, <2>4, <2>6 DEF PassInv
    <3>7. QED
      BY <2>1, <2>5, <3>2, <3>4, <3>5, <3>6 DEF PassInv
  <2>8. ASSUME NEW n \in Macs \ {m} PROVE DeviceInv(n)'
    BY <2>1, <2>3, <2>4, DeviceQuiet
  <2>9. DeviceInv(m)'
    <3>1. CASE lost[m]
      BY <2>1, <3>1 DEF DeviceInv
    <3>2. CASE ~lost[m]
      <4>1. Shown(m)' = sampled[m]
        BY <2>3, <2>5, <3>2
      <4>2. ~sampled[m] => open[m].sweeper = 0
        BY <2>5, <3>2 DEF DeviceInv
      <4>3. open[m].sweeper <= 1 /\ open[m].infra <= 1
        BY <3>2 DEF DeviceInv
      <4>4. Pending(m)' = {IF Shown(m)' THEN "online" ELSE "offline"}
        BY <2>6, <4>1
      <4>5. Pending(m)' # {} /\ (Pending(m)' = {"offline"} => ~sampled[m])
        BY <2>6
      <4>6. QED
        BY <2>1, <4>2, <4>3, <4>4, <4>5 DEF DeviceInv
    <3>3. QED
      BY <3>1, <3>2
  <2>10. InfraInv'
    BY <2>1 DEF InfraInv
  <2>11. QED
    BY <2>7, <2>8, <2>9, <2>10
<1>4. CASE SweepFails
  <2>1. /\ todo' = {} /\ trans' = <<>> /\ device' = device /\ said' = said /\ open' = open
        /\ lost' = [m \in Macs |-> lost[m] \/ Pending(m) # {}]
        /\ step' = step /\ suspect' = suspect
    BY <1>4 DEF SweepFails, check
  <2>2. InfraInv'
    BY <2>1 DEF InfraInv
  <2>3. PassInv' /\ \A m \in Macs : DeviceInv(m)'
    BY <2>1, PassGone
  <2>4. QED
    BY <2>2, <2>3
<1>5. ASSUME NEW h, h = Head(trans), trans # <<>>, trans' = Tail(trans), todo = {}, sweep,
             UNCHANGED <<device, sweep, sampled, insert, todo, step, suspect>>,
             \A n \in Macs \ {h.mac} : open'[n] = open[n] /\ said'[n] = said[n] /\ lost'[n] = lost[n]
      PROVE  /\ h \in Transitions /\ h.mac \in Macs /\ h.to \in {"online", "offline"}
             /\ Pending(h.mac) = {h.to} /\ Pending(h.mac)' = {}
             /\ Shown(h.mac)' = Shown(h.mac)
             /\ PassInv' /\ \A n \in Macs \ {h.mac} : DeviceInv(n)'
  <2>1. /\ h \in Transitions /\ h.mac \in Macs
        /\ Pending(h.mac) = {h.to} /\ Pending(h.mac)' = {}
        /\ \A n \in Macs \ {h.mac} : Pending(n)' = Pending(n)
        /\ \A k \in DOMAIN trans' : k \in Nat /\ k + 1 \in DOMAIN trans /\ trans'[k] = trans[k + 1]
    BY <1>5, PendingTail
  <2>2. h.to \in {"online", "offline"}
    BY <2>1 DEF Transitions
  <2>3. \A n \in Macs : Shown(n)' = Shown(n)
    BY <1>5, ShownSame
  <2>4. PassInv'
    <3>1. \A n \in Macs : "online" \in Pending(n)' => Shown(n)'
      BY <2>1, <2>3 DEF PassInv
    <3>2. \A j, k \in DOMAIN trans' : trans'[j].mac = trans'[k].mac => j = k
      <4>1. TAKE j, k \in DOMAIN trans'
      <4>2. HAVE trans'[j].mac = trans'[k].mac
      <4>3. j + 1 = k + 1 /\ j \in Nat /\ k \in Nat
        BY <2>1, <4>2 DEF PassInv
      <4>4. QED
        BY <4>3
    <3>3. QED
      BY <1>5, <3>1, <3>2 DEF PassInv
  <2>5. ASSUME NEW n \in Macs \ {h.mac} PROVE DeviceInv(n)'
    BY <1>5, <2>1, <2>3, DeviceQuiet
  <2>6. QED
    BY <2>1, <2>2, <2>3, <2>4, <2>5
<1>6. CASE Callback
  <2>1. PICK h : h = Head(trans)
    OBVIOUS
  <2>2. /\ trans # <<>> /\ trans' = Tail(trans) /\ todo = {} /\ sweep
        /\ UNCHANGED <<device, sweep, sampled, insert, todo, step, suspect>>
    BY <1>6 DEF Callback, check
  <2>3. (h.to = "offline" /\ WentOffline(h.mac)) \/ (h.to = "online" /\ CameOnline(h.mac))
    BY <1>6, <2>1 DEF Callback
  <2>4. \A n \in Macs \ {h.mac} : open'[n] = open[n] /\ said'[n] = said[n] /\ lost'[n] = lost[n]
    BY <2>3 DEF WentOffline, CameOnline, TypeOK
  <2>5. /\ h \in Transitions /\ h.mac \in Macs /\ h.to \in {"online", "offline"}
        /\ Pending(h.mac) = {h.to} /\ Pending(h.mac)' = {}
        /\ Shown(h.mac)' = Shown(h.mac)
        /\ PassInv' /\ \A n \in Macs \ {h.mac} : DeviceInv(n)'
    BY <1>5, <2>1, <2>2, <2>4
  <2>6. CASE h.to = "offline"
    <3>1. /\ open' = [open EXCEPT ![h.mac].sweeper = @ + 1]
          /\ said' = [said EXCEPT ![h.mac] = "offline"] /\ lost' = lost
      BY <2>3, <2>6 DEF WentOffline
    <3>2. open[h.mac] \in [sweeper : Nat, infra : Nat]
      BY <2>5 DEF TypeOK
    <3>3. open'[h.mac] = [open[h.mac] EXCEPT !.sweeper = open[h.mac].sweeper + 1] /\ said'[h.mac] = "offline"
      BY <2>5, <3>1 DEF TypeOK
    <3>4. open'[h.mac].sweeper = open[h.mac].sweeper + 1 /\ open'[h.mac].infra = open[h.mac].infra
      BY <3>2, <3>3
    <3>5. ASSUME ~lost[h.mac]
          PROVE  ~Shown(h.mac) /\ open[h.mac].sweeper = 0 /\ open[h.mac].infra <= 1
      BY <2>5, <2>6, <3>5 DEF DeviceInv
    <3>6. DeviceInv(h.mac)'
      <4>1. CASE lost[h.mac]
        BY <3>1, <4>1 DEF DeviceInv
      <4>2. CASE ~lost[h.mac]
        <5>1. open'[h.mac].sweeper <= 1 /\ open'[h.mac].infra <= 1
          BY <3>4, <3>5, <4>2
        <5>2. ~Shown(h.mac)' /\ said'[h.mac] = "offline" /\ Pending(h.mac)' = {}
          BY <2>5, <3>3, <3>5, <4>2
        <5>3. QED
          BY <5>1, <5>2 DEF DeviceInv
      <4>3. QED
        BY <4>1, <4>2
    <3>7. InfraInv'
      <4>1. \A n \in Macs : open'[n].infra = open[n].infra
        BY <2>4, <3>4
      <4>2. QED
        BY <2>2, <3>1, <4>1 DEF InfraInv
    <3>8. QED
      BY <2>5, <3>6, <3>7
  <2>7. CASE h.to = "online"
    <3>1. /\ open' = [open EXCEPT ![h.mac] = [sweeper |-> 0, infra |-> 0]]
          /\ said' = [said EXCEPT ![h.mac] = "online"]
      BY <2>3, <2>7 DEF CameOnline
    <3>2. open'[h.mac].sweeper = 0 /\ open'[h.mac].infra = 0 /\ said'[h.mac] = "online"
      BY <2>5, <3>1 DEF TypeOK
    <3>3. Shown(h.mac)'
      BY <2>5, <2>7 DEF PassInv
    <3>4. DeviceInv(h.mac)'
      <4>1. open'[h.mac].sweeper <= 1 /\ open'[h.mac].infra <= 1
        BY <3>2
      <4>2. QED
        BY <2>5, <3>2, <3>3, <4>1 DEF DeviceInv
    <3>5. InfraInv'
      <4>1. \A n \in Macs : open'[n].infra = 0 \/ (open'[n] = open[n] /\ lost'[n] = lost[n])
        BY <2>4, <3>2
      <4>2. QED
        BY <2>2, <4>1 DEF InfraInv
    <3>6. QED
      BY <2>5, <3>4, <3>5
  <2>8. QED
    BY <2>5, <2>6, <2>7
<1>7. CASE CallbackFails
  <2>1. PICK h : h = Head(trans)
    OBVIOUS
  <2>2. /\ trans # <<>> /\ trans' = Tail(trans) /\ todo = {} /\ sweep
        /\ UNCHANGED <<device, sweep, sampled, insert, todo, step, suspect>>
    BY <1>7 DEF CallbackFails, check
  <2>3. /\ said' = said \/ said' = [said EXCEPT ![h.mac] = "online"]
        /\ open' = open \/ open' = [open EXCEPT ![h.mac] = [sweeper |-> 0, infra |-> 0]]
        /\ lost' = [lost EXCEPT ![h.mac] = TRUE]
    BY <1>7, <2>1 DEF CallbackFails
  <2>4. \A n \in Macs \ {h.mac} : open'[n] = open[n] /\ said'[n] = said[n] /\ lost'[n] = lost[n]
    BY <2>2, <2>3 DEF TypeOK
  <2>5. /\ h.mac \in Macs /\ PassInv' /\ \A n \in Macs \ {h.mac} : DeviceInv(n)'
    BY <1>5, <2>1, <2>2, <2>4
  <2>6. lost'[h.mac]
    BY <2>3, <2>5 DEF TypeOK
  <2>7. DeviceInv(h.mac)'
    BY <2>6 DEF DeviceInv
  <2>8. InfraInv'
    BY <2>2, <2>4, <2>6 DEF InfraInv
  <2>9. QED
    BY <2>5, <2>7, <2>8
<1>8. CASE SweepEnds
  <2>1. /\ UNCHANGED <<device, sampled, insert, todo, trans, open, said, lost, step, suspect>>
        /\ todo = {} /\ trans = <<>>
    BY <1>8 DEF SweepEnds, check
  <2>2. \A m \in Macs : Shown(m)' = Shown(m) /\ Pending(m)' = Pending(m)
    BY <2>1, ShownSame, PendingSame
  <2>3. PassInv'
    <3>1. \A m \in Macs : "online" \in Pending(m)' => Shown(m)'
      BY <2>2 DEF PassInv
    <3>2. \A j, k \in DOMAIN trans' : trans'[j].mac = trans'[k].mac => j = k
      BY <2>1 DEF PassInv
    <3>3. QED
      BY <2>1, <3>1, <3>2 DEF PassInv
  <2>4. \A m \in Macs : DeviceInv(m)'
    BY <2>1, <2>2, DeviceQuiet
  <2>5. InfraInv'
    BY <2>1 DEF InfraInv
  <2>6. QED
    BY <2>3, <2>4, <2>5
<1>9. QED
  BY <1>1, <1>2, <1>3, <1>4, <1>6, <1>7, <1>8 DEF Sweeper, SweepRow

LEMMA InfraFindings ==
  ASSUME FindingInv, TypeOK', InfraCheck
  PROVE  FindingInv'
<1> USE DEF FindingInv
<1>1. UNCHANGED <<device, sweep, sampled, insert, todo, trans, said>>
  BY DEF InfraCheck, InfraBegin, InfraHost, InfraLook, InfraAdd, InfraFails, InfraEnds, pass
<1>2. \A m \in Macs : Shown(m)' = Shown(m) /\ Pending(m)' = Pending(m)
  BY <1>1, ShownSame, PendingSame
<1>3. todo \subseteq Macs
  BY DEF TypeOK
<1>4. ASSUME lost' = lost, open' = open, step' # "add", step' = "look" => suspect' \in Macs
      PROVE  FindingInv'
  <2>1. PassInv'
    BY <1>1, <1>2, <1>4, PassQuiet
  <2>2. \A m \in Macs : DeviceInv(m)'
    BY <1>1, <1>2, <1>4, DeviceQuiet
  <2>3. QED
    BY <1>4, <2>1, <2>2 DEF InfraInv
<1>5. CASE InfraBegin
  BY <1>4, <1>5 DEF InfraBegin
<1>6. CASE InfraHost
  <2>1. lost' = lost /\ open' = open /\ step = "host"
    BY <1>6 DEF InfraHost
  <2>2. step' # "add" /\ (step' = "look" => suspect' \in Macs)
    BY <1>6 DEF InfraHost, TypeOK
  <2>3. QED
    BY <1>4, <2>1, <2>2
<1>7. CASE InfraLook
  <2>1. step = "look" /\ open' = open /\ suspect \in Macs
    BY <1>7 DEF InfraLook, InfraInv
  <2>2. \/ lost' = lost /\ step' = "host"
        \/ lost' = lost /\ step' = "add" /\ suspect' = suspect /\ ~AnyOpen(suspect)
        \/ lost' = [lost EXCEPT ![suspect] = TRUE] /\ step' = "add" /\ suspect' = suspect
    BY <1>7 DEF InfraLook
  <2>3. CASE lost' = lost /\ step' = "host"
    BY <1>4, <2>1, <2>3
  <2>4. CASE lost' = lost /\ step' = "add" /\ suspect' = suspect /\ ~AnyOpen(suspect)
    <3>1. open[suspect] \in [sweeper : Nat, infra : Nat]
      BY <2>1 DEF TypeOK
    <3>2. open[suspect].infra = 0
      BY <2>4, <3>1 DEF AnyOpen
    <3>3. PassInv' /\ \A m \in Macs : DeviceInv(m)'
      <4>1. PassInv'
        BY <1>1, <1>2, <2>4, PassQuiet
      <4>2. QED
        BY <1>1, <1>2, <2>1, <2>4, <4>1, DeviceQuiet
    <3>4. QED
      BY <2>1, <2>4, <3>2, <3>3 DEF InfraInv
  <2>5. CASE lost' = [lost EXCEPT ![suspect] = TRUE] /\ step' = "add" /\ suspect' = suspect
    <3>1. lost'[suspect] /\ \A m \in Macs : lost[m] => lost'[m]
      BY <2>1, <2>5 DEF TypeOK
    <3>2. PassInv'
      BY <1>1, <1>2, <1>3, <3>1, PassQuiet
    <3>3. \A m \in Macs : DeviceInv(m)'
      BY <1>1, <1>2, <2>1, <3>1, DeviceQuiet
    <3>4. QED
      BY <2>1, <2>5, <3>1, <3>2, <3>3 DEF InfraInv
  <2>6. QED
    BY <2>2, <2>3, <2>4, <2>5
<1>8. CASE InfraAdd
  <2>1. /\ step = "add" /\ lost' = lost /\ step' = "host" /\ suspect \in Macs
        /\ open' = [open EXCEPT ![suspect].infra = @ + 1]
    BY <1>8 DEF InfraAdd, InfraInv
  <2>2. open[suspect] \in [sweeper : Nat, infra : Nat]
    BY <2>1 DEF TypeOK
  <2>3. open'[suspect] = [open[suspect] EXCEPT !.infra = open[suspect].infra + 1]
        /\ \A m \in Macs : m # suspect => open'[m] = open[m]
    BY <2>1 DEF TypeOK
  <2>4. open'[suspect].infra = open[suspect].infra + 1 /\ open'[suspect].sweeper = open[suspect].sweeper
    BY <2>2, <2>3
  <2>5. PassInv'
    BY <1>1, <1>2, <2>1, PassQuiet
  <2>6. ASSUME NEW m \in Macs PROVE DeviceInv(m)'
    <3>1. CASE m # suspect
      BY <1>1, <1>2, <2>1, <2>3, <3>1, DeviceQuiet
    <3>2. CASE m = suspect /\ ~lost[m]
      <4>1. open[m].infra = 0
        BY <2>1, <3>2 DEF InfraInv
      <4>2. open'[m].infra <= 1 /\ open'[m].sweeper = open[m].sweeper
        BY <2>4, <3>2, <4>1
      <4>3. DeviceInv(m)
        OBVIOUS
      <4>4. Shown(m)' = Shown(m) /\ Pending(m)' = Pending(m) /\ said'[m] = said[m] /\ lost'[m] = lost[m]
        BY <1>1, <1>2, <2>1
      <4>5. QED
        BY <4>2, <4>3, <4>4 DEF DeviceInv
    <3>3. CASE lost[m]
      BY <2>1, <3>3 DEF DeviceInv
    <3>4. QED
      BY <3>1, <3>2, <3>3
  <2>7. QED
    BY <2>1, <2>5, <2>6 DEF InfraInv
<1>9. CASE InfraEnds
  BY <1>4, <1>9 DEF InfraEnds
<1>10. CASE InfraFails
  BY <1>4, <1>10 DEF InfraFails
<1>11. QED
  BY <1>5, <1>6, <1>7, <1>8, <1>9, <1>10 DEF InfraCheck

LEMMA WebFindings ==
  ASSUME FindingInv, TypeOK', Web
  PROVE  FindingInv'
<1> USE DEF FindingInv
<1>1. UNCHANGED <<sweep, sampled, insert, todo, trans, step, suspect>>
  BY DEF Web, PatchThreshold, Resolve, ClearDevices, ClearHosts, ClearFindings, pass, check
<1>2. \A m \in Macs : Pending(m)' = Pending(m)
  BY <1>1, PendingSame
<1>3. todo \subseteq Macs
  BY DEF TypeOK
<1>4. ASSUME NEW m \in Macs, NEW v \in Settings, PatchThreshold(m, v) PROVE FindingInv'
  <2>1. \A n \in Macs : Shown(n)' = Shown(n)
    BY <1>4, PatchShown
  <2>2. lost' = lost /\ open' = open /\ said' = said
    BY <1>4 DEF PatchThreshold
  <2>3. \A n \in Macs : device[n] # None => device'[n] # None
    <3> DEFINE d == IF device[m] # None THEN device[m]
                    ELSE [online |-> TRUE, seen |-> host[m], limit |-> Default]
    <3>1. device' = [device EXCEPT ![m] = [d EXCEPT !.limit = v]]
      BY <1>4 DEF PatchThreshold
    <3>2. ASSUME device[m] # None PROVE [d EXCEPT !.limit = v] # None
      <4>1. d \in Devices
        BY <3>2, DeviceType
      <4> HIDE DEF d
      <4>2. [d EXCEPT !.limit = v] \in Devices
        BY <4>1 DEF Devices, Limits
      <4>3. QED
        BY <4>2, PresenceAssumption
    <3> HIDE DEF d
    <3>3. QED
      BY <3>1, <3>2 DEF TypeOK
  <2>4. PassInv'
    BY <1>1, <1>3, <2>1, <2>2, <2>3, PassQuiet
  <2>5. \A n \in Macs : DeviceInv(n)'
    BY <1>2, <2>1, <2>2, DeviceQuiet
  <2>6. QED
    BY <1>1, <2>2, <2>4, <2>5 DEF InfraInv
<1>5. ASSUME NEW m \in Macs, NEW by \in {"sweeper", "infra"}, Resolve(m, by) PROVE FindingInv'
  <2>1. /\ lost' = lost /\ said' = said /\ device' = device
        /\ open' = [open EXCEPT ![m][by] = @ - 1] /\ open[m][by] > 0
    BY <1>5 DEF Resolve
  <2>2. open[m] \in [sweeper : Nat, infra : Nat] /\ \A n \in Macs : n # m => open'[n] = open[n]
    BY <2>1 DEF TypeOK
  <2>3. open'[m] = [open[m] EXCEPT ![by] = open[m][by] - 1]
    BY <2>1 DEF TypeOK
  <2>4. /\ open'[m].sweeper \in Nat /\ open'[m].infra \in Nat
        /\ open'[m].sweeper <= open[m].sweeper /\ open'[m].infra <= open[m].infra
    BY <2>1, <2>2, <2>3
  <2>5. \A n \in Macs : Shown(n)' = Shown(n)
    BY <2>1, ShownSame
  <2>6. PassInv'
    BY <1>1, <2>1, <2>5, PassQuiet
  <2>7. ASSUME NEW n \in Macs PROVE DeviceInv(n)'
    <3>1. CASE n # m
      BY <1>2, <2>1, <2>2, <2>5, <3>1, DeviceQuiet
    <3>2. CASE n = m
      <4>1. DeviceInv(m)
        OBVIOUS
      <4>2. Shown(m)' = Shown(m) /\ Pending(m)' = Pending(m) /\ said'[m] = said[m] /\ lost'[m] = lost[m]
        BY <1>2, <2>1, <2>5
      <4>3. /\ open[m].sweeper <= 1 => open'[m].sweeper <= 1
            /\ open[m].infra <= 1 => open'[m].infra <= 1
            /\ open[m].sweeper = 0 => open'[m].sweeper = 0
        BY <2>2, <2>4
      <4>4. QED
        BY <3>2, <4>1, <4>2, <4>3 DEF DeviceInv
    <3>3. QED
      BY <3>1, <3>2
  <2>8. \A n \in Macs : open[n].infra = 0 => open'[n].infra = 0
    BY <2>2, <2>4
  <2>9. InfraInv'
    BY <1>1, <2>1, <2>8 DEF InfraInv
  <2>10. QED
    BY <2>6, <2>7, <2>9
<1>6. ASSUME lost' = [m \in Macs |-> TRUE], \A m \in Macs : Shown(m) => Shown(m)'
      PROVE  FindingInv'
  <2>1. \A m \in Macs : lost'[m]
    BY <1>6
  <2>2. PassInv'
    BY <1>1, <1>3, <1>6, <2>1, PassQuiet
  <2>3. \A m \in Macs : DeviceInv(m)'
    BY <2>1 DEF DeviceInv
  <2>4. QED
    BY <1>1, <2>1, <2>2, <2>3 DEF InfraInv
<1>7. CASE ClearDevices
  <2>1. \A m \in Macs : Shown(m)'
    BY <1>7 DEF ClearDevices, Shown
  <2>2. QED
    BY <1>6, <1>7, <2>1 DEF ClearDevices
<1>8. CASE ClearFindings
  BY <1>6, <1>8, ShownSame DEF ClearFindings
<1>9. CASE ClearHosts
  <2>1. lost' = lost /\ open' = open /\ said' = said /\ device' = device
    BY <1>9 DEF ClearHosts
  <2>2. \A m \in Macs : Shown(m)' = Shown(m)
    BY <2>1, ShownSame
  <2>3. PassInv'
    BY <1>1, <2>1, <2>2, PassQuiet
  <2>4. \A m \in Macs : DeviceInv(m)'
    BY <1>2, <2>1, <2>2, DeviceQuiet
  <2>5. QED
    BY <1>1, <2>1, <2>3, <2>4 DEF InfraInv
<1>10. QED
  BY <1>4, <1>5, <1>7, <1>8, <1>9 DEF Web

LEMMA FindingStep ==
  ASSUME FindingInv, [Next]_vars
  PROVE  FindingInv'
<1>1. TypeOK'
  BY PresenceTypeStep DEF FindingInv
<1>2. ASSUME UNCHANGED <<device, pass, step, suspect, open, said, lost>> PROVE FindingInv'
  <2>1. UNCHANGED <<sweep, sampled, insert, todo, trans, device, step, suspect, open, said, lost>>
    BY <1>2 DEF pass
  <2>2. \A m \in Macs : Shown(m)' = Shown(m) /\ Pending(m)' = Pending(m)
    BY <2>1, ShownSame, PendingSame
  <2>3. PassInv'
    BY <2>1, <2>2, PassQuiet DEF FindingInv
  <2>4. \A m \in Macs : DeviceInv(m)'
    BY <2>1, <2>2, DeviceQuiet DEF FindingInv
  <2>5. QED
    BY <1>1, <2>1, <2>3, <2>4 DEF FindingInv, InfraInv
<1>3. CASE Tick \/ (\E m \in Macs : Packet(m)) \/ UNCHANGED vars
  BY <1>2, <1>3 DEF Tick, Packet, vars, check
<1>4. CASE Restart
  <2>1. /\ todo' = {} /\ trans' = <<>> /\ device' = device /\ said' = said /\ open' = open
        /\ lost' = [m \in Macs |-> lost[m] \/ Pending(m) # {}] /\ step' = "idle"
    BY <1>4 DEF Restart
  <2>2. PassInv' /\ \A m \in Macs : DeviceInv(m)'
    BY <2>1, PassGone DEF FindingInv
  <2>3. QED
    BY <1>1, <2>1, <2>2 DEF FindingInv, InfraInv
<1>5. QED
  BY <1>1, <1>3, <1>4, SweeperFindings, InfraFindings, WebFindings DEF Next

LEMMA FindingInit == Init => FindingInv
<1> SUFFICES ASSUME Init PROVE FindingInv
  OBVIOUS
<1>1. trans = <<>> /\ todo = {} /\ step = "idle"
  BY DEF Init
<1>2. \A m \in Macs : Pending(m) = {} /\ Shown(m) /\ said[m] = "none"
                      /\ open[m].sweeper = 0 /\ open[m].infra = 0
  BY DEF Init, Pending, Shown
<1>3. PassInv
  <2>1. \A j, k \in DOMAIN trans : FALSE
    BY <1>1
  <2>2. QED
    BY <1>1, <1>2, <2>1 DEF PassInv
<1>4. \A m \in Macs : DeviceInv(m)
  <2>1. ASSUME NEW m \in Macs PROVE DeviceInv(m)
    <3>1. open[m].sweeper <= 1 /\ open[m].infra <= 1
      BY <1>2
    <3>2. QED
      BY <1>2, <3>1 DEF DeviceInv
  <2>2. QED
    BY <2>1
<1>5. QED
  BY <1>1, <1>3, <1>4, PresenceTypeInit DEF FindingInv, InfraInv

LEMMA FindingsInvariant == Spec => []FindingInv
<1>1. FindingInv /\ [Next]_vars => FindingInv'
  BY FindingStep
<1>2. QED
  BY FindingInit, <1>1, PTL DEF Spec

\* Unless a fault or a clear has hit a device's findings, the last presence finding
\* agrees with its row, or the callback that will make it agree is on its way.
THEOREM PresenceFindingsTrack == Spec => []FindingsTrackRows
<1>1. FindingInv => FindingsTrackRows
  BY DEF FindingInv, DeviceInv, FindingsTrackRows
<1>2. QED
  BY FindingsInvariant, <1>1, PTL

\* An outage has one open finding of the sweeper and one of the infrastructure check at
\* most, and the sweeper's is closed with the outage, although neither looks under a lock.
THEOREM OutagesReportedOnce == Spec => []OneOpenPerOutage
<1>1. FindingInv => OneOpenPerOutage
  BY DEF FindingInv, DeviceInv, OneOpenPerOutage
<1>2. QED
  BY FindingsInvariant, <1>1, PTL
=============================================================================
