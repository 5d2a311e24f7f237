--------------------------- MODULE AnnounceProofs ---------------------------
(***************************************************************************)
(* Proofs about Pipeline: who is announced as a new host, what eviction    *)
(* can reach, and which addresses a packet may replace.                    *)
(***************************************************************************)
EXTENDS PipelineProofs

Started == pc \in {"upsert", "rules", "known", "verdict"}

\* A step of another actor touches neither the caches nor the packet at hand.
LEMMA OtherActors ==
  ASSUME OtherStep, ~Restart
  PROVE  UNCHANGED <<memory, pc, local>>
  BY DEF OtherStep, WebRead, WebOverrideNoHost, WebUnmark, SetOverride, WebWrite,
         ForgetOverride, Import, ClearVerdicts, ClearHosts, ClearFindings,
         DetectLocalMacs, ReevaluateRead, ReevaluateWrite

\* ... and of the history, the rows and the findings only what it is about.
QuietStep == UNCHANGED <<memory, pc, local, rows, found, history>>

LEMMA OtherSplit ==
  ASSUME OtherStep, ~Restart
  PROVE  \/ WebWrite \/ ClearHosts \/ ClearFindings \/ QuietStep
         \/ \E m \in Macs, addr \in ImportIps : Import(m, addr)
  BY DEF OtherStep, QuietStep, WebRead, WebOverrideNoHost, WebUnmark, SetOverride,
         ForgetOverride, ClearVerdicts, DetectLocalMacs, ReevaluateRead, ReevaluateWrite

\* While a packet is in progress its MAC is a MAC.
LEMMA CurMac == TypeInv /\ pc # "idle" => cur.mac \in Macs
  BY DEF TypeInv, PacketType

-----------------------------------------------------------------------------
(* A host that is "known" has been announced.  The disposition the handler *)
(* read earlier must be justified as well, for it writes it back.          *)

Announced(m) == found[m] > 0 \/ m \in excused

KnownInv ==
    /\ KnownAnnounced
    /\ ldisp = "known" => Started /\ Announced(cur.mac)
    /\ ~Started => ldisp = "new"
    /\ pc \in {"known", "verdict"} /\ ldisp = "new" => Announced(cur.mac)

LEMMA KnownInvStep ==
  ASSUME TypeInv, KnownInv, [Next]_vars
  PROVE  KnownInv'
<1> USE DEF KnownInv, KnownAnnounced, Announced, Started
<1>1. ASSUME NEW p \in Packets, Receive(p) PROVE KnownInv'
  BY <1>1 DEF Receive, rows
<1>2. CASE CheckGatewayIp \/ CheckPublicIp
  BY <1>2 DEF CheckGatewayIp, CheckPublicIp, Step, rows
<1>3. CASE ReadDisposition
  <2>1. cur.mac \in Macs
    BY <1>3, CurMac DEF ReadDisposition, Step
  <2>2. QED
    BY <1>3, <2>1 DEF ReadDisposition, Step, DispositionOf, rows
<1>4. CASE UpsertHost
  <2>1. cur.mac \in Macs
    BY <1>4, CurMac DEF UpsertHost
  <2>2. KnownAnnounced'
    BY <1>4, <2>1 DEF UpsertHost, UpsertRow, UpsertDisp, TypeInv, TypeOK, rows
  <2>3. QED
    BY <1>4, <2>2 DEF UpsertHost, Return
<1>5. CASE EvaluateRules
  <2>1. cur.mac \in Macs
    BY <1>5, CurMac DEF EvaluateRules, Step
  <2>2. \A m \in Macs : Announced(m) => Announced(m)'
    BY <1>5, <2>1 DEF EvaluateRules, TypeInv, TypeOK
  <2>3. ldisp = "new" => Announced(cur.mac)'
    BY <1>5, <2>1 DEF EvaluateRules, FiresNewHost, TypeInv, TypeOK, local
  <2>4. QED
    BY <1>5, <2>1, <2>2, <2>3 DEF EvaluateRules, Step, local, rows
<1>6. CASE MarkKnown
  <2>1. cur.mac \in Macs
    BY <1>6, CurMac DEF MarkKnown, Step
  <2>2. QED
    BY <1>6, <2>1 DEF MarkKnown, Step, UpsertRow, UpsertDisp, TypeInv, TypeOK, rows, local
<1>7. CASE StoreVerdict \/ Restart
  BY <1>7 DEF StoreVerdict, Restart, Return, rows
<1>8. CASE OtherStep /\ ~Restart
  <2>1. UNCHANGED <<pc, cur, ldisp>>
    BY <1>8, OtherActors DEF local
  <2>2. CASE WebWrite
    <3>1. web.mac \in Macs
      BY <2>2 DEF WebWrite, WebType, TypeInv, TypeOK
    <3>2. QED
      BY <2>1, <2>2, <3>1 DEF WebWrite, UpsertRow, UpsertDisp, TypeInv, TypeOK
  <2>3. ASSUME NEW m \in Macs, NEW addr \in ImportIps, Import(m, addr) PROVE KnownInv'
    BY <2>1, <2>3 DEF Import, UpsertRow, UpsertDisp, TypeInv, TypeOK
  <2>4. CASE ClearHosts
    BY <2>1, <2>4 DEF ClearHosts
  <2>5. CASE ClearFindings
    <3>1. \A m \in Macs : Announced(m) => Announced(m)'
      BY <2>5 DEF ClearFindings
    <3>2. ldisp # "new" \/ Started => pc # "idle"
      OBVIOUS
    <3>3. QED
      BY <2>1, <2>5, <3>1, <3>2, CurMac DEF ClearFindings, rows
  <2>6. CASE QuietStep
    BY <2>6 DEF QuietStep, local, rows, history
  <2>7. QED
    BY <1>8, <2>2, <2>3, <2>4, <2>5, <2>6, OtherSplit
<1>9. CASE UNCHANGED vars
  BY <1>9 DEF vars, local, rows, history
<1>10. QED
  BY <1>1, <1>2, <1>3, <1>4, <1>5, <1>6, <1>7, <1>8, <1>9 DEF Next, ThreadStep

\* No interleaving of process with the other writers makes a host "known" that
\* was never announced, except the excuses KnownAnnounced names.
THEOREM KnownHostsAnnounced == Spec => []KnownAnnounced
<1>1. Init => TypeInv /\ KnownInv
  BY InitTypeInv DEF Init, KnownInv, KnownAnnounced, Started
<1>2. TypeInv /\ KnownInv /\ [Next]_vars => TypeInv' /\ KnownInv'
  BY TypeInvStep, KnownInvStep
<1>3. KnownInv => KnownAnnounced
  BY DEF KnownInv
<1>4. QED
  BY <1>1, <1>2, <1>3, PTL DEF Spec

-----------------------------------------------------------------------------
(* new_host fires once.  A finding is followed by the sticky "known" mark, *)
(* which no upsert removes, and a handler that is about to fire has read a *)
(* row without that mark.                                                  *)

OnceInv ==
    /\ NewHostOnce
    /\ \A m \in Macs : found[m] > 0 /\ m \notin reset =>
          \/ disp[m] \in {"known", "self"}
          \/ pc = "known" /\ cur.mac = m /\ ldisp = "new"
    /\ pc \in {"upsert", "rules"} /\ ldisp = "new" =>
          found[cur.mac] = 0 \/ cur.mac \in reset

LEMMA OnceInvStep ==
  ASSUME TypeInv, OnceInv, [Next]_vars
  PROVE  OnceInv'
<1> USE DEF OnceInv, NewHostOnce
<1>1. ASSUME NEW p \in Packets, Receive(p) PROVE OnceInv'
  BY <1>1 DEF Receive, rows
<1>2. CASE CheckGatewayIp \/ CheckPublicIp
  BY <1>2 DEF CheckGatewayIp, CheckPublicIp, Step, rows
<1>3. CASE ReadDisposition
  <2>1. cur.mac \in Macs
    BY <1>3, CurMac DEF ReadDisposition, Step
  <2>2. QED
    BY <1>3, <2>1 DEF ReadDisposition, Step, DispositionOf, TypeInv, TypeOK, rows
<1>4. CASE UpsertHost
  <2>1. cur.mac \in Macs
    BY <1>4, CurMac DEF UpsertHost
  <2>2. \A m \in Macs : disp[m] \in {"known", "self"} => disp'[m] = disp[m]
    BY <1>4, <2>1 DEF UpsertHost, UpsertRow, UpsertDisp, TypeInv, TypeOK, rows
  <2>3. UNCHANGED <<found, reset>> /\ pc = "upsert"
        /\ ((pc' = "rules" /\ UNCHANGED <<cur, ldisp>>) \/ pc' = "idle")
    BY <1>4 DEF UpsertHost, Return
  <2>4. QED
    BY <2>2, <2>3
<1>5. CASE EvaluateRules
  <2>1. cur.mac \in Macs
    BY <1>5, CurMac DEF EvaluateRules, Step
  <2>2. UNCHANGED <<disp, cur, ldisp, reset>> /\ pc = "rules" /\ pc' = "known"
    BY <1>5 DEF EvaluateRules, Step, local, rows
  <2>3. \A m \in Macs \ {cur.mac} : found'[m] = found[m]
    BY <1>5 DEF EvaluateRules, TypeInv, TypeOK
  <2>4. CASE ldisp = "new"
    <3>1. found'[cur.mac] = 2 => cur.mac \in reset
      BY <1>5, <2>1, <2>2, <2>4 DEF EvaluateRules, TypeInv, TypeOK
    <3>2. QED
      BY <2>1, <2>2, <2>3, <2>4, <3>1
  <2>5. CASE ldisp # "new"
    BY <1>5, <2>2, <2>5 DEF EvaluateRules, FiresNewHost
  <2>6. QED
    BY <2>4, <2>5
<1>6. CASE MarkKnown
  <2>1. cur.mac \in Macs
    BY <1>6, CurMac DEF MarkKnown, Step
  <2>2. QED
    BY <1>6, <2>1 DEF MarkKnown, Step, UpsertRow, UpsertDisp, TypeInv, TypeOK, rows, local
<1>7. CASE StoreVerdict
  BY <1>7 DEF StoreVerdict, Return, rows
<1>8. CASE Restart
  BY <1>8 DEF Restart, Return, rows
<1>9. CASE OtherStep /\ ~Restart
  <2>1. UNCHANGED <<pc, cur, ldisp>>
    BY <1>9, OtherActors DEF local
  <2>2. CASE WebWrite
    <3>1. web.mac \in Macs
      BY <2>2 DEF WebWrite, WebType, TypeInv, TypeOK
    <3>2. QED
      BY <2>1, <2>2, <3>1 DEF WebWrite, UpsertRow, UpsertDisp, TypeInv, TypeOK
  <2>3. ASSUME NEW m \in Macs, NEW addr \in ImportIps, Import(m, addr) PROVE OnceInv'
    BY <2>1, <2>3 DEF Import, UpsertRow, UpsertDisp, TypeInv, TypeOK
  <2>4. CASE ClearHosts
    BY <2>1, <2>4 DEF ClearHosts
  <2>5. CASE ClearFindings
    <3>1. pc \in {"upsert", "rules"} => cur.mac \in Macs
      BY CurMac
    <3>2. QED
      BY <2>1, <2>5, <3>1 DEF ClearFindings, rows
  <2>6. CASE QuietStep
    BY <2>6 DEF QuietStep, local, rows, history
  <2>7. QED
    BY <1>9, <2>2, <2>3, <2>4, <2>5, <2>6, OtherSplit
<1>10. CASE UNCHANGED vars
  BY <1>10 DEF vars, local, rows, history
<1>11. QED
  BY <1>1, <1>2, <1>3, <1>4, <1>5, <1>6, <1>7, <1>8, <1>9, <1>10 DEF Next, ThreadStep

\* A second new_host finding for the same MAC is only possible after a database
\* fault, a kill between finding and mark, or "clear database".
THEOREM NewHostFiresOnce == Spec => []NewHostOnce
<1>1. Init => TypeInv /\ OnceInv
  BY InitTypeInv DEF Init, OnceInv, NewHostOnce
<1>2. TypeInv /\ OnceInv /\ [Next]_vars => TypeInv' /\ OnceInv'
  BY TypeInvStep, OnceInvStep
<1>3. OnceInv => NewHostOnce
  BY DEF OnceInv
<1>4. QED
  BY <1>1, <1>2, <1>3, PTL DEF Spec

-----------------------------------------------------------------------------
(* Local interfaces.                                                       *)

\* A disposition read when the MAC was already detected is "self" to the end.
LocalInv == Started /\ ~blind => ldisp = "self"

LocalStep == \A m \in detected : found'[m] > found[m] => blind

LEMMA LocalInvStep ==
  ASSUME TypeInv, LocalInv, [Next]_vars
  PROVE  LocalInv' /\ (LocalStep \/ UNCHANGED vars)
<1> USE PipelineAssumption DEF LocalInv, LocalStep, Started
<1>1. detected \subseteq Macs /\ found \in [Macs -> 0..2]
  BY DEF TypeInv, TypeOK
<1>2. found' = [m \in Macs |-> 0] => LocalStep
  BY <1>1
<1>3. UNCHANGED found => LocalStep
  BY <1>1
<1>4. ASSUME NEW p \in Packets, Receive(p) PROVE LocalInv' /\ LocalStep
  BY <1>3, <1>4 DEF Receive
<1>5. CASE CheckGatewayIp \/ CheckPublicIp
  BY <1>3, <1>5 DEF CheckGatewayIp, CheckPublicIp, Step
<1>6. CASE ReadDisposition
  BY <1>3, <1>6 DEF ReadDisposition, Step, DispositionOf
<1>7. CASE UpsertHost
  BY <1>3, <1>7 DEF UpsertHost, Return
<1>8. CASE EvaluateRules
  <2>1. FiresNewHost(ldisp) => blind
    BY <1>8 DEF EvaluateRules, Step, FiresNewHost
  <2>2. QED
    BY <1>3, <1>8, <2>1 DEF EvaluateRules, Step, local
<1>9. CASE MarkKnown
  BY <1>3, <1>9 DEF MarkKnown, Step, local
<1>10. CASE StoreVerdict \/ Restart
  BY <1>3, <1>10 DEF StoreVerdict, Restart, Return
<1>11. CASE OtherStep /\ ~Restart
  <2>1. UNCHANGED <<pc, ldisp, blind>>
    BY <1>11, OtherActors, OtherSplit
       DEF local, history, WebWrite, ClearHosts, ClearFindings, QuietStep, Import
  <2>2. UNCHANGED found \/ found' = [m \in Macs |-> 0]
    BY <1>11, OtherSplit DEF WebWrite, ClearHosts, ClearFindings, QuietStep, Import
  <2>3. LocalStep
    BY <1>2, <1>3, <2>2
  <2>4. QED
    BY <2>1, <2>3
<1>12. CASE UNCHANGED vars
  BY <1>12 DEF vars, local, history
<1>13. QED
  BY <1>4, <1>5, <1>6, <1>7, <1>8, <1>9, <1>10, <1>11, <1>12 DEF Next, ThreadStep

\* Once detected, this machine's own interfaces are announced by no packet but
\* the one whose disposition had been read before.
THEOREM LocalInterfacesSilent == Spec => LocalNeverAnnounced
<1>1. Init => TypeInv /\ LocalInv
  BY InitTypeInv DEF Init, LocalInv, Started
<1>2. TypeInv /\ LocalInv /\ [Next]_vars => TypeInv' /\ LocalInv'
  BY TypeInvStep, LocalInvStep
<1>3. TypeInv /\ LocalInv /\ [Next]_vars => [LocalStep]_vars
  BY LocalInvStep
<1>4. QED
  BY <1>1, <1>2, <1>3, PTL DEF Spec, LocalNeverAnnounced, LocalStep

-----------------------------------------------------------------------------
(* Eviction.  The packet in progress is stamped, so the buffer entry it    *)
(* gets at the end of the handler is one eviction can find.                *)

EvictInv == Evictable /\ (pc # "idle" => cur.mac \in lastSeen)

LEMMA ReceiveEvictInv ==
  ASSUME TypeInv, EvictInv, NEW p \in Packets, Receive(p)
  PROVE  EvictInv'
<1> DEFINE m    == p.mac
           isGw == LearnsGateway(p)
           buf1 == IF isGw
                   THEN [buffer EXCEPT ![m] = Scrub(@, ouiVendor[m])
                                              \cup {GatewayEvidence}]
                   ELSE buffer
           trk1 == IF isGw THEN tracked \cup {m} ELSE tracked
           vendor == IF m \notin trk1 THEN Oui[m] ELSE ouiVendor[m]
<1>1. PICK E \in SUBSET (Stamp(m) \ {m}) :
        /\ tracked' = trk1 \ E
        /\ buffer' = [n \in Macs |-> IF n \in E THEN {} ELSE buf1[n]]
        /\ ouiVendor' = [n \in Macs |-> IF n \in E THEN None
                                        ELSE IF n = m THEN vendor
                                        ELSE ouiVendor[n]]
        /\ lookupDone' = {k \in lookupDone : k[1] \notin E} \cup {<<m, p.kind>>}
        /\ lastSeen' = Stamp(m) \ E
        /\ cur' = p
  BY DEF Receive
<1>2. m \in lastSeen' /\ lastSeen \ E \subseteq lastSeen'
  BY <1>1 DEF Stamp
<1>3. tracked' \subseteq lastSeen'
  BY <1>1, <1>2 DEF EvictInv, Evictable
<1>4. \A k \in lookupDone' : k[1] \in lastSeen'
  BY <1>1, <1>2 DEF EvictInv, Evictable
<1>5. ASSUME NEW n \in Macs, ouiVendor'[n] # None \/ buffer'[n] # {}
      PROVE  n \in lastSeen'
  <2>1. CASE n = m
    BY <1>2, <2>1
  <2>2. CASE n # m
    <3>1. buf1[n] = buffer[n]
      BY <2>2 DEF TypeInv, TypeOK
    <3>2. n \notin E /\ (ouiVendor[n] # None \/ buffer[n] # {})
      BY <1>1, <1>5, <2>2, <3>1
    <3>3. QED
      BY <1>2, <3>2 DEF EvictInv, Evictable
  <2>3. QED
    BY <2>1, <2>2
<1>6. QED
  BY <1>1, <1>2, <1>3, <1>4, <1>5 DEF EvictInv, Evictable

LEMMA EvictInvStep ==
  ASSUME TypeInv, EvictInv, [Next]_vars
  PROVE  EvictInv'
<1> USE DEF EvictInv, Evictable
<1>1. ASSUME NEW p \in Packets, Receive(p) PROVE EvictInv'
  BY <1>1, ReceiveEvictInv
<1>2. CASE CheckGatewayIp \/ CheckPublicIp \/ ReadDisposition
  BY <1>2 DEF CheckGatewayIp, CheckPublicIp, ReadDisposition, Step, memory
<1>3. CASE UpsertHost
  <2>1. cur.mac \in lastSeen /\ cur.mac \in Macs
    BY <1>3, CurMac DEF UpsertHost
  <2>2. QED
    BY <1>3, <2>1 DEF UpsertHost, Return, TypeInv, TypeOK
<1>4. CASE EvaluateRules \/ MarkKnown
  BY <1>4 DEF EvaluateRules, MarkKnown, Step, memory, local
<1>5. CASE StoreVerdict
  BY <1>5 DEF StoreVerdict, Return, memory
<1>6. CASE Restart
  BY <1>6 DEF Restart, Return
<1>7. CASE (OtherStep /\ ~Restart) \/ UNCHANGED vars
  <2>1. UNCHANGED <<memory, pc, local>>
    BY <1>7, OtherActors DEF vars
  <2>2. QED
    BY <2>1 DEF memory, local
<1>8. QED
  BY <1>1, <1>2, <1>3, <1>4, <1>5, <1>6, <1>7 DEF Next, ThreadStep

\* Whatever a per-MAC cache holds can be evicted.
THEOREM CachesEvictable == Spec => []Evictable
<1>1. Init => TypeInv /\ EvictInv
  BY InitTypeInv DEF Init, EvictInv, Evictable
<1>2. TypeInv /\ EvictInv /\ [Next]_vars => TypeInv' /\ EvictInv'
  BY TypeInvStep, EvictInvStep
<1>3. EvictInv => Evictable
  BY DEF EvictInv
<1>4. QED
  BY <1>1, <1>2, <1>3, PTL DEF Spec

-----------------------------------------------------------------------------
(* Addresses.  As long as the row was not touched by others, what the two  *)
(* checks established about the address at hand still holds at the upserts. *)

AddressInv ==
    /\ \A m \in Macs : disp[m] = "absent" => ip[m] = None
    /\ pc \in {"publicip", "disposition", "upsert", "rules", "known"} /\ ~raced
          /\ lip # None /\ cur.mac \in gateways => ip[cur.mac] \in {None, lip}
    /\ pc \in {"disposition", "upsert", "rules", "known"} /\ ~raced
          /\ lip # None /\ ip[cur.mac] \in PrivateIps => lip \in PrivateIps

\* An upsert of the packet's address replaces the row's address as allowed.
AddressStep ==
    \A m \in Macs :
        (pc' # pc /\ ~raced /\ ip[m] # None /\ ip'[m] # ip[m]) =>
           /\ m \notin gateways
           /\ ip[m] \in PrivateIps => ip'[m] \in PrivateIps

LEMMA AddressInvStep ==
  ASSUME TypeInv, AddressInv, [Next]_vars
  PROVE  AddressInv' /\ (AddressStep \/ UNCHANGED vars)
<1> USE PipelineAssumption DEF AddressInv, AddressStep
<1>1. ASSUME NEW p \in Packets, Receive(p) PROVE AddressInv' /\ AddressStep
  BY <1>1 DEF Receive, rows
<1>2. CASE CheckGatewayIp
  <2>1. cur.mac \in Macs
    BY <1>2, CurMac DEF CheckGatewayIp, Step
  <2>2. QED
    BY <1>2, <2>1 DEF CheckGatewayIp, Step, RefusesIp, rows, memory
<1>3. CASE CheckPublicIp
  BY <1>3 DEF CheckPublicIp, Step, rows, memory
<1>4. CASE ReadDisposition
  BY <1>4 DEF ReadDisposition, Step, rows, memory
<1>5. CASE UpsertHost
  <2>1. cur.mac \in Macs /\ pc = "upsert"
    BY <1>5, CurMac DEF UpsertHost
  <2>2. \/ UNCHANGED rows
        \/ UpsertRow(cur.mac, lip, ldisp)
    BY <1>5 DEF UpsertHost
  <2>3. (\A m \in Macs : disp'[m] = "absent" => ip'[m] = None) /\ AddressStep
    BY <2>1, <2>2 DEF UpsertRow, UpsertDisp, UpsertIp, TypeInv, TypeOK, Dispositions, rows
  <2>4. ip'[cur.mac] \in {ip[cur.mac], lip}
    BY <2>1, <2>2 DEF UpsertRow, UpsertIp, TypeInv, TypeOK, rows
  <2>5. UNCHANGED <<gateways>> /\ (pc' = "idle" \/ UNCHANGED <<cur, lip, raced>>)
    BY <1>5 DEF UpsertHost, Return
  <2>6. QED
    BY <1>5, <2>1, <2>3, <2>4, <2>5 DEF UpsertHost, Return
<1>6. CASE EvaluateRules
  BY <1>6 DEF EvaluateRules, Step, rows, memory, local
<1>7. CASE MarkKnown
  <2>1. cur.mac \in Macs
    BY <1>7, CurMac DEF MarkKnown, Step
  <2>2. QED
    BY <1>7, <2>1 DEF MarkKnown, Step, UpsertRow, UpsertDisp, UpsertIp, TypeInv, TypeOK,
                      rows, memory, local
<1>8. CASE StoreVerdict \/ Restart
  BY <1>8 DEF StoreVerdict, Restart, Return, rows
<1>9. CASE OtherStep /\ ~Restart
  <2>1. UNCHANGED <<pc, cur, lip, gateways>>
    BY <1>9, OtherActors DEF memory, local
  <2>2. CASE WebWrite
    <3>1. web.mac \in Macs /\ web.to # "absent"
      BY <2>2 DEF WebWrite, WebType, Marks, TypeInv, TypeOK
    <3>2. pc # "idle" /\ ~raced' => cur.mac # web.mac /\ cur.mac \in Macs /\ ~raced
      BY <2>2, CurMac DEF WebWrite, RaceOn, TypeInv, TypeOK
    <3>3. (\A m \in Macs : disp'[m] = "absent" => ip'[m] = None)
          /\ (\A m \in Macs \ {web.mac} : ip'[m] = ip[m])
      BY <2>2, <3>1 DEF WebWrite, UpsertRow, UpsertDisp, UpsertIp, TypeInv, TypeOK
    <3>4. QED
      BY <2>1, <3>2, <3>3
  <2>3. ASSUME NEW n \in Macs, NEW addr \in ImportIps, Import(n, addr)
        PROVE  AddressInv' /\ AddressStep
    <3>1. pc # "idle" /\ ~raced' => cur.mac # n /\ cur.mac \in Macs /\ ~raced
      BY <2>3, CurMac DEF Import, RaceOn, TypeInv, TypeOK
    <3>2. (\A m \in Macs : disp'[m] = "absent" => ip'[m] = None)
          /\ (\A m \in Macs \ {n} : ip'[m] = ip[m])
      BY <2>3 DEF Import, UpsertRow, UpsertDisp, UpsertIp, TypeInv, TypeOK
    <3>3. QED
      BY <2>1, <3>1, <3>2
  <2>4. CASE ClearHosts
    BY <2>1, <2>4 DEF ClearHosts
  <2>5. CASE ClearFindings \/ QuietStep
    BY <2>1, <2>5 DEF ClearFindings, QuietStep, rows, history
  <2>6. QED
    BY <1>9, <2>2, <2>3, <2>4, <2>5, OtherSplit
<1>10. CASE UNCHANGED vars
  BY <1>10 DEF vars, local, rows, history, memory
<1>11. QED
  BY <1>1, <1>2, <1>3, <1>4, <1>5, <1>6, <1>7, <1>8, <1>9, <1>10 DEF Next, ThreadStep

\* With the row to itself, a packet never moves a gateway's address and never
\* replaces a LAN address by a public one.
THEOREM AddressesKept == Spec => AddressKept
<1>1. Init => TypeInv /\ AddressInv
  BY InitTypeInv DEF Init, AddressInv
<1>2. TypeInv /\ AddressInv /\ [Next]_vars => TypeInv' /\ AddressInv'
  BY TypeInvStep, AddressInvStep
<1>3. TypeInv /\ AddressInv /\ [Next]_vars => [AddressStep]_vars
  BY AddressInvStep
<1>4. QED
  BY <1>1, <1>2, <1>3, PTL DEF Spec, AddressKept, AddressStep

=============================================================================
