--------------------------- MODULE PipelineProofs ---------------------------
(***************************************************************************)
(* Proofs about Pipeline, for every set of MACs, vendors, addresses and    *)
(* packets, with database faults, restarts and every other writer allowed. *)
(***************************************************************************)
EXTENDS Pipeline, TLAPS

-----------------------------------------------------------------------------
(* The operators the handler is built from.                                *)

\* Cross-validation and scrubbing turn evidence into evidence.
LEMMA StrippedType == \A e \in Evidence : Stripped(e) \in Evidence
  BY DEF Stripped, Evidence, Weights

LEMMA ScrubType ==
  ASSUME NEW S \in SUBSET Evidence, NEW ref
  PROVE  Scrub(S, ref) \in SUBSET Evidence
  BY StrippedType DEF Scrub

LEMMA CrossValidateType ==
  ASSUME NEW S \in SUBSET Evidence, NEW infra, NEW ref
  PROVE  CrossValidate(S, infra, ref) \in SUBSET Evidence
<1>1. \A e \in Evidence : [e EXCEPT !.weight = "low"] \in Evidence
  BY DEF Evidence, Weights
<1>2. QED
  BY <1>1, StrippedType DEF CrossValidate

\* What _scrub_infra_mdns leaves holds nothing foreign to the OUI vendor.
LEMMA ScrubClean ==
  ASSUME NEW S \in SUBSET Evidence, NEW ref, ref # None
  PROVE  \A e \in Scrub(S, ref) : ~Foreign(e, ref)
<1>1. \A e \in Evidence : Stripped(e).weight = "none"
  BY DEF Stripped, Evidence
<1>2. QED
  BY <1>1 DEF Scrub, Foreign

\* What cross-validation leaves of an infrastructure packet is not foreign to
\* the reference vendor.
LEMMA CrossValidateClean ==
  ASSUME NEW S \in SUBSET Evidence, NEW ref, ref # None
  PROVE  \A e \in CrossValidate(S, TRUE, ref) : ~Foreign(e, ref)
<1>1. \A e \in Evidence : Stripped(e).weight = "none"
  BY DEF Stripped, Evidence
<1>2. QED
  BY <1>1 DEF CrossValidate, Foreign

\* An OUI vendor, when there is one, is the only reference vendor.
LEMMA RefVendorOui ==
  ASSUME NEW v, v # None, NEW S
  PROVE  RefVendors(v, S) = {v}
  BY DEF RefVendors

\* Capping only drops evidence.
LEMMA CappedSubset == \A S : \A T \in Capped(S) : T \subseteq S
  BY DEF Capped

-----------------------------------------------------------------------------
(* Type correctness.                                                       *)

\* While a packet is in progress the handler holds a packet.
TypeInv == TypeOK /\ (pc # "idle" => cur \in PacketType)

\* The evidence a packet brings is evidence.
LEMMA ReceiveTypeInv ==
  ASSUME TypeInv, NEW p \in Packets, Receive(p)
  PROVE  TypeInv'
<1> USE PipelineAssumption
<1>1. p \in PacketType /\ p.mac \in Macs /\ p.kind \in Kinds
      /\ p.ip \in Ips \cup {None} /\ p.ev \subseteq Evidence /\ p.fp \subseteq Evidence
  BY DEF PacketType
<1> DEFINE m    == p.mac
           isGw == LearnsGateway(p)
           buf1 == IF isGw
                   THEN [buffer EXCEPT ![m] = Scrub(@, ouiVendor[m])
                                              \cup {GatewayEvidence}]
                   ELSE buffer
           trk1 == IF isGw THEN tracked \cup {m} ELSE tracked
           seen == Stamp(m)
           first == m \notin trk1
           vendor == IF first THEN Oui[m] ELSE ouiVendor[m]
           infra == m \in gateways \/ isGw \/ (first /\ m \in OuiInfra)
           raw == p.ev \cup (IF first /\ Oui[m] # None THEN {OuiEvidence(m)} ELSE {})
                  \cup FingerprintLookup(p)
<1>2. GatewayEvidence \in Evidence
  BY DEF GatewayEvidence, Evidence, Sources, Weights
<1>3. buf1 \in [Macs -> SUBSET Evidence]
  BY <1>1, <1>2, ScrubType DEF TypeInv, TypeOK
<1>4. raw \subseteq Evidence
  BY <1>1 DEF OuiEvidence, FingerprintLookup, Evidence, Sources, Weights
<1>5. vendor \in Vendors \cup {None}
  BY <1>1 DEF TypeInv, TypeOK
<1>6. PICK E \in SUBSET (seen \ {m}), ref \in RefVendors(vendor, buf1[m] \cup raw) :
        /\ evs' = CrossValidate(raw, infra, ref)
        /\ tracked' = trk1 \ E
        /\ buffer' = [n \in Macs |-> IF n \in E THEN {} ELSE buf1[n]]
        /\ ouiVendor' = [n \in Macs |-> IF n \in E THEN None
                                        ELSE IF n = m THEN vendor
                                        ELSE ouiVendor[n]]
        /\ gateways' = IF infra THEN gateways \cup {m} ELSE gateways
        /\ lookupDone' = {k \in lookupDone : k[1] \notin E} \cup {<<m, p.kind>>}
        /\ lastSeen' = seen \ E
  BY DEF Receive
<1>7. evs' \subseteq Evidence
  BY <1>4, <1>6, CrossValidateType
<1>8. buffer' \in [Macs -> SUBSET Evidence]
      /\ ouiVendor' \in [Macs -> Vendors \cup {None}]
  <2> HIDE DEF buf1, vendor
  <2>1. QED
    BY <1>3, <1>5, <1>6 DEF TypeInv, TypeOK
<1>9. tracked' \subseteq Macs /\ gateways' \subseteq Macs /\ lastSeen' \subseteq Macs
      /\ lookupDone' \subseteq Macs \X Kinds
  BY <1>1, <1>6 DEF TypeInv, TypeOK, Stamp
<1>10. QED
  BY <1>1, <1>7, <1>8, <1>9
     DEF Receive, TypeInv, TypeOK, PCs, rows, main

LEMMA TypeInvStep ==
  ASSUME TypeInv, [Next]_vars
  PROVE  TypeInv'
<1> USE PipelineAssumption
<1>1. ASSUME NEW p \in Packets, Receive(p) PROVE TypeInv'
  BY <1>1, ReceiveTypeInv
<1>2. CASE CheckGatewayIp
  BY <1>2 DEF CheckGatewayIp, Step, TypeInv, TypeOK, PCs, memory, rows, main
<1>3. CASE CheckPublicIp
  BY <1>3 DEF CheckPublicIp, Step, TypeInv, TypeOK, PCs, memory, rows, main
<1>4. CASE ReadDisposition
  <2>1. cur.mac \in Macs
    BY <1>4 DEF ReadDisposition, Step, TypeInv, PacketType
  <2>2. DispositionOf(cur.mac) \in Dispositions \ {"absent"}
    BY <2>1 DEF DispositionOf, TypeInv, TypeOK, Dispositions
  <2>3. QED
    BY <1>4, <2>1, <2>2
       DEF ReadDisposition, Step, TypeInv, TypeOK, PCs, Dispositions, memory, rows, main
<1>5. CASE UpsertHost
  <2>1. cur.mac \in Macs
    BY <1>5 DEF UpsertHost, TypeInv, PacketType
  <2>2. disp' \in [Macs -> Dispositions] /\ ip' \in [Macs -> Ips \cup {None}]
    BY <1>5, <2>1 DEF UpsertHost, UpsertRow, UpsertDisp, UpsertIp, TypeInv, TypeOK, rows
  <2>3. CASE evs = {}
    BY <1>5, <2>2, <2>3
       DEF UpsertHost, Return, TypeInv, TypeOK, PCs, Dispositions, main
  <2>4. CASE evs # {}
    <3>1. PICK chain \in Capped(buffer[cur.mac] \cup evs) :
            /\ buffer' = [buffer EXCEPT ![cur.mac] = chain]
            /\ evs' = chain
            /\ tracked' = tracked \cup {cur.mac}
            /\ pc' = "rules"
            /\ UNCHANGED <<cur, lip, ldisp, raced, blind>>
      BY <1>5, <2>4 DEF UpsertHost
    <3>2. chain \subseteq Evidence
      BY <2>1, <3>1, CappedSubset DEF TypeInv, TypeOK
    <3>3. QED
      BY <1>5, <2>1, <2>2, <3>1, <3>2 DEF UpsertHost, TypeInv, TypeOK, PCs, main
  <2>5. QED
    BY <2>3, <2>4
<1>6. CASE EvaluateRules
  <2>1. cur.mac \in Macs
    BY <1>6 DEF EvaluateRules, Step, TypeInv, PacketType
  <2>2. QED
    BY <1>6, <2>1 DEF EvaluateRules, Step, TypeInv, TypeOK, PCs, memory, local, rows, main
<1>7. CASE MarkKnown
  <2>1. cur.mac \in Macs
    BY <1>7 DEF MarkKnown, Step, TypeInv, PacketType
  <2>2. disp' \in [Macs -> Dispositions] /\ ip' \in [Macs -> Ips \cup {None}]
    BY <1>7, <2>1
       DEF MarkKnown, UpsertRow, UpsertDisp, UpsertIp, TypeInv, TypeOK, rows, Dispositions
  <2>3. QED
    BY <1>7, <2>1, <2>2 DEF MarkKnown, Step, TypeInv, TypeOK, PCs, memory, local, main
<1>8. CASE StoreVerdict
  BY <1>8 DEF StoreVerdict, Return, TypeInv, TypeOK, PCs, Dispositions, memory, rows, main
<1>9. ASSUME NEW op \in {"mark", "override"}, NEW m \in Macs, NEW to \in Marks,
             WebRead(op, m, to)
      PROVE  TypeInv'
  BY <1>9 DEF WebRead, WebType, TypeInv, TypeOK, memory, local, rows, history
<1>10. ASSUME NEW m \in Macs, NEW to \in Marks, WebOverrideNoHost(m, to) PROVE TypeInv'
  BY <1>10 DEF WebOverrideNoHost, TypeInv, TypeOK, memory, local, rows, main, history
<1>11. ASSUME NEW m \in Macs, WebUnmark(m) PROVE TypeInv'
  BY <1>11 DEF WebUnmark, WebType, Marks, TypeInv, TypeOK, memory, local, rows, history
<1>12. CASE WebWrite
  <2>1. web.mac \in Macs /\ web.ip \in Ips \cup {None} /\ web.to \in Marks
    BY <1>12 DEF WebWrite, WebType, TypeInv, TypeOK
  <2>2. disp' \in [Macs -> Dispositions] /\ ip' \in [Macs -> Ips \cup {None}]
    BY <1>12, <2>1 DEF WebWrite, UpsertRow, UpsertDisp, UpsertIp, TypeInv, TypeOK,
                       Dispositions, Marks
  <2>3. web' \in WebType
    BY <1>12, <2>1 DEF WebWrite, NoWeb, WebType
  <2>4. QED
    BY <1>12, <2>1, <2>2, <2>3
       DEF WebWrite, RaceOn, TypeInv, TypeOK, memory, local
<1>23. CASE SetOverride
  <2>1. web.mac \in Macs /\ web.to \in Marks /\ web' \in WebType
    BY <1>23 DEF SetOverride, WebType, TypeInv, TypeOK
  <2>2. QED
    BY <1>23, <2>1 DEF SetOverride, TypeInv, TypeOK, memory, local, rows, history
<1>24. CASE ForgetOverride
  <2>1. web.mac \in Macs /\ web' \in WebType
    BY <1>24 DEF ForgetOverride, NoWeb, WebType, TypeInv, TypeOK
  <2>2. QED
    BY <1>24, <2>1 DEF ForgetOverride, TypeInv, TypeOK, memory, local, rows, history
<1>13. ASSUME NEW m \in Macs, NEW addr \in ImportIps, Import(m, addr) PROVE TypeInv'
  <2>1. disp' \in [Macs -> Dispositions] /\ ip' \in [Macs -> Ips \cup {None}]
    BY <1>13 DEF Import, UpsertRow, UpsertDisp, UpsertIp, TypeInv, TypeOK, Dispositions
  <2>2. QED
    BY <1>13, <2>1 DEF Import, RaceOn, TypeInv, TypeOK, memory, local, main
<1>14. CASE ClearVerdicts
  BY <1>14 DEF ClearVerdicts, WebType, TypeInv, TypeOK, memory, local, rows, history
<1>15. CASE ClearHosts
  BY <1>15 DEF ClearHosts, WebType, Dispositions, TypeInv, TypeOK, memory, local
<1>16. CASE ClearFindings
  BY <1>16 DEF ClearFindings, NoWeb, WebType, TypeInv, TypeOK, memory, local, rows
<1>17. ASSUME NEW S \in SUBSET LocalMacs, DetectLocalMacs(S) PROVE TypeInv'
  BY <1>17 DEF DetectLocalMacs, TypeInv, TypeOK, memory, local, rows, history
<1>18. ASSUME NEW m \in Macs, ReevaluateRead(m) PROVE TypeInv'
  BY <1>18 DEF ReevaluateRead, JobType, TypeInv, TypeOK, memory, local, rows, history
<1>19. CASE ReevaluateWrite
  <2>1. reeval \in JobType
    BY <1>19 DEF ReevaluateWrite, TypeInv, TypeOK
  <2>2. verdict' \in [Macs -> SUBSET Evidence]
    BY <1>19, <2>1, CappedSubset DEF ReevaluateWrite, JobType, TypeInv, TypeOK
  <2>3. QED
    BY <1>19, <2>2 DEF ReevaluateWrite, TypeInv, TypeOK, memory, local, rows, history
<1>20. CASE Restart
  <2>1. pc # "idle" => cur.mac \in Macs
    BY DEF TypeInv, PacketType
  <2>2. QED
    BY <1>20, <2>1 DEF Restart, Return, NoWeb, WebType, PCs, Dispositions, TypeInv, TypeOK, rows
<1>21. CASE UNCHANGED vars
  BY <1>21 DEF vars, memory, local, rows, main, history, TypeInv, TypeOK
<1>22. QED
  BY <1>1, <1>2, <1>3, <1>4, <1>5, <1>6, <1>7, <1>8, <1>9, <1>10, <1>11, <1>12,
     <1>13, <1>14, <1>15, <1>16, <1>17, <1>18, <1>19, <1>20, <1>21, <1>23, <1>24
     DEF Next, ThreadStep, OtherStep

LEMMA InitTypeInv == Init => TypeInv
<1> SUFFICES ASSUME Init PROVE TypeInv
  OBVIOUS
<1>1. web \in WebType /\ pc \in PCs /\ ldisp \in Dispositions \ {"absent"}
  BY DEF Init, NoWeb, WebType, PCs, Dispositions
<1>2. disp \in [Macs -> Dispositions] /\ found \in [Macs -> 0..2]
  BY DEF Init, Dispositions
<1>3. lookupDone \subseteq Macs \X Kinds
  BY DEF Init
<1>4. QED
  BY <1>1, <1>2, <1>3 DEF Init, TypeInv, TypeOK

\* The pipeline's state always has its type: in every interleaving of process
\* with the web, import and clear handlers and the start of a capture.
THEOREM TypeCorrect == Spec => []TypeOK
<1>1. Init => TypeInv
  BY InitTypeInv
<1>2. TypeInv /\ [Next]_vars => TypeInv'
  BY TypeInvStep
<1>3. QED
  BY <1>1, <1>2, PTL DEF Spec, TypeInv

-----------------------------------------------------------------------------
(* Reflected evidence on gateways.  GatewayEvidenceClean alone is not      *)
(* inductive: the packet in progress must be clean too, and a MAC without  *)
(* a buffer entry must have no evidence, or the OUI look-up of a "first    *)
(* sighting" could install a vendor next to evidence it contradicts.       *)

InFlightClean ==
    pc # "idle" /\ cur.mac \in gateways /\ ouiVendor[cur.mac] # None
        => \A e \in evs : ~Foreign(e, ouiVendor[cur.mac])
UntrackedEmpty == \A m \in Macs : m \notin tracked => buffer[m] = {}

EvidenceInv == GatewayEvidenceClean /\ InFlightClean /\ UntrackedEmpty

\* Receive learns gateways and vendors; it cleans what they make foreign.
LEMMA ReceiveEvidenceInv ==
  ASSUME TypeInv, EvidenceInv, NEW p \in Packets, Receive(p)
  PROVE  EvidenceInv'
<1> USE PipelineAssumption
<1>1. p.mac \in Macs /\ p.ev \subseteq Evidence /\ p.fp \subseteq Evidence
  BY DEF PacketType
<1> DEFINE m    == p.mac
           isGw == LearnsGateway(p)
           buf1 == IF isGw
                   THEN [buffer EXCEPT ![m] = Scrub(@, ouiVendor[m])
                                              \cup {GatewayEvidence}]
                   ELSE buffer
           trk1 == IF isGw THEN tracked \cup {m} ELSE tracked
           first == m \notin trk1
           vendor == IF first THEN Oui[m] ELSE ouiVendor[m]
           infra == m \in gateways \/ isGw \/ (first /\ m \in OuiInfra)
           raw == p.ev \cup (IF first /\ Oui[m] # None THEN {OuiEvidence(m)} ELSE {})
                  \cup FingerprintLookup(p)
<1>2. PICK E \in SUBSET (Stamp(m) \ {m}), ref \in RefVendors(vendor, buf1[m] \cup raw) :
        /\ evs' = CrossValidate(raw, infra, ref)
        /\ tracked' = trk1 \ E
        /\ buffer' = [n \in Macs |-> IF n \in E THEN {} ELSE buf1[n]]
        /\ ouiVendor' = [n \in Macs |-> IF n \in E THEN None
                                        ELSE IF n = m THEN vendor
                                        ELSE ouiVendor[n]]
        /\ gateways' = IF infra THEN gateways \cup {m} ELSE gateways
  BY DEF Receive
<1>3. cur' = p /\ pc' = "gatewayip"
  BY DEF Receive
<1>4. raw \subseteq Evidence
  BY <1>1 DEF OuiEvidence, FingerprintLookup, Evidence, Sources, Weights
<1>5. m \notin E /\ ouiVendor'[m] = vendor /\ buffer'[m] = buf1[m]
  BY <1>1, <1>2
<1>6. InFlightClean'
  <2> SUFFICES ASSUME m \in gateways', vendor # None
               PROVE  \A e \in evs' : ~Foreign(e, vendor)
    BY <1>3, <1>5 DEF InFlightClean
  <2>1. infra = TRUE
    BY <1>1, <1>2 DEF TypeInv, TypeOK
  <2>2. ref = vendor
    BY <1>2, RefVendorOui
  <2> HIDE DEF raw, vendor, infra
  <2>3. QED
    BY <1>2, <1>4, <2>1, <2>2, CrossValidateClean
<1>7. UntrackedEmpty'
  <2>1. \A n \in Macs : n \notin trk1 => buf1[n] = {}
    BY <1>1 DEF EvidenceInv, UntrackedEmpty, TypeInv, TypeOK
  <2> HIDE DEF trk1, buf1
  <2>2. QED
    BY <1>2, <2>1 DEF UntrackedEmpty
<1>8. GatewayEvidenceClean'
  <2> SUFFICES ASSUME NEW n \in gateways', ouiVendor'[n] # None,
                      NEW e \in buffer'[n]
               PROVE  ~Foreign(e, ouiVendor'[n])
    BY DEF GatewayEvidenceClean
  <2>1. n \in Macs
    BY <1>1, <1>2 DEF TypeInv, TypeOK
  <2>2. CASE n # m
    <3>1. n \notin E /\ n \in gateways
      BY <1>2, <2>1, <2>2
    <3>2. buffer'[n] = buffer[n] /\ ouiVendor'[n] = ouiVendor[n]
      BY <1>2, <2>1, <2>2, <3>1 DEF TypeInv, TypeOK
    <3>3. QED
      BY <3>1, <3>2 DEF EvidenceInv, GatewayEvidenceClean
  <2>3. CASE n = m /\ isGw
    <3>1. vendor = ouiVendor[m]
      BY <2>3
    <3>2. buf1[m] = Scrub(buffer[m], ouiVendor[m]) \cup {GatewayEvidence}
      BY <1>1, <2>3 DEF TypeInv, TypeOK
    <3>3. ~Foreign(GatewayEvidence, ouiVendor[m])
      BY DEF Foreign, GatewayEvidence
    <3>4. buffer[m] \in SUBSET Evidence
      BY <1>1 DEF TypeInv, TypeOK
    <3>5. QED
      BY <1>5, <2>3, <3>1, <3>2, <3>3, <3>4, ScrubClean
  <2>4. CASE n = m /\ ~isGw /\ first
    BY <1>1, <1>5, <2>4 DEF EvidenceInv, UntrackedEmpty
  <2>5. CASE n = m /\ ~isGw /\ ~first
    <3>1. m \in gateways /\ vendor = ouiVendor[m] /\ buf1[m] = buffer[m]
      BY <1>2, <2>5
    <3>2. QED
      BY <1>5, <2>5, <3>1 DEF EvidenceInv, GatewayEvidenceClean
  <2>6. QED
    BY <2>2, <2>3, <2>4, <2>5
<1>9. QED
  BY <1>6, <1>7, <1>8 DEF EvidenceInv

\* Every other step leaves the caches alone, adds the packet's own (clean)
\* evidence, or forgets everything.
LEMMA EvidenceInvStep ==
  ASSUME TypeInv, EvidenceInv, [Next]_vars
  PROVE  EvidenceInv'
<1> USE DEF EvidenceInv, GatewayEvidenceClean, InFlightClean, UntrackedEmpty
<1>1. ASSUME NEW p \in Packets, Receive(p) PROVE EvidenceInv'
  BY <1>1, ReceiveEvidenceInv
<1>2. CASE CheckGatewayIp \/ CheckPublicIp \/ ReadDisposition
  BY <1>2 DEF CheckGatewayIp, CheckPublicIp, ReadDisposition, Step, memory
<1>3. CASE UpsertHost
  <2>1. cur.mac \in Macs
    BY <1>3 DEF UpsertHost, TypeInv, PacketType
  <2>2. CASE evs = {}
    BY <1>3, <2>2 DEF UpsertHost, Return
  <2>3. CASE evs # {}
    <3>1. PICK chain \in Capped(buffer[cur.mac] \cup evs) :
            /\ buffer' = [buffer EXCEPT ![cur.mac] = chain]
            /\ evs' = chain
            /\ tracked' = tracked \cup {cur.mac}
            /\ UNCHANGED <<cur, ouiVendor, gateways>>
      BY <1>3, <2>3 DEF UpsertHost
    <3>2. chain \subseteq buffer[cur.mac] \cup evs
      BY <3>1, CappedSubset
    <3>3. cur.mac \in gateways /\ ouiVendor[cur.mac] # None
            => \A e \in chain : ~Foreign(e, ouiVendor[cur.mac])
      BY <1>3, <3>2 DEF UpsertHost
    <3>4. QED
      BY <2>1, <3>1, <3>3 DEF TypeInv, TypeOK
  <2>4. QED
    BY <2>2, <2>3
<1>4. CASE EvaluateRules \/ MarkKnown
  BY <1>4 DEF EvaluateRules, MarkKnown, Step, memory, local
<1>5. CASE StoreVerdict
  BY <1>5 DEF StoreVerdict, Return, memory
<1>6. CASE Restart
  BY <1>6 DEF Restart, Return
<1>7. CASE (OtherStep /\ ~Restart) \/ UNCHANGED vars
  <2>1. UNCHANGED <<memory, pc, local>>
    BY <1>7 DEF OtherStep, WebRead, WebOverrideNoHost, WebUnmark, SetOverride,
                WebWrite, ForgetOverride, Import,
                ClearVerdicts, ClearHosts, ClearFindings, DetectLocalMacs, ReevaluateRead,
                ReevaluateWrite, vars
  <2>2. QED
    BY <2>1 DEF memory, local
<1>8. QED
  BY <1>1, <1>2, <1>3, <1>4, <1>5, <1>6, <1>7 DEF Next, ThreadStep

\* No interleaving of packets, evictions and restarts leaves another vendor's
\* reflected multicast on a gateway whose OUI vendor is cached.
THEOREM GatewayEvidenceStaysClean == Spec => []GatewayEvidenceClean
<1>1. Init => TypeInv /\ EvidenceInv
  BY InitTypeInv DEF Init, EvidenceInv, GatewayEvidenceClean, InFlightClean, UntrackedEmpty
<1>2. TypeInv /\ EvidenceInv /\ [Next]_vars => TypeInv' /\ EvidenceInv'
  BY TypeInvStep, EvidenceInvStep
<1>3. EvidenceInv => GatewayEvidenceClean
  BY DEF EvidenceInv
<1>4. QED
  BY <1>1, <1>2, <1>3, PTL DEF Spec

=============================================================================
