------------------------------ MODULE Pipeline ------------------------------
(***************************************************************************)
(* The packet pipeline (core/pipeline.py) as the process thread of app.py  *)
(* runs it, together with every other writer of the rows it shares: the    *)
(* web handlers that set a disposition, the inventory importers, the       *)
(* one-shot re-evaluation and the "clear database" handler; and with       *)
(* start_capture, which finds out which addresses are this machine's own   *)
(* only after packets have begun to flow.                                  *)
(*                                                                         *)
(* Pipeline.process awaits the database several times.  Each access is one *)
(* action here; what the handler read before an await stays in cur, lip,   *)
(* ldisp and evs while the other writers, which use their own connection,  *)
(* run in between.  The in-memory caches belong to the process thread.     *)
(*                                                                         *)
(* A piece of evidence is its source, the vendor it names and how much     *)
(* certainty cross-validation left it.  A verdict is a function of its     *)
(* evidence chain, so the chain stands for it.                             *)
(***************************************************************************)
EXTENDS Naturals, FiniteSets

CONSTANTS
    Macs,          \* valid unicast hardware addresses
    LocalMacs,     \* addresses of this machine's own interfaces
    Vendors,       \* vendor names, up to the substring match of the code
    Oui,           \* what the OUI table says of a MAC: a vendor or None
    OuiInfra,      \* MACs whose OUI entry is a router, switch, AP, ...
    Ips,           \* IPv4 addresses
    PrivateIps,    \* those of RFC 1918
    Packets,       \* the packets the capture engine may deliver
    ImportIps,     \* addresses an inventory import may bring
    MainOps,       \* which operations of the main event loop take place
    MaxTracked,    \* _max_tracked_macs
    DbFaults,      \* TRUE: a database access may fail; the code swallows it
    Restarts,      \* TRUE: the application may be killed and started again
    None           \* "no value"

Sources  == {"oui", "gateway", "forwarded", "own"}
Weights  == {"none", "low", "full"}
Evidence == [source : Sources, vendor : Vendors \cup {None}, weight : Weights]
Kinds    == {"gateway", "advert", "binding", "other"}

\* A captured packet: ev is what the protocol's processor makes of it, fp what
\* the signature databases add.  Kind "gateway" is a DHCP OFFER/ACK, "advert" a
\* Router Advertisement (its address is IPv6, so ip is None), "binding" any other
\* packet of a protocol trusted to bind an address (ARP, DHCP, ICMPv6), "other"
\* the rest: mDNS, DNS, TCP, ...
PacketType == [mac : Macs, kind : Kinds, ip : Ips \cup {None},
               ev : SUBSET Evidence, fp : SUBSET Evidence]

Dispositions == {"absent", "new", "known", "suspicious", "self"}
Marks        == {"new", "known", "suspicious"}
Ops          == {"mark", "override", "clear", "reevaluate"}

ASSUME PipelineAssumption ==
    /\ LocalMacs \subseteq Macs /\ OuiInfra \subseteq Macs
    /\ Oui \in [Macs -> Vendors \cup {None}]
    /\ \A m \in OuiInfra : Oui[m] # None
    /\ None \notin Vendors /\ None \notin Ips /\ None \notin Macs
    /\ PrivateIps \subseteq Ips /\ ImportIps \subseteq Ips
    /\ Packets \subseteq PacketType
    /\ \A p \in Packets : p.kind = "advert" => p.ip = None
    /\ MainOps \subseteq Ops
    /\ MaxTracked \in Nat
    /\ DbFaults \in BOOLEAN /\ Restarts \in BOOLEAN

VARIABLES
    \* memory of the process thread's Pipeline object
    tracked,      \* keys of _evidence_buffer
    buffer,       \* _evidence_buffer
    ouiVendor,    \* _oui_vendors
    gateways,     \* _gateway_macs
    lookupDone,   \* _lookup_done
    lastSeen,     \* keys of _last_seen
    \* the packet in progress
    pc, cur, evs, lip, ldisp,
    \* the database
    disp, ip,     \* hosts.disposition ("absent": no row) and hosts.ip_addr
    verdict,      \* verdicts.evidence_chain ({}: no row)
    found,        \* number of new_host findings of a MAC, saturating at 2
    override,     \* device_overrides.disposition
    \* the main event loop
    web,          \* the web request in progress
    detected,     \* _local_macs: own addresses start_capture has found so far
    reeval,       \* the re-evaluation in progress
    \* history
    excused,      \* MACs whose announcement an operator or a fault took away
    reset,        \* MACs whose "known" mark a fault or a clear took away
    raced,        \* TRUE: another writer touched the row cur is about
    blind         \* TRUE: cur's disposition was read before its MAC was detected

memory  == <<tracked, buffer, ouiVendor, gateways, lookupDone, lastSeen>>
local   == <<cur, evs, lip, ldisp>>
rows    == <<disp, ip>>
main    == <<web, detected, reeval>>
history == <<excused, reset, raced, blind>>
vars    == <<memory, pc, local, rows, verdict, found, override, main, history>>

PCs     == {"idle", "gatewayip", "publicip", "disposition", "upsert", "rules",
            "known", "verdict"}
WebType == [op : {"mark", "override", "sync", "unmark"}, mac : Macs,
            ip : Ips \cup {None}, to : Marks]
           \cup [op : {"forget"}, mac : Macs]
           \cup [op : {"idle", "hosts", "findings"}]
NoWeb   == [op |-> "idle"]
JobType == [mac : Macs, chain : SUBSET Evidence]

-----------------------------------------------------------------------------
(* Pure parts of the handler.                                              *)

\* The row INSERT ... ON CONFLICT DO UPDATE of HostRepository.upsert leaves.
UpsertDispNotSticky(m, new) == IF disp[m] = "self" THEN "self" ELSE new
UpsertDisp(m, new) ==
    IF disp[m] \in {"self", "known"} THEN disp[m] ELSE new
UpsertIp(m, new) ==
    IF new = None /\ disp[m] # "absent" THEN ip[m] ELSE new
UpsertRow(m, newIp, newDisp) ==
    /\ disp' = [disp EXCEPT ![m] = UpsertDisp(m, newDisp)]
    /\ ip'   = [ip EXCEPT ![m] = UpsertIp(m, newIp)]

\* Who serves DHCP or advertises itself as a router is a gateway.
LearnsGateway(p) == p.kind = "advert" \/ (p.kind = "gateway" /\ p.ip # None)

Stripped(e) == [e EXCEPT !.vendor = None, !.weight = "none"]

\* _scrub_infra_mdns: forwarded evidence survives only with the OUI's vendor.
ScrubNothing(S, ref) == S
Scrub(S, ref) ==
    {IF e.source = "forwarded" /\ ~(ref # None /\ e.vendor = ref)
        THEN Stripped(e) ELSE e : e \in S}

\* The cross-validation of one packet's evidence against the reference vendor.
CrossValidate(S, infra, ref) ==
    {CASE e.source # "forwarded" \/ ref = None -> e
       [] e.source = "forwarded" /\ ref # None /\ infra ->
            IF e.vendor = ref THEN e ELSE Stripped(e)
       [] OTHER ->
            IF e.vendor # None /\ e.vendor # ref
               THEN [e EXCEPT !.weight = "low"] ELSE e : e \in S}

\* Without an OUI vendor the reference is the vendor with the most votes; the
\* certainties are not modelled, so any vendor that has a vote may win.
RefVendors(vendor, S) ==
    LET voted == {e.vendor : e \in S} \ {None}
    IN  IF vendor # None THEN {vendor} ELSE IF voted = {} THEN {None} ELSE voted

\* cap_evidence drops an item only in favour of items of the same source that
\* are at least as certain (several equal items are one element here).  The
\* total of 100 items, which takes 34 sources for one MAC, is not modelled.
AtLeast(w, v) == v = "none" \/ w = "full" \/ w = v
Capped(S) ==
    {T \in SUBSET S :
        \A e \in S \ T : \E f \in T : f.source = e.source /\ AtLeast(f.weight, e.weight)}

OuiEvidence(m) == [source |-> "oui", vendor |-> Oui[m], weight |-> "full"]
GatewayEvidence == [source |-> "gateway", vendor |-> None, weight |-> "full"]

\* The signature look-ups, once per MAC and protocol.
FingerprintLookup(p) == IF <<p.mac, p.kind>> \in lookupDone THEN {} ELSE p.fp

\* _last_seen is stamped for every packet, before eviction.
StampTrackedOnly(m) == IF m \in tracked THEN lastSeen \cup {m} ELSE lastSeen
Stamp(m) == lastSeen \cup {m}

\* Gateways take an address only from ARP/DHCP/ICMPv6, and keep their first one.
RefusesForwardedOnly(m, kind, new) == m \in gateways /\ kind = "other"
RefusesIp(m, kind, new) ==
    m \in gateways /\ (kind = "other" \/ (ip[m] # None /\ ip[m] # new))

\* The disposition the handler starts from (is_local asks the application).
DispositionWithoutLocal(m) == IF disp[m] = "absent" THEN "new" ELSE disp[m]
DispositionNoDefault(m) == IF m \in detected THEN "self" ELSE disp[m]
DispositionOf(m) ==
    IF m \in detected THEN "self"
    ELSE IF disp[m] = "absent" THEN "new" ELSE disp[m]

\* NewHostRule.evaluate fires for a host that is still "new".
FiresForKnown(d) == d = "known"
FiresNewHost(d) == d = "new"

-----------------------------------------------------------------------------
(* The process thread: Pipeline.process, one action per database access.   *)

\* Everything before the first use of the row: gateway learning, scrubbing,
\* LRU eviction, the OUI and signature look-ups and cross-validation.
Receive(p) ==
    LET m        == p.mac
        isGw     == LearnsGateway(p)
        buf1     == IF isGw
                    THEN [buffer EXCEPT ![m] = Scrub(@, ouiVendor[m])
                                               \cup {GatewayEvidence}]
                    ELSE buffer
        trk1     == IF isGw THEN tracked \cup {m} ELSE tracked
        seen     == Stamp(m)
        evictable == IF Cardinality(trk1) <= MaxTracked THEN {{}}
                     ELSE {E \in SUBSET (seen \ {m}) :
                              Cardinality(E) = Cardinality(seen) \div 2}
    IN  /\ pc = "idle"
        /\ \E E \in evictable :
             LET first  == m \notin trk1
                 vendor == IF first THEN Oui[m] ELSE ouiVendor[m]
                 infra  == \/ m \in gateways \/ isGw
                           \/ first /\ m \in OuiInfra
                 raw    == p.ev
                           \cup (IF first /\ Oui[m] # None THEN {OuiEvidence(m)} ELSE {})
                           \cup FingerprintLookup(p)
             IN  \E ref \in RefVendors(vendor, buf1[m] \cup raw) :
                   /\ evs' = CrossValidate(raw, infra, ref)
                   /\ tracked' = trk1 \ E
                   /\ buffer' = [n \in Macs |-> IF n \in E THEN {} ELSE buf1[n]]
                   /\ ouiVendor' = [n \in Macs |-> IF n \in E THEN None
                                                   ELSE IF n = m THEN vendor
                                                   ELSE ouiVendor[n]]
                   /\ gateways' = IF infra THEN gateways \cup {m} ELSE gateways
                   /\ lookupDone' = {k \in lookupDone : k[1] \notin E}
                                    \cup {<<m, p.kind>>}
                   /\ lastSeen' = seen \ E
        /\ cur' = p
        /\ lip' = p.ip
        /\ raced' = FALSE /\ blind' = FALSE
        /\ pc' = "gatewayip"
        /\ UNCHANGED <<ldisp, rows, verdict, found, override, main, excused, reset>>

Step(from, to) == pc = from /\ pc' = to

\* process returns: its locals are gone.
Return ==
    /\ pc' = "idle" /\ cur' = None /\ evs' = {} /\ lip' = None /\ ldisp' = "new"
    /\ raced' = FALSE /\ blind' = FALSE

\* The two address checks.  A read that fails leaves the address unchecked.
CheckGatewayIp ==
    /\ Step("gatewayip", "publicip")
    /\ \/ /\ lip' = IF lip # None /\ RefusesIp(cur.mac, cur.kind, lip)
                    THEN None ELSE lip
          /\ UNCHANGED raced
       \/ /\ DbFaults
          /\ lip # None /\ cur.mac \in gateways /\ cur.kind # "other"
          /\ raced' = TRUE
          /\ UNCHANGED lip
    /\ UNCHANGED <<memory, cur, evs, ldisp, rows, verdict, found, override, main,
                   excused, reset, blind>>

\* A private address is never replaced by a public one.
CheckPublicIp ==
    /\ Step("publicip", "disposition")
    /\ \/ /\ lip' = IF lip # None /\ lip \notin PrivateIps
                       /\ ip[cur.mac] \in PrivateIps
                    THEN None ELSE lip
          /\ UNCHANGED raced
       \/ /\ DbFaults
          /\ lip # None /\ lip \notin PrivateIps
          /\ raced' = TRUE
          /\ UNCHANGED lip
    /\ UNCHANGED <<memory, cur, evs, ldisp, rows, verdict, found, override, main,
                   excused, reset, blind>>

\* A read that fails makes the handler take the host for a new one.
ReadDisposition ==
    /\ Step("disposition", "upsert")
    /\ \/ /\ ldisp' = DispositionOf(cur.mac)
          /\ UNCHANGED reset
       \/ /\ DbFaults
          /\ ldisp' = IF cur.mac \in detected THEN "self" ELSE "new"
          /\ reset' = reset \cup {cur.mac}
    /\ blind' = (cur.mac \notin detected)
    /\ UNCHANGED <<memory, cur, evs, lip, rows, verdict, found, override, main,
                   excused, raced>>

\* The first upsert, the early return when there is no evidence, and the
\* accumulation and capping of the evidence buffer.
UpsertHost ==
    /\ pc = "upsert"
    /\ \/ UpsertRow(cur.mac, lip, ldisp)
       \/ DbFaults /\ UNCHANGED rows
    /\ IF evs = {}
       THEN Return /\ UNCHANGED <<tracked, buffer>>
       ELSE \E chain \in Capped(buffer[cur.mac] \cup evs) :
              /\ buffer' = [buffer EXCEPT ![cur.mac] = chain]
              /\ evs' = chain
              /\ tracked' = tracked \cup {cur.mac}
              /\ pc' = "rules"
              /\ UNCHANGED <<cur, lip, ldisp, raced, blind>>
    /\ UNCHANGED <<ouiVendor, gateways, lookupDone, lastSeen, verdict, found,
                   override, main, excused, reset>>

\* The rules run before the disposition moves on; a finding is added or lost.
EvaluateRules ==
    /\ Step("rules", "known")
    /\ IF FiresNewHost(ldisp)
       THEN \/ /\ found' = [found EXCEPT ![cur.mac] = IF @ = 0 THEN 1 ELSE 2]
               /\ UNCHANGED excused
            \/ /\ DbFaults
               /\ excused' = excused \cup {cur.mac}
               /\ UNCHANGED found
       ELSE UNCHANGED <<found, excused>>
    /\ UNCHANGED <<memory, local, rows, verdict, override, main, reset, raced, blind>>

\* new -> known, through the same upsert.
MarkKnown ==
    /\ Step("known", "verdict")
    /\ IF ldisp = "new"
       THEN \/ UpsertRow(cur.mac, lip, "known") /\ UNCHANGED reset
            \/ DbFaults /\ reset' = reset \cup {cur.mac} /\ UNCHANGED rows
       ELSE UNCHANGED <<rows, reset>>
    /\ UNCHANGED <<memory, local, verdict, found, override, main, excused, raced,
                   blind>>

StoreVerdict ==
    /\ pc = "verdict"
    /\ \/ verdict' = [verdict EXCEPT ![cur.mac] = evs]
       \/ DbFaults /\ UNCHANGED verdict
    /\ Return
    /\ UNCHANGED <<memory, rows, found, override, main, excused, reset>>

-----------------------------------------------------------------------------
(* The other writers.                                                      *)

RaceOn(m) == raced' = IF pc # "idle" /\ cur.mac = m THEN TRUE ELSE raced

\* bulk_device_action and set_device_override read the row ...
WebRead(op, m, to) ==
    /\ web = NoWeb
    /\ op \in MainOps
    /\ op = "mark" => to \in {"known", "suspicious"}
    /\ disp[m] # "absent"
    /\ web' = [op |-> op, mac |-> m, ip |-> ip[m], to |-> to]
    /\ UNCHANGED <<memory, pc, local, rows, verdict, found, override, detected,
                   reeval, history>>

\* (an override for a MAC that has a verdict but no host row is only recorded)
WebOverrideNoHost(m, to) ==
    /\ web = NoWeb
    /\ "override" \in MainOps
    /\ disp[m] = "absent" /\ verdict[m] # {}
    /\ override' = [override EXCEPT ![m] = to]
    /\ UNCHANGED <<memory, pc, local, rows, verdict, found, main, history>>

\* delete_device_override resets the host to "new" before it forgets.
WebUnmark(m) ==
    /\ web = NoWeb
    /\ "override" \in MainOps
    /\ override[m] # None
    /\ web' = IF disp[m] \notin {"absent", "self"}
              THEN [op |-> "unmark", mac |-> m, ip |-> ip[m], to |-> "new"]
              ELSE [op |-> "forget", mac |-> m]
    /\ UNCHANGED <<memory, pc, local, rows, verdict, found, override, detected,
                   reeval, history>>

\* ... store the override, when it is one ...
SetOverride ==
    /\ web.op = "override"
    /\ override' = [override EXCEPT ![web.mac] = web.to]
    /\ web' = [op |-> "sync", mac |-> web.mac, ip |-> web.ip, to |-> web.to]
    /\ UNCHANGED <<memory, pc, local, rows, verdict, found, detected, reeval,
                   history>>

\* ... and write the whole row they read back with the new disposition.
WebWrite ==
    /\ web.op \in {"mark", "sync", "unmark"}
    /\ UpsertRow(web.mac, web.ip, web.to)
    /\ excused' = IF web.to = "known" THEN excused \cup {web.mac} ELSE excused
    /\ RaceOn(web.mac)
    /\ web' = IF web.op = "unmark" THEN [op |-> "forget", mac |-> web.mac] ELSE NoWeb
    /\ UNCHANGED <<memory, pc, local, verdict, found, override, detected, reeval,
                   reset, blind>>

ForgetOverride ==
    /\ web.op = "forget"
    /\ override' = [override EXCEPT ![web.mac] = None]
    /\ web' = NoWeb
    /\ UNCHANGED <<memory, pc, local, rows, verdict, found, detected, reeval,
                   history>>

\* An inventory import upserts the host as "new".
Import(m, addr) ==
    /\ UpsertRow(m, addr, "new")
    /\ RaceOn(m)
    /\ UNCHANGED <<memory, pc, local, verdict, found, override, main, excused,
                   reset, blind>>

\* clear_database: autocommitted DELETEs, one table after the other.  The
\* evidence buffer it empties is that of the main loop's own Pipeline object,
\* which no packet ever reaches: the process thread has another one.
ClearVerdicts ==
    /\ web = NoWeb
    /\ "clear" \in MainOps
    /\ verdict' = [m \in Macs |-> {}]
    /\ web' = [op |-> "hosts"]
    /\ UNCHANGED <<memory, pc, local, rows, found, override, detected, reeval,
                   history>>

ClearHosts ==
    /\ web.op = "hosts"
    /\ disp' = [m \in Macs |-> "absent"]
    /\ ip' = [m \in Macs |-> None]
    /\ web' = [op |-> "findings"]
    /\ reset' = reset \cup {m \in Macs : found[m] > 0}
    /\ raced' = (pc # "idle")
    /\ UNCHANGED <<memory, pc, local, verdict, found, override, detected, reeval,
                   excused, blind>>

ClearFindings ==
    /\ web.op = "findings"
    /\ found' = [m \in Macs |-> 0]
    /\ excused' = excused \cup {m \in Macs : found[m] > 0}
    /\ web' = NoWeb
    /\ UNCHANGED <<memory, pc, local, rows, verdict, override, detected, reeval,
                   reset, raced, blind>>

\* start_capture, called at start-up or later by an operator: the engine runs
\* before _detect_local_macs collects the addresses of the interfaces it was
\* given.  A failure is only logged, so any part of them may be collected.
DetectLocalMacs(S) ==
    /\ detected' = detected \cup S
    /\ UNCHANGED <<memory, pc, local, rows, verdict, found, override, web, reeval,
                   history>>

\* _reevaluate_unknown_devices: reads a verdict, recomputes it from its own
\* chain and, when the certainty changed, writes it back.
ReevaluateRead(m) ==
    /\ "reevaluate" \in MainOps
    /\ reeval = None
    /\ verdict[m] # {}
    /\ reeval' = [mac |-> m, chain |-> verdict[m]]
    /\ UNCHANGED <<memory, pc, local, rows, verdict, found, override, web,
                   detected, history>>

ReevaluateWrite ==
    /\ reeval # None
    /\ \/ \E chain \in Capped(reeval.chain) :
            verdict' = [verdict EXCEPT ![reeval.mac] = chain]
       \/ UNCHANGED verdict
    /\ reeval' = None
    /\ UNCHANGED <<memory, pc, local, rows, found, override, web, detected, history>>

\* The application is killed and started again: the database survives.
Restart ==
    /\ Restarts
    /\ tracked' = {} /\ gateways' = {} /\ lookupDone' = {} /\ lastSeen' = {}
    /\ buffer' = [m \in Macs |-> {}]
    /\ ouiVendor' = [m \in Macs |-> None]
    /\ detected' = {}
    /\ Return
    /\ web' = NoWeb
    /\ reeval' = None
    /\ reset' = IF pc = "known" THEN reset \cup {cur.mac} ELSE reset
    /\ UNCHANGED <<rows, verdict, found, override, excused>>

-----------------------------------------------------------------------------
Init ==
    /\ tracked = {} /\ gateways = {} /\ lookupDone = {} /\ lastSeen = {}
    /\ buffer = [m \in Macs |-> {}]
    /\ ouiVendor = [m \in Macs |-> None]
    /\ pc = "idle"
    /\ cur = None
    /\ evs = {} /\ lip = None /\ ldisp = "new"
    /\ disp = [m \in Macs |-> "absent"] /\ ip = [m \in Macs |-> None]
    /\ verdict = [m \in Macs |-> {}]
    /\ found = [m \in Macs |-> 0]
    /\ override = [m \in Macs |-> None]
    /\ web = NoWeb
    /\ detected = {}
    /\ reeval = None
    /\ excused = {} /\ reset = {} /\ raced = FALSE /\ blind = FALSE

ThreadStep ==
    \/ \E p \in Packets : Receive(p)
    \/ CheckGatewayIp
    \/ CheckPublicIp
    \/ ReadDisposition
    \/ UpsertHost
    \/ EvaluateRules
    \/ MarkKnown
    \/ StoreVerdict

OtherStep ==
    \/ \E op \in {"mark", "override"}, m \in Macs, to \in Marks : WebRead(op, m, to)
    \/ \E m \in Macs, to \in Marks : WebOverrideNoHost(m, to)
    \/ \E m \in Macs : WebUnmark(m)
    \/ SetOverride
    \/ WebWrite
    \/ ForgetOverride
    \/ \E m \in Macs, addr \in ImportIps : Import(m, addr)
    \/ ClearVerdicts
    \/ ClearHosts
    \/ ClearFindings
    \/ \E S \in SUBSET LocalMacs : DetectLocalMacs(S)
    \/ \E m \in Macs : ReevaluateRead(m)
    \/ ReevaluateWrite
    \/ Restart

Next == ThreadStep \/ OtherStep

Spec == Init /\ [][Next]_vars

-----------------------------------------------------------------------------
(* Properties.                                                             *)

\* Every variable of the pipeline keeps its type; in particular the handler
\* never works with a disposition the hosts table does not know.
TypeOK ==
    /\ tracked \subseteq Macs /\ gateways \subseteq Macs /\ lastSeen \subseteq Macs
    /\ buffer \in [Macs -> SUBSET Evidence]
    /\ ouiVendor \in [Macs -> Vendors \cup {None}]
    /\ lookupDone \subseteq Macs \X Kinds
    /\ pc \in PCs /\ cur \in PacketType \cup {None} /\ evs \subseteq Evidence
    /\ lip \in Ips \cup {None} /\ ldisp \in Dispositions \ {"absent"}
    /\ disp \in [Macs -> Dispositions] /\ ip \in [Macs -> Ips \cup {None}]
    /\ verdict \in [Macs -> SUBSET Evidence] /\ found \in [Macs -> 0..2]
    /\ override \in [Macs -> Marks \cup {None}]
    /\ web \in WebType /\ detected \subseteq LocalMacs
    /\ reeval \in JobType \cup {None}
    /\ excused \subseteq Macs /\ reset \subseteq Macs /\ raced \in BOOLEAN
    /\ blind \in BOOLEAN

\* Forwarded evidence that still says something, and names another vendor.
Foreign(e, v) == e.source = "forwarded" /\ e.weight # "none" /\ e.vendor # v

\* Once a MAC is known as infrastructure and its OUI vendor is cached, no
\* reflected multicast of another vendor is left in its evidence, whether it
\* came before the MAC turned out to be a gateway (_scrub_infra_mdns), after
\* (cross-validation in process) or across an eviction, which drops the
\* evidence and the vendor but keeps the gateway flag.
GatewayEvidenceClean ==
    \A m \in gateways :
        ouiVendor[m] # None => \A e \in buffer[m] : ~Foreign(e, ouiVendor[m])

\* A host that counts as "known" was announced with a new_host finding, unless
\* an operator said so, the finding could not be written, or the findings were
\* deleted.  (Rules run before the disposition moves on, in process.)
KnownAnnounced ==
    \A m \in Macs : disp[m] = "known" => found[m] > 0 \/ m \in excused

\* new_host fires once per host (the comment in NewHostRule), whatever the
\* importers and the web handlers write in between, unless a swallowed database
\* fault, a kill or a clear came between the finding and the "known" mark.
NewHostOnce ==
    \A m \in Macs : found[m] = 2 => m \in reset

\* Once _detect_local_macs has found one of this machine's own addresses, no
\* packet announces it as a new host, whatever row an importer or an operator
\* wrote for it; the one exception is the packet whose disposition process had
\* read when the detection came, for capture starts first.
LocalNeverAnnounced ==
    [][\A m \in detected : found'[m] > found[m] => blind]_vars

\* Eviction walks _last_seen, so an entry of another per-MAC cache whose MAC is
\* missing there would never be freed.
Evictable ==
    /\ tracked \subseteq lastSeen
    /\ \A k \in lookupDone : k[1] \in lastSeen
    /\ \A m \in Macs : ouiVendor[m] # None \/ buffer[m] # {} => m \in lastSeen

\* As long as nobody else wrote the row after the checks, a packet never moves a
\* gateway's recorded address and never replaces a LAN address by a public one.
AddressKept ==
    [][\A m \in Macs :
         (pc' # pc /\ ~raced /\ ip[m] # None /\ ip'[m] # ip[m]) =>
            /\ m \notin gateways
            /\ ip[m] \in PrivateIps => ip'[m] \in PrivateIps]_vars

\* "Gateway/router/AP: ALL mDNS is suspect" (comment in process): a gateway
\* whose manufacturer the OUI table knows never carries another vendor's
\* reflected evidence.
GatewayIdentityNotReflected ==
    \A m \in gateways :
        Oui[m] # None => \A e \in buffer[m] : ~Foreign(e, Oui[m])

\* "Sync disposition to Host if overridden" (set_device_override): once the
\* request is done, a host the operator overrode to suspicious is suspicious.
OverrideSynced ==
    \A m \in Macs :
        override[m] = "suspicious" /\ web = NoWeb
            => disp[m] \in {"suspicious", "self", "absent"}

=============================================================================
