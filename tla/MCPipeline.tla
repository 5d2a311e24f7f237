----------------------------- MODULE MCPipeline -----------------------------
(***************************************************************************)
(* Small instances of Pipeline for TLC: a router that serves DHCP, whose   *)
(* OUI vendor is "acme", and a bridge that the OUI table lists as          *)
(* infrastructure of vendor "bolt".  Where LocalMacs says so, the router   *)
(* is the machine leetha itself runs on.                                   *)
(***************************************************************************)
EXTENDS Pipeline

CONSTANTS router, bridge

Ev(src, v) == [source |-> src, vendor |-> v, weight |-> "full"]
Pkt(m, k, a, ev, fp) == [mac |-> m, kind |-> k, ip |-> a, ev |-> ev, fp |-> fp]

MCOui == [m \in Macs |-> IF m = router THEN "acme" ELSE "bolt"]

\* The DHCP server's OFFER, a Router Advertisement, reflected multicast of another
\* vendor and ARP.
MCPackets ==
    { Pkt(router, "gateway", "lan1", {}, {}),
      Pkt(router, "advert", None, {}, {}),
      Pkt(router, "other", "pub", {Ev("forwarded", "bolt")}, {}),
      Pkt(router, "binding", "lan2", {}, {Ev("own", "acme")}),
      Pkt(bridge, "other", "pub", {Ev("forwarded", "acme")}, {}),
      Pkt(bridge, "binding", "lan2", {}, {}) }

\* Traffic that says nothing of vendors: one packet with evidence, one without.
PlainPackets ==
    { Pkt(router, "binding", "lan1", {Ev("own", None)}, {}),
      Pkt(router, "binding", "lan1", {}, {}) }
NoOui == [m \in Macs |-> None]

=============================================================================
