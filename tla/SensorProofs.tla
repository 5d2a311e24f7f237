---------------------------- MODULE SensorProofs ----------------------------
(***************************************************************************)
(* Proofs about Sensor, for every set of interfaces, every capacity and    *)
(* every bound: types and limits, one session for a name, no capture       *)
(* thread left behind, and the sensor captures what was selected.          *)
(***************************************************************************)
EXTENDS Sensor, TLAPS

-----------------------------------------------------------------------------
(* Types, by part of the system.                                           *)

ProcessOK ==
    /\ mode \in Mode
    /\ phase \in {"off", "away", "open", "stopping"}
    /\ conn \in Owners
    /\ alive \in [Owners -> SUBSET Ifaces] /\ stray \in [Owners -> SUBSET Ifaces]
    /\ chan \in Seq(Frames) /\ Len(chan) <= Cap
    /\ ring \in Seq(Frames) /\ Len(ring) <= RingCap
    /\ drain \in Seq(Frames)
    /\ held \in [Ifaces -> Frames \cup {None}]
    /\ task \in Commands \cup {None}

WireOK ==
    /\ link \in [Conns -> {"none", "up", "cut"}]
    /\ up \in [Conns -> Seq(UpMsgs)] /\ down \in [Conns -> Seq(DownMsgs)]

ServerOK ==
    /\ handler \in [Conns -> {"none", "running", "ended"}]
    /\ registered \in Owners
    /\ session \in [Conns -> Session]
    /\ cont \in [Conns -> Seq(Session)]
    /\ restore \in [Conns -> Restores \cup {None}]
    /\ config \in Lists \cup {None, Corrupt}
    /\ web \in Requests \cup {None}

PastOK ==
    /\ captured \in 0..MaxFrames /\ got \in Seq(Frames)
    /\ failed \in SUBSET Ifaces
    /\ ending \in [Conns -> {"none", "clean", "error"}]
    /\ kicked \in BOOLEAN /\ crossed \in SUBSET Conns /\ repeated \in SUBSET Ifaces

CountsOK == ops \in 0..MaxOps /\ faults \in 0..MaxFaults

LEMMA Parts == TypeOK <=> ProcessOK /\ WireOK /\ ServerOK /\ PastOK /\ CountsOK
  BY DEF TypeOK, ProcessOK, WireOK, ServerOK, PastOK, CountsOK
LEMMA PartsNext == ProcessOK' /\ WireOK' /\ ServerOK' /\ PastOK' /\ CountsOK' => TypeOK'
  BY DEF TypeOK, ProcessOK, WireOK, ServerOK, PastOK, CountsOK

\* Where the sensor stands, and that the direct mode has no threads per connection.
ConnInv ==
    /\ phase \in {"open", "stopping"} => conn \in Conns
    /\ phase \in {"off", "away"} => conn = 0
    /\ phase = "stopping" => mode = "controlled" /\ task # None
    /\ mode = "direct" => \A c \in Conns : alive[c] = {}

LEMMA Numbers == /\ Conns \subseteq Owners /\ 0 \in Owners /\ 0 \notin Conns
                 /\ Owners = Conns \cup {0}
  BY SensorAssumption DEF Conns, Owners

LEMMA ProcessSame == ProcessOK /\ UNCHANGED process => ProcessOK'
  BY DEF ProcessOK, process
LEMMA WireSame == WireOK /\ UNCHANGED wire => WireOK'
  BY DEF WireOK, wire
LEMMA ServerSame == ServerOK /\ UNCHANGED server => ServerOK'
  BY DEF ServerOK, server
LEMMA PastSame == PastOK /\ UNCHANGED past => PastOK'
  BY DEF PastOK, past
LEMMA CountsStep ==
  ASSUME CountsOK, ops' = ops \/ Request, faults' = faults \/ Fault
  PROVE  CountsOK'
  BY SensorAssumption DEF CountsOK, Request, Fault

\* The ring buffer keeps its limit whatever is pushed.
LEMMA PushAllType ==
  ASSUME NEW r \in Seq(Frames), NEW s \in Seq(Frames)
  PROVE  PushAll(r, s) \in Seq(Frames) /\ Len(PushAll(r, s)) <= RingCap
<1> DEFINE all == r \o s
<1>1. all \in Seq(Frames) /\ Len(all) \in Nat
  OBVIOUS
<1>2. CASE Len(all) <= RingCap
  BY <1>1, <1>2 DEF PushAll
<1>3. CASE ~(Len(all) <= RingCap)
  <2> HIDE DEF all
  <2>1. /\ SubSeq(all, Len(all) - RingCap + 1, Len(all)) \in Seq(Frames)
        /\ Len(SubSeq(all, Len(all) - RingCap + 1, Len(all))) <= RingCap
    BY <1>1, <1>3, SensorAssumption
  <2> USE DEF all
  <2>2. QED
    BY <1>3, <2>1 DEF PushAll
<1>4. QED
  BY <1>2, <1>3

LEMMA ChanAppend ==
  ASSUME NEW q \in Seq(Frames), NEW f \in Frames, Len(q) < Cap
  PROVE  Append(q, f) \in Seq(Frames) /\ Len(Append(q, f)) <= Cap
<1>1. Append(q, f) \in Seq(Frames) /\ Len(Append(q, f)) = Len(q) + 1 /\ Len(q) \in Nat
  OBVIOUS
<1>2. QED
  BY <1>1, SensorAssumption

LEMMA FrameTail ==
  ASSUME NEW q \in Seq(Frames), q # <<>>
  PROVE  Head(q) \in Frames /\ Tail(q) \in Seq(Frames) /\ (Len(q) <= Cap => Len(Tail(q)) <= Cap)
<1>1. Tail(q) \in Seq(Frames) /\ Head(q) \in Frames /\ Len(Tail(q)) = Len(q) - 1 /\ Len(q) \in Nat
  OBVIOUS
<1>2. QED
  BY <1>1, SensorAssumption

LEMMA UpDelivered ==
  ASSUME WireOK, NEW c \in Conns, NEW m \in UpMsgs
  PROVE  Delivered(up, c, <<m>>) \in [Conns -> Seq(UpMsgs)]
  BY DEF WireOK, Delivered

LEMMA DownDelivered ==
  ASSUME WireOK, NEW c \in Conns, NEW m \in DownMsgs
  PROVE  Delivered(down, c, <<m>>) \in [Conns -> Seq(DownMsgs)]
  BY DEF WireOK, Delivered

LEMMA FrameMsg == \A f \in Frames : [kind |-> "frame", frame |-> f] \in UpMsgs
  BY DEF UpMsgs
LEMMA StatusMsg == \A s \in SUBSET Ifaces : \A k \in {"capturing", "idle"} :
                      [kind |-> k, sel |-> s] \in UpMsgs
  BY DEF UpMsgs

LEMMA ListParts ==
  /\ \A l \in Lists : l.sel \in SUBSET Ifaces /\ l.twice \in SUBSET Ifaces /\ l.twice \subseteq l.sel
  /\ Empty \in Lists /\ Empty.sel = {} /\ Empty.twice = {}
  BY DEF Lists, Empty

LEMMA CommandList ==
  ASSUME NEW m \in Commands
  PROVE  /\ m.list \in Lists /\ m.list.sel \in SUBSET Ifaces /\ m.kind \in {"start", "stop", "bye"}
         /\ m.kind # "start" => m.list = Empty
<1>1. m.list \in Lists /\ m.kind \in {"start", "stop", "bye"} /\ (m.kind # "start" => m.list = Empty)
  BY ListParts DEF Commands, DownMsgs
<1>2. QED
  BY <1>1, ListParts

LEMMA DownList == \A m \in DownMsgs : m \in Commands /\ m.kind \in {"start", "stop"}
  BY DEF Commands, DownMsgs

LEMMA LeaveType ==
  ASSUME TypeOK, ConnInv, NEW to \in {"off", "away"}, NEW how \in {"clean", "error"},
         conn \in Conns, Leave(to, how)
  PROVE  /\ phase' = to /\ conn' = 0 /\ conn' \in Owners
         /\ link' \in [Conns -> {"none", "up", "cut"}] /\ down' \in [Conns -> Seq(DownMsgs)]
         /\ ending' \in [Conns -> {"none", "clean", "error"}]
<1>1. <<>> \in Seq(DownMsgs)
  OBVIOUS
<1>2. QED
  BY <1>1, Numbers DEF Leave, TypeOK

LEMMA ThreadType ==
  ASSUME TypeOK, ConnInv, NEW i \in Ifaces, Thread(i)
  PROVE  TypeOK'
<1> USE Parts, PartsNext
<1>1. CASE Capture(i)
  <2> DEFINE f == [iface |-> i, n |-> captured + 1]
  <2>1. f \in Frames /\ captured' \in 0..MaxFrames
    BY <1>1, SensorAssumption DEF Capture, Frames, PastOK
  <2>2. /\ UNCHANGED <<mode, phase, conn, stray, task, ring, drain, wire, server, got, failed, ending,
                       kicked, crossed, repeated, ops, faults>>
    BY <1>1 DEF Capture
  <2> HIDE DEF f
  <2>3. \/ /\ Len(chan) < Cap /\ chan' = Append(chan, f) /\ held' = held
           /\ alive' = alive \/ alive' = [alive EXCEPT ![Owner] = @ \ {i}]
        \/ held' = [held EXCEPT ![i] = f] /\ chan' = chan /\ alive' = alive
    BY <1>1 DEF Capture, f
  <2>4. chan' \in Seq(Frames) /\ Len(chan') <= Cap
    BY <2>1, <2>3, ChanAppend DEF ProcessOK
  <2>5. held' \in [Ifaces -> Frames \cup {None}]
    BY <2>1, <2>3 DEF ProcessOK
  <2>6. alive' \in [Owners -> SUBSET Ifaces]
    BY <2>3 DEF ProcessOK
  <2>7. ProcessOK'
    BY <2>2, <2>4, <2>5, <2>6 DEF ProcessOK
  <2>8. PastOK' /\ WireOK' /\ ServerOK' /\ CountsOK'
    BY <2>1, <2>2, WireSame, ServerSame, CountsStep DEF PastOK
  <2>9. QED
    BY <2>7, <2>8
<1>2. CASE Unblock(i)
  <2>1. /\ UNCHANGED <<mode, phase, conn, alive, stray, task, ring, drain, wire, server, past, ops, faults>>
        /\ Len(chan) < Cap /\ chan' = Append(chan, held[i]) /\ held' = [held EXCEPT ![i] = None]
        /\ held[i] # None
    BY <1>2 DEF Unblock
  <2>2. held[i] \in Frames
    BY <2>1 DEF ProcessOK
  <2>3. chan' \in Seq(Frames) /\ Len(chan') <= Cap
    BY <2>1, <2>2, ChanAppend DEF ProcessOK
  <2>4. held' \in [Ifaces -> Frames \cup {None}]
    BY <2>1 DEF ProcessOK
  <2>5. ProcessOK'
    BY <2>1, <2>3, <2>4 DEF ProcessOK
  <2>6. QED
    BY <2>1, <2>5, WireSame, ServerSame, PastSame, CountsStep
<1>3. CASE CaptureError(i)
  <2>1. /\ UNCHANGED <<mode, phase, conn, stray, chan, held, task, ring, drain, wire, server, captured,
                       got, ending, kicked, crossed, repeated, ops>>
        /\ alive' = [alive EXCEPT ![Owner] = @ \ {i}] /\ failed' = failed \cup {i} /\ Fault
    BY <1>3 DEF CaptureError
  <2>2. alive' \in [Owners -> SUBSET Ifaces]
    BY <2>1 DEF ProcessOK
  <2>3. ProcessOK'
    BY <2>1, <2>2 DEF ProcessOK
  <2>4. failed' \in SUBSET Ifaces
    BY <2>1 DEF PastOK
  <2>5. PastOK'
    BY <2>1, <2>4 DEF PastOK
  <2>6. QED
    BY <2>1, <2>3, <2>5, WireSame, ServerSame, CountsStep
<1>4. CASE ThreadStops(i)
  <2>1. /\ UNCHANGED <<mode, phase, conn, stray, chan, held, task, ring, drain, wire, server, past, ops, faults>>
        /\ alive' = [alive EXCEPT ![conn] = @ \ {i}]
    BY <1>4 DEF ThreadStops
  <2>2. alive' \in [Owners -> SUBSET Ifaces]
    BY <2>1 DEF ProcessOK
  <2>3. ProcessOK'
    BY <2>1, <2>2 DEF ProcessOK
  <2>4. QED
    BY <2>1, <2>3, WireSame, ServerSame, PastSame, CountsStep
<1>5. CASE StrayCapture(i)
  <2>1. /\ UNCHANGED <<mode, phase, conn, alive, held, task, ring, drain, wire, server, got,
                       failed, ending, kicked, crossed, repeated, ops>>
        /\ faults' = faults \/ Fault
    BY <1>5 DEF StrayCapture
  <2> DEFINE f == [iface |-> Stray, n |-> captured + 1]
  <2>2. \/ /\ captured < MaxFrames /\ captured' = captured + 1 /\ Len(chan) < Cap
           /\ chan' = Append(chan, f) /\ stray' = stray
        \/ captured' = captured /\ chan' = chan /\ stray' = [stray EXCEPT ![conn] = @ \ {i}]
    BY <1>5 DEF StrayCapture
  <2>3. captured < MaxFrames => f \in Frames
    BY SensorAssumption DEF Frames, PastOK
  <2> HIDE DEF f
  <2>4. chan' \in Seq(Frames) /\ Len(chan') <= Cap
    BY <2>2, <2>3, ChanAppend DEF ProcessOK
  <2>5. stray' \in [Owners -> SUBSET Ifaces] /\ captured' \in 0..MaxFrames
    <3>1. stray' \in [Owners -> SUBSET Ifaces]
      BY <2>2 DEF ProcessOK
    <3>2. captured' \in 0..MaxFrames
      BY <2>2, SensorAssumption DEF PastOK
    <3>3. QED
      BY <3>1, <3>2
  <2>6. ProcessOK' /\ PastOK'
    BY <2>1, <2>4, <2>5 DEF ProcessOK, PastOK
  <2>7. QED
    BY <2>1, <2>6, WireSame, ServerSame, CountsStep
<1>6. QED
  BY <1>1, <1>2, <1>3, <1>4, <1>5 DEF Thread

LEMMA LoopType ==
  ASSUME TypeOK, ConnInv, SensorLoop
  PROVE  TypeOK'
<1> USE Parts, PartsNext
<1>0. <<>> \in Seq(Frames) /\ Len(<<>>) <= Cap /\ Len(<<>>) <= RingCap /\ <<>> \in Seq(DownMsgs)
  BY SensorAssumption
<1>1. CASE Connect
  <2>1. PICK c \in Conns : link[c] = "none" /\ conn' = c /\ Accept(c)
    BY <1>1 DEF Connect
  <2>2. /\ UNCHANGED <<mode, alive, stray, chan, held, task, down, session, cont, restore, config,
                       web, captured, got, ending, kicked, crossed, repeated, ops, faults>>
        /\ phase' = "open" /\ drain' = ring /\ ring' = <<>> /\ failed' = {}
    BY <1>1 DEF Connect
  <2>3. /\ handler' \in [Conns -> {"none", "running", "ended"}] /\ registered' \in Owners
        /\ link' \in [Conns -> {"none", "up", "cut"}]
    BY <2>1, Numbers DEF Accept, ServerOK, WireOK
  <2>4. up' \in [Conns -> Seq(UpMsgs)]
    <3>1. <<[kind |-> "discovery"]>> \in Seq(UpMsgs)
      BY DEF UpMsgs
    <3>2. QED
      BY <2>1, <3>1 DEF Accept, WireOK
  <2>5. ProcessOK'
    BY <1>0, <2>1, <2>2, Numbers DEF ProcessOK
  <2>6. WireOK' /\ ServerOK'
    BY <2>2, <2>3, <2>4 DEF WireOK, ServerOK
  <2>7. PastOK' /\ CountsOK'
    BY <2>2, CountsStep DEF PastOK
  <2>8. QED
    BY <2>5, <2>6, <2>7
<1>2. CASE ConnectFails
  <2>1. /\ UNCHANGED <<mode, phase, conn, alive, stray, held, task, drain, wire, server, past, ops, faults>>
        /\ ring' = PushAll(ring, chan) /\ chan' = <<>>
    BY <1>2 DEF ConnectFails
  <2>2. ring' \in Seq(Frames) /\ Len(ring') <= RingCap
    BY <2>1, PushAllType DEF ProcessOK
  <2>3. ProcessOK'
    BY <1>0, <2>1, <2>2 DEF ProcessOK
  <2>4. QED
    BY <2>1, <2>3, WireSame, ServerSame, PastSame, CountsStep
<1>3. CASE Forward
  <2>1. /\ UNCHANGED <<mode, phase, conn, alive, stray, held, task, ring, link, down, server, past, ops, faults>>
        /\ conn \in Conns
    BY <1>3 DEF Forward, ConnInv
  <2>2. PICK f : /\ up' = Delivered(up, conn, <<[kind |-> "frame", frame |-> f]>>)
                 /\ \/ drain # <<>> /\ f = Head(drain) /\ drain' = Tail(drain) /\ chan' = chan
                    \/ chan # <<>> /\ f = Head(chan) /\ chan' = Tail(chan) /\ drain' = drain
    BY <1>3 DEF Forward
  <2>3. drain \in Seq(Frames) /\ chan \in Seq(Frames) /\ Len(chan) <= Cap
    BY DEF ProcessOK
  <2>4. /\ f \in Frames /\ drain' \in Seq(Frames) /\ chan' \in Seq(Frames) /\ Len(chan') <= Cap
    BY <2>2, <2>3, FrameTail
  <2>5. up' \in [Conns -> Seq(UpMsgs)]
    BY <2>1, <2>2, <2>4, FrameMsg, UpDelivered
  <2>6. ProcessOK' /\ WireOK'
    BY <2>1, <2>4, <2>5 DEF ProcessOK, WireOK
  <2>7. QED
    BY <2>1, <2>6, ServerSame, PastSame, CountsStep
<1>4. CASE Command
  <2>1. /\ UNCHANGED <<mode, conn, alive, stray, chan, held, ring, drain, link, up, server, past, ops, faults>>
        /\ task' = Head(down[conn]) /\ down' = [down EXCEPT ![conn] = Tail(@)] /\ phase' = "stopping"
        /\ down[conn] # <<>> /\ conn \in Conns
    BY <1>4 DEF Command, ConnInv
  <2>2. down[conn] \in Seq(DownMsgs)
    BY <2>1 DEF WireOK
  <2>3. Head(down[conn]) \in DownMsgs /\ Tail(down[conn]) \in Seq(DownMsgs)
    BY <2>1, <2>2
  <2>4. task' \in Commands
    BY <2>1, <2>3 DEF Commands
  <2>5. down' \in [Conns -> Seq(DownMsgs)]
    BY <2>1, <2>3 DEF WireOK
  <2>6. ProcessOK' /\ WireOK'
    BY <2>1, <2>4, <2>5 DEF ProcessOK, WireOK
  <2>7. QED
    BY <2>1, <2>6, ServerSame, PastSame, CountsStep
<1>5. CASE ReadEnd
  <2>1. /\ UNCHANGED <<mode, conn, alive, stray, chan, held, ring, drain, wire, server, past, ops, faults>>
        /\ task' = Bye /\ phase' = "stopping"
    BY <1>5 DEF ReadEnd
  <2>2. Bye \in Commands
    BY DEF Bye, Commands
  <2>3. ProcessOK'
    BY <2>1, <2>2 DEF ProcessOK
  <2>4. QED
    BY <2>1, <2>3, WireSame, ServerSame, PastSame, CountsStep
<1>6. CASE StartCaptures
  <2>1. /\ phase = "stopping" /\ task # None /\ conn \in Conns
        /\ UNCHANGED <<mode, conn, chan, held, ring, drain, link, down, server, captured, got,
                       ending, kicked, crossed, repeated, ops>>
        /\ phase' = "open" /\ task' = None
    BY <1>6 DEF StartCaptures, Joined, ConnInv
  <2>2. task.list.sel \in SUBSET Ifaces /\ task.list.twice \in SUBSET Ifaces
    BY <2>1, CommandList, ListParts DEF ProcessOK
  <2>3. PICK ok \in SUBSET task.list.sel, again \in SUBSET task.list.twice :
          /\ faults' = faults \/ Fault
          /\ alive' = [alive EXCEPT ![conn] = ok]
          /\ stray' = [stray EXCEPT ![conn] = @ \cup again]
          /\ failed' = task.list.sel \ ok
          /\ up' = Delivered(up, conn, <<[kind |-> "capturing", sel |-> ok]>>)
    BY <1>6 DEF StartCaptures, CaptureStatus
  <2>4. ok \in SUBSET Ifaces /\ again \in SUBSET Ifaces /\ failed' \in SUBSET Ifaces
    BY <2>2, <2>3
  <2>5. up' \in [Conns -> Seq(UpMsgs)]
    BY <2>1, <2>3, <2>4, StatusMsg, UpDelivered
  <2>6. alive' \in [Owners -> SUBSET Ifaces] /\ stray' \in [Owners -> SUBSET Ifaces]
    BY <2>3, <2>4 DEF ProcessOK
  <2>7. ProcessOK' /\ WireOK' /\ PastOK'
    BY <2>1, <2>4, <2>5, <2>6 DEF ProcessOK, WireOK, PastOK
  <2>8. CountsOK'
    BY <2>1, <2>3, CountsStep
  <2>9. QED
    BY <2>1, <2>7, <2>8, ServerSame
<1>7. CASE StopCaptures
  <2>1. /\ UNCHANGED <<mode, conn, alive, stray, chan, held, ring, drain, link, down, server, captured,
                       got, ending, kicked, crossed, repeated, ops, faults>>
        /\ phase' = "open" /\ task' = None /\ failed' = {} /\ conn \in Conns
        /\ up' = Delivered(up, conn, <<[kind |-> "idle", sel |-> {}]>>)
    BY <1>7 DEF StopCaptures, Joined, ConnInv, CaptureStatus
  <2>2. up' \in [Conns -> Seq(UpMsgs)]
    BY <2>1, StatusMsg, UpDelivered
  <2>3. ProcessOK' /\ WireOK' /\ PastOK'
    BY <2>1, <2>2 DEF ProcessOK, WireOK, PastOK
  <2>4. QED
    BY <2>1, <2>3, ServerSame, CountsStep
<1>8. ASSUME NEW to \in {"off", "away"}, NEW how \in {"clean", "error"}, Leave(to, how), conn \in Conns,
             UNCHANGED <<mode, alive, stray, up, server, captured, got, failed, kicked, crossed, repeated, ops, faults>>,
             chan' \in Seq(Frames) /\ Len(chan') <= Cap,
             ring' \in Seq(Frames) /\ Len(ring') <= RingCap, drain' \in Seq(Frames),
             task' \in {task, None}, held' = held \/ held' = Nothing
      PROVE  TypeOK'
  <2>1. /\ phase' = to /\ conn' \in Owners
        /\ link' \in [Conns -> {"none", "up", "cut"}] /\ down' \in [Conns -> Seq(DownMsgs)]
        /\ ending' \in [Conns -> {"none", "clean", "error"}]
    BY <1>8, LeaveType
  <2>2. held' \in [Ifaces -> Frames \cup {None}]
    BY <1>8 DEF ProcessOK, Nothing
  <2>3. ProcessOK'
    BY <1>8, <2>1, <2>2 DEF ProcessOK
  <2>4. WireOK' /\ PastOK'
    BY <1>8, <2>1 DEF WireOK, PastOK
  <2>5. QED
    BY <1>8, <2>3, <2>4, ServerSame, CountsStep
<1>9. CASE Disconnect
  <2>1. Leave("away", "clean") /\ conn \in Conns
    BY <1>9 DEF Disconnect, Joined, ConnInv
  <2>2. /\ UNCHANGED <<mode, alive, stray, up, server, captured, got, failed, kicked, crossed, repeated, ops, faults>>
        /\ chan' = <<>> /\ task' = None /\ ring' = ring /\ drain' = drain /\ held' = held
    BY <1>9 DEF Disconnect
  <2>3. QED
    BY <1>0, <1>8, <2>1, <2>2 DEF ProcessOK
<1>10. CASE SendFails
  <2>1. Leave("away", "error") /\ conn \in Conns
    BY <1>10 DEF SendFails, ConnInv
  <2>2. /\ UNCHANGED <<mode, alive, stray, up, server, captured, got, failed, kicked, crossed, repeated, ops, faults>>
        /\ chan' = <<>> /\ task' = task /\ ring' = ring /\ drain' = drain /\ held' = Nothing
    BY <1>10 DEF SendFails
  <2>3. QED
    BY <1>0, <1>8, <2>1, <2>2 DEF ProcessOK
<1>11. CASE DirectSendFails
  <2>1. Leave("away", "error") /\ conn \in Conns
    BY <1>11 DEF DirectSendFails, ConnInv
  <2>2. /\ UNCHANGED <<mode, alive, stray, up, server, captured, got, failed, kicked, crossed, repeated, ops, faults>>
        /\ chan' = <<>> /\ task' = task /\ ring' = PushAll(ring, Left) /\ drain' = <<>> /\ held' = held
        /\ drain # <<>> \/ chan # <<>>
    BY <1>11 DEF DirectSendFails
  <2>3. chan \in Seq(Frames) /\ ring \in Seq(Frames)
    BY DEF ProcessOK
  <2>4. Left \in Seq(Frames)
    BY <2>2, <2>3 DEF Left
  <2>5. ring' \in Seq(Frames) /\ Len(ring') <= RingCap
    BY <2>2, <2>3, <2>4, PushAllType
  <2>6. QED
    BY <1>0, <1>8, <2>1, <2>2, <2>5
<1>12. CASE DirectDone
  <2>1. Leave("off", "clean") /\ conn \in Conns
    BY <1>12 DEF DirectDone, ConnInv
  <2>2. /\ UNCHANGED <<mode, alive, stray, up, server, captured, got, failed, kicked, crossed, repeated, ops, faults>>
        /\ chan' = chan /\ task' = task /\ ring' = ring /\ drain' = drain /\ held' = held
    BY <1>12 DEF DirectDone
  <2>3. QED
    BY <1>8, <2>1, <2>2 DEF ProcessOK
<1>13. QED
  BY <1>1, <1>2, <1>3, <1>4, <1>5, <1>6, <1>7, <1>9, <1>10, <1>11, <1>12 DEF SensorLoop

LEMMA SavedType == TypeOK => Saved \in Lists /\ Saved.sel \in SUBSET Ifaces
<1> SUFFICES ASSUME TypeOK PROVE Saved \in Lists
  BY ListParts
<1>1. QED
  BY ListParts DEF TypeOK, Saved

\* What a handler has loaded, a request and the sessions it writes.
LEMMA RestoreType ==
  ASSUME TypeOK, NEW c \in Conns, restore[c] # None
  PROVE  /\ restore[c].list \in Lists /\ restore[c].step \in {"loaded", "sent"}
         /\ [kind |-> "start", list |-> restore[c].list] \in DownMsgs
         /\ Restored(c) \in Session
<1>1. restore[c] \in Restores
  BY DEF TypeOK
<1>2. restore[c].list \in Lists /\ restore[c].step \in {"loaded", "sent"}
  BY <1>1 DEF Restores
<1>3. QED
  BY <1>2, ListParts DEF DownMsgs, Session, Restored

LEMMA RequestType ==
  ASSUME TypeOK, web # None
  PROVE  /\ web.conn \in Conns /\ web.msg \in DownMsgs /\ web.step \in {"save", "send"}
         /\ web.msg.list \in Lists /\ web.msg.list.sel \in SUBSET Ifaces
<1>1. web \in Requests
  BY DEF TypeOK
<1>2. web.conn \in Conns /\ web.msg \in DownMsgs /\ web.step \in {"save", "send"}
  BY <1>1 DEF Requests
<1>3. QED
  BY <1>2, DownList, CommandList

\* The steps of a request and of a restore keep what it is about.
LEMMA RequestParts ==
  ASSUME TypeOK, web # None, web' = [web EXCEPT !.step = "send"]
  PROVE  web'.step = "send" /\ web'.conn = web.conn /\ web'.msg = web.msg /\ web' # None
<1>1. web \in Requests
  BY DEF TypeOK
<1>2. web' \in Requests /\ web'.step = "send" /\ web'.conn = web.conn /\ web'.msg = web.msg
  BY <1>1 DEF Requests
<1>3. QED
  BY <1>2, SensorAssumption

LEMMA RestoreParts ==
  ASSUME TypeOK, NEW c \in Conns, restore[c] # None, restore' = [restore EXCEPT ![c].step = "sent"]
  PROVE  /\ restore'[c].step = "sent" /\ restore'[c].list = restore[c].list /\ restore'[c] # None
         /\ \A d \in Conns : d # c => restore'[d] = restore[d]
<1> DEFINE w == [restore[c] EXCEPT !.step = "sent"]
<1>1. restore[c] \in Restores /\ restore \in [Conns -> Restores \cup {None}]
  BY DEF TypeOK
<1>2. w \in Restores /\ w.step = "sent" /\ w.list = restore[c].list
  BY <1>1 DEF Restores
<1>3. restore'[c] = w /\ \A d \in Conns : d # c => restore'[d] = restore[d]
  BY <1>1
<1>4. QED
  BY <1>2, <1>3, SensorAssumption

LEMMA StatusSession ==
  ASSUME NEW m \in UpMsgs, m.kind \in {"capturing", "idle"}
  PROVE  [state |-> m.kind, sel |-> m.sel] \in Session
<1>1. m.sel \in SUBSET Ifaces
  BY DEF UpMsgs
<1>2. QED
  BY <1>1 DEF Session

LEMMA HandlerType ==
  ASSUME TypeOK, NEW c \in Conns, Handler(c)
  PROVE  TypeOK'
<1> USE Parts, PartsNext
<1>0. /\ up[c] \in Seq(UpMsgs) /\ cont[c] \in Seq(Session)
  BY DEF WireOK, ServerOK
<1>1. CASE Receive(c)
  <2>1. /\ UNCHANGED <<process, link, down, handler, registered, cont, config, web, captured, failed,
                       ending, kicked, repeated, ops, faults>>
        /\ up' = [up EXCEPT ![c] = Tail(@)] /\ up[c] # <<>>
    BY <1>1 DEF Receive
  <2>2. Head(up[c]) \in UpMsgs /\ Tail(up[c]) \in Seq(UpMsgs)
    BY <1>0, <2>1
  <2>3. up' \in [Conns -> Seq(UpMsgs)]
    BY <2>1, <2>2 DEF WireOK
  <2>4. PICK msg \in UpMsgs :
          \/ msg.kind = "discovery" /\ Restore(c) /\ UNCHANGED <<session, got>>
          \/ /\ msg.kind \in {"capturing", "idle"}
             /\ session' = [session EXCEPT ![c] = [state |-> msg.kind, sel |-> msg.sel]]
             /\ UNCHANGED <<restore, crossed, got>>
          \/ /\ msg.kind = "frame" /\ got' = Append(got, msg.frame)
             /\ UNCHANGED <<restore, crossed, session>>
    BY <1>1, <2>2 DEF Receive
  <2>5. restore' \in [Conns -> Restores \cup {None}] /\ crossed' \in SUBSET Conns
    <3>1. CASE UNCHANGED <<restore, crossed>>
      BY <3>1 DEF ServerOK, PastOK
    <3>2. CASE Restore(c)
      <4>1. [step |-> "loaded", list |-> Saved] \in Restores
        BY SavedType DEF Restores
      <4>2. QED
        BY <3>2, <4>1 DEF Restore, ServerOK, PastOK
    <3>3. QED
      BY <2>4, <3>1, <3>2
  <2>6. session' \in [Conns -> Session]
    BY <2>4, StatusSession DEF ServerOK
  <2>7. got' \in Seq(Frames)
    <3>1. CASE got' = got
      BY <3>1 DEF PastOK
    <3>2. CASE msg.kind = "frame" /\ got' = Append(got, msg.frame)
      <4>1. msg.frame \in Frames
        BY <3>2 DEF UpMsgs
      <4>2. QED
        BY <3>2, <4>1 DEF PastOK
    <3>3. QED
      BY <2>4, <3>1, <3>2
  <2>8. WireOK' /\ ServerOK'
    BY <2>1, <2>3, <2>5, <2>6 DEF WireOK, ServerOK
  <2>9. PastOK'
    BY <2>1, <2>5, <2>7 DEF PastOK
  <2>10. QED
    BY <2>1, <2>8, <2>9, ProcessSame, CountsStep
<1>2. CASE RestoreSend(c)
  <2>1. /\ UNCHANGED <<process, link, up, handler, registered, session, cont, config, web, past,
                       ops, faults>>
        /\ restore[c] # None /\ restore' = [restore EXCEPT ![c].step = "sent"]
        /\ down' = Delivered(down, c, <<[kind |-> "start", list |-> restore[c].list]>>)
    BY <1>2 DEF RestoreSend
  <2>2. down' \in [Conns -> Seq(DownMsgs)]
    BY <2>1, RestoreType, DownDelivered
  <2>3. restore[c] \in Restores
    BY <2>1 DEF ServerOK
  <2>4. [restore[c] EXCEPT !.step = "sent"] \in Restores
    BY <2>3 DEF Restores
  <2>5. restore' \in [Conns -> Restores \cup {None}]
    BY <2>1, <2>4 DEF ServerOK
  <2>6. WireOK' /\ ServerOK'
    BY <2>1, <2>2, <2>5 DEF WireOK, ServerOK
  <2>7. QED
    BY <2>1, <2>6, ProcessSame, PastSame, CountsStep
<1>3. CASE RestoreShow(c)
  <2>1. /\ UNCHANGED <<process, wire, handler, registered, cont, config, web, past, ops, faults>>
        /\ restore[c] # None /\ restore' = [restore EXCEPT ![c] = None]
        /\ session' = [session EXCEPT ![c] = Restored(c)]
    BY <1>3 DEF RestoreShow
  <2>2. ServerOK'
    BY <2>1, RestoreType DEF ServerOK
  <2>3. QED
    BY <2>1, <2>2, ProcessSame, WireSame, PastSame, CountsStep
<1>4. CASE Resume(c)
  <2>1. /\ UNCHANGED <<process, wire, handler, registered, restore, config, web, past, ops, faults>>
        /\ cont[c] # <<>> /\ cont' = [cont EXCEPT ![c] = Tail(@)]
        /\ session' = [session EXCEPT ![c] = Head(cont[c])] \/ session' = session
    BY <1>4 DEF Resume
  <2>2. Head(cont[c]) \in Session /\ Tail(cont[c]) \in Seq(Session)
    BY <1>0, <2>1
  <2>3. ServerOK'
    BY <2>1, <2>2 DEF ServerOK
  <2>4. QED
    BY <2>1, <2>3, ProcessSame, WireSame, PastSame, CountsStep
<1>5. CASE SetTogether(c)
  <2>1. PICK other \in Session : Mixed(c, other)
    <3>1. CASE restore[c] # None /\ Mixed(c, Restored(c))
      BY <3>1, RestoreType
    <3>2. CASE /\ up[c] # <<>> /\ Head(up[c]).kind \in {"capturing", "idle"}
               /\ Mixed(c, [state |-> Head(up[c]).kind, sel |-> Head(up[c]).sel])
      <4>1. Head(up[c]) \in UpMsgs
        BY <1>0, <3>2
      <4>2. QED
        BY <3>2, <4>1, StatusSession
    <3>3. QED
      BY <1>5, <3>1, <3>2 DEF SetTogether
  <2>2. /\ UNCHANGED <<process, link, down, handler, registered, config, web, past, ops, faults>>
        /\ cont[c] # <<>> /\ cont' = [cont EXCEPT ![c] = Tail(@)]
        /\ \E p, q \in {Head(cont[c]), other} :
              session' = [session EXCEPT ![c] = [state |-> p.state, sel |-> q.sel]]
    BY <2>1 DEF Mixed
  <2>3. Head(cont[c]) \in Session /\ Tail(cont[c]) \in Seq(Session)
    BY <1>0, <2>2
  <2>4. \A p, q \in Session : [state |-> p.state, sel |-> q.sel] \in Session
    BY DEF Session
  <2>5. session' \in [Conns -> Session]
    <3>1. \E w \in Session : session' = [session EXCEPT ![c] = w]
      BY <2>1, <2>2, <2>3, <2>4
    <3>2. QED
      BY <3>1 DEF ServerOK
  <2>6. up' \in [Conns -> Seq(UpMsgs)] /\ restore' \in [Conns -> Restores \cup {None}]
    <3>1. up[c] # <<>> => Tail(up[c]) \in Seq(UpMsgs)
      BY <1>0
    <3>2. QED
      BY <1>5, <3>1 DEF SetTogether, WireOK, ServerOK
  <2>7. WireOK' /\ ServerOK'
    BY <2>2, <2>3, <2>5, <2>6 DEF WireOK, ServerOK
  <2>8. QED
    BY <2>2, <2>7, ProcessSame, PastSame, CountsStep
<1>6. CASE HandlerEnds(c)
  <2>1. /\ UNCHANGED <<process, link, down, restore, config, web, past, ops, faults>>
        /\ handler' = [handler EXCEPT ![c] = "ended"] /\ registered' = 0
        /\ up' = [up EXCEPT ![c] = <<>>] /\ session' = [session EXCEPT ![c] = Fresh]
        /\ cont' = [cont EXCEPT ![c] = <<>>]
    BY <1>6 DEF HandlerEnds
  <2>2. <<>> \in Seq(UpMsgs) /\ <<>> \in Seq(Session) /\ Fresh \in Session
    BY DEF Fresh, Session
  <2>3. WireOK' /\ ServerOK'
    BY <2>1, <2>2, Numbers DEF WireOK, ServerOK
  <2>4. QED
    BY <2>1, <2>3, ProcessSame, PastSame, CountsStep
<1>7. QED
  BY <1>1, <1>2, <1>3, <1>4, <1>5, <1>6 DEF Handler

LEMMA Submitted == /\ \A l \in Selections : [kind |-> "start", list |-> l] \in DownMsgs
                   /\ [kind |-> "stop", list |-> Empty] \in DownMsgs
  BY SensorAssumption DEF DownMsgs

\* A request begins with a command of an operator.
LEMMA Begins ==
  ASSUME WebStop \/ \E list \in Selections : WebStart(list)
  PROVE  \E m \in DownMsgs : WebBegin(m)
  BY Submitted DEF WebStop, WebStart

LEMMA WebType ==
  ASSUME TypeOK, Web
  PROVE  TypeOK'
<1> USE Parts, PartsNext
<1>1. ASSUME NEW m \in DownMsgs, WebBegin(m) PROVE TypeOK'
  <2>1. /\ UNCHANGED <<process, wire, handler, registered, session, cont, restore, captured, got,
                       failed, ending, kicked, crossed, faults>>
        /\ registered # 0 /\ Request /\ config' = Corrupt
        /\ web' = [conn |-> registered, step |-> "save", msg |-> m]
        /\ repeated' = repeated \cup m.list.twice
    BY <1>1 DEF WebBegin
  <2>2. registered \in Conns /\ m.list.twice \in SUBSET Ifaces
    BY <2>1, Numbers, DownList, CommandList, ListParts DEF ServerOK
  <2>3. web' \in Requests
    BY <2>1, <2>2 DEF Requests
  <2>4. ServerOK' /\ PastOK'
    BY <2>1, <2>2, <2>3 DEF ServerOK, PastOK
  <2>5. QED
    BY <2>1, <2>4, ProcessSame, WireSame, CountsStep
<1>2. CASE WebSave
  <2>1. /\ UNCHANGED <<process, wire, handler, registered, session, cont, restore, past, ops, faults>>
        /\ web # None /\ web' = [web EXCEPT !.step = "send"] /\ config' \in {web.msg.list, None}
    BY <1>2 DEF WebSave, Saving
  <2>2. web \in Requests
    BY <2>1 DEF ServerOK
  <2>3. web' \in Requests
    BY <2>1, <2>2 DEF Requests
  <2>4. ServerOK'
    BY <2>1, <2>3, RequestType DEF ServerOK
  <2>5. QED
    BY <2>1, <2>4, ProcessSame, WireSame, PastSame, CountsStep
<1>3. CASE WebSend
  <2>1. /\ UNCHANGED <<process, link, up, handler, registered, session, restore, config, captured,
                       got, failed, ending, kicked, repeated, ops, faults>>
        /\ web # None /\ web' = None /\ crossed' \in {crossed, crossed \cup {web.conn}}
    BY <1>3 DEF WebSend
  <2>2. web.conn \in Conns /\ web.msg \in DownMsgs /\ web.msg.list.sel \in SUBSET Ifaces
    BY <2>1, RequestType
  <2>3. down' = down \/ down' = Delivered(down, web.conn, <<web.msg>>)
    BY <1>3 DEF WebSend
  <2>4. down' \in [Conns -> Seq(DownMsgs)]
    BY <2>2, <2>3, DownDelivered DEF WireOK
  <2>5. \A st \in {"capturing", "idle"} : [state |-> st, sel |-> web.msg.list.sel] \in Session
    BY <2>2 DEF Session
  <2>6. cont' = cont \/ \E w \in Session : cont' = [cont EXCEPT ![web.conn] = Append(@, w)]
    BY <1>3, <2>5 DEF WebSend
  <2>7. cont' \in [Conns -> Seq(Session)]
    <3>1. ASSUME NEW w \in Session PROVE Append(cont[web.conn], w) \in Seq(Session)
      BY <2>2 DEF ServerOK
    <3>2. QED
      BY <2>2, <2>6, <3>1 DEF ServerOK
  <2>8. WireOK' /\ ServerOK' /\ PastOK'
    BY <2>1, <2>2, <2>4, <2>7 DEF WireOK, ServerOK, PastOK
  <2>9. QED
    BY <2>1, <2>8, ProcessSame, CountsStep
<1>4. CASE WebDisconnect
  <2>1. /\ UNCHANGED <<process, wire, handler, session, cont, restore, config, web, captured, got,
                       failed, ending, crossed, repeated, faults>>
        /\ Request /\ registered' = 0 /\ kicked' = TRUE
    BY <1>4 DEF WebDisconnect
  <2>2. ServerOK'
    BY <2>1, Numbers DEF ServerOK
  <2>3. PastOK'
    BY <2>1 DEF PastOK
  <2>4. QED
    BY <2>1, <2>2, <2>3, ProcessSame, WireSame, CountsStep
<1>5. QED
  BY <1>1, <1>2, <1>3, <1>4, Begins DEF Web

LEMMA FaultType ==
  ASSUME TypeOK, SensorCrash \/ SensorStart \/ ServerCrash \/ (\E c \in Conns : Cut(c))
  PROVE  TypeOK'
<1> USE Parts, PartsNext
<1>1. CASE SensorCrash
  <2>1. /\ UNCHANGED <<mode, up, server, captured, got, ending, kicked, crossed, repeated, ops>> /\ Fault
        /\ phase' = "off" /\ conn' = 0
        /\ alive' = [o \in Owners |-> {}] /\ stray' = [o \in Owners |-> {}]
        /\ chan' = <<>> /\ held' = Nothing /\ task' = None /\ ring' = <<>> /\ drain' = <<>>
        /\ failed' = {}
    BY <1>1 DEF SensorCrash
  <2>2. /\ link' = [c \in Conns |-> IF link[c] = "up" THEN "cut" ELSE link[c]]
        /\ down' = [c \in Conns |-> <<>>]
    BY <1>1 DEF SensorCrash
  <2>3. <<>> \in Seq(Frames) /\ Len(<<>>) <= Cap /\ Len(<<>>) <= RingCap /\ <<>> \in Seq(DownMsgs)
    BY SensorAssumption
  <2>4. ProcessOK'
    BY <2>1, <2>3, Numbers DEF ProcessOK, Nothing
  <2>5. WireOK'
    BY <2>1, <2>2, <2>3 DEF WireOK
  <2>6. PastOK'
    BY <2>1 DEF PastOK
  <2>7. QED
    BY <2>1, <2>4, <2>5, <2>6, ServerSame, CountsStep
<1>2. CASE SensorStart
  <2>1. /\ UNCHANGED <<mode, conn, stray, chan, held, task, ring, drain, wire, server, past, ops, faults>>
        /\ phase' = "away"
        /\ alive' = alive \/ (\E i \in Ifaces : alive' = [alive EXCEPT ![0] = {i}])
    BY <1>2 DEF SensorStart
  <2>2. alive' \in [Owners -> SUBSET Ifaces]
    BY <2>1 DEF ProcessOK
  <2>3. ProcessOK'
    BY <2>1, <2>2 DEF ProcessOK
  <2>4. QED
    BY <2>1, <2>3, WireSame, ServerSame, PastSame, CountsStep
<1>3. CASE ServerCrash
  <2>1. /\ UNCHANGED <<process, down, config, past, ops>> /\ Fault /\ web' = None
        /\ handler' = [c \in Conns |-> IF link[c] = "none" THEN "none" ELSE "ended"]
        /\ registered' = 0
        /\ link' = [c \in Conns |-> IF link[c] = "up" THEN "cut" ELSE link[c]]
    BY <1>3 DEF ServerCrash
  <2>2. /\ up' = [c \in Conns |-> <<>>] /\ cont' = [c \in Conns |-> <<>>]
        /\ session' = [c \in Conns |-> Fresh] /\ restore' = [c \in Conns |-> None]
    BY <1>3 DEF ServerCrash
  <2>3. <<>> \in Seq(UpMsgs) /\ <<>> \in Seq(Session) /\ Fresh \in Session
    BY DEF Fresh, Session
  <2>4. WireOK'
    BY <2>1, <2>2, <2>3 DEF WireOK
  <2>5. ServerOK'
    BY <2>1, <2>2, <2>3, Numbers DEF ServerOK
  <2>6. QED
    BY <2>1, <2>4, <2>5, ProcessSame, PastSame, CountsStep
<1>4. ASSUME NEW c \in Conns, Cut(c) PROVE TypeOK'
  <2>1. /\ UNCHANGED <<process, up, down, server, past, ops>> /\ Fault
        /\ link' = [link EXCEPT ![c] = "cut"]
    BY <1>4 DEF Cut
  <2>2. WireOK'
    BY <2>1 DEF WireOK
  <2>3. QED
    BY <2>1, <2>2, ProcessSame, ServerSame, PastSame, CountsStep
<1>5. QED
  BY <1>1, <1>2, <1>3, <1>4

LEMMA TypeStep ==
  ASSUME TypeOK, ConnInv, [Next]_vars
  PROVE  TypeOK'
<1>1. CASE UNCHANGED vars
  BY <1>1, Parts, PartsNext, ProcessSame, WireSame, ServerSame, PastSame, CountsStep DEF vars
<1>2. QED
  BY <1>1, ThreadType, LoopType, HandlerType, WebType, FaultType DEF Next

-----------------------------------------------------------------------------
(* Capture threads.                                                        *)

\* A list whose repeated names an operator has given.
Known(l) == l.twice \subseteq repeated

\* Every list that is saved, under way or about to be sent is known.
ListsInv ==
    /\ Known(Saved)
    /\ task # None => Known(task.list)
    /\ web # None => Known(web.msg.list)
    /\ \A c \in Conns : restore[c] # None => Known(restore[c].list)
    /\ \A c \in Conns : \A k \in DOMAIN down[c] : Known(down[c][k].list)

\* No thread outlives its connection unless a write failed on it, or the command to stop
\* unless its interface was named twice.
EndInv   == \A c \in Conns : c # conn /\ alive[c] # {} => ending[c] = "error"
StrayInv == \A c \in Conns : stray[c] \subseteq repeated

ThreadInv == ConnInv /\ EndInv /\ ListsInv /\ StrayInv

\* A step that takes no new list and loses none of what operators have named.
LEMMA ListsSame ==
  ASSUME ListsInv, repeated \subseteq repeated', Known(Saved)',
         task' = task \/ task' = None \/ Known(task'.list),
         web' = web \/ web' = None \/ Known(web'.msg.list),
         \A c \in Conns : restore'[c] = restore[c] \/ restore'[c] = None \/ Known(restore'[c].list),
         \A c \in Conns : \A k \in DOMAIN down'[c] :
            Known(down'[c][k].list) \/ \E j \in DOMAIN down[c] : down'[c][k] = down[c][j]
  PROVE  ListsInv'
<1>1. \A l : Known(l) => Known(l)'
  BY DEF Known
<1>2. /\ task' # None => Known(task.list)'
      /\ web' # None => Known(web.msg.list)'
      /\ \A c \in Conns : restore'[c] # None => Known(restore[c].list)'
  BY <1>1 DEF ListsInv, Known
<1>3. \A c \in Conns : \A k \in DOMAIN down'[c] : Known(down[c][k].list)'
  BY <1>1 DEF ListsInv, Known
<1>4. QED
  BY <1>2, <1>3 DEF ListsInv

\* The server's steps, and which parts each leaves alone.
LEMMA ServerLeaves ==
  ASSUME Web \/ \E c \in Conns : Handler(c)
  PROVE  UNCHANGED <<process, link, captured, failed, ending, faults>>
<1>1. CASE Web
  BY <1>1 DEF Web, WebStart, WebStop, WebBegin, WebSave, WebSend, WebDisconnect, wire, past
<1>2. ASSUME NEW c \in Conns, Handler(c) PROVE UNCHANGED <<process, link, captured, failed, ending, faults>>
  <2>1. CASE SetTogether(c)
    <3>1. \E other : Mixed(c, other)
      BY <2>1 DEF SetTogether
    <3>2. QED
      BY <3>1 DEF Mixed, past
  <2>2. QED
    BY <1>2, <2>1 DEF Handler, Receive, RestoreSend, RestoreShow, Resume, HandlerEnds, wire, past
<1>3. QED
  BY <1>1, <1>2

LEMMA EndStep ==
  ASSUME TypeOK, ConnInv, EndInv, [Next]_vars
  PROVE  ConnInv' /\ EndInv'
<1>0. alive \in [Owners -> SUBSET Ifaces] /\ ending \in [Conns -> {"none", "clean", "error"}]
      /\ conn \in Owners /\ None \notin Commands
  BY SensorAssumption DEF TypeOK
<1>1. ASSUME UNCHANGED <<mode, phase, conn, task, ending>>, \A c \in Conns : alive'[c] \subseteq alive[c]
      PROVE  ConnInv' /\ EndInv'
  BY <1>0, <1>1 DEF ConnInv, EndInv
<1>2. ASSUME NEW i \in Ifaces, Thread(i) PROVE ConnInv' /\ EndInv'
  <2>1. UNCHANGED <<mode, phase, conn, task, ending>>
    BY <1>2 DEF Thread, Capture, StrayCapture, Unblock, CaptureError, ThreadStops, past
  <2>2. alive' = alive \/ alive' = [alive EXCEPT ![Owner] = @ \ {i}]
        \/ alive' = [alive EXCEPT ![conn] = @ \ {i}]
    BY <1>2 DEF Thread, Capture, StrayCapture, Unblock, CaptureError, ThreadStops
  <2>3. \A c \in Conns : alive'[c] \subseteq alive[c]
    BY <1>0, <2>2, Numbers
  <2>4. QED
    BY <1>1, <2>1, <2>3
<1>3. CASE ConnectFails \/ Forward
  BY <1>1, <1>3 DEF ConnectFails, Forward, past
<1>4. CASE UNCHANGED vars \/ Web \/ ServerCrash \/ (\E c \in Conns : Cut(c) \/ Handler(c))
  <2>1. UNCHANGED process /\ ending' = ending
    BY <1>4, ServerLeaves DEF vars, ServerCrash, Cut, past
  <2>2. QED
    BY <1>1, <2>1 DEF process
<1>5. CASE Connect
  <2>1. /\ phase = "away" /\ phase' = "open" /\ conn' \in Conns
        /\ UNCHANGED <<mode, alive, task, ending>>
    BY <1>5 DEF Connect
  <2>2. QED
    BY <2>1, Numbers DEF ConnInv, EndInv
<1>6. CASE Command
  <2>1. /\ phase = "open" /\ mode = "controlled" /\ down[conn] # <<>> /\ task' = Head(down[conn])
        /\ phase' = "stopping" /\ UNCHANGED <<mode, conn, alive, ending>> /\ conn \in Conns
    BY <1>6 DEF Command, past, ConnInv
  <2>2. down[conn] \in Seq(DownMsgs)
    BY <2>1 DEF TypeOK
  <2>3. Head(down[conn]) \in DownMsgs
    BY <2>1, <2>2
  <2>4. task' \in Commands
    BY <2>1, <2>3 DEF Commands
  <2>5. QED
    BY <1>0, <2>1, <2>4 DEF ConnInv, EndInv
<1>7. CASE ReadEnd
  <2>1. Bye \in Commands
    BY DEF Bye, Commands
  <2>2. /\ phase = "open" /\ mode = "controlled" /\ task' = Bye
        /\ phase' = "stopping" /\ UNCHANGED <<mode, conn, alive, ending>>
    BY <1>7 DEF ReadEnd, past
  <2>3. QED
    BY <1>0, <2>1, <2>2 DEF ConnInv, EndInv
<1>8. CASE StartCaptures \/ StopCaptures
  <2>1. /\ phase = "stopping" /\ phase' = "open" /\ UNCHANGED <<mode, conn, ending>>
        /\ mode = "controlled" /\ conn \in Conns
    BY <1>8 DEF StartCaptures, StopCaptures, Joined, ConnInv
  <2>2. alive' = alive \/ \E ok : alive' = [alive EXCEPT ![conn] = ok]
    BY <1>8 DEF StartCaptures, StopCaptures
  <2>3. \A c \in Conns : c # conn => alive'[c] = alive[c]
    BY <1>0, <2>2, Numbers
  <2>4. QED
    BY <2>1, <2>3 DEF ConnInv, EndInv, Mode
<1>9. ASSUME NEW to \in {"off", "away"}, NEW how \in {"clean", "error"}, Leave(to, how), conn \in Conns,
             UNCHANGED <<mode, alive>>, how = "error" \/ alive[conn] = {}
      PROVE  ConnInv' /\ EndInv'
  <2>1. /\ phase' = to /\ conn' = 0 /\ ending' = [ending EXCEPT ![conn] = how]
    BY <1>9 DEF Leave
  <2>2. ConnInv'
    BY <1>9, <2>1 DEF ConnInv
  <2>3. ASSUME NEW c \in Conns, alive[c] # {} PROVE ending'[c] = "error"
    BY <1>0, <1>9, <2>1, <2>3 DEF EndInv
  <2>4. QED
    BY <1>9, <2>2, <2>3 DEF EndInv
<1>10. CASE Disconnect
  BY <1>9, <1>10 DEF Disconnect, Joined, ConnInv
<1>11. CASE SendFails
  BY <1>9, <1>11 DEF SendFails, ConnInv
<1>12. CASE DirectSendFails
  BY <1>9, <1>12 DEF DirectSendFails, ConnInv
<1>13. CASE DirectDone
  BY <1>9, <1>13 DEF DirectDone, ConnInv
<1>14. CASE SensorCrash
  <2>1. phase' = "off" /\ conn' = 0 /\ alive' = [o \in Owners |-> {}] /\ mode' = mode
    BY <1>14 DEF SensorCrash
  <2>2. \A c \in Conns : alive'[c] = {}
    BY <2>1, Numbers
  <2>3. QED
    BY <2>1, <2>2 DEF ConnInv, EndInv
<1>15. CASE SensorStart
  <2>1. /\ phase = "off" /\ phase' = "away" /\ UNCHANGED <<mode, conn, ending>>
        /\ alive' = alive \/ (\E i \in Ifaces : alive' = [alive EXCEPT ![0] = {i}])
    BY <1>15 DEF SensorStart, past
  <2>2. \A c \in Conns : alive'[c] = alive[c]
    BY <1>0, <2>1, Numbers
  <2>3. QED
    BY <2>1, <2>2 DEF ConnInv, EndInv
<1>16. QED
  BY <1>2, <1>3, <1>4, <1>5, <1>6, <1>7, <1>8, <1>10, <1>11, <1>12, <1>13, <1>14, <1>15
     DEF Next, SensorLoop

\* The stray threads of a step are those it starts.
LEMMA StrayStep ==
  ASSUME TypeOK, ConnInv, ListsInv, StrayInv, [Next]_vars
  PROVE  StrayInv'
<1>0. stray \in [Owners -> SUBSET Ifaces]
  BY DEF TypeOK
<1>1. ASSUME repeated \subseteq repeated', \A c \in Conns : stray'[c] \subseteq stray[c] PROVE StrayInv'
  BY <1>1 DEF StrayInv
<1>2. ASSUME NEW i \in Ifaces, Thread(i) PROVE StrayInv'
  <2>1. repeated' = repeated /\ (stray' = stray \/ stray' = [stray EXCEPT ![conn] = @ \ {i}])
    BY <1>2 DEF Thread, Capture, StrayCapture, Unblock, CaptureError, ThreadStops, past
  <2>2. \A c \in Conns : stray'[c] \subseteq stray[c]
    BY <1>0, <2>1, Numbers
  <2>3. QED
    BY <1>1, <2>1, <2>2
<1>3. CASE StartCaptures
  <2>1. task # None /\ conn \in Conns /\ repeated' = repeated
    BY <1>3 DEF StartCaptures, Joined, ConnInv
  <2>2. PICK again \in SUBSET task.list.twice : stray' = [stray EXCEPT ![conn] = @ \cup again]
    BY <1>3 DEF StartCaptures
  <2>3. again \subseteq repeated
    BY <2>1, <2>2 DEF ListsInv, Known
  <2>4. QED
    BY <1>0, <2>1, <2>2, <2>3, Numbers DEF StrayInv
<1>4. CASE SensorLoop /\ ~StartCaptures
  <2>1. UNCHANGED <<stray, repeated>>
    BY <1>4 DEF SensorLoop, Connect, ConnectFails, Forward, Command, ReadEnd, StopCaptures,
                Disconnect, SendFails, DirectSendFails, DirectDone, past
  <2>2. QED
    BY <1>1, <2>1
<1>5. CASE Web \/ \E c \in Conns : Handler(c)
  <2>1. stray' = stray
    BY <1>5, ServerLeaves DEF process
  <2>2. repeated \subseteq repeated'
    <3>1. CASE Web
      BY <3>1 DEF Web, WebStart, WebStop, WebBegin, WebSave, WebSend, WebDisconnect, past
    <3>2. ASSUME NEW c \in Conns, Handler(c) PROVE repeated' = repeated
      BY <3>2 DEF Handler, Receive, RestoreSend, RestoreShow, Resume, SetTogether, Mixed, HandlerEnds, past
    <3>3. QED
      BY <1>5, <3>1, <3>2
  <2>3. QED
    BY <1>1, <2>1, <2>2
<1>6. CASE SensorCrash
  <2>1. stray' = [o \in Owners |-> {}]
    BY <1>6 DEF SensorCrash
  <2>2. QED
    BY <2>1, Numbers DEF StrayInv
<1>7. CASE SensorStart \/ ServerCrash \/ UNCHANGED vars \/ \E c \in Conns : Cut(c)
  <2>1. UNCHANGED <<stray, repeated>>
    BY <1>7 DEF SensorStart, ServerCrash, Cut, vars, process, past
  <2>2. QED
    BY <1>1, <2>1
<1>8. QED
  BY <1>2, <1>3, <1>4, <1>5, <1>6, <1>7 DEF Next

\* A command that is sent is the only new one on its way.
LEMMA DownSent ==
  ASSUME TypeOK, NEW c \in Conns, NEW m \in DownMsgs, down' = Delivered(down, c, <<m>>)
  PROVE  \A d \in Conns : \A k \in DOMAIN down'[d] :
            down'[d][k] = m \/ \E j \in DOMAIN down[d] : down'[d][k] = down[d][j]
<1>1. down \in [Conns -> Seq(DownMsgs)]
  BY DEF TypeOK
<1>2. ASSUME link[c] = "up" PROVE down'[c] = down[c] \o <<m>> /\ \A d \in Conns : d # c => down'[d] = down[d]
  BY <1>1, <1>2 DEF Delivered
<1>3. ASSUME NEW k \in DOMAIN (down[c] \o <<m>>)
      PROVE  (down[c] \o <<m>>)[k] = m \/ (k \in DOMAIN down[c] /\ (down[c] \o <<m>>)[k] = down[c][k])
  BY <1>1
<1>4. CASE link[c] = "up"
  BY <1>2, <1>3, <1>4
<1>5. CASE link[c] # "up"
  BY <1>5 DEF Delivered
<1>6. QED
  BY <1>4, <1>5

LEMMA LoopLists ==
  ASSUME TypeOK, ConnInv, ListsInv, SensorLoop
  PROVE  ListsInv'
<1>0. down \in [Conns -> Seq(DownMsgs)]
  BY DEF TypeOK
<1>1. UNCHANGED <<repeated, config, web, restore>>
  BY DEF SensorLoop, Connect, ConnectFails, Forward, Command, ReadEnd, StartCaptures, StopCaptures,
         Disconnect, SendFails, DirectSendFails, DirectDone, server, past
<1>2. Known(Saved)'
  BY <1>1 DEF ListsInv, Known, Saved
<1>3. CASE Command
  <2>1. /\ conn \in Conns /\ task' = Head(down[conn]) /\ down' = [down EXCEPT ![conn] = Tail(@)]
        /\ down[conn] # <<>>
    BY <1>3 DEF Command, ConnInv
  <2>2. /\ 1 \in DOMAIN down[conn] /\ Head(down[conn]) = down[conn][1]
        /\ \A k \in DOMAIN Tail(down[conn]) :
              k + 1 \in DOMAIN down[conn] /\ Tail(down[conn])[k] = down[conn][k + 1]
    <3> DEFINE q == down[conn]
    <3>1. q \in Seq(DownMsgs) /\ q # <<>>
      BY <1>0, <2>1
    <3> HIDE DEF q
    <3>2. 1 \in DOMAIN q /\ Head(q) = q[1]
          /\ \A k \in DOMAIN Tail(q) : k + 1 \in DOMAIN q /\ Tail(q)[k] = q[k + 1]
      BY <3>1
    <3>3. QED
      BY <3>2 DEF q
  <2>3. Known(task'.list)
    BY <2>1, <2>2 DEF ListsInv
  <2>4. down'[conn] = Tail(down[conn]) /\ \A d \in Conns : d # conn => down'[d] = down[d]
    BY <1>0, <2>1
  <2>5. QED
    BY <1>1, <1>2, <2>1, <2>2, <2>3, <2>4, ListsSame
<1>4. CASE ReadEnd
  <2>1. task' = Bye /\ down' = down /\ Known(Bye.list)
    BY <1>4 DEF ReadEnd, wire, Known, Bye, Empty
  <2>2. QED
    BY <1>1, <1>2, <2>1, ListsSame
<1>5. CASE ~Command /\ ~ReadEnd
  <2>1. task' = task \/ task' = None
    BY <1>5 DEF SensorLoop, Connect, ConnectFails, Forward, StartCaptures, StopCaptures,
                Disconnect, SendFails, DirectSendFails, DirectDone
  <2>2. down' = down \/ down' = [down EXCEPT ![conn] = <<>>]
    BY <1>5 DEF SensorLoop, Connect, ConnectFails, Forward, StartCaptures, StopCaptures,
                Disconnect, SendFails, DirectSendFails, DirectDone, Leave, wire
  <2>3. \A c \in Conns : down'[c] = down[c] \/ down'[c] = <<>>
    BY <1>0, <2>2
  <2>4. QED
    BY <1>1, <1>2, <2>1, <2>3, ListsSame
<1>6. QED
  BY <1>3, <1>4, <1>5

LEMMA ServerLists ==
  ASSUME TypeOK, ListsInv, Web \/ \E c \in Conns : Handler(c)
  PROVE  ListsInv'
<1>0. restore \in [Conns -> Restores \cup {None}] /\ None # Corrupt
  BY SensorAssumption DEF TypeOK
<1>1. task' = task
  BY ServerLeaves DEF process
<1>2. ASSUME NEW m \in DownMsgs, WebBegin(m) PROVE ListsInv'
  <2>1. /\ web' = [conn |-> registered, step |-> "save", msg |-> m] /\ config' = Corrupt
        /\ repeated' = repeated \cup m.list.twice /\ UNCHANGED <<restore, down>>
    BY <1>2 DEF WebBegin, wire
  <2>2. Known(Saved)'
    BY <2>1 DEF Saved, Known, Empty
  <2>3. \A l : Known(l) => Known(l)'
    BY <2>1 DEF Known
  <2>4. /\ task # None => Known(task.list)'
        /\ web' # None => Known(web.msg.list)'
        /\ \A c \in Conns : restore'[c] # None => Known(restore[c].list)'
    BY <1>1, <2>1, <2>3 DEF ListsInv, Known
  <2>5. \A c \in Conns : \A k \in DOMAIN down'[c] : Known(down[c][k].list)'
    BY <2>1, <2>3 DEF ListsInv, Known
  <2>6. QED
    BY <1>1, <2>2, <2>4, <2>5 DEF ListsInv
<1>3. CASE WebSave
  <2>1. /\ web # None /\ web' = [web EXCEPT !.step = "send"] /\ config' \in {web.msg.list, None}
        /\ UNCHANGED <<restore, down, repeated>>
    BY <1>3 DEF WebSave, Saving, wire, past
  <2>2. web'.msg = web.msg
    BY <2>1, RequestParts
  <2>3. Known(web.msg.list) /\ Known(Empty)
    BY <2>1 DEF ListsInv, Known, Empty
  <2>4. Known(Saved)'
    BY <2>1, <2>3 DEF Saved, Known
  <2>5. QED
    BY <1>1, <2>1, <2>2, <2>3, <2>4, ListsSame
<1>4. CASE WebSend
  <2>1. web # None /\ web' = None /\ UNCHANGED <<restore, config, repeated>>
    BY <1>4 DEF WebSend
  <2>2. web.conn \in Conns /\ web.msg \in DownMsgs /\ Known(web.msg.list)
    BY <2>1, RequestType DEF ListsInv
  <2>3. down' = down \/ down' = Delivered(down, web.conn, <<web.msg>>)
    BY <1>4 DEF WebSend
  <2>4. \A c \in Conns : \A k \in DOMAIN down'[c] :
            Known(down'[c][k].list) \/ \E j \in DOMAIN down[c] : down'[c][k] = down[c][j]
    BY <2>2, <2>3, DownSent
  <2>5. Known(Saved)'
    BY <2>1 DEF ListsInv, Known, Saved
  <2>6. QED
    BY <1>1, <2>1, <2>4, <2>5, ListsSame
<1>5. CASE WebDisconnect
  <2>1. UNCHANGED <<restore, config, repeated, web, down>>
    BY <1>5 DEF WebDisconnect, wire
  <2>2. Known(Saved)'
    BY <2>1 DEF ListsInv, Known, Saved
  <2>3. QED
    BY <1>1, <2>1, <2>2, ListsSame
<1>6. ASSUME NEW c \in Conns, Handler(c) PROVE ListsInv'
  <2>1. UNCHANGED <<config, repeated, web>>
    <3>1. CASE SetTogether(c)
      <4>1. \E other : Mixed(c, other)
        BY <3>1 DEF SetTogether
      <4>2. QED
        BY <4>1 DEF Mixed, past
    <3>2. QED
      BY <1>6, <3>1 DEF Handler, Receive, RestoreSend, RestoreShow, Resume, HandlerEnds, past
  <2>2. Known(Saved)'
    BY <2>1 DEF ListsInv, Known, Saved
  <2>3. CASE Receive(c)
    <3>1. down' = down
      BY <2>3 DEF Receive
    <3>2. restore' = restore \/ restore' = [restore EXCEPT ![c] = [step |-> "loaded", list |-> Saved]]
      BY <2>3 DEF Receive, Restore
    <3>3. \A d \in Conns : restore'[d] = restore[d] \/ restore'[d].list = Saved
      BY <1>0, <3>2
    <3>4. \A d \in Conns : restore'[d] = restore[d] \/ Known(restore'[d].list)
      BY <3>3 DEF ListsInv
    <3>5. QED
      BY <1>1, <2>1, <2>2, <3>1, <3>4, ListsSame
  <2>4. CASE RestoreSend(c)
    <3>1. /\ restore[c] # None /\ restore' = [restore EXCEPT ![c].step = "sent"]
          /\ down' = Delivered(down, c, <<[kind |-> "start", list |-> restore[c].list]>>)
      BY <2>4 DEF RestoreSend
    <3>2. restore'[c].list = restore[c].list /\ \A d \in Conns : d # c => restore'[d] = restore[d]
      BY <1>0, <3>1, RestoreParts
    <3>3. Known(restore[c].list)
      BY <3>1 DEF ListsInv
    <3>4. \A d \in Conns : restore'[d] = restore[d] \/ Known(restore'[d].list)
      BY <3>2, <3>3
    <3> DEFINE m == [kind |-> "start", list |-> restore[c].list]
    <3>5. m \in DownMsgs /\ m.list = restore[c].list
      BY <3>1, RestoreType
    <3>6. down' = Delivered(down, c, <<m>>)
      BY <3>1
    <3> HIDE DEF m
    <3>7. \A d \in Conns : \A k \in DOMAIN down'[d] :
              Known(down'[d][k].list) \/ \E j \in DOMAIN down[d] : down'[d][k] = down[d][j]
      BY <3>3, <3>5, <3>6, DownSent
    <3>8. QED
      BY <1>1, <2>1, <2>2, <3>4, <3>7, ListsSame
  <2>5. CASE RestoreShow(c) \/ Resume(c) \/ SetTogether(c) \/ HandlerEnds(c)
    <3>1. down' = down
      BY <2>5 DEF RestoreShow, Resume, SetTogether, Mixed, HandlerEnds, wire
    <3>2. restore' = restore \/ restore' = [restore EXCEPT ![c] = None]
      BY <2>5 DEF RestoreShow, Resume, SetTogether, HandlerEnds
    <3>3. \A d \in Conns : restore'[d] = restore[d] \/ restore'[d] = None
      BY <1>0, <3>2
    <3>4. QED
      BY <1>1, <2>1, <2>2, <3>1, <3>3, ListsSame
  <2>6. QED
    BY <1>6, <2>3, <2>4, <2>5 DEF Handler
<1>7. QED
  BY <1>2, <1>3, <1>4, <1>5, <1>6, Begins DEF Web

LEMMA ListsStep ==
  ASSUME TypeOK, ConnInv, ListsInv, [Next]_vars
  PROVE  ListsInv'
<1>1. CASE UNCHANGED <<repeated, config, task, web, restore, down>>
  <2>1. Known(Saved)'
    BY <1>1 DEF ListsInv, Known, Saved
  <2>2. QED
    BY <1>1, <2>1, ListsSame
<1>2. CASE UNCHANGED vars \/ SensorStart \/ (\E i \in Ifaces : Thread(i)) \/ (\E c \in Conns : Cut(c))
  BY <1>1, <1>2 DEF vars, SensorStart, Thread, Capture, StrayCapture, Unblock, CaptureError, ThreadStops,
                    Cut, process, wire, server, past
<1>3. CASE SensorCrash \/ ServerCrash
  <2>1. /\ UNCHANGED <<repeated, config>> /\ task' \in {task, None} /\ web' \in {web, None}
        /\ restore' \in {restore, [c \in Conns |-> None]} /\ down' \in {down, [c \in Conns |-> <<>>]}
    BY <1>3 DEF SensorCrash, ServerCrash, process, server, past
  <2>2. Known(Saved)'
    BY <2>1 DEF ListsInv, Known, Saved
  <2>3. \A c \in Conns : /\ restore'[c] = restore[c] \/ restore'[c] = None
                         /\ down'[c] = down[c] \/ down'[c] = <<>>
    BY <2>1
  <2>4. QED
    BY <2>1, <2>2, <2>3, ListsSame
<1>4. QED
  BY <1>2, <1>3, LoopLists, ServerLists DEF Next

LEMMA ThreadStep ==
  ASSUME TypeOK, ThreadInv, [Next]_vars
  PROVE  ThreadInv'
  BY EndStep, StrayStep, ListsStep DEF ThreadInv

LEMMA SensorTypeInit == Init => TypeOK
<1> SUFFICES ASSUME Init PROVE TypeOK
  OBVIOUS
<1>1. /\ <<>> \in Seq(Frames) /\ Len(<<>>) <= Cap /\ Len(<<>>) <= RingCap /\ <<>> \in Seq(DownMsgs)
      /\ <<>> \in Seq(UpMsgs) /\ <<>> \in Seq(Session)
  BY SensorAssumption
<1>2. Fresh \in Session
  BY DEF Fresh, Session
<1>3. ProcessOK
  BY <1>1, Numbers, SensorAssumption DEF Init, ProcessOK, Nothing
<1>4. WireOK
  BY <1>1 DEF Init, WireOK
<1>5. ServerOK
  BY <1>1, <1>2, Numbers DEF Init, ServerOK
<1>6. PastOK
  <2>1. kicked \in BOOLEAN /\ crossed \in SUBSET Conns /\ repeated \in SUBSET Ifaces
    BY DEF Init
  <2>2. captured \in 0..MaxFrames /\ got \in Seq(Frames) /\ failed \in SUBSET Ifaces
        /\ ending \in [Conns -> {"none", "clean", "error"}]
    BY <1>1, SensorAssumption DEF Init
  <2>3. QED
    BY <2>1, <2>2 DEF PastOK
<1>7. CountsOK
  BY SensorAssumption DEF Init, CountsOK
<1>8. QED
  BY <1>3, <1>4, <1>5, <1>6, <1>7, Parts

LEMMA ThreadInit == Init => ThreadInv
<1> SUFFICES ASSUME Init PROVE ThreadInv
  OBVIOUS
<1>1. /\ phase = "off" /\ conn = 0 /\ task = None /\ web = None /\ Saved = Empty
      /\ \A c \in Conns : alive[c] = {} /\ stray[c] = {} /\ down[c] = <<>> /\ restore[c] = None
  BY Numbers DEF Init, Saved
<1>2. ConnInv /\ EndInv /\ StrayInv
  BY <1>1 DEF ConnInv, EndInv, StrayInv
<1>3. ListsInv
  BY <1>1 DEF ListsInv, Known, Empty
<1>4. QED
  BY <1>2, <1>3 DEF ThreadInv

LEMMA ThreadInvariant == Spec => [](TypeOK /\ ThreadInv)
<1>1. Init => TypeOK /\ ThreadInv
  BY SensorTypeInit, ThreadInit
<1>2. TypeOK /\ ThreadInv /\ [Next]_vars => TypeOK' /\ ThreadInv'
  BY TypeStep, ThreadStep DEF ThreadInv
<1>3. QED
  BY <1>1, <1>2, PTL DEF Spec

\* The types hold in every reachable state: the channel and the ring buffer keep their
\* limits, and a message is handled only where it can arrive.
THEOREM SensorTypeCorrect == Spec => []TypeOK
  BY ThreadInvariant, PTL

\* Whatever commands, ends of connections, capture errors and crashes interleave, a
\* capture thread outlives its connection only if a write failed on that connection, and
\* the command to stop only if an operator has named its interface twice in one list: by
\* a request on this connection, or by one on an earlier connection whose list was saved
\* and restored since.
THEOREM LeaksHaveCause == Spec => []LeakHasCause
<1>1. ThreadInv => LeakHasCause
  BY DEF ThreadInv, EndInv, StrayInv, LeakHasCause
<1>2. QED
  BY ThreadInvariant, <1>1, PTL

-----------------------------------------------------------------------------
(* The hang of stop_captures.                                              *)

LEMMA HangStep ==
  ASSUME TypeOK, ConnInv, [Next]_vars, Stuck
  PROVE  Stuck' \/ phase' = "off"
<1>1. /\ phase = "stopping" /\ Len(chan) >= Cap /\ mode = "controlled" /\ conn \in Conns
      /\ Owner = conn
  BY DEF Stuck, ConnInv, Owner
<1>2. PICK b \in alive[conn] : held[b] # None
  BY DEF Stuck
<1>3. /\ alive \in [Owners -> SUBSET Ifaces] /\ held \in [Ifaces -> Frames \cup {None}]
      /\ conn \in Owners /\ Len(chan) \in Nat /\ Cap \in Nat
  BY SensorAssumption DEF TypeOK
<1>4. ~(Len(chan) < Cap) /\ alive[conn] # {}
  BY <1>1, <1>2, <1>3
<1>5. ASSUME UNCHANGED <<phase, conn, chan>>, b \in alive'[conn], held'[b] # None
      PROVE  Stuck'
  BY <1>1, <1>5 DEF Stuck
<1>6. ASSUME NEW i \in Ifaces, Thread(i) PROVE Stuck'
  <2>1. CASE Capture(i)
    <3>1. /\ UNCHANGED <<phase, conn, chan, alive>> /\ held[i] = None
          /\ \E f : held' = [held EXCEPT ![i] = f]
      BY <2>1, <1>4 DEF Capture
    <3>2. i # b
      BY <3>1, <1>2
    <3>3. QED
      BY <1>2, <1>3, <1>5, <3>1, <3>2
  <2>2. CASE Unblock(i)
    BY <2>2, <1>4 DEF Unblock
  <2>3. CASE CaptureError(i) \/ ThreadStops(i)
    <3>1. /\ UNCHANGED <<phase, conn, chan, held>> /\ held[i] = None
          /\ alive' = [alive EXCEPT ![conn] = @ \ {i}]
      BY <2>3, <1>1 DEF CaptureError, ThreadStops
    <3>2. i # b
      BY <3>1, <1>2
    <3>3. QED
      BY <1>2, <1>3, <1>5, <3>1, <3>2
  <2>4. CASE StrayCapture(i)
    <3>1. UNCHANGED <<phase, conn, chan, alive, held>>
      BY <2>4, <1>4 DEF StrayCapture
    <3>2. QED
      BY <1>2, <1>5, <3>1
  <2>5. QED
    BY <1>6, <2>1, <2>2, <2>3, <2>4 DEF Thread
<1>7. ~SensorLoop
  BY <1>1, <1>4 DEF SensorLoop, Connect, ConnectFails, Forward, Command, ReadEnd, Joined,
       StartCaptures, StopCaptures, Disconnect, SendFails, DirectSendFails, DirectDone
<1>8. CASE UNCHANGED vars \/ Web \/ ServerCrash \/ (\E c \in Conns : Handler(c) \/ Cut(c))
  <2>1. UNCHANGED process
    BY <1>8, ServerLeaves DEF vars, ServerCrash, Cut
  <2>2. QED
    BY <1>2, <1>5, <2>1 DEF process
<1>9. CASE SensorCrash \/ SensorStart
  BY <1>1, <1>9 DEF SensorCrash, SensorStart
<1>10. QED
  BY <1>6, <1>7, <1>8, <1>9 DEF Next

\* A stop that finds one of its threads blocked on the full channel never ends, whatever
\* the operator, the network and the server do: only a kill of the sensor leaves it.
THEOREM HangsAreFinal == Spec => HangIsFinal
<1>1. TypeOK /\ ThreadInv /\ [Next]_vars => [Stuck => Stuck' \/ phase' = "off"]_vars
  BY HangStep DEF ThreadInv
<1>2. QED
  BY <1>1, ThreadInvariant, PTL DEF Spec, HangIsFinal

-----------------------------------------------------------------------------
(* One session for a name.                                                 *)

LEMMA SessionStep ==
  ASSUME TypeOK, OneSession, [Next]_vars
  PROVE  OneSession'
<1>0. handler \in [Conns -> {"none", "running", "ended"}] /\ registered \in Owners
  BY DEF TypeOK
<1>1. ASSUME UNCHANGED <<handler, registered, kicked>> PROVE OneSession'
  BY <1>1 DEF OneSession
<1>2. CASE UNCHANGED vars \/ (\E i \in Ifaces : Thread(i)) \/ SensorCrash \/ SensorStart
           \/ (\E c \in Conns : Cut(c)) \/ (Web /\ ~WebDisconnect)
  BY <1>1, <1>2 DEF vars, Thread, Capture, StrayCapture, Unblock, CaptureError, ThreadStops,
                    SensorCrash, SensorStart, Cut, Web, WebStop, WebStart, WebBegin, WebSave, WebSend,
                    server, past
<1>3. CASE ConnectFails \/ Forward \/ Command \/ ReadEnd \/ StartCaptures \/ StopCaptures
           \/ Disconnect \/ SendFails \/ DirectSendFails \/ DirectDone
  BY <1>1, <1>3 DEF ConnectFails, Forward, Command, ReadEnd, StartCaptures, StopCaptures,
                    Disconnect, SendFails, DirectSendFails, DirectDone, server, past
<1>4. CASE Connect
  <2>1. PICK c \in Conns : Accept(c)
    BY <1>4 DEF Connect
  <2>2. kicked' = kicked
    BY <1>4 DEF Connect
  <2>3. CASE registered = 0
    <3>1. handler' = [handler EXCEPT ![c] = "running"] /\ registered' = c
      BY <2>1, <2>3 DEF Accept, Register
    <3>2. QED
      BY <1>0, <2>2, <2>3, <3>1, Numbers DEF OneSession
  <2>4. CASE registered # 0
    <3>1. handler' = [handler EXCEPT ![c] = "ended"] /\ registered' = registered
      BY <2>1, <2>4 DEF Accept, Register
    <3>2. QED
      BY <1>0, <2>2, <3>1 DEF OneSession
  <2>5. QED
    BY <2>3, <2>4
<1>5. ASSUME NEW c \in Conns, HandlerEnds(c) PROVE OneSession'
  <2>1. /\ handler[c] = "running" /\ handler' = [handler EXCEPT ![c] = "ended"] /\ kicked' = kicked
    BY <1>5 DEF HandlerEnds, Reading, past
  <2>2. QED
    BY <1>0, <2>1 DEF OneSession
<1>6. CASE WebDisconnect
  BY <1>6 DEF WebDisconnect, OneSession
<1>7. CASE ServerCrash
  <2>1. handler' = [c \in Conns |-> IF link[c] = "none" THEN "none" ELSE "ended"]
    BY <1>7 DEF ServerCrash
  <2>2. QED
    BY <2>1 DEF OneSession
<1>8. ASSUME NEW c \in Conns, Handler(c), ~HandlerEnds(c) PROVE OneSession'
  <2>1. CASE SetTogether(c)
    <3>1. \E other : Mixed(c, other)
      BY <2>1 DEF SetTogether
    <3>2. QED
      BY <1>1, <3>1 DEF Mixed, past
  <2>2. QED
    BY <1>1, <1>8, <2>1 DEF Handler, Receive, RestoreSend, RestoreShow, Resume, past
<1>9. QED
  BY <1>2, <1>3, <1>4, <1>5, <1>6, <1>7, <1>8 DEF Next, SensorLoop

\* A name has one handler at most, the registered one, as long as no operator
\* disconnects the sensor.
THEOREM NameHasOneSession == Spec => []OneSession
<1>1. Init => OneSession
  BY DEF Init, OneSession
<1>2. TypeOK /\ OneSession /\ [Next]_vars => OneSession'
  BY SessionStep
<1>3. QED
  BY <1>1, <1>2, SensorTypeCorrect, PTL DEF Spec

-----------------------------------------------------------------------------
(* The sensor captures what was selected.                                  *)

\* The sensor is on the connection the server knows it by.
Live ==
    /\ mode = "controlled" /\ conn \in Conns /\ registered = conn
    /\ link[conn] = "up" /\ handler[conn] = "running"

\* What the sensor captures on once the commands under way are carried out.
Aim(c) ==
    IF down[c] # <<>> THEN down[c][Len(down[c])].list.sel
    ELSE IF phase = "stopping" THEN task.list.sel
    ELSE alive[c] \cup failed

WebOn(c)  == web # None /\ web.conn = c
Loaded(c) == restore[c] # None /\ restore[c].step = "loaded"

\* No request holds the connection, and none has crossed the restored selection.
Clean == Live /\ conn \notin crossed /\ ~WebOn(conn)

\* An unused connection has carried nothing; the one in use is not unused.
UnusedInv ==
    /\ \A c \in Conns : link[c] = "none" => /\ down[c] = <<>> /\ alive[c] = {}
                                            /\ restore[c] = None /\ handler[c] # "running"
    /\ conn \in Conns => link[conn] # "none"

\* The discovery message is the first on its connection.
FirstInv == \A c \in Conns : \A k \in DOMAIN up[c] : up[c][k].kind = "discovery" => k = 1

\* A request that has saved sends what it saved: no other can begin in between.
WebInv ==
    /\ Saving => config = Corrupt
    /\ web # None /\ ~Saving => Saved = web.msg.list

\* What a handler has loaded is still what is saved.
RestoreInv == Clean /\ Loaded(conn) => ~Saving /\ restore[conn].list.sel = Saved.sel

\* The commands under way lead to the saved selection, or will once the loaded one is
\* sent; before the discovery message they may still lead to nothing.
AimInv ==
    Clean => \/ Aim(conn) = {} /\ "discovery" \in Kinds(up[conn])
             \/ ~Saving /\ (Loaded(conn) \/ Aim(conn) = Saved.sel)

ApartInv == conn \in Conns => alive[conn] \cap failed = {}

SelectInv == UnusedInv /\ FirstInv /\ WebInv /\ RestoreInv /\ AimInv /\ ApartInv

LEMMA TailFacts ==
  ASSUME NEW S, NEW q \in Seq(S), q # <<>>
  PROVE  /\ 1 \in DOMAIN q /\ Head(q) = q[1]
         /\ \A k \in DOMAIN Tail(q) : k \in Nat /\ k + 1 \in DOMAIN q /\ k + 1 # 1 /\ Tail(q)[k] = q[k + 1]
  OBVIOUS

\* Messages of the sensor do not move the discovery message.
LEMMA UpMore ==
  ASSUME TypeOK, FirstInv, NEW c \in Conns, NEW m \in UpMsgs, m.kind # "discovery",
         up' = Delivered(up, c, <<m>>)
  PROVE  /\ FirstInv'
         /\ \A d \in Conns : "discovery" \in Kinds(up[d]) => "discovery" \in Kinds(up'[d])
<1>1. up \in [Conns -> Seq(UpMsgs)]
  BY DEF TypeOK
<1>2. CASE up' = up
  BY <1>2 DEF FirstInv
<1>3. CASE up' = [up EXCEPT ![c] = @ \o <<m>>]
  <2>1. up'[c] = up[c] \o <<m>> /\ \A d \in Conns : d # c => up'[d] = up[d]
    BY <1>1, <1>3
  <2>2. /\ DOMAIN up'[c] = DOMAIN up[c] \cup {Len(up[c]) + 1}
        /\ \A k \in DOMAIN up[c] : up'[c][k] = up[c][k]
        /\ up'[c][Len(up[c]) + 1] = m
    BY <1>1, <2>1
  <2>3. FirstInv'
    BY <2>1, <2>2 DEF FirstInv
  <2>4. QED
    BY <2>1, <2>2, <2>3 DEF Kinds
<1>4. QED
  BY <1>2, <1>3 DEF Delivered

\* A command that is sent becomes the last one under way.
LEMMA DownMore ==
  ASSUME TypeOK, NEW c \in Conns, NEW m \in DownMsgs, down' = Delivered(down, c, <<m>>)
  PROVE  /\ link[c] = "up" => down'[c] # <<>> /\ down'[c][Len(down'[c])] = m
         /\ link[c] # "up" => down' = down
         /\ \A d \in Conns : d # c => down'[d] = down[d]
<1>1. down \in [Conns -> Seq(DownMsgs)]
  BY DEF TypeOK
<1>2. link[c] # "up" => down' = down
  BY DEF Delivered
<1>3. ASSUME link[c] = "up"
      PROVE  down'[c] = down[c] \o <<m>> /\ \A d \in Conns : d # c => down'[d] = down[d]
  BY <1>1, <1>3 DEF Delivered
<1>4. link[c] = "up" => down'[c] # <<>> /\ down'[c][Len(down'[c])] = m
  BY <1>1, <1>3
<1>5. QED
  BY <1>2, <1>3, <1>4

\* A step of the sensor or the network, which leaves the server alone.
Apart == UNCHANGED <<restore, config, web, crossed>>

LEMMA AimQuiet ==
  ASSUME WebInv, RestoreInv, AimInv, Apart, Live' => Live, conn' = conn, Live' => Aim(conn)' = Aim(conn),
         Live' /\ "discovery" \in Kinds(up[conn]) => "discovery" \in Kinds(up'[conn])
  PROVE  WebInv' /\ RestoreInv' /\ AimInv'
<1>1. /\ Saved' = Saved /\ Saving' = Saving /\ Loaded(conn)' = Loaded(conn) /\ WebOn(conn)' = WebOn(conn)
      /\ restore'[conn'] = restore[conn]
  BY DEF Apart, Saved, Saving, Loaded, WebOn
<1>2. Clean' => Clean
  BY <1>1 DEF Clean, Apart
<1>3. WebInv'
  BY <1>1 DEF WebInv, Apart
<1>4. RestoreInv'
  BY <1>1, <1>2 DEF RestoreInv
<1>5. AimInv'
  BY <1>1, <1>2 DEF AimInv, Clean
<1>6. QED
  BY <1>3, <1>4, <1>5

\* Off the registered connection there is nothing to show.
LEMMA AimGone ==
  ASSUME WebInv, UNCHANGED <<config, web>> \/ web' = None, ~Live'
  PROVE  WebInv' /\ RestoreInv' /\ AimInv'
  BY DEF WebInv, RestoreInv, AimInv, Clean, Saving, Saved

\* Threads that end change nothing of what the commands lead to: one that fails is
\* still selected, and one that is told to stop follows the command.
LEMMA ThreadAim ==
  ASSUME TypeOK, NEW i \in Ifaces, Thread(i), Live
  PROVE  /\ Aim(conn)' = Aim(conn)
         /\ phase # "stopping" => /\ alive'[conn] \subseteq alive[conn]
                                  /\ alive'[conn] \cup failed' = alive[conn] \cup failed
<1>0. alive \in [Owners -> SUBSET Ifaces]
  BY DEF TypeOK
<1>1. UNCHANGED <<mode, phase, conn, task, wire, server>>
  BY DEF Thread, Capture, StrayCapture, Unblock, CaptureError, ThreadStops
<1>2. conn \in Conns /\ Owner = conn
  BY DEF Live, Owner
<1>3. CASE phase = "stopping"
  BY <1>1, <1>3 DEF Aim, wire
<1>4. CASE phase # "stopping"
  <2>1. \/ alive' = alive /\ failed' = failed
        \/ (failed' = failed \cup {i} /\ i \in alive[conn] /\ alive' = [alive EXCEPT ![conn] = @ \ {i}])
    BY <1>2, <1>4 DEF Thread, Capture, StrayCapture, Unblock, CaptureError, ThreadStops, past
  <2>2. alive'[conn] \subseteq alive[conn] /\ alive'[conn] \cup failed' = alive[conn] \cup failed
    BY <1>0, <1>2, <2>1, Numbers
  <2>3. QED
    BY <1>1, <2>2 DEF Aim, wire
<1>5. QED
  BY <1>3, <1>4

\* A command that is taken up keeps the aim, also when it was the last one.
LEMMA CommandAim ==
  ASSUME TypeOK, ConnInv, Command
  PROVE  Aim(conn)' = Aim(conn)
<1>1. /\ conn' = conn /\ conn \in Conns /\ task' = Head(down[conn])
      /\ down' = [down EXCEPT ![conn] = Tail(@)] /\ phase' = "stopping" /\ down[conn] # <<>>
  BY DEF Command, ConnInv
<1> DEFINE q == down[conn]
<1>2. down'[conn] = Tail(q) /\ q \in Seq(DownMsgs) /\ q # <<>>
  BY <1>1 DEF TypeOK
<1> HIDE DEF q
<1>3. CASE Tail(q) = <<>>
  <2>1. Len(q) = 1 /\ Head(q) = q[1]
    <3>1. Len(Tail(q)) = Len(q) - 1 /\ Len(q) \in Nat /\ Head(q) = q[1]
      BY <1>2
    <3>2. Len(Tail(q)) = 0
      BY <1>3, Len(<<>>) = 0
    <3>3. QED
      BY <3>1, <3>2
  <2>2. QED
    BY <1>1, <1>2, <1>3, <2>1 DEF Aim, q
<1>4. CASE Tail(q) # <<>>
  <2>1. Tail(q)[Len(Tail(q))] = q[Len(q)]
    BY <1>2, <1>4
  <2>2. QED
    BY <1>1, <1>2, <1>4, <2>1 DEF Aim, q
<1>5. QED
  BY <1>3, <1>4

LEMMA ThreadSelect ==
  ASSUME TypeOK, ConnInv, SelectInv, NEW i \in Ifaces, Thread(i)
  PROVE  SelectInv'
<1> USE DEF SelectInv
<1>0. alive \in [Owners -> SUBSET Ifaces] /\ conn \in Owners
  BY DEF TypeOK
<1>1. UNCHANGED <<mode, phase, conn, task, wire, server>>
  BY DEF Thread, Capture, StrayCapture, Unblock, CaptureError, ThreadStops
<1>2. /\ \/ alive' = alive
         \/ alive' = [alive EXCEPT ![Owner] = @ \ {i}]
         \/ alive' = [alive EXCEPT ![conn] = @ \ {i}]
      /\ failed' = failed \/ (failed' = failed \cup {i} /\ i \in alive[Owner]
                              /\ alive' = [alive EXCEPT ![Owner] = @ \ {i}])
  BY DEF Thread, Capture, StrayCapture, Unblock, CaptureError, ThreadStops, past
<1>3. \A c \in Conns : alive'[c] \subseteq alive[c]
  BY <1>0, <1>2, Numbers
<1>4. UnusedInv' /\ FirstInv'
  BY <1>1, <1>3 DEF UnusedInv, FirstInv, wire, server
<1>5. ASSUME conn \in Conns
      PROVE  /\ mode = "direct" => Owner = 0 /\ alive[conn] = {}
             /\ mode # "direct" => Owner = conn
  BY <1>5 DEF Owner, ConnInv
<1>6. ApartInv'
  <2>1. SUFFICES ASSUME conn \in Conns PROVE alive'[conn] \cap failed' = {}
    BY <1>1 DEF ApartInv
  <2>2. alive[conn] \cap failed = {}
    BY <2>1 DEF ApartInv
  <2>3. CASE failed' = failed
    BY <1>3, <2>1, <2>2, <2>3
  <2>4. CASE failed' = failed \cup {i} /\ alive' = [alive EXCEPT ![Owner] = @ \ {i}]
    BY <1>0, <1>3, <1>5, <2>1, <2>2, <2>4, Numbers
  <2>5. QED
    BY <1>2, <2>3, <2>4
<1>7. ASSUME Live PROVE Aim(conn)' = Aim(conn)
  BY <1>7, ThreadAim
<1>8. Live' => Live
  BY <1>1 DEF Live, wire, server
<1>9. Apart
  BY DEF Thread, Capture, StrayCapture, Unblock, CaptureError, ThreadStops, Apart, server, past
<1>10. WebInv' /\ RestoreInv' /\ AimInv'
  BY <1>1, <1>7, <1>8, <1>9, AimQuiet DEF wire
<1>11. QED
  BY <1>4, <1>6, <1>10

LEMMA LoopSelect ==
  ASSUME TypeOK, ConnInv, SelectInv, SensorLoop
  PROVE  SelectInv'
<1> USE DEF SelectInv
<1>0. /\ alive \in [Owners -> SUBSET Ifaces] /\ conn \in Owners
      /\ up \in [Conns -> Seq(UpMsgs)] /\ down \in [Conns -> Seq(DownMsgs)]
      /\ link \in [Conns -> {"none", "up", "cut"}] /\ handler \in [Conns -> {"none", "running", "ended"}]
  BY DEF TypeOK
<1>a. Apart
  BY DEF SensorLoop, Connect, ConnectFails, Forward, Command, ReadEnd, StartCaptures, StopCaptures,
         Disconnect, SendFails, DirectSendFails, DirectDone, Apart, server, past
<1>1. CASE Connect
  <2>1. PICK c \in Conns : link[c] = "none" /\ conn' = c /\ Accept(c)
    BY <1>1 DEF Connect
  <2>2. phase' = "open" /\ failed' = {} /\ UNCHANGED <<mode, alive, task, down, config>>
    BY <1>1 DEF Connect
  <2>3. link'[c] \in {"up", "cut"} /\ \A d \in Conns : d # c => link'[d] = link[d]
    BY <1>0, <2>1 DEF Accept
  <2>4. alive[c] = {} /\ down[c] = <<>> /\ restore'[c] = None
    BY <1>a, <2>1 DEF UnusedInv, Apart
  <2>5. UnusedInv'
    <3>1. \A d \in Conns : d # c => handler'[d] = handler[d]
      BY <1>0, <2>1 DEF Accept
    <3>2. QED
      BY <1>a, <2>1, <2>2, <2>3, <3>1 DEF UnusedInv, Apart
  <2>6. up' = up \/ up' = [up EXCEPT ![c] = <<[kind |-> "discovery"]>>]
    BY <2>1 DEF Accept
  <2>7. FirstInv'
    <3>1. \A k \in DOMAIN <<[kind |-> "discovery"]>> : k = 1
      OBVIOUS
    <3>2. QED
      BY <1>0, <2>6, <3>1 DEF FirstInv
  <2>8. ApartInv'
    BY <2>1, <2>2, <2>4 DEF ApartInv
  <2>9. AimInv'
    <3>1. SUFFICES ASSUME Clean' PROVE Aim(conn)' = {} /\ "discovery" \in Kinds(up[conn])'
      BY DEF AimInv
    <3>2. Aim(conn)' = {}
      BY <2>1, <2>2, <2>4 DEF Aim
    <3>3. up' = [up EXCEPT ![c] = <<[kind |-> "discovery"]>>]
      <4>1. link'[c] = "up"
        BY <2>1, <3>1 DEF Clean, Live
      <4>2. QED
        BY <1>0, <2>1, <4>1 DEF Accept
    <3>4. up'[c] = <<[kind |-> "discovery"]>>
      BY <1>0, <3>3
    <3>5. 1 \in DOMAIN up'[c] /\ up'[c][1].kind = "discovery"
      BY <3>4
    <3>6. "discovery" \in Kinds(up[conn])'
      BY <2>1, <3>5 DEF Kinds
    <3>7. QED
      BY <3>2, <3>6
  <2>10. RestoreInv' /\ WebInv'
    BY <1>a, <2>1, <2>4 DEF RestoreInv, Loaded, WebInv, Apart, Saving, Saved
  <2>11. QED
    BY <2>5, <2>7, <2>8, <2>9, <2>10
<1>2. CASE ConnectFails
  <2>1. UNCHANGED <<mode, phase, conn, alive, task, wire, server, failed>>
    BY <1>2 DEF ConnectFails, past
  <2>2. Live' => Live
    BY <2>1 DEF Live, wire, server
  <2>3. WebInv' /\ RestoreInv' /\ AimInv'
    BY <1>a, <2>1, <2>2, AimQuiet DEF wire, Aim
  <2>4. QED
    BY <2>1, <2>3 DEF UnusedInv, FirstInv, ApartInv, wire, server
<1>3. CASE Forward
  <2>1. UNCHANGED <<mode, phase, conn, alive, task, link, down, server, failed>> /\ conn \in Conns
    BY <1>3 DEF Forward, past, ConnInv
  <2>2. PICK f \in Frames : up' = Delivered(up, conn, <<[kind |-> "frame", frame |-> f]>>)
    <3>1. drain \in Seq(Frames) /\ chan \in Seq(Frames)
      BY DEF TypeOK
    <3>2. (drain # <<>> => Head(drain) \in Frames) /\ (chan # <<>> => Head(chan) \in Frames)
      BY <3>1
    <3>3. QED
      BY <1>3, <3>2 DEF Forward
  <2>3. FirstInv' /\ \A d \in Conns : "discovery" \in Kinds(up[d]) => "discovery" \in Kinds(up'[d])
    BY <2>1, <2>2, UpMore, FrameMsg
  <2>4. Live' => Live
    BY <2>1 DEF Live, server
  <2>5. WebInv' /\ RestoreInv' /\ AimInv'
    BY <1>a, <2>1, <2>3, <2>4, AimQuiet DEF Aim
  <2>6. QED
    BY <2>1, <2>3, <2>5 DEF UnusedInv, ApartInv, server
<1>4. CASE Command
  <2>1. /\ UNCHANGED <<mode, conn, alive, link, up, server, failed>> /\ conn \in Conns
        /\ task' = Head(down[conn]) /\ down' = [down EXCEPT ![conn] = Tail(@)]
        /\ phase' = "stopping" /\ down[conn] # <<>>
    BY <1>4 DEF Command, past, ConnInv
  <2>2. down'[conn] = Tail(down[conn]) /\ \A d \in Conns : d # conn => down'[d] = down[d]
    BY <1>0, <2>1
  <2>3. UnusedInv' /\ FirstInv' /\ ApartInv'
    BY <2>1, <2>2 DEF UnusedInv, FirstInv, ApartInv, server
  <2>4. Aim(conn)' = Aim(conn)
    BY <1>4, CommandAim
  <2>5. Live' => Live
    BY <2>1 DEF Live, server
  <2>6. WebInv' /\ RestoreInv' /\ AimInv'
    BY <1>a, <2>1, <2>4, <2>5, AimQuiet
  <2>7. QED
    BY <2>3, <2>6
<1>5. CASE ReadEnd
  <2>1. UNCHANGED <<mode, conn, alive, wire, server, failed>> /\ link[conn] = "cut"
    BY <1>5 DEF ReadEnd, past
  <2>2. ~Live'
    BY <2>1 DEF Live, wire
  <2>3. WebInv' /\ RestoreInv' /\ AimInv'
    BY <1>a, <2>2, AimGone DEF Apart
  <2>4. QED
    BY <2>1, <2>3 DEF UnusedInv, FirstInv, ApartInv, wire, server
<1>6. CASE StartCaptures
  <2>1. /\ phase = "stopping" /\ task # None /\ conn \in Conns
        /\ UNCHANGED <<mode, conn, link, down, server>> /\ phase' = "open"
    BY <1>6 DEF StartCaptures, Joined, ConnInv
  <2>2. PICK ok \in SUBSET task.list.sel :
          /\ alive' = [alive EXCEPT ![conn] = ok] /\ failed' = task.list.sel \ ok
          /\ up' = Delivered(up, conn, <<[kind |-> "capturing", sel |-> ok]>>)
    BY <1>6 DEF StartCaptures, CaptureStatus
  <2>3. ok \in SUBSET Ifaces
    BY <2>1, <2>2, CommandList, ListParts DEF TypeOK
  <2>4. FirstInv' /\ \A d \in Conns : "discovery" \in Kinds(up[d]) => "discovery" \in Kinds(up'[d])
    BY <2>1, <2>2, <2>3, UpMore, StatusMsg
  <2>5. alive'[conn] = ok /\ \A c \in Conns : c # conn => alive'[c] = alive[c]
    BY <1>0, <2>2, Numbers
  <2>6. UnusedInv' /\ ApartInv'
    BY <2>1, <2>2, <2>5 DEF UnusedInv, ApartInv, server
  <2>7. alive'[conn] \cup failed' = task.list.sel
    BY <2>2, <2>5
  <2>8. Aim(conn)' = Aim(conn)
    BY <2>1, <2>7 DEF Aim
  <2>9. Live' => Live
    BY <2>1 DEF Live, server
  <2>10. WebInv' /\ RestoreInv' /\ AimInv'
    BY <1>a, <2>1, <2>4, <2>8, <2>9, AimQuiet
  <2>11. QED
    BY <2>4, <2>6, <2>10
<1>7. CASE StopCaptures
  <2>1. /\ phase = "stopping" /\ task # None /\ conn \in Conns /\ task.kind = "stop" /\ alive[conn] = {}
        /\ UNCHANGED <<mode, conn, alive, link, down, server>> /\ phase' = "open" /\ failed' = {}
        /\ up' = Delivered(up, conn, <<[kind |-> "idle", sel |-> {}]>>)
    BY <1>7 DEF StopCaptures, Joined, ConnInv, CaptureStatus
  <2>2. task.list.sel = {}
    BY <2>1, CommandList, ListParts DEF TypeOK
  <2>3. FirstInv' /\ \A d \in Conns : "discovery" \in Kinds(up[d]) => "discovery" \in Kinds(up'[d])
    BY <2>1, UpMore, StatusMsg
  <2>4. UnusedInv' /\ ApartInv'
    BY <2>1 DEF UnusedInv, ApartInv, server
  <2>5. Aim(conn)' = Aim(conn)
    BY <2>1, <2>2 DEF Aim
  <2>6. Live' => Live
    BY <2>1 DEF Live, server
  <2>7. WebInv' /\ RestoreInv' /\ AimInv'
    BY <1>a, <2>1, <2>3, <2>5, <2>6, AimQuiet
  <2>8. QED
    BY <2>3, <2>4, <2>7
<1>8. ASSUME NEW to, NEW how, Leave(to, how), conn \in Conns, UNCHANGED <<alive, up, handler>> PROVE SelectInv'
  <2>1. /\ conn' = 0 /\ link' = [link EXCEPT ![conn] = "cut"] /\ down' = [down EXCEPT ![conn] = <<>>]
    BY <1>8 DEF Leave
  <2>2. WebInv' /\ RestoreInv' /\ AimInv'
    BY <1>a, <2>1, Numbers, AimGone DEF Live, Apart
  <2>3. QED
    BY <1>0, <1>8, <1>a, <2>1, <2>2, Numbers DEF UnusedInv, FirstInv, ApartInv, Apart
<1>9. CASE Disconnect \/ SendFails \/ DirectSendFails \/ DirectDone
  <2>1. conn \in Conns
    BY <1>9 DEF Disconnect, SendFails, DirectSendFails, DirectDone, Joined, ConnInv
  <2>2. UNCHANGED <<alive, up, handler>>
    BY <1>9 DEF Disconnect, SendFails, DirectSendFails, DirectDone, server
  <2>3. \E to, how : Leave(to, how)
    BY <1>9 DEF Disconnect, SendFails, DirectSendFails, DirectDone
  <2>4. QED
    BY <1>8, <2>1, <2>2, <2>3
<1>10. QED
  BY <1>1, <1>2, <1>3, <1>4, <1>5, <1>6, <1>7, <1>9 DEF SensorLoop

\* A message that is received and is not the first, or not the discovery.
LEMMA UpLess ==
  ASSUME TypeOK, FirstInv, NEW c \in Conns, up[c] # <<>>, up' = [up EXCEPT ![c] = Tail(@)]
  PROVE  /\ FirstInv' /\ "discovery" \notin Kinds(up'[c])
         /\ \A d \in Conns : d # c => up'[d] = up[d]
         /\ Head(up[c]).kind # "discovery" => "discovery" \notin Kinds(up[c])
<1>0. up \in [Conns -> Seq(UpMsgs)]
  BY DEF TypeOK
<1>1. up'[c] = Tail(up[c]) /\ \A d \in Conns : d # c => up'[d] = up[d]
  BY <1>0
<1>2. up[c] \in Seq(UpMsgs)
  BY <1>0
<1>3. /\ 1 \in DOMAIN up[c] /\ Head(up[c]) = up[c][1]
      /\ \A k \in DOMAIN Tail(up[c]) : k \in Nat /\ k + 1 \in DOMAIN up[c] /\ k + 1 # 1
                                       /\ Tail(up[c])[k] = up[c][k + 1]
  BY <1>2, TailFacts
<1>4. \A k \in DOMAIN up'[c] : up'[c][k].kind # "discovery"
  <2>1. \A k \in DOMAIN up'[c] : k + 1 \in DOMAIN up[c] /\ k + 1 # 1 /\ up'[c][k] = up[c][k + 1]
    BY <1>1, <1>3
  <2>2. QED
    BY <2>1 DEF FirstInv
<1>5. FirstInv'
  BY <1>1, <1>4 DEF FirstInv
<1>6. Head(up[c]).kind # "discovery" => "discovery" \notin Kinds(up[c])
  BY <1>3 DEF Kinds, FirstInv
<1>7. QED
  BY <1>1, <1>4, <1>5, <1>6 DEF Kinds

\* What a handler does on another connection, or without a command.
LEMMA AimAside ==
  ASSUME WebInv, RestoreInv, AimInv, UNCHANGED <<config, web>>, crossed \subseteq crossed',
         Live' => Live, conn' = conn, Live' => Aim(conn)' = Aim(conn),
         Live' => Loaded(conn)' = Loaded(conn) /\ (Loaded(conn) => restore'[conn] = restore[conn]),
         Live' /\ "discovery" \in Kinds(up[conn]) => "discovery" \in Kinds(up'[conn])
  PROVE  WebInv' /\ RestoreInv' /\ AimInv'
<1>1. Saved' = Saved /\ Saving' = Saving /\ WebOn(conn)' = WebOn(conn)
  BY DEF Saved, Saving, WebOn
<1>2. Clean' => Clean /\ Live'
  BY <1>1 DEF Clean
<1>3. WebInv'
  BY <1>1 DEF WebInv
<1>4. RestoreInv'
  BY <1>1, <1>2 DEF RestoreInv
<1>5. AimInv'
  BY <1>1, <1>2 DEF AimInv
<1>6. QED
  BY <1>3, <1>4, <1>5

LEMMA ReceiveSelect ==
  ASSUME TypeOK, SelectInv, NEW c \in Conns, Receive(c)
  PROVE  SelectInv'
<1> USE DEF SelectInv
<1>0. restore \in [Conns -> Restores \cup {None}] /\ None \notin Restores
  BY SensorAssumption DEF TypeOK
<1>1. /\ UNCHANGED <<mode, phase, conn, alive, task, link, down, handler, registered, failed, config, web>>
      /\ up[c] # <<>> /\ up' = [up EXCEPT ![c] = Tail(@)]
      /\ handler[c] = "running" /\ restore[c] = None
  BY DEF Receive, Reading, process
<1>2. /\ FirstInv' /\ "discovery" \notin Kinds(up'[c]) /\ \A d \in Conns : d # c => up'[d] = up[d]
      /\ Head(up[c]).kind # "discovery" => "discovery" \notin Kinds(up[c])
  BY <1>1, UpLess
<1>3. ApartInv' /\ (Live' => Live) /\ Aim(conn)' = Aim(conn) /\ ~Loaded(c)
  BY <1>1 DEF ApartInv, Live, Aim, Loaded
<1>4. \/ Head(up[c]).kind = "discovery" /\ Restore(c)
      \/ Head(up[c]).kind # "discovery" /\ UNCHANGED <<restore, crossed>>
  BY DEF Receive
<1>5. crossed \subseteq crossed' /\ \A d \in Conns : d # c => restore'[d] = restore[d]
  BY <1>0, <1>4 DEF Restore
<1>6. UnusedInv'
  <2>1. link[c] # "none"
    BY <1>1 DEF UnusedInv
  <2>2. QED
    BY <1>1, <1>5, <2>1 DEF UnusedInv
<1>7. WebInv' /\ RestoreInv' /\ AimInv'
  <2>1. CASE Head(up[c]).kind # "discovery" \/ conn # c
    <3>1. Live' /\ "discovery" \in Kinds(up[conn]) => "discovery" \in Kinds(up'[conn])
      <4>1. CASE conn # c
        BY <1>2, <1>3, <4>1 DEF Live
      <4>2. CASE conn = c
        BY <1>2, <2>1, <4>2
      <4>3. QED
        BY <4>1, <4>2
    <3>2. Live' => restore'[conn] = restore[conn]
      <4>1. Live' => conn \in Conns
        BY <1>3 DEF Live
      <4>2. QED
        BY <1>4, <1>5, <2>1, <4>1
    <3>3. Live' => Loaded(conn)' = Loaded(conn)
      BY <1>1, <3>2 DEF Loaded
    <3>4. QED
      BY <1>1, <1>3, <1>5, <3>1, <3>2, <3>3, AimAside
  <2>2. CASE Head(up[c]).kind = "discovery" /\ conn = c
    <3>1. Restore(c) /\ Saved' = Saved /\ Saving' = Saving /\ WebOn(c)' = WebOn(c)
      BY <1>1, <1>4, <2>2 DEF Saved, Saving, WebOn
    <3>2. ASSUME Clean' PROVE Clean /\ ~Saving
      <4>1. Clean
        BY <1>1, <1>3, <1>5, <2>2, <3>1, <3>2 DEF Clean
      <4>2. c \notin crossed' /\ ~WebOn(c)
        BY <1>1, <2>2, <3>1, <3>2 DEF Clean
      <4>3. QED
        BY <3>1, <4>1, <4>2 DEF Restore, WebOn, Saving
    <3>3. CASE Saved.sel = {}
      <4>1. restore' = restore /\ ~Loaded(c)'
        BY <1>1, <3>1, <3>3 DEF Restore, Loaded
      <4>2. ASSUME Clean' PROVE Aim(c) = Saved.sel
        BY <1>3, <2>2, <3>2, <3>3, <4>2 DEF AimInv
      <4>3. QED
        BY <1>1, <1>3, <2>2, <3>1, <3>2, <4>1, <4>2 DEF WebInv, RestoreInv, AimInv
    <3>4. CASE Saved.sel # {}
      <4>1. [step |-> "loaded", list |-> Saved] \in Restores
        BY SavedType DEF Restores
      <4>2. restore'[c] = [step |-> "loaded", list |-> Saved]
        BY <1>0, <3>1, <3>4 DEF Restore
      <4>3. Loaded(c)' /\ restore'[c].list = Saved
        BY <1>0, <4>1, <4>2 DEF Loaded
      <4>4. QED
        BY <1>1, <2>2, <3>1, <3>2, <4>3 DEF WebInv, RestoreInv, AimInv
    <3>5. QED
      BY <3>3, <3>4
  <2>3. QED
    BY <2>1, <2>2
<1>8. QED
  BY <1>2, <1>3, <1>6, <1>7

LEMMA RestoreSelect ==
  ASSUME TypeOK, SelectInv, NEW c \in Conns, RestoreSend(c)
  PROVE  SelectInv'
<1> USE DEF SelectInv
<1> DEFINE m == [kind |-> "start", list |-> restore[c].list]
<1>1. /\ UNCHANGED <<mode, phase, conn, alive, task, link, up, handler, registered, failed, config, web, crossed>>
      /\ restore[c] # None /\ Loaded(c) /\ restore' = [restore EXCEPT ![c].step = "sent"]
      /\ down' = Delivered(down, c, <<m>>)
  BY DEF RestoreSend, process, past, Loaded
<1>2. m \in DownMsgs /\ m.list = restore[c].list
  BY <1>1, RestoreType
<1> HIDE DEF m
<1>3. ~Loaded(c)' /\ \A d \in Conns : d # c => restore'[d] = restore[d]
  <2>0. restore[c] # None /\ restore' = [restore EXCEPT ![c].step = "sent"]
    BY <1>1
  <2>1. restore'[c].step = "sent" /\ \A d \in Conns : d # c => restore'[d] = restore[d]
    BY <2>0, RestoreParts
  <2>2. QED
    BY <2>1 DEF Loaded
<1>4. /\ link[c] = "up" => down'[c] # <<>> /\ down'[c][Len(down'[c])] = m
      /\ link[c] # "up" => down' = down
      /\ \A d \in Conns : d # c => down'[d] = down[d]
  BY <1>1, <1>2, DownMore
<1>5. UnusedInv' /\ FirstInv' /\ ApartInv'
  <2>1. link[c] # "none"
    BY <1>1 DEF UnusedInv
  <2>2. QED
    BY <1>1, <1>3, <1>4, <2>1 DEF UnusedInv, FirstInv, ApartInv
<1>6. Live' => Live
  BY <1>1 DEF Live
<1>7. CASE conn # c
  <2>1. Live' => /\ Aim(conn)' = Aim(conn) /\ restore'[conn] = restore[conn]
                 /\ Loaded(conn)' = Loaded(conn)
    BY <1>1, <1>3, <1>4, <1>6, <1>7 DEF Live, Aim, Loaded
  <2>2. QED
    BY <1>1, <1>5, <1>6, <2>1, AimAside
<1>8. CASE conn = c
  <2>1. Saved' = Saved /\ Saving' = Saving /\ (Clean' => Clean) /\ WebInv'
    BY <1>1, <1>6 DEF Saved, Saving, Clean, WebOn, WebInv
  <2>2. ASSUME Clean' PROVE ~Saving /\ Aim(c)' = Saved.sel
    <3>1. ~Saving /\ restore[c].list.sel = Saved.sel
      BY <1>1, <1>8, <2>1, <2>2 DEF RestoreInv
    <3>2. link[c] = "up"
      BY <1>8, <2>1, <2>2 DEF Clean, Live
    <3>3. Aim(c)' = m.list.sel
      BY <1>4, <3>2 DEF Aim
    <3>4. QED
      BY <1>2, <3>1, <3>3
  <2>3. RestoreInv' /\ AimInv'
    BY <1>1, <1>3, <1>8, <2>1, <2>2 DEF RestoreInv, AimInv
  <2>4. QED
    BY <1>5, <2>1, <2>3
<1>9. QED
  BY <1>7, <1>8

LEMMA HandlerSelect ==
  ASSUME TypeOK, SelectInv, NEW c \in Conns, Handler(c)
  PROVE  SelectInv'
<1> USE DEF SelectInv
<1>0. /\ up \in [Conns -> Seq(UpMsgs)] /\ restore \in [Conns -> Restores \cup {None}]
      /\ handler \in [Conns -> {"none", "running", "ended"}]
  BY DEF TypeOK
<1>1. CASE RestoreShow(c) \/ Resume(c) \/ SetTogether(c)
  <2>1. UNCHANGED <<mode, phase, conn, alive, task, link, down, handler, registered, failed, config, web, crossed>>
    <3>1. CASE SetTogether(c)
      <4>1. \E other : Mixed(c, other)
        BY <3>1 DEF SetTogether
      <4>2. QED
        BY <4>1 DEF Mixed, process, past
    <3>2. QED
      BY <1>1, <3>1 DEF RestoreShow, Resume, process, wire, past
  <2>2. \/ restore' = restore
        \/ restore[c].step = "sent" /\ restore' = [restore EXCEPT ![c] = None]
    BY <1>1 DEF RestoreShow, Resume, SetTogether
  <2>3. \/ up' = up
        \/ up[c] # <<>> /\ up' = [up EXCEPT ![c] = Tail(@)] /\ Head(up[c]).kind # "discovery"
    BY <1>1 DEF RestoreShow, Resume, SetTogether, wire
  <2>4. FirstInv' /\ \A d \in Conns : "discovery" \in Kinds(up[d]) => "discovery" \in Kinds(up'[d])
    <3>1. CASE up' = up
      BY <3>1 DEF FirstInv
    <3>2. CASE up[c] # <<>> /\ up' = [up EXCEPT ![c] = Tail(@)] /\ Head(up[c]).kind # "discovery"
      BY <3>2, UpLess
    <3>3. QED
      BY <2>3, <3>1, <3>2
  <2>5. \A d \in Conns : /\ restore'[d] = restore[d] \/ restore'[d] = None
                         /\ Loaded(d)' = Loaded(d)
                         /\ Loaded(d) => restore'[d] = restore[d]
    BY <1>0, <2>2 DEF Loaded
  <2>6. UnusedInv' /\ ApartInv'
    BY <2>1, <2>5 DEF UnusedInv, ApartInv
  <2>7. (Live' => Live) /\ Aim(conn)' = Aim(conn)
    BY <2>1 DEF Live, Aim
  <2>8. Live' => conn \in Conns
    BY <2>7 DEF Live
  <2>9. Live' => Loaded(conn)' = Loaded(conn) /\ (Loaded(conn) => restore'[conn] = restore[conn])
    BY <2>1, <2>5, <2>8 DEF Loaded
  <2>10. WebInv' /\ RestoreInv' /\ AimInv'
    BY <2>1, <2>4, <2>7, <2>8, <2>9, AimAside
  <2>11. QED
    BY <2>4, <2>6, <2>10
<1>2. CASE HandlerEnds(c)
  <2>1. /\ UNCHANGED <<conn, alive, link, down, failed, config, web, restore>> /\ registered' = 0
        /\ up' = [up EXCEPT ![c] = <<>>] /\ handler' = [handler EXCEPT ![c] = "ended"]
    BY <1>2 DEF HandlerEnds, process, past
  <2>2. ~Live'
    BY <2>1, Numbers DEF Live
  <2>3. FirstInv'
    BY <1>0, <2>1 DEF FirstInv
  <2>4. WebInv' /\ RestoreInv' /\ AimInv'
    BY <2>1, <2>2, AimGone
  <2>5. QED
    BY <1>0, <2>1, <2>3, <2>4 DEF UnusedInv, ApartInv
<1>3. QED
  BY <1>1, <1>2, ReceiveSelect, RestoreSelect DEF Handler

LEMMA WebSelect ==
  ASSUME TypeOK, SelectInv, Web
  PROVE  SelectInv'
<1> USE DEF SelectInv
<1>1. UNCHANGED <<mode, phase, conn, alive, task, link, failed>> /\ UNCHANGED <<up, handler, restore>>
  BY ServerLeaves DEF process, Web, WebStart, WebStop, WebBegin, WebSave, WebSend, WebDisconnect, wire
<1>2. ApartInv' /\ FirstInv'
  BY <1>1 DEF ApartInv, FirstInv
<1>3. ASSUME NEW m \in DownMsgs, WebBegin(m) PROVE SelectInv'
  <2>1. /\ web' = [conn |-> registered, step |-> "save", msg |-> m] /\ config' = Corrupt
        /\ UNCHANGED <<down, registered>> /\ registered # 0
    BY <1>3 DEF WebBegin, wire
  <2>2. registered \in Conns
    BY <2>1, Numbers DEF TypeOK
  <2>3. web' \in Requests
    BY <2>1, <2>2 DEF Requests
  <2>4. web' # None /\ web'.conn = registered /\ web'.step = "save"
    BY <2>1, <2>3, SensorAssumption
  <2>5. WebInv' /\ ~Clean'
    BY <1>1, <2>1, <2>4 DEF WebInv, Saving, Clean, Live, WebOn
  <2>6. QED
    BY <1>1, <1>2, <2>1, <2>5 DEF UnusedInv, RestoreInv, AimInv
<1>4. CASE WebSave
  <2>1. /\ Saving /\ web # None /\ web' = [web EXCEPT !.step = "send"]
        /\ config' = IF web.msg.kind = "start" THEN web.msg.list ELSE None
        /\ UNCHANGED <<down, registered, crossed>>
    BY <1>4 DEF WebSave, Saving, wire, past
  <2>2. web' # None /\ web'.step = "send" /\ web'.conn = web.conn /\ web'.msg = web.msg
    BY <2>1, RequestParts
  <2>3. web.msg.list \in Lists /\ (web.msg.kind # "start" => web.msg.list = Empty)
    BY <2>1, RequestType, DownList, CommandList
  <2>4. Saved' = web.msg.list /\ ~Saving'
    BY <2>1, <2>2, <2>3, SensorAssumption DEF Saved, Saving
  <2>5. (Clean' => Clean) /\ Aim(conn)' = Aim(conn) /\ Loaded(conn)' = Loaded(conn)
    BY <1>1, <2>1, <2>2 DEF Clean, Live, WebOn, Aim, Loaded
  <2>6. ASSUME Clean' PROVE ~Loaded(conn) /\ Aim(conn) = {} /\ "discovery" \in Kinds(up[conn])
    BY <2>1, <2>5, <2>6 DEF RestoreInv, AimInv
  <2>7. WebInv' /\ RestoreInv' /\ AimInv'
    BY <1>1, <2>2, <2>4, <2>5, <2>6 DEF WebInv, RestoreInv, AimInv
  <2>8. QED
    BY <1>1, <1>2, <2>1, <2>7 DEF UnusedInv
<1>5. CASE WebSend
  <2>0. PICK c \in Conns, m \in DownMsgs : web # None /\ c = web.conn /\ m = web.msg
    BY <1>5, RequestType DEF WebSend
  <2>1. /\ web # None /\ web.step = "send" /\ web' = None /\ UNCHANGED <<registered, config>>
        /\ handler[c] = "running" => down' = Delivered(down, c, <<m>>)
        /\ handler[c] # "running" => down' = down
        /\ crossed \subseteq crossed'
        /\ handler[c] = "running" /\ Loaded(c) /\ restore[c].list.sel # m.list.sel => c \in crossed'
    BY <1>5, <2>0 DEF WebSend, Loaded
  <2>3. ~Saving /\ ~Saving' /\ Saved = m.list /\ Saved' = Saved
    BY <2>0, <2>1 DEF WebInv, Saving, Saved
  <2>4. /\ handler[c] = "running" /\ link[c] = "up" => down'[c] # <<>> /\ down'[c][Len(down'[c])] = m
        /\ link[c] # "up" => down' = down
        /\ \A d \in Conns : d # c => down'[d] = down[d]
    BY <2>1, DownMore
  <2>5. UnusedInv'
    BY <1>1, <2>4 DEF UnusedInv
  <2>6. WebInv' /\ (Live' => Live) /\ Loaded(conn)' = Loaded(conn)
    BY <1>1, <2>1 DEF WebInv, Saving, Live, Loaded
  <2>7. CASE conn # c
    <3>1. Live' => Aim(conn)' = Aim(conn)
      BY <1>1, <2>4, <2>6, <2>7 DEF Live, Aim
    <3>2. Clean' => Clean /\ Live'
      BY <1>1, <2>0, <2>1, <2>6, <2>7 DEF Clean, WebOn
    <3>3. RestoreInv' /\ AimInv'
      BY <1>1, <2>3, <2>6, <3>1, <3>2 DEF RestoreInv, AimInv
    <3>4. QED
      BY <1>2, <2>5, <2>6, <3>3
  <2>8. CASE conn = c
    <3>1. ASSUME Clean' PROVE Aim(c)' = Saved.sel /\ (Loaded(c) => restore[c].list.sel = Saved.sel)
      <4>1. handler[c] = "running" /\ link[c] = "up" /\ c \notin crossed'
        BY <1>1, <2>6, <2>8, <3>1 DEF Clean, Live
      <4>2. Aim(c)' = m.list.sel
        BY <2>4, <4>1 DEF Aim
      <4>3. QED
        BY <2>1, <2>3, <4>1, <4>2
    <3>2. RestoreInv' /\ AimInv'
      BY <1>1, <2>3, <2>6, <2>8, <3>1 DEF RestoreInv, AimInv
    <3>3. QED
      BY <1>2, <2>5, <2>6, <3>2
  <2>9. QED
    BY <2>7, <2>8
<1>6. CASE WebDisconnect
  <2>1. registered' = 0 /\ UNCHANGED <<down, config, web>>
    BY <1>6 DEF WebDisconnect, wire
  <2>2. ~Live'
    BY <1>1, <2>1, Numbers DEF Live
  <2>3. WebInv' /\ RestoreInv' /\ AimInv'
    BY <2>1, <2>2, AimGone
  <2>4. QED
    BY <1>1, <1>2, <2>1, <2>3 DEF UnusedInv
<1>7. QED
  BY <1>3, <1>4, <1>5, <1>6, Begins DEF Web

LEMMA FaultSelect ==
  ASSUME TypeOK, ConnInv, SelectInv,
         SensorCrash \/ SensorStart \/ ServerCrash \/ (\E c \in Conns : Cut(c))
  PROVE  SelectInv'
<1> USE DEF SelectInv
<1>0. /\ alive \in [Owners -> SUBSET Ifaces] /\ link \in [Conns -> {"none", "up", "cut"}]
      /\ conn \in Owners
  BY DEF TypeOK
<1>1. CASE SensorCrash
  <2>1. /\ conn' = 0 /\ alive' = [o \in Owners |-> {}] /\ down' = [c \in Conns |-> <<>>] /\ up' = up
        /\ link' = [c \in Conns |-> IF link[c] = "up" THEN "cut" ELSE link[c]]
        /\ UNCHANGED <<handler, restore, config, web>>
    BY <1>1 DEF SensorCrash, server
  <2>2. \A c \in Conns : link'[c] = "none" => link[c] = "none"
    BY <2>1
  <2>3. UnusedInv'
    BY <2>1, <2>2, Numbers DEF UnusedInv
  <2>4. WebInv' /\ RestoreInv' /\ AimInv'
    BY <2>1, AimGone, Numbers DEF Live
  <2>5. QED
    BY <2>1, <2>3, <2>4, Numbers DEF FirstInv, ApartInv
<1>2. CASE SensorStart
  <2>1. /\ conn = 0 /\ conn' = 0 /\ UNCHANGED <<wire, server>>
        /\ alive' = alive \/ (\E i \in Ifaces : alive' = [alive EXCEPT ![0] = {i}])
    BY <1>2 DEF SensorStart, ConnInv
  <2>2. \A c \in Conns : alive'[c] = alive[c]
    BY <1>0, <2>1, Numbers
  <2>3. WebInv' /\ RestoreInv' /\ AimInv'
    BY <2>1, AimGone, Numbers DEF Live, server
  <2>4. QED
    BY <2>1, <2>2, <2>3, Numbers DEF UnusedInv, FirstInv, ApartInv, wire, server
<1>3. CASE ServerCrash
  <2>1. /\ UNCHANGED process /\ down' = down /\ failed' = failed /\ registered' = 0
        /\ link' = [c \in Conns |-> IF link[c] = "up" THEN "cut" ELSE link[c]]
        /\ up' = [c \in Conns |-> <<>>] /\ restore' = [c \in Conns |-> None] /\ web' = None
        /\ handler' = [c \in Conns |-> IF link[c] = "none" THEN "none" ELSE "ended"]
    BY <1>3 DEF ServerCrash, past
  <2>2. ~Live'
    BY <2>1, Numbers DEF Live, process
  <2>3. \A c \in Conns : link'[c] = "none" <=> link[c] = "none"
    BY <1>0, <2>1
  <2>4. UnusedInv'
    BY <2>1, <2>3 DEF UnusedInv, process
  <2>5. FirstInv'
    BY <2>1 DEF FirstInv
  <2>6. WebInv' /\ RestoreInv' /\ AimInv'
    BY <2>1, <2>2, AimGone
  <2>7. QED
    BY <2>1, <2>4, <2>5, <2>6 DEF ApartInv, process
<1>4. ASSUME NEW c \in Conns, Cut(c) PROVE SelectInv'
  <2>1. /\ UNCHANGED <<process, up, down, server, failed, crossed>> /\ link' = [link EXCEPT ![c] = "cut"]
        /\ link[c] = "up"
    BY <1>4 DEF Cut, past
  <2>2. /\ \A d \in Conns : link'[d] = "none" <=> link[d] = "none"
        /\ \A d \in Conns : link'[d] = "up" => link[d] = "up"
    BY <1>0, <2>1
  <2>3. Live' => Live
    BY <2>1, <2>2 DEF Live, process, server
  <2>4. WebInv' /\ RestoreInv' /\ AimInv'
    BY <2>1, <2>3, AimQuiet DEF process, server, Aim, Apart
  <2>5. QED
    BY <2>1, <2>2, <2>4 DEF UnusedInv, FirstInv, ApartInv, process, server
<1>5. QED
  BY <1>1, <1>2, <1>3, <1>4

LEMMA SelectStep ==
  ASSUME TypeOK, ConnInv, SelectInv, [Next]_vars
  PROVE  SelectInv'
<1>1. CASE UNCHANGED vars
  <2>1. UNCHANGED <<mode, phase, conn, alive, task, link, up, down, handler, registered, failed, restore>>
        /\ Apart
    BY <1>1 DEF vars, process, wire, server, past, Apart
  <2>2. Live' => Live
    BY <2>1 DEF Live
  <2>3. WebInv' /\ RestoreInv' /\ AimInv'
    BY <2>1, <2>2, AimQuiet DEF SelectInv, Aim
  <2>4. QED
    BY <2>1, <2>3 DEF SelectInv, UnusedInv, FirstInv, ApartInv
<1>2. QED
  BY <1>1, ThreadSelect, LoopSelect, HandlerSelect, WebSelect, FaultSelect DEF Next

LEMMA SelectInvariant == Spec => []SelectInv
<1>1. Init => SelectInv
  <2> SUFFICES ASSUME Init PROVE SelectInv
    OBVIOUS
  <2>1. /\ conn = 0 /\ web = None
        /\ \A c \in Conns : /\ down[c] = <<>> /\ alive[c] = {} /\ up[c] = <<>>
                            /\ restore[c] = None /\ handler[c] = "none"
    BY Numbers DEF Init
  <2>2. UnusedInv /\ FirstInv /\ ApartInv
    BY <2>1, Numbers DEF UnusedInv, FirstInv, ApartInv
  <2>3. WebInv /\ RestoreInv /\ AimInv
    BY <2>1, Numbers DEF WebInv, RestoreInv, AimInv, Saving, Clean, Live
  <2>4. QED
    BY <2>2, <2>3 DEF SelectInv
<1>2. TypeOK /\ ThreadInv /\ SelectInv /\ [Next]_vars => SelectInv'
  BY SelectStep DEF ThreadInv
<1>3. QED
  BY <1>1, <1>2, ThreadInvariant, PTL DEF Spec

\* Through cuts, crashes of either side and requests that race a reconnection, on two
\* event loops, a sensor with nothing under way captures exactly on the saved selection,
\* unless a request was saved and sent between the load and the send of a restored
\* selection, or the load met the save of a request to an earlier connection.
THEOREM CapturesFollowSelection == Spec => []CaptureMatchesSelection
<1>1. SelectInv => CaptureMatchesSelection
  <2>1. SUFFICES ASSUME SelectInv, NEW c \in Conns, Settled(c), c \notin crossed
                 PROVE  alive[c] \cup failed = Saved.sel /\ alive[c] \cap failed = {}
    BY DEF CaptureMatchesSelection
  <2>2. /\ Live /\ conn = c /\ phase = "open" /\ down[c] = <<>> /\ "discovery" \notin Kinds(up[c])
        /\ restore[c] = None /\ ~WebOn(c)
    BY <2>1 DEF Settled, Live, WebOn
  <2>3. Clean /\ ~Loaded(c)
    BY <2>1, <2>2 DEF Clean, Loaded
  <2>4. Aim(c) = Saved.sel
    BY <2>1, <2>2, <2>3 DEF SelectInv, AimInv
  <2>5. QED
    BY <2>1, <2>2, <2>4 DEF Aim, SelectInv, ApartInv
<1>2. QED
  BY <1>1, SelectInvariant, PTL
=============================================================================
