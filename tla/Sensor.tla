------------------------------- MODULE Sensor -------------------------------
(***************************************************************************)
(* A remote sensor and the server it reports to: the sensor process        *)
(* (sensor/src/main.rs, buffer.rs), the WebSocket between them, the        *)
(* session manager and connection handlers (capture/remote/server.py,      *)
(* listener.py), the saved interface selection (capture/remote/config.py)  *)
(* and the web handlers that command it (ui/web/routers/remote.py).        *)
(*                                                                         *)
(* One sensor name: names share only the configuration file.  Under        *)
(* run_web the sensor listener runs on a background thread's event loop    *)
(* and the web handlers on uvicorn's (ui/web/app.py:3784-3852): a request  *)
(* and a handler interleave between any two of their steps.  Under         *)
(* run_web_async both share one loop, whose behaviours are among these.  A *)
(* connection is cut at any moment and either end may notice late, or      *)
(* never: that is a half-open connection.                                  *)
(***************************************************************************)
EXTENDS Integers, FiniteSets, Sequences

CONSTANTS
    Ifaces,
    Modes,           \* how the sensor is started, see Mode
    Selections,      \* the interface lists an operator submits
    Cap,             \* capacity of the sensor's packet channel
    RingCap,         \* capacity of the ring buffer, in frames
    MaxConns,        \* bound on the number of connections
    MaxFrames,       \* bound on the number of captured frames
    MaxOps,          \* bound on the number of requests
    MaxFaults,       \* bound on crashes, cuts and capture errors
    None,            \* "no value"
    Stray,           \* the source of a frame whose thread has no handle
    Corrupt          \* a sensor_config.json that does not parse

\* "controlled": the server selects interfaces; "direct": the -i flag.
Mode    == {"controlled", "direct"}
Conns   == 1..MaxConns
Owners  == 0..MaxConns
Frames  == [iface : Ifaces \cup {Stray}, n : 1..MaxFrames]
\* A list of interfaces, and those it names more than once.
Lists   == {l \in [sel : SUBSET Ifaces, twice : SUBSET Ifaces] : l.twice \subseteq l.sel}
Empty   == [sel |-> {}, twice |-> {}]
UpMsgs  == [kind : {"discovery"}]
             \cup [kind : {"capturing", "idle"}, sel : SUBSET Ifaces]
             \cup [kind : {"frame"}, frame : Frames]
DownMsgs == [kind : {"start"}, list : Lists] \cup [kind : {"stop"}, list : {Empty}]
Commands == DownMsgs \cup [kind : {"bye"}, list : {Empty}]
Session  == [state : {"idle", "capturing"}, sel : SUBSET Ifaces]
Requests == [conn : Conns, step : {"save", "send"}, msg : DownMsgs]
Restores == [step : {"loaded", "sent"}, list : Lists]

ASSUME SensorAssumption ==
    /\ Ifaces # {} /\ Modes \subseteq Mode
    /\ Selections \subseteq Lists
    /\ Cap \in Nat \ {0} /\ RingCap \in Nat \ {0}
    /\ MaxConns \in Nat /\ MaxFrames \in Nat
    /\ MaxOps \in Nat /\ MaxFaults \in Nat
    /\ Stray \notin Ifaces
    /\ None \notin Frames \cup Commands \cup Lists \cup Requests \cup Restores
    /\ Corrupt \notin Lists /\ None # Corrupt

VARIABLES
    \* the sensor process
    mode, phase,     \* off, away (between connections), open, stopping
    conn,            \* its current connection, 0: none
    alive,           \* interfaces with a capture thread, by connection (0: direct)
    stray,           \* interfaces with a thread whose handle was overwritten
    chan,            \* the packet channel the current threads send to
    held,            \* the frame a thread is blocked on in blocking_send
    task,            \* the command that waits for stop_captures
    ring, drain,     \* RingBuffer, and the frames taken out of it to be resent
    \* the wire
    link, up, down,
    \* the server
    handler,         \* handle_sensor, one per connection
    registered,      \* RemoteSensorManager.sensors[name], 0: none
    session,         \* the SensorSession of each connection
    cont,            \* what requests set once their sends have returned
    restore,         \* the saved selection a handler has loaded
    config,          \* the saved selection
    web,             \* the request under way
    \* history
    captured,        \* number of frames captured
    got,             \* frames ingested by the server
    failed,          \* selected interfaces whose capture failed
    ending,          \* how the sensor left each connection
    kicked,          \* the operator has disconnected a sensor
    crossed,         \* connections whose restored selection crossed a request
    repeated,        \* interfaces an operator has named twice in one list
    ops, faults

process == <<mode, phase, conn, alive, stray, chan, held, task, ring, drain>>
wire    == <<link, up, down>>
server  == <<handler, registered, session, cont, restore, config, web>>
past    == <<captured, got, failed, ending, kicked, crossed, repeated>>
vars    == <<process, wire, server, past, ops, faults>>

Request == ops < MaxOps /\ ops' = ops + 1
Fault   == faults < MaxFaults /\ faults' = faults + 1
Owner   == IF mode = "direct" THEN 0 ELSE conn
Nothing == [i \in Ifaces |-> None]
Bye     == [kind |-> "bye", list |-> Empty]
Fresh   == [state |-> "idle", sel |-> {}]
Kinds(s) == {s[k].kind : k \in DOMAIN s}

-----------------------------------------------------------------------------
(* Pure parts.                                                             *)

PushAllUnbounded(r, s) == r \o s

\* RingBuffer.push of a run of frames, all of one size: the oldest are dropped.
PushAll(r, s) ==
    LET all == r \o s
    IN  IF Len(all) <= RingCap THEN all
        ELSE SubSeq(all, Len(all) - RingCap + 1, Len(all))

CaptureStatusNoInterfaces(state, sel) == <<[kind |-> state, sel |-> {}]>>
CaptureStatus(state, sel) == <<[kind |-> state, sel |-> sel]>>

\* What is written to a connection that is already cut is lost.
Delivered(q, c, msgs) == IF link[c] = "up" THEN [q EXCEPT ![c] = @ \o msgs] ELSE q

\* What the discovery handler finds saved; an empty list is not restored, and the
\* error of reading a truncated file is swallowed.
Saved == IF config \in {None, Corrupt} THEN Empty ELSE config

\* handle_sensor up to its loop: a name that is connected already is refused.
RegisterAlways == TRUE
Register == registered = 0
Accept(c) ==
    IF Register
    THEN /\ handler' = [handler EXCEPT ![c] = "running"]
         /\ registered' = c
         /\ link' = [link EXCEPT ![c] = "up"]
         /\ up' = [up EXCEPT ![c] = <<[kind |-> "discovery"]>>]
    ELSE /\ handler' = [handler EXCEPT ![c] = "ended"]
         /\ link' = [link EXCEPT ![c] = "cut"]
         /\ UNCHANGED <<registered, up>>

-----------------------------------------------------------------------------
(* The sensor.                                                             *)

\* establish_ws and the discovery message; the direct mode takes over what the
\* ring buffer holds.  The server runs its part before any other of its tasks.
Connect ==
    /\ phase = "away"
    /\ \E c \in Conns :
          /\ link[c] = "none"
          /\ \A d \in Conns : d < c => link[d] # "none"
          /\ conn' = c
          /\ Accept(c)
    /\ phase' = "open"
    /\ drain' = ring
    /\ ring' = <<>>
    /\ failed' = {}
    /\ UNCHANGED <<mode, alive, stray, chan, held, task, down, session, cont, restore,
                   config, web, captured, got, ending, kicked, crossed, repeated, ops,
                   faults>>

\* A failed attempt: the direct mode moves the channel into the ring.
ConnectFails ==
    /\ phase = "away"
    /\ mode = "direct"
    /\ chan # <<>>
    /\ ring' = PushAll(ring, chan)
    /\ chan' = <<>>
    /\ UNCHANGED <<mode, phase, conn, alive, stray, held, task, drain, wire, server,
                   past, ops, faults>>

\* A capture thread reads a packet and sends it, blocking while the channel is full.
\* One whose stop flag is up meanwhile ends after the send.
Capture(i) ==
    /\ i \in alive[Owner]
    /\ held[i] = None
    /\ captured < MaxFrames
    /\ captured' = captured + 1
    /\ LET f == [iface |-> i, n |-> captured + 1]
       IN  IF Len(chan) < Cap
           THEN /\ chan' = Append(chan, f)
                /\ alive' = IF phase = "stopping"
                            THEN [alive EXCEPT ![Owner] = @ \ {i}] ELSE alive
                /\ UNCHANGED held
           ELSE /\ held' = [held EXCEPT ![i] = f]
                /\ UNCHANGED <<chan, alive>>
    /\ UNCHANGED <<mode, phase, conn, stray, task, ring, drain, wire, server, got, failed,
                   ending, kicked, crossed, repeated, ops, faults>>

\* So does a thread whose handle is gone; a frame it waits with is counted once it has
\* room.  No stop flag reaches it: only an error ends it.
StrayCapture(i) ==
    /\ i \in stray[conn]
    /\ \/ /\ captured < MaxFrames
          /\ Len(chan) < Cap
          /\ captured' = captured + 1
          /\ chan' = Append(chan, [iface |-> Stray, n |-> captured + 1])
          /\ UNCHANGED <<stray, faults>>
       \/ /\ Fault
          /\ stray' = [stray EXCEPT ![conn] = @ \ {i}]
          /\ UNCHANGED <<captured, chan>>
    /\ UNCHANGED <<mode, phase, conn, alive, held, task, ring, drain, wire, server, got,
                   failed, ending, kicked, crossed, repeated, ops>>

Unblock(i) ==
    /\ held[i] # None
    /\ Len(chan) < Cap
    /\ chan' = Append(chan, held[i])
    /\ held' = [held EXCEPT ![i] = None]
    /\ UNCHANGED <<mode, phase, conn, alive, stray, task, ring, drain, wire, server, past,
                   ops, faults>>

\* A capture error ends the thread.
CaptureError(i) ==
    /\ i \in alive[Owner]
    /\ held[i] = None
    /\ Fault
    /\ alive' = [alive EXCEPT ![Owner] = @ \ {i}]
    /\ failed' = failed \cup {i}
    /\ UNCHANGED <<mode, phase, conn, stray, chan, held, task, ring, drain, wire, server,
                   captured, got, ending, kicked, crossed, repeated, ops>>

\* The loop's first branch; the direct mode first resends what was buffered.
Forward ==
    /\ phase = "open"
    /\ \/ /\ drain # <<>>
          /\ up' = Delivered(up, conn, <<[kind |-> "frame", frame |-> Head(drain)]>>)
          /\ drain' = Tail(drain)
          /\ UNCHANGED chan
       \/ /\ drain = <<>>
          /\ chan # <<>>
          /\ up' = Delivered(up, conn, <<[kind |-> "frame", frame |-> Head(chan)]>>)
          /\ chan' = Tail(chan)
          /\ UNCHANGED drain
    /\ UNCHANGED <<mode, phase, conn, alive, stray, held, task, ring, link, down, server,
                   past, ops, faults>>

\* Both commands begin with stop_captures, which raises the stop flags ...
Command ==
    /\ phase = "open"
    /\ mode = "controlled"
    /\ down[conn] # <<>>
    /\ task' = Head(down[conn])
    /\ down' = [down EXCEPT ![conn] = Tail(@)]
    /\ phase' = "stopping"
    /\ UNCHANGED <<mode, conn, alive, stray, chan, held, ring, drain, link, up, server,
                   past, ops, faults>>

\* ... as does the end of the read task, once it has noticed the end.
ReadEnd ==
    /\ phase = "open"
    /\ mode = "controlled"
    /\ link[conn] = "cut"
    /\ task' = Bye
    /\ phase' = "stopping"
    /\ UNCHANGED <<mode, conn, alive, stray, chan, held, ring, drain, wire, server, past,
                   ops, faults>>

\* A thread sees its flag only when it is not blocked on the channel.
ThreadStops(i) ==
    /\ phase = "stopping"
    /\ i \in alive[conn]
    /\ held[i] = None
    /\ alive' = [alive EXCEPT ![conn] = @ \ {i}]
    /\ UNCHANGED <<mode, phase, conn, stray, chan, held, task, ring, drain, wire, server,
                   past, ops, faults>>

\* All threads are joined.
JoinedWithoutWaiting == phase = "stopping"
Joined == phase = "stopping" /\ alive[conn] = {}

\* The threads of the new selection start, or fail to.  A name that comes twice starts
\* two threads, and the handle of the second overwrites that of the first.
StartCaptures ==
    /\ Joined
    /\ task.kind = "start"
    /\ \E ok \in SUBSET task.list.sel, again \in SUBSET task.list.twice :
          /\ again \subseteq ok
          /\ IF ok = task.list.sel /\ again = task.list.twice
             THEN UNCHANGED faults ELSE Fault
          /\ alive' = [alive EXCEPT ![conn] = ok]
          /\ stray' = [stray EXCEPT ![conn] = @ \cup again]
          /\ failed' = task.list.sel \ ok
          /\ up' = Delivered(up, conn, CaptureStatus("capturing", ok))
    /\ phase' = "open"
    /\ task' = None
    /\ UNCHANGED <<mode, conn, chan, held, ring, drain, link, down, server, captured, got,
                   ending, kicked, crossed, repeated, ops>>

StopCaptures ==
    /\ Joined
    /\ task.kind = "stop"
    /\ up' = Delivered(up, conn, CaptureStatus("idle", {}))
    /\ failed' = {}
    /\ phase' = "open"
    /\ task' = None
    /\ UNCHANGED <<mode, conn, alive, stray, chan, held, ring, drain, link, down, server,
                   captured, got, ending, kicked, crossed, repeated, ops, faults>>

\* connect_controlled returns: its channel and its end of the connection go.
Leave(to, how) ==
    /\ phase' = to
    /\ conn' = 0
    /\ link' = [link EXCEPT ![conn] = "cut"]
    /\ down' = [down EXCEPT ![conn] = <<>>]
    /\ ending' = [ending EXCEPT ![conn] = how]

Disconnect ==
    /\ Joined
    /\ task.kind = "bye"
    /\ Leave("away", "clean")
    /\ chan' = <<>>
    /\ task' = None
    /\ UNCHANGED <<mode, alive, stray, held, ring, drain, up, server, captured, got,
                   failed, kicked, crossed, repeated, ops, faults>>

\* A write fails: the function returns at once.  Its threads keep running; what they
\* send from now on, and what they are blocked on, is dropped.
SendFails ==
    /\ phase = "open"
    /\ mode = "controlled"
    /\ link[conn] = "cut"
    /\ Leave("away", "error")
    /\ chan' = <<>>
    /\ held' = Nothing
    /\ UNCHANGED <<mode, alive, stray, task, ring, drain, up, server, captured, got,
                   failed, kicked, crossed, repeated, ops, faults>>

LeftRequeued == IF drain # <<>> THEN chan \o drain ELSE chan
Left == IF drain # <<>> THEN chan ELSE Tail(chan)

\* In direct mode the frame being written is lost, and the rest of a half-sent ring;
\* the channel moves into the ring.
DirectSendFails ==
    /\ phase = "open"
    /\ mode = "direct"
    /\ link[conn] = "cut"
    /\ drain # <<>> \/ chan # <<>>
    /\ Leave("away", "error")
    /\ ring' = PushAll(ring, Left)
    /\ drain' = <<>>
    /\ chan' = <<>>
    /\ UNCHANGED <<mode, alive, stray, held, task, up, server, captured, got, failed,
                   kicked, crossed, repeated, ops, faults>>

\* The capture thread of the direct mode has ended and everything is sent.
DirectDone ==
    /\ phase = "open"
    /\ mode = "direct"
    /\ alive[0] = {} /\ chan = <<>> /\ drain = <<>>
    /\ Leave("off", "clean")
    /\ UNCHANGED <<mode, alive, stray, chan, held, task, ring, drain, up, server, captured,
                   got, failed, kicked, crossed, repeated, ops, faults>>

SensorCrash ==
    /\ phase # "off"
    /\ Fault
    /\ phase' = "off"
    /\ conn' = 0
    /\ alive' = [o \in Owners |-> {}] /\ stray' = [o \in Owners |-> {}]
    /\ chan' = <<>> /\ held' = Nothing /\ task' = None
    /\ ring' = <<>> /\ drain' = <<>>
    /\ link' = [c \in Conns |-> IF link[c] = "up" THEN "cut" ELSE link[c]]
    /\ down' = [c \in Conns |-> <<>>]
    /\ failed' = {}
    /\ UNCHANGED <<mode, up, server, captured, got, ending, kicked, crossed, repeated, ops>>

SensorStart ==
    /\ phase = "off"
    /\ phase' = "away"
    /\ IF mode = "direct"
       THEN \E i \in Ifaces : alive' = [alive EXCEPT ![0] = {i}]
       ELSE UNCHANGED alive
    /\ UNCHANGED <<mode, conn, stray, chan, held, task, ring, drain, wire, server, past,
                   ops, faults>>

\* external: the network loses the connection.
Cut(c) ==
    /\ link[c] = "up"
    /\ Fault
    /\ link' = [link EXCEPT ![c] = "cut"]
    /\ UNCHANGED <<process, up, down, server, past, ops>>

-----------------------------------------------------------------------------
(* The server.                                                             *)

\* The handler is not itself about to send, or waiting for a send to return.
Reading(c) == handler[c] = "running" /\ restore[c] = None

\* sensor_config.json is open for writing, and empty.
Saving == web # None /\ web.step = "save"

RestoreNothing(c) == UNCHANGED <<restore, crossed>>

\* Discovery: a saved selection is loaded, to be sent again.  What a request that
\* holds another connection is saving just now is not found.
Restore(c) ==
    /\ restore' = IF Saved.sel = {} THEN restore
                  ELSE [restore EXCEPT ![c] = [step |-> "loaded", list |-> Saved]]
    /\ crossed' = IF Saving /\ web.conn # c THEN crossed \cup {c} ELSE crossed

Receive(c) ==
    /\ Reading(c)
    /\ up[c] # <<>>
    /\ up' = [up EXCEPT ![c] = Tail(@)]
    /\ LET msg == Head(up[c]) IN
          \/ /\ msg.kind = "discovery"
             /\ Restore(c)
             /\ UNCHANGED <<session, got>>
          \/ /\ msg.kind \in {"capturing", "idle"}
             /\ session' = [session EXCEPT ![c] = [state |-> msg.kind, sel |-> msg.sel]]
             /\ UNCHANGED <<restore, crossed, got>>
          \/ /\ msg.kind = "frame"
             /\ got' = Append(got, msg.frame)
             /\ UNCHANGED <<restore, crossed, session>>
    /\ UNCHANGED <<process, link, down, handler, registered, cont, config, web, captured,
                   failed, ending, kicked, repeated, ops, faults>>

\* What was loaded is sent, although a request may have saved another selection since ...
RestoreSend(c) ==
    /\ restore[c] # None
    /\ restore[c].step = "loaded"
    /\ restore' = [restore EXCEPT ![c].step = "sent"]
    /\ down' = Delivered(down, c, <<[kind |-> "start", list |-> restore[c].list]>>)
    /\ UNCHANGED <<process, link, up, handler, registered, session, cont, config, web, past,
                   ops, faults>>

\* ... and shown, once the send has returned, whether it failed or not.
Restored(c) == [state |-> "capturing", sel |-> restore[c].list.sel]
RestoreShow(c) ==
    /\ restore[c] # None
    /\ restore[c].step = "sent"
    /\ restore' = [restore EXCEPT ![c] = None]
    /\ session' = [session EXCEPT ![c] = Restored(c)]
    /\ UNCHANGED <<process, wire, handler, registered, cont, config, web, past, ops, faults>>

\* The send of a request has returned.  One that failed ends with an error instead.
Resume(c) ==
    /\ cont[c] # <<>>
    /\ cont' = [cont EXCEPT ![c] = Tail(@)]
    /\ \/ session' = [session EXCEPT ![c] = Head(cont[c])]
       \/ link[c] = "cut" /\ UNCHANGED session
    /\ UNCHANGED <<process, wire, handler, registered, restore, config, web, past, ops,
                   faults>>

\* set_state in both threads at once: it assigns the state, then the interfaces, and the
\* last to assign either one wins.
Mixed(c, other) ==
    /\ cont[c] # <<>>
    /\ cont' = [cont EXCEPT ![c] = Tail(@)]
    /\ session' \in {[session EXCEPT ![c] = [state |-> p.state, sel |-> q.sel]] :
                         p, q \in {Head(cont[c]), other}}
    /\ UNCHANGED <<process, link, down, handler, registered, config, web, past, ops, faults>>

SetTogether(c) ==
    \/ /\ Reading(c)
       /\ up[c] # <<>>
       /\ LET msg == Head(up[c])
          IN  /\ msg.kind \in {"capturing", "idle"}
              /\ Mixed(c, [state |-> msg.kind, sel |-> msg.sel])
       /\ up' = [up EXCEPT ![c] = Tail(@)]
       /\ UNCHANGED restore
    \/ /\ restore[c] # None
       /\ restore[c].step = "sent"
       /\ Mixed(c, Restored(c))
       /\ restore' = [restore EXCEPT ![c] = None]
       /\ UNCHANGED up

\* The end of the connection is noticed.  unregister goes by name: it removes
\* whatever session the name stands for now.  The session object is dropped, and a
\* request that still waits sets nothing anyone sees.
HandlerEnds(c) ==
    /\ Reading(c)
    /\ link[c] = "cut"
    /\ handler' = [handler EXCEPT ![c] = "ended"]
    /\ registered' = 0
    /\ up' = [up EXCEPT ![c] = <<>>]
    /\ session' = [session EXCEPT ![c] = Fresh]
    /\ cont' = [cont EXCEPT ![c] = <<>>]
    /\ UNCHANGED <<process, link, down, restore, config, web, past, ops, faults>>

\* A request finds its session and opens the file, which empties it.  Requests run to
\* their send without an await, one after the other.
WebBegin(msg) ==
    /\ web = None
    /\ registered # 0
    /\ config # Corrupt
    /\ Request
    /\ web' = [conn |-> registered, step |-> "save", msg |-> msg]
    /\ config' = Corrupt
    /\ repeated' = repeated \cup msg.list.twice
    /\ UNCHANGED <<process, wire, handler, registered, session, cont, restore, captured, got,
                   failed, ending, kicked, crossed, faults>>

\* set_sensor_interfaces, stop_sensor_capture
WebStart(list) == WebBegin([kind |-> "start", list |-> list])
WebStop        == WebBegin([kind |-> "stop", list |-> Empty])

WebSave ==
    /\ Saving
    /\ config' = IF web.msg.kind = "start" THEN web.msg.list ELSE None
    /\ web' = [web EXCEPT !.step = "send"]
    /\ UNCHANGED <<process, wire, handler, registered, session, cont, restore, past, ops,
                   faults>>

\* The session may have lost its connection meanwhile: then the request fails.
WebSend ==
    /\ web # None
    /\ web.step = "send"
    /\ web' = None
    /\ LET c == web.conn IN
          IF handler[c] = "running"
          THEN /\ down' = Delivered(down, c, <<web.msg>>)
               /\ cont' = [cont EXCEPT ![c] = Append(@,
                              [state |-> IF web.msg.kind = "start" THEN "capturing" ELSE "idle",
                               sel   |-> web.msg.list.sel])]
               /\ crossed' = IF /\ restore[c] # None
                                /\ restore[c].step = "loaded"
                                /\ restore[c].list.sel # web.msg.list.sel
                             THEN crossed \cup {c} ELSE crossed
          ELSE UNCHANGED <<down, cont, crossed>>
    /\ UNCHANGED <<process, link, up, handler, registered, session, restore, config, captured,
                   got, failed, ending, kicked, repeated, ops, faults>>

\* disconnect_sensor: the session is forgotten, its connection is not closed.
WebDisconnect ==
    /\ web = None
    /\ registered # 0
    /\ Request
    /\ registered' = 0
    /\ kicked' = TRUE
    /\ UNCHANGED <<process, wire, handler, session, cont, restore, config, web, captured, got,
                   failed, ending, crossed, repeated, faults>>

\* A kill of the server and its restart; a save under way leaves a truncated file.
ServerCrash ==
    /\ Fault
    /\ handler' = [c \in Conns |-> IF link[c] = "none" THEN "none" ELSE "ended"]
    /\ registered' = 0
    /\ link' = [c \in Conns |-> IF link[c] = "up" THEN "cut" ELSE link[c]]
    /\ up' = [c \in Conns |-> <<>>]
    /\ cont' = [c \in Conns |-> <<>>]
    /\ restore' = [c \in Conns |-> None]
    /\ session' = [c \in Conns |-> Fresh]
    /\ web' = None
    /\ UNCHANGED <<process, down, config, past, ops>>

-----------------------------------------------------------------------------
Init ==
    /\ mode \in Modes
    /\ phase = "off" /\ conn = 0
    /\ alive = [o \in Owners |-> {}] /\ stray = [o \in Owners |-> {}]
    /\ chan = <<>> /\ held = Nothing /\ task = None
    /\ ring = <<>> /\ drain = <<>>
    /\ link = [c \in Conns |-> "none"]
    /\ up = [c \in Conns |-> <<>>]
    /\ down = [c \in Conns |-> <<>>]
    /\ handler = [c \in Conns |-> "none"]
    /\ registered = 0
    /\ session = [c \in Conns |-> Fresh]
    /\ cont = [c \in Conns |-> <<>>]
    /\ restore = [c \in Conns |-> None]
    /\ config = None /\ web = None
    /\ captured = 0 /\ got = <<>> /\ failed = {}
    /\ ending = [c \in Conns |-> "none"]
    /\ kicked = FALSE /\ crossed = {} /\ repeated = {}
    /\ ops = 0 /\ faults = 0

Thread(i)  == Capture(i) \/ StrayCapture(i) \/ Unblock(i) \/ CaptureError(i)
                \/ ThreadStops(i)
SensorLoop == Connect \/ ConnectFails \/ Forward \/ Command \/ ReadEnd
                \/ StartCaptures \/ StopCaptures \/ Disconnect \/ SendFails
                \/ DirectSendFails \/ DirectDone
Handler(c) == Receive(c) \/ RestoreSend(c) \/ RestoreShow(c) \/ Resume(c)
                \/ SetTogether(c) \/ HandlerEnds(c)
Web        == (\E list \in Selections : WebStart(list)) \/ WebStop \/ WebSave \/ WebSend
                \/ WebDisconnect

Next ==
    \/ \E i \in Ifaces : Thread(i)
    \/ SensorLoop
    \/ \E c \in Conns : Handler(c) \/ Cut(c)
    \/ Web
    \/ SensorCrash \/ SensorStart \/ ServerCrash

Spec == Init /\ [][Next]_vars

\* The sensor's loop and threads and the server's tasks keep running; an end that
\* has lost its peer need not notice.
Fairness ==
    /\ \A i \in Ifaces : WF_vars(Unblock(i)) /\ WF_vars(ThreadStops(i))
    /\ WF_vars(StartCaptures \/ StopCaptures \/ Disconnect)

FairSpec == Spec /\ Fairness

-----------------------------------------------------------------------------
(* Properties.                                                             *)

TypeOK ==
    /\ mode \in Mode
    /\ phase \in {"off", "away", "open", "stopping"}
    /\ conn \in Owners
    /\ alive \in [Owners -> SUBSET Ifaces] /\ stray \in [Owners -> SUBSET Ifaces]
    /\ chan \in Seq(Frames) /\ Len(chan) <= Cap
    /\ ring \in Seq(Frames) /\ Len(ring) <= RingCap
    /\ drain \in Seq(Frames)
    /\ held \in [Ifaces -> Frames \cup {None}]
    /\ task \in Commands \cup {None}
    /\ link \in [Conns -> {"none", "up", "cut"}]
    /\ up \in [Conns -> Seq(UpMsgs)] /\ down \in [Conns -> Seq(DownMsgs)]
    /\ handler \in [Conns -> {"none", "running", "ended"}]
    /\ registered \in Owners
    /\ session \in [Conns -> Session]
    /\ cont \in [Conns -> Seq(Session)]
    /\ restore \in [Conns -> Restores \cup {None}]
    /\ config \in Lists \cup {None, Corrupt}
    /\ web \in Requests \cup {None}
    /\ captured \in 0..MaxFrames /\ got \in Seq(Frames)
    /\ failed \in SUBSET Ifaces
    /\ ending \in [Conns -> {"none", "clean", "error"}]
    /\ kicked \in BOOLEAN /\ crossed \in SUBSET Conns /\ repeated \in SUBSET Ifaces
    /\ ops \in 0..MaxOps /\ faults \in 0..MaxFaults

\* The sensor is in its loop on the registered connection, and no command is on the
\* way to it or about to be sent.
Settled(c) ==
    /\ mode = "controlled" /\ phase = "open"
    /\ conn = c /\ link[c] = "up" /\ handler[c] = "running" /\ registered = c
    /\ down[c] = <<>> /\ "discovery" \notin Kinds(up[c])
    /\ restore[c] = None /\ (web # None => web.conn # c)

\* Once nothing is on the way the sensor captures on exactly the interfaces of the
\* saved selection, but for those whose capture failed: through cuts, crashes of either
\* side and requests that race a reconnection, a stop is never undone and a selection
\* never forgotten.  Two orders are the exception, both with the listener and the web
\* handlers on two threads: a request that is saved and sent between the load and the
\* send of the restored selection, and a load in the middle of the save of a request
\* to an earlier connection (listener.py:112-130, remote.py:105-166).
CaptureMatchesSelection ==
    \A c \in Conns : Settled(c) /\ c \notin crossed
                     => alive[c] \cup failed = Saved.sel /\ alive[c] \cap failed = {}

\* A sensor whose selection was cleared is idle.
StopHolds == \A c \in Conns : Settled(c) /\ config = None => alive[c] = {}

\* What the server shows of a settled sensor is what the sensor does: shown as idle it
\* captures nothing, and the interfaces shown cover those captured.  Requests, the
\* restored selection and the sensor's own reports all write this state, from two
\* threads (server.py:54-60, remote.py:131, listener.py:128-139).
ShownMatchesSensor ==
    \A c \in Conns :
        /\ Settled(c) /\ c \notin crossed
        /\ cont[c] = <<>> /\ Kinds(up[c]) \cap {"capturing", "idle"} = {}
        => /\ session[c].state = "idle" => alive[c] = {}
           /\ alive[c] \subseteq session[c].sel
           /\ session[c].sel \subseteq alive[c] \cup failed

\* As long as no operator disconnects the sensor, one handler at most serves its name,
\* and it is the registered one: duplicates and reconnections that arrive before the
\* old connection's end is noticed are turned away (server.py:94-99).
OneSession ==
    ~kicked => \A c \in Conns : handler[c] = "running" => registered = c

\* As long as no operator disconnects the sensor, the frames of an interface reach the
\* pipeline in the order they were captured and none twice, over reconnections and
\* through the ring buffer (main.rs:357-369, 640-652, listener.py:158-169).
FramesInOrder ==
    ~kicked => \A j, k \in DOMAIN got :
                  j < k /\ got[j].iface = got[k].iface /\ got[j].iface \in Ifaces
                  => got[j].n < got[k].n

\* A capture thread outlives the connection it serves only if a write failed on it, and
\* outlives the command to stop only if an operator has named its interface twice in one
\* list, on whatever connection and however often the list was restored since
\* (main.rs:210-221, 475, 545-550, remote.py:108, config.py:21-24).
LeakHasCause ==
    \A c \in Conns : /\ c # conn /\ alive[c] # {} => ending[c] = "error"
                     /\ stray[c] \subseteq repeated

\* The loop waits for a thread that waits for room in the channel it no longer empties.
Stuck ==
    /\ phase = "stopping"
    /\ Len(chan) >= Cap
    /\ \E i \in alive[conn] : held[i] # None

\* Nothing but a kill of the sensor ends that: no later command, no report, no lost
\* connection and no restart of the server (main.rs:186-192, 210-221, 470-551).
HangIsFinal == [][Stuck => Stuck' \/ phase' = "off"]_vars

\* A command, or the end of the connection, stops the capture threads.
CaptureStops == (phase = "stopping") ~> (phase # "stopping")

=============================================================================
