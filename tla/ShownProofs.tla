---------------------------- MODULE ShownProofs ----------------------------
(***************************************************************************)
(* What the server shows of a sensor is what the sensor does, for every    *)
(* set of interfaces and every bound.  Requests, the restored selection    *)
(* and the sensor's reports write the shown state, from two threads and in *)
(* an order nothing fixes; the invariant says that whichever is last is    *)
(* right.                                                                  *)
(***************************************************************************)
EXTENDS FrameProofs

Status == {"capturing", "idle"}

\* A state and a selection, set apart from each other, that agree with the interfaces
\* captured on and those that failed.
RightState(state, on) == state = "idle" => on = {}
RightSel(sel, on, lost) == on \subseteq sel /\ sel \subseteq on \cup lost
Right(state, sel, on, lost) == RightState(state, on) /\ RightSel(sel, on, lost)

\* The sensor has carried out every command.
Quiet == Live /\ phase = "open" /\ down[conn] = <<>>

\* In a queue of messages.
LastStatus(q, k) ==
    /\ q[k].kind \in Status
    /\ \A j \in DOMAIN q : j > k => q[j].kind \notin Status
NoStatus(q) == \A k \in DOMAIN q : q[k].kind \notin Status

\* The last request to return sets what the commands lead to, which is what is saved.
ContInv ==
    Clean /\ cont[conn] # <<>> =>
        LET w == cont[conn][Len(cont[conn])]
        IN  /\ ~Saving /\ w.sel = Saved.sel
            /\ w.sel = Aim(conn) /\ (w.state = "idle" => w.sel = {})

\* The last report under way is right.
ReportInv ==
    Quiet => \A k \in DOMAIN up[conn] :
                LastStatus(up[conn], k) => Right(up[conn][k].kind, up[conn][k].sel, alive[conn], failed)

\* A restored selection that is carried out before it is shown has its report under way.
SentInv ==
    Quiet /\ restore[conn] # None /\ restore[conn].step = "sent" => ~NoStatus(up[conn])

\* With nothing under way the state shown is right already.
SessionInv ==
    Quiet /\ Clean /\ cont[conn] = <<>> /\ NoStatus(up[conn])
    => Right(session[conn].state, session[conn].sel, alive[conn], failed)

\* A connection starts with a session of its own.
BlankInv == \A c \in Conns : link[c] = "none" => session[c] = Fresh /\ cont[c] = <<>>

ShownInv == ContInv /\ ReportInv /\ SentInv /\ SessionInv

-----------------------------------------------------------------------------
LEMMA BlankStep ==
  ASSUME TypeOK, UnusedInv, BlankInv, [Next]_vars
  PROVE  BlankInv'
<1>0. /\ link \in [Conns -> {"none", "up", "cut"}]
      /\ session \in [Conns -> Session] /\ cont \in [Conns -> Seq(Session)]
  BY DEF TypeOK
<1>1. ASSUME \A c \in Conns : link'[c] = "none" => link[c] = "none" /\ session'[c] = session[c]
                                                   /\ cont'[c] = cont[c]
      PROVE  BlankInv'
  BY <1>1 DEF BlankInv
<1>2. CASE \/ UNCHANGED vars \/ (\E i \in Ifaces : Thread(i)) \/ SensorStart \/ ConnectFails
           \/ Command \/ ReadEnd \/ Forward \/ StartCaptures \/ StopCaptures
  <2>1. UNCHANGED <<link, session, cont>>
    BY <1>2 DEF vars, Thread, Capture, StrayCapture, Unblock, CaptureError, ThreadStops, SensorStart,
                ConnectFails, Command, ReadEnd, Forward, StartCaptures, StopCaptures, wire, server
  <2>2. QED
    BY <1>1, <2>1
<1>3. CASE Disconnect \/ SendFails \/ DirectSendFails \/ DirectDone
  <2>1. UNCHANGED <<session, cont>> /\ link' = [link EXCEPT ![conn] = "cut"]
    BY <1>3 DEF Disconnect, SendFails, DirectSendFails, DirectDone, Leave, server
  <2>2. QED
    BY <1>0, <1>1, <2>1
<1>4. CASE Connect
  <2>1. PICK c \in Conns : link[c] = "none" /\ Accept(c)
    BY <1>4 DEF Connect
  <2>2. UNCHANGED <<session, cont>>
    BY <1>4 DEF Connect
  <2>3. link' = [link EXCEPT ![c] = "up"] \/ link' = [link EXCEPT ![c] = "cut"]
    BY <2>1 DEF Accept
  <2>4. QED
    BY <1>0, <1>1, <2>2, <2>3
<1>5. CASE SensorCrash
  <2>1. /\ UNCHANGED <<session, cont>>
        /\ link' = [c \in Conns |-> IF link[c] = "up" THEN "cut" ELSE link[c]]
    BY <1>5 DEF SensorCrash, server
  <2>2. QED
    BY <1>0, <1>1, <2>1
<1>6. CASE ServerCrash
  <2>1. session' = [c \in Conns |-> Fresh] /\ cont' = [c \in Conns |-> <<>>]
    BY <1>6 DEF ServerCrash
  <2>2. QED
    BY <2>1 DEF BlankInv
<1>7. ASSUME NEW c \in Conns, Cut(c) PROVE BlankInv'
  <2>1. UNCHANGED <<session, cont>> /\ link' = [link EXCEPT ![c] = "cut"]
    BY <1>7 DEF Cut, server
  <2>2. QED
    BY <1>0, <1>1, <2>1
<1>8. ASSUME NEW c \in Conns, link[c] # "none", link' = link,
             session' = session \/ \E x : session' = [session EXCEPT ![c] = x],
             cont' = cont \/ \E x : cont' = [cont EXCEPT ![c] = x]
      PROVE  BlankInv'
  BY <1>0, <1>1, <1>8
<1>9. ASSUME NEW c \in Conns, Handler(c) PROVE BlankInv'
  <2>1. link' = link
    BY <1>9, ServerLeaves
  <2>2. CASE Receive(c)
    <3>1. link[c] # "none"
      BY <2>2 DEF Receive, Reading, UnusedInv
    <3>2. cont' = cont
      BY <2>2 DEF Receive
    <3>3. session' = session \/ \E x : session' = [session EXCEPT ![c] = x]
      BY <2>2 DEF Receive
    <3>4. QED
      BY <1>8, <2>1, <3>1, <3>2, <3>3
  <2>3. CASE RestoreSend(c)
    <3>1. UNCHANGED <<session, cont>>
      BY <2>3 DEF RestoreSend
    <3>2. QED
      BY <1>1, <2>1, <3>1
  <2>4. CASE RestoreShow(c)
    <3>1. link[c] # "none"
      BY <2>4 DEF RestoreShow, UnusedInv
    <3>2. cont' = cont /\ session' = [session EXCEPT ![c] = Restored(c)]
      BY <2>4 DEF RestoreShow
    <3>3. QED
      BY <1>8, <2>1, <3>1, <3>2
  <2>5. CASE Resume(c)
    <3>1. link[c] # "none"
      BY <2>5 DEF Resume, BlankInv
    <3>2. session' = session \/ \E x : session' = [session EXCEPT ![c] = x]
      BY <2>5 DEF Resume
    <3>3. cont' = [cont EXCEPT ![c] = Tail(@)]
      BY <2>5 DEF Resume
    <3>4. QED
      BY <1>0, <1>1, <2>1, <3>1, <3>2, <3>3
  <2>6. CASE SetTogether(c)
    <3>1. PICK other : Mixed(c, other)
      BY <2>6 DEF SetTogether
    <3>2. link[c] # "none"
      BY <3>1 DEF Mixed, BlankInv
    <3>3. \E x : session' = [session EXCEPT ![c] = x]
      BY <3>1 DEF Mixed
    <3>4. cont' = [cont EXCEPT ![c] = Tail(@)]
      BY <3>1 DEF Mixed
    <3>5. QED
      BY <1>0, <1>1, <2>1, <3>2, <3>3, <3>4
  <2>7. CASE HandlerEnds(c)
    <3>1. /\ link[c] = "cut" /\ session' = [session EXCEPT ![c] = Fresh]
          /\ cont' = [cont EXCEPT ![c] = <<>>]
      BY <2>7 DEF HandlerEnds
    <3>2. QED
      BY <1>8, <2>1, <3>1
  <2>8. QED
    BY <1>9, <2>2, <2>3, <2>4, <2>5, <2>6, <2>7 DEF Handler
<1>10. CASE Web
  <2>1. link' = link /\ session' = session
    BY <1>10, WebReads DEF Web, WebStart, WebStop, WebBegin, WebSave, WebSend, WebDisconnect
  <2>2. CASE WebSend
    <3>1. web # None /\ web.conn \in Conns
      BY <2>2, RequestType DEF WebSend
    <3>2. cont' = cont \/ (handler[web.conn] = "running" /\ \E x : cont' = [cont EXCEPT ![web.conn] = x])
      BY <2>2 DEF WebSend
    <3>3. handler[web.conn] = "running" => link[web.conn] # "none"
      BY <3>1 DEF UnusedInv
    <3>4. QED
      BY <1>1, <1>8, <2>1, <3>1, <3>2, <3>3
  <2>3. CASE ~WebSend
    <3>1. cont' = cont
      BY <1>10, <2>3 DEF Web, WebStart, WebStop, WebBegin, WebSave, WebDisconnect
    <3>2. QED
      BY <1>1, <2>1, <3>1
  <2>4. QED
    BY <2>2, <2>3
<1>11. QED
  BY <1>2, <1>3, <1>4, <1>5, <1>6, <1>7, <1>9, <1>10 DEF Next, SensorLoop

-----------------------------------------------------------------------------
(* Steps that leave a live connection's queues and session alone.          *)

LEMMA NotLive == ~Live' => ShownInv'
  BY DEF ShownInv, ContInv, ReportInv, SentInv, SessionInv, Quiet, Clean

\* Reports stay right while threads only end, and count as failed when they do.
LEMMA RightSame ==
  ASSUME NEW on, NEW lost, NEW less, NEW more, less \subseteq on, less \cup more = on \cup lost
  PROVE  \A state, sel : Right(state, sel, on, lost) => Right(state, sel, less, more)
  BY DEF Right, RightState, RightSel

LEMMA ShownSame ==
  ASSUME ShownInv, conn' = conn, Clean' => Clean, Quiet' => Quiet, UNCHANGED <<config, web>>,
         Live' => Aim(conn)' = Aim(conn) /\ cont'[conn] = cont[conn],
         Quiet' => /\ up'[conn] = up[conn] /\ session'[conn] = session[conn]
                   /\ restore'[conn] = restore[conn]
                   /\ alive'[conn] \subseteq alive[conn]
                   /\ alive'[conn] \cup failed' = alive[conn] \cup failed
  PROVE  ShownInv'
<1>1. ContInv'
  <2>1. SUFFICES ASSUME Clean', cont'[conn] # <<>>
                 PROVE  LET w == cont'[conn][Len(cont'[conn])]
                        IN  /\ ~Saving' /\ w.sel = Saved'.sel
                            /\ w.sel = Aim(conn)' /\ (w.state = "idle" => w.sel = {})
    BY DEF ContInv
  <2>2. Live' /\ Saved' = Saved /\ Saving' = Saving
    BY <2>1 DEF Clean, Saved, Saving
  <2>3. QED
    BY <2>1, <2>2 DEF ShownInv, ContInv
<1>2. \A state, sel : Quiet' /\ Right(state, sel, alive[conn], failed)
                       => Right(state, sel, alive'[conn], failed')
  BY RightSame
<1>3. ReportInv'
  <2>1. SUFFICES ASSUME Quiet', NEW k \in DOMAIN up'[conn], LastStatus(up'[conn], k)
                 PROVE  Right(up'[conn][k].kind, up'[conn][k].sel, alive'[conn], failed')
    BY DEF ReportInv
  <2>2. up'[conn] = up[conn] /\ Quiet /\ k \in DOMAIN up[conn] /\ LastStatus(up[conn], k)
    BY <2>1 DEF LastStatus
  <2>3. Right(up[conn][k].kind, up[conn][k].sel, alive[conn], failed)
    BY <2>2 DEF ShownInv, ReportInv
  <2>4. QED
    BY <1>2, <2>1, <2>2, <2>3
<1>4. SentInv'
  BY DEF ShownInv, SentInv, NoStatus
<1>5. SessionInv'
  <2>1. SUFFICES ASSUME Quiet', Clean', cont'[conn] = <<>>, NoStatus(up'[conn])
                 PROVE  Right(session'[conn].state, session'[conn].sel, alive'[conn], failed')
    BY DEF SessionInv
  <2>2. /\ Quiet /\ Clean /\ session'[conn] = session[conn] /\ cont[conn] = <<>> /\ NoStatus(up[conn])
    BY <2>1 DEF NoStatus, Quiet
  <2>3. Right(session[conn].state, session[conn].sel, alive[conn], failed)
    BY <2>2 DEF ShownInv, SessionInv
  <2>4. QED
    BY <1>2, <2>1, <2>2, <2>3
<1>6. QED
  BY <1>1, <1>3, <1>4, <1>5 DEF ShownInv

LEMMA ThreadShown ==
  ASSUME TypeOK, ShownInv, NEW i \in Ifaces, Thread(i)
  PROVE  ShownInv'
<1>1. UNCHANGED <<mode, phase, conn, task, wire, server, crossed>>
  BY DEF Thread, Capture, StrayCapture, Unblock, CaptureError, ThreadStops, past
<1>2. (Live' => Live) /\ (Quiet' => Quiet) /\ (Clean' => Clean)
  BY <1>1 DEF Live, Quiet, Clean, WebOn, wire, server
<1>3. Live => /\ Aim(conn)' = Aim(conn)
              /\ phase # "stopping" => /\ alive'[conn] \subseteq alive[conn]
                                       /\ alive'[conn] \cup failed' = alive[conn] \cup failed
  BY ThreadAim
<1>4. Quiet => Live /\ phase # "stopping"
  BY DEF Quiet
<1>5. QED
  BY <1>1, <1>2, <1>3, <1>4, ShownSame DEF wire, server

\* A message that is no report, at the end of the wire.
LEMMA ForwardShown ==
  ASSUME TypeOK, ConnInv, ShownInv, Forward
  PROVE  ShownInv'
<1>1. UNCHANGED <<mode, phase, conn, alive, task, link, down, server, failed, crossed>> /\ conn \in Conns
  BY DEF Forward, past, ConnInv
<1>2. PICK m : up' = Delivered(up, conn, <<m>>) /\ m.kind = "frame"
  <2>1. PICK f : up' = Delivered(up, conn, <<[kind |-> "frame", frame |-> f]>>)
    BY DEF Forward
  <2>2. [kind |-> "frame", frame |-> f].kind = "frame"
    OBVIOUS
  <2>3. QED
    BY <2>1, <2>2
<1>3. /\ Clean' <=> Clean
      /\ Quiet' <=> Quiet
      /\ alive'[conn] = alive[conn] /\ failed' = failed
  BY <1>1 DEF Live, Quiet, Clean, WebOn, server
<1>4. ContInv'
  BY <1>1, <1>3 DEF ShownInv, ContInv, Aim, Saved, Saving, server
<1>5. SUFFICES ASSUME Quiet' PROVE ReportInv' /\ SentInv' /\ SessionInv'
  BY <1>4 DEF ShownInv, ReportInv, SentInv, SessionInv
<1>6. up[conn] \in Seq(UpMsgs) /\ up'[conn] = up[conn] \o <<m>> /\ Quiet
  <2>1. link[conn] = "up" /\ Quiet
    BY <1>3, <1>5 DEF Quiet, Live
  <2>2. QED
    BY <1>1, <1>2, <2>1 DEF TypeOK, Delivered
<1>7. /\ Len(up[conn]) \in Nat /\ DOMAIN up[conn] = 1..Len(up[conn])
      /\ DOMAIN up'[conn] = 1..(Len(up[conn]) + 1)
      /\ \A k \in 1..Len(up[conn]) : up'[conn][k] = up[conn][k]
      /\ up'[conn][Len(up[conn]) + 1] = m
  BY <1>6
<1>8. m.kind \notin Status
  BY <1>2 DEF Status
<1>9. ReportInv'
  <2>1. SUFFICES ASSUME NEW k \in DOMAIN up'[conn], LastStatus(up'[conn], k)
                 PROVE  Right(up'[conn][k].kind, up'[conn][k].sel, alive'[conn], failed')
    BY <1>1 DEF ReportInv
  <2>2. k \in 1..Len(up[conn])
    BY <1>1, <1>7, <1>8, <2>1 DEF LastStatus
  <2>3. LastStatus(up[conn], k)
    BY <1>1, <1>7, <2>1, <2>2 DEF LastStatus
  <2>4. Right(up[conn][k].kind, up[conn][k].sel, alive[conn], failed)
    BY <1>6, <1>7, <2>2, <2>3 DEF ShownInv, ReportInv
  <2>5. QED
    BY <1>3, <1>7, <2>2, <2>4
<1>10. NoStatus(up'[conn]) => NoStatus(up[conn])
  BY <1>1, <1>7 DEF NoStatus
<1>11. SentInv'
  BY <1>1, <1>3, <1>10 DEF ShownInv, SentInv, server
<1>12. SessionInv'
  <2>1. SUFFICES ASSUME Clean', cont'[conn] = <<>>, NoStatus(up'[conn])
                 PROVE  Right(session'[conn].state, session'[conn].sel, alive'[conn], failed')
    BY <1>1 DEF SessionInv
  <2>2. Clean /\ cont[conn] = <<>> /\ NoStatus(up[conn])
    BY <1>1, <1>3, <1>10, <2>1 DEF server
  <2>3. Right(session[conn].state, session[conn].sel, alive[conn], failed) /\ session' = session
    BY <1>1, <1>6, <2>2 DEF ShownInv, SessionInv, server
  <2>4. QED
    BY <1>3, <2>3
<1>13. QED
  BY <1>9, <1>11, <1>12

\* A report at the end of the wire is the last one, and right.
LEMMA ReportShown ==
  ASSUME TypeOK, ConnInv, ShownInv, conn \in Conns, conn' = conn,
         NEW st \in Status, NEW sel, up' = Delivered(up, conn, <<[kind |-> st, sel |-> sel]>>),
         UNCHANGED <<mode, link, down, server, crossed>>, Live => Aim(conn)' = Aim(conn),
         Right(st, sel, alive'[conn], failed')
  PROVE  ShownInv'
<1>1. Clean' => Clean /\ Live
  BY DEF Live, Clean, WebOn, server
<1>2. ContInv'
  BY <1>1 DEF ShownInv, ContInv, Saved, Saving, server
<1>3. SUFFICES ASSUME Quiet' PROVE ReportInv' /\ SentInv' /\ SessionInv'
  BY <1>2 DEF ShownInv, ReportInv, SentInv, SessionInv
<1> DEFINE m == [kind |-> st, sel |-> sel]
<1>4. m.kind = st /\ m.sel = sel
  OBVIOUS
<1> HIDE DEF m
<1>5. up[conn] \in Seq(UpMsgs) /\ up'[conn] = up[conn] \o <<m>>
  <2>1. link[conn] = "up"
    BY <1>3 DEF Quiet, Live
  <2>2. QED
    BY <2>1 DEF TypeOK, Delivered, m
<1>6. /\ Len(up[conn]) \in Nat /\ DOMAIN up'[conn] = 1..(Len(up[conn]) + 1)
      /\ up'[conn][Len(up[conn]) + 1] = m
  BY <1>5
<1>7. ReportInv'
  <2>1. SUFFICES ASSUME NEW k \in DOMAIN up'[conn], LastStatus(up'[conn], k)
                 PROVE  Right(up'[conn][k].kind, up'[conn][k].sel, alive'[conn], failed')
    BY DEF ReportInv
  <2>2. k = Len(up[conn]) + 1
    BY <1>4, <1>6, <2>1 DEF LastStatus
  <2>3. up'[conn][k].kind = st /\ up'[conn][k].sel = sel
    BY <1>4, <1>6, <2>2
  <2>4. QED
    BY <2>3
<1>8. ~NoStatus(up'[conn])
  BY <1>4, <1>6 DEF NoStatus
<1>9. QED
  BY <1>7, <1>8 DEF SentInv, SessionInv

LEMMA LoopShown ==
  ASSUME TypeOK, ConnInv, UnusedInv, BlankInv, ServedInv, ShownInv, SensorLoop
  PROVE  ShownInv'
<1>0. /\ alive \in [Owners -> SUBSET Ifaces] /\ link \in [Conns -> {"none", "up", "cut"}]
      /\ up \in [Conns -> Seq(UpMsgs)]
  BY DEF TypeOK
<1>1. CASE Connect
  <2>1. PICK c \in Conns : link[c] = "none" /\ conn' = c /\ Accept(c)
    BY <1>1 DEF Connect
  <2>2. phase' = "open" /\ failed' = {} /\ UNCHANGED <<mode, alive, task, down, session, cont, restore>>
    BY <1>1 DEF Connect
  <2>3. alive[c] = {} /\ session[c] = Fresh /\ cont[c] = <<>> /\ restore[c] = None
    BY <2>1 DEF UnusedInv, BlankInv
  <2>4. SUFFICES ASSUME Live' PROVE ShownInv'
    BY NotLive
  <2>5. up'[c] = <<[kind |-> "discovery"]>>
    <3>1. link'[c] = "up"
      BY <2>1, <2>4 DEF Live
    <3>2. QED
      BY <1>0, <2>1, <3>1 DEF Accept
  <2>6. \A k \in DOMAIN up'[c] : up'[c][k].kind \notin Status
    BY <2>5 DEF Status
  <2>7. Right("idle", {}, alive'[c], failed') /\ Fresh.state = "idle" /\ Fresh.sel = {}
    BY <2>1, <2>2, <2>3 DEF Right, RightState, RightSel, Fresh
  <2>8. ContInv' /\ ReportInv' /\ SentInv'
    BY <2>1, <2>2, <2>3, <2>6 DEF ContInv, ReportInv, SentInv, LastStatus
  <2>9. SessionInv'
    BY <2>1, <2>2, <2>3, <2>7 DEF SessionInv
  <2>10. QED
    BY <2>8, <2>9 DEF ShownInv
<1>2. CASE ConnectFails
  <2>1. conn' = 0
    BY <1>2 DEF ConnectFails, ConnInv
  <2>2. QED
    BY <2>1, NotLive, Numbers DEF Live
<1>3. CASE Forward
  BY <1>3, ForwardShown
<1>4. CASE Command
  <2>1. UNCHANGED <<mode, conn, link, server, crossed>> /\ phase' = "stopping"
    BY <1>4 DEF Command, past
  <2>2. (Clean' => Clean) /\ ~Quiet' /\ Aim(conn)' = Aim(conn)
    BY <1>4, <2>1, CommandAim DEF Live, Quiet, Clean, WebOn, server
  <2>3. QED
    BY <2>1, <2>2, ShownSame DEF server
<1>5. CASE ReadEnd
  <2>1. link[conn] = "cut" /\ UNCHANGED <<conn, link>>
    BY <1>5 DEF ReadEnd, wire
  <2>2. QED
    BY <2>1, NotLive DEF Live
<1>6. CASE StartCaptures
  <2>1. /\ phase = "stopping" /\ task # None /\ conn \in Conns
        /\ UNCHANGED <<mode, conn, link, down, server, crossed>> /\ phase' = "open"
    BY <1>6 DEF StartCaptures, Joined, ConnInv
  <2>2. PICK ok \in SUBSET task.list.sel :
          /\ alive' = [alive EXCEPT ![conn] = ok] /\ failed' = task.list.sel \ ok
          /\ up' = Delivered(up, conn, <<[kind |-> "capturing", sel |-> ok]>>)
    BY <1>6 DEF StartCaptures, CaptureStatus
  <2>3. task.list.sel \in SUBSET Ifaces
    BY <2>1, CommandList DEF TypeOK
  <2>4. alive'[conn] = ok /\ alive'[conn] \cup failed' = task.list.sel
    BY <1>0, <2>1, <2>2, <2>3, Numbers
  <2>5. Aim(conn)' = Aim(conn)
    BY <2>1, <2>4 DEF Aim
  <2>6. Right("capturing", ok, alive'[conn], failed') /\ "capturing" \in Status
    BY <2>1, <2>4 DEF Right, RightState, RightSel, Status
  <2>7. QED
    BY <2>1, <2>2, <2>5, <2>6, ReportShown
<1>7. CASE StopCaptures
  <2>1. /\ phase = "stopping" /\ task # None /\ conn \in Conns /\ task.kind = "stop" /\ alive[conn] = {}
        /\ UNCHANGED <<mode, conn, alive, link, down, server, crossed>> /\ phase' = "open" /\ failed' = {}
        /\ up' = Delivered(up, conn, <<[kind |-> "idle", sel |-> {}]>>)
    BY <1>7 DEF StopCaptures, Joined, ConnInv, CaptureStatus
  <2>2. task.list.sel = {}
    BY <2>1, CommandList, ListParts DEF TypeOK
  <2>3. Aim(conn)' = Aim(conn)
    BY <2>1, <2>2 DEF Aim
  <2>4. Right("idle", {}, alive'[conn], failed') /\ "idle" \in Status
    BY <2>1 DEF Right, RightState, RightSel, Status
  <2>5. QED
    BY <2>1, <2>3, <2>4, ReportShown
<1>8. CASE Disconnect \/ SendFails \/ DirectSendFails \/ DirectDone
  <2>1. conn' = 0
    BY <1>8 DEF Disconnect, SendFails, DirectSendFails, DirectDone, Leave
  <2>2. QED
    BY <2>1, NotLive, Numbers DEF Live
<1>9. QED
  BY <1>1, <1>2, <1>3, <1>4, <1>5, <1>6, <1>7, <1>8 DEF SensorLoop

-----------------------------------------------------------------------------
(* Steps of the server.                                                    *)

\* A request returns, or not: the last one to return stays right.
LEMMA ContPops ==
  ASSUME TypeOK, ContInv, conn' = conn, Clean' => Clean, UNCHANGED <<config, web>>, conn \in Conns,
         Aim(conn)' = Aim(conn),
         cont'[conn] = cont[conn] \/ (cont[conn] # <<>> /\ cont'[conn] = Tail(cont[conn]))
  PROVE  ContInv'
<1>1. SUFFICES ASSUME Clean', cont'[conn] # <<>>
               PROVE  LET w == cont'[conn][Len(cont'[conn])]
                      IN  /\ ~Saving' /\ w.sel = Saved'.sel
                          /\ w.sel = Aim(conn)' /\ (w.state = "idle" => w.sel = {})
  BY DEF ContInv
<1>2. Saved' = Saved /\ Saving' = Saving
  BY DEF Saved, Saving
<1> DEFINE q == cont[conn]
<1>3. q \in Seq(Session) /\ cont'[conn] \in {q, Tail(q)}
  BY DEF TypeOK
<1>4. q # <<>>
  BY <1>1
<1>5. LET w == q[Len(q)]
      IN  ~Saving /\ w.sel = Saved.sel /\ w.sel = Aim(conn) /\ (w.state = "idle" => w.sel = {})
  BY <1>1, <1>4 DEF ContInv
<1> HIDE DEF q
<1>6. cont'[conn][Len(cont'[conn])] = q[Len(q)]
  BY <1>1, <1>3, <1>4
<1>7. QED
  BY <1>2, <1>5, <1>6

\* The last of them to return sets a state that is right.
LEMMA LastReturn ==
  ASSUME TypeOK, ContInv, Clean, Quiet, conn \in Conns, cont[conn] # <<>>, Tail(cont[conn]) = <<>>
  PROVE  Right(Head(cont[conn]).state, Head(cont[conn]).sel, alive[conn], failed)
<1> DEFINE q == cont[conn]
<1>1. q \in Seq(Session) /\ q # <<>> /\ Tail(q) = <<>>
  BY DEF TypeOK
<1>2. q[Len(q)].sel = Aim(conn) /\ (q[Len(q)].state = "idle" => q[Len(q)].sel = {})
  BY DEF ContInv
<1>3. Aim(conn) = alive[conn] \cup failed
  BY DEF Quiet, Aim
<1> HIDE DEF q
<1>4. Head(q) = q[Len(q)]
  <2>1. Len(Tail(q)) = Len(q) - 1 /\ Len(q) \in Nat /\ Head(q) = q[1]
    BY <1>1
  <2>2. Len(Tail(q)) = 0
    BY <1>1, Len(<<>>) = 0
  <2>3. QED
    BY <2>1, <2>2
<1>5. Right(Head(q).state, Head(q).sel, alive[conn], failed)
  BY <1>2, <1>3, <1>4 DEF Right, RightState, RightSel
<1>6. QED
  BY <1>5 DEF q

\* A queue whose head is read: what is last stays last, and the head was last if no
\* other report follows.
LEMMA QueuePops ==
  ASSUME NEW S, NEW q \in Seq(S), q # <<>>
  PROVE  /\ \A k \in DOMAIN Tail(q) : /\ k + 1 \in DOMAIN q /\ Tail(q)[k] = q[k + 1]
                                      /\ LastStatus(Tail(q), k) => LastStatus(q, k + 1)
         /\ 1 \in DOMAIN q /\ Head(q) = q[1]
         /\ NoStatus(Tail(q)) /\ Head(q).kind \in Status => LastStatus(q, 1)
         /\ NoStatus(Tail(q)) /\ Head(q).kind \notin Status => NoStatus(q)
<1>1. /\ Len(q) \in Nat \ {0} /\ DOMAIN q = 1..Len(q) /\ Head(q) = q[1] /\ DOMAIN Tail(q) = 1..(Len(q) - 1)
      /\ \A k \in DOMAIN Tail(q) : k + 1 \in DOMAIN q /\ Tail(q)[k] = q[k + 1]
  OBVIOUS
<1>2. \A j \in DOMAIN q : j > 1 => j - 1 \in DOMAIN Tail(q) /\ Tail(q)[j - 1] = q[j]
  <2>1. \A j \in DOMAIN q : j > 1 => j - 1 \in DOMAIN Tail(q) /\ (j - 1) + 1 = j
    BY <1>1
  <2>2. QED
    BY <1>1, <2>1
<1>3. ASSUME NEW k \in DOMAIN Tail(q), LastStatus(Tail(q), k) PROVE LastStatus(q, k + 1)
  <2>1. SUFFICES ASSUME NEW j \in DOMAIN q, j > k + 1 PROVE q[j].kind \notin Status
    BY <1>1, <1>3 DEF LastStatus
  <2>2. j > 1 /\ j - 1 > k
    BY <1>1, <2>1
  <2>3. QED
    BY <1>2, <1>3, <2>2 DEF LastStatus
<1>4. ASSUME NoStatus(Tail(q)) PROVE \A j \in DOMAIN q : j > 1 => q[j].kind \notin Status
  BY <1>2, <1>4 DEF NoStatus
<1>5. \A j \in DOMAIN q : j = 1 \/ j > 1
  BY <1>1
<1>6. 1 \in DOMAIN q
  BY <1>1
<1>7. NoStatus(Tail(q)) /\ Head(q).kind \in Status => LastStatus(q, 1)
  BY <1>1, <1>4 DEF LastStatus
<1>8. NoStatus(Tail(q)) /\ Head(q).kind \notin Status => NoStatus(q)
  BY <1>1, <1>4, <1>5 DEF NoStatus
<1>9. QED
  BY <1>1, <1>3, <1>6, <1>7, <1>8

LEMMA ReportPops ==
  ASSUME TypeOK, ReportInv, conn' = conn, Quiet' => Quiet, conn \in Conns,
         alive'[conn] = alive[conn], failed' = failed, up[conn] # <<>>, up'[conn] = Tail(up[conn])
  PROVE  ReportInv'
<1> DEFINE q == up[conn]
<1>1. q \in Seq(UpMsgs) /\ q # <<>> /\ up'[conn] = Tail(q)
  BY DEF TypeOK
<1>2. SUFFICES ASSUME Quiet', NEW k \in DOMAIN Tail(q), LastStatus(Tail(q), k)
               PROVE  Right(Tail(q)[k].kind, Tail(q)[k].sel, alive[conn], failed)
  BY <1>1 DEF ReportInv
<1>3. \A j \in DOMAIN q : LastStatus(q, j) => Right(q[j].kind, q[j].sel, alive[conn], failed)
  BY <1>2 DEF ReportInv
<1> HIDE DEF q
<1>4. k + 1 \in DOMAIN q /\ Tail(q)[k] = q[k + 1] /\ LastStatus(q, k + 1)
  BY <1>1, <1>2, QueuePops
<1>5. QED
  BY <1>3, <1>4

\* The last report to be read is right.
LEMMA LastReport ==
  ASSUME TypeOK, ReportInv, Quiet, conn \in Conns, up[conn] # <<>>, NoStatus(Tail(up[conn])),
         Head(up[conn]).kind \in Status
  PROVE  Right(Head(up[conn]).kind, Head(up[conn]).sel, alive[conn], failed)
<1> DEFINE q == up[conn]
<1>1. q \in Seq(UpMsgs) /\ q # <<>> /\ NoStatus(Tail(q)) /\ Head(q).kind \in Status
  BY DEF TypeOK
<1>2. \A j \in DOMAIN q : LastStatus(q, j) => Right(q[j].kind, q[j].sel, alive[conn], failed)
  BY DEF ReportInv
<1> HIDE DEF q
<1>3. 1 \in DOMAIN q /\ Head(q) = q[1] /\ LastStatus(q, 1)
  BY <1>1, QueuePops
<1>4. Right(Head(q).kind, Head(q).sel, alive[conn], failed)
  BY <1>2, <1>3
<1>5. QED
  BY <1>4 DEF q

\* The four parts of a step of the live connection's own handler.
LEMMA OwnShown ==
  ASSUME TypeOK, ShownInv, conn \in Conns, UNCHANGED <<process, link, failed, config, web, handler, registered>>,
         Live, crossed \subseteq crossed', down'[conn] = down[conn],
         Receive(conn) \/ RestoreShow(conn) \/ Resume(conn) \/ SetTogether(conn)
  PROVE  ShownInv'
<1>0. /\ UNCHANGED <<mode, phase, conn, alive, task>>
      /\ session \in [Conns -> Session] /\ cont \in [Conns -> Seq(Session)]
      /\ up \in [Conns -> Seq(UpMsgs)] /\ restore \in [Conns -> Restores \cup {None}]
  BY DEF process, TypeOK
<1>1. Aim(conn)' = Aim(conn) /\ (Quiet' => Quiet) /\ (Clean' => Clean)
  BY <1>0 DEF Aim, Quiet, Clean, Live, WebOn
<1>2. link[conn] = "up"
  BY DEF Live
<1> DEFINE Pops == /\ up[conn] # <<>> /\ up'[conn] = Tail(up[conn])
           Returns == /\ cont[conn] # <<>> /\ cont'[conn] = Tail(cont[conn])
           Sets(p, q) == session'[conn].state = p /\ session'[conn].sel = q
\* what each part needs of the step
<1>3. ASSUME cont'[conn] = cont[conn] \/ Returns, up'[conn] = up[conn] \/ Pops,
             up'[conn] = up[conn] \/ ~(restore'[conn] # None /\ restore'[conn].step = "sent"),
             restore'[conn] = restore[conn] \/ ~(restore'[conn] # None /\ restore'[conn].step = "sent"),
             SessionInv'
      PROVE  ShownInv'
  <2>1. ContInv'
    BY <1>0, <1>1, <1>3, ContPops DEF ShownInv
  <2>2. ReportInv'
    <3>1. CASE up'[conn] = up[conn]
      BY <1>0, <1>1, <3>1 DEF ShownInv, ReportInv, LastStatus
    <3>2. CASE Pops
      BY <1>0, <1>1, <3>2, ReportPops DEF ShownInv
    <3>3. QED
      BY <1>3, <3>1, <3>2
  <2>3. SentInv'
    BY <1>0, <1>1, <1>3 DEF ShownInv, SentInv, NoStatus
  <2>4. QED
    BY <1>3, <2>1, <2>2, <2>3 DEF ShownInv
<1>4. ASSUME Quiet' /\ Clean' /\ cont'[conn] = <<>> /\ NoStatus(up'[conn])
             => Right(session'[conn].state, session'[conn].sel, alive[conn], failed)
      PROVE  SessionInv'
  BY <1>0, <1>4 DEF SessionInv
<1>5. ASSUME Returns, Quiet', Clean', cont'[conn] = <<>>
      PROVE  Right(Head(cont[conn]).state, Head(cont[conn]).sel, alive[conn], failed)
  BY <1>1, <1>5, LastReturn DEF ShownInv
<1>6. ASSUME Pops, Quiet', NoStatus(up'[conn]), Head(up[conn]).kind \in Status
      PROVE  Right(Head(up[conn]).kind, Head(up[conn]).sel, alive[conn], failed)
  BY <1>1, <1>6, LastReport DEF ShownInv
<1>7. CASE Receive(conn)
  <2>1. restore[conn] = None /\ cont' = cont /\ Pops
    BY <1>0, <1>7 DEF Receive, Reading
  <2>2. ~(restore'[conn] # None /\ restore'[conn].step = "sent")
    <3>1. CASE restore' = restore
      BY <2>1, <3>1
    <3>2. CASE restore' = [restore EXCEPT ![conn] = [step |-> "loaded", list |-> Saved]]
      BY <1>0, <3>2
    <3>3. QED
      BY <1>7, <3>1, <3>2 DEF Receive, Restore
  <2>3. CASE session' = session /\ Head(up[conn]).kind \notin Status
    <3>1. NoStatus(Tail(up[conn])) => NoStatus(up[conn])
      BY <1>0, <2>1, <2>3, QueuePops
    <3>2. Quiet' /\ Clean' /\ cont'[conn] = <<>> /\ NoStatus(up'[conn])
            => Right(session[conn].state, session[conn].sel, alive[conn], failed)
      BY <1>1, <2>1, <3>1 DEF ShownInv, SessionInv
    <3>3. SessionInv'
      BY <1>4, <2>3, <3>2
    <3>4. QED
      BY <1>3, <2>1, <2>2, <3>3
  <2>4. CASE Head(up[conn]).kind \in Status /\ Sets(Head(up[conn]).kind, Head(up[conn]).sel)
    <3>1. SessionInv'
      BY <1>4, <1>6, <2>1, <2>4
    <3>2. QED
      BY <1>3, <2>1, <2>2, <3>1
  <2>5. QED
    BY <1>0, <1>7, <2>3, <2>4 DEF Receive, Status, Session
<1>8. CASE RestoreShow(conn)
  <2>1. /\ UNCHANGED <<up, cont>> /\ restore[conn] # None /\ restore[conn].step = "sent"
        /\ restore'[conn] = None
    BY <1>0, <1>8 DEF RestoreShow, wire
  <2>2. Quiet' => ~NoStatus(up'[conn])
    BY <1>1, <2>1 DEF ShownInv, SentInv
  <2>3. SessionInv'
    BY <1>4, <2>2
  <2>4. QED
    BY <1>3, <2>1, <2>3
<1>9. CASE Resume(conn)
  <2>1. Returns /\ UNCHANGED <<up, restore>> /\ Sets(Head(cont[conn]).state, Head(cont[conn]).sel)
    BY <1>0, <1>2, <1>9 DEF Resume, wire, Session
  <2>2. SessionInv'
    BY <1>4, <1>5, <2>1
  <2>3. QED
    BY <1>3, <2>1, <2>2
<1>10. CASE SetTogether(conn)
  <2>1. ASSUME NEW other, Mixed(conn, other)
        PROVE  /\ Returns
               /\ \E p, q \in {Head(cont[conn]), other} : Sets(p.state, q.sel)
    BY <1>0, <2>1 DEF Mixed
  <2>2. CASE /\ restore[conn] = None /\ Pops /\ UNCHANGED restore /\ Head(up[conn]).kind \in Status
             /\ Mixed(conn, [state |-> Head(up[conn]).kind, sel |-> Head(up[conn]).sel])
    <3> DEFINE h == Head(cont[conn])
               o == [state |-> Head(up[conn]).kind, sel |-> Head(up[conn]).sel]
    <3>1. Returns
      BY <2>1, <2>2
    <3>2. PICK p \in {h, o}, q \in {h, o} : Sets(p.state, q.sel)
      BY <2>1, <2>2
    <3>3. ASSUME Quiet', Clean', cont'[conn] = <<>>, NoStatus(up'[conn])
          PROVE  /\ Right(h.state, h.sel, alive[conn], failed)
                 /\ Right(o.state, o.sel, alive[conn], failed)
      BY <1>5, <1>6, <2>2, <3>1, <3>3
    <3> HIDE DEF h, o
    <3>4. SessionInv'
      BY <1>4, <3>2, <3>3 DEF Right
    <3>5. QED
      BY <1>3, <2>2, <3>1, <3>4
  <2>3. CASE /\ restore[conn] # None /\ restore[conn].step = "sent" /\ restore'[conn] = None /\ up' = up
             /\ Mixed(conn, Restored(conn))
    <3>1. Returns
      BY <2>1, <2>3
    <3>2. Quiet' => ~NoStatus(up'[conn])
      BY <1>1, <2>3 DEF ShownInv, SentInv
    <3>3. SessionInv'
      BY <1>4, <3>2
    <3>4. QED
      BY <1>3, <2>3, <3>1, <3>3
  <2>4. QED
    BY <1>0, <1>10, <2>2, <2>3 DEF SetTogether, Reading, Status
<1>11. QED
  BY <1>7, <1>8, <1>9, <1>10

LEMMA HandlerShown ==
  ASSUME TypeOK, RestoreInv, ShownInv, NEW c \in Conns, Handler(c)
  PROVE  ShownInv'
<1>0. /\ session \in [Conns -> Session] /\ cont \in [Conns -> Seq(Session)]
      /\ up \in [Conns -> Seq(UpMsgs)] /\ restore \in [Conns -> Restores \cup {None}]
      /\ down \in [Conns -> Seq(DownMsgs)]
  BY DEF TypeOK
<1>1. UNCHANGED <<process, link, failed>> /\ UNCHANGED <<mode, phase, conn, alive, task>>
  BY ServerLeaves DEF process
<1>2. CASE HandlerEnds(c)
  <2>1. registered' = 0
    BY <1>2 DEF HandlerEnds
  <2>2. QED
    BY <1>1, <2>1, NotLive, Numbers DEF Live
<1>3. SUFFICES ASSUME ~HandlerEnds(c), Live' PROVE ShownInv'
  BY <1>2, NotLive
<1>4. UNCHANGED <<handler, registered, config, web>> /\ crossed \subseteq crossed'
  <2>1. CASE Receive(c)
    BY <2>1 DEF Receive, Restore
  <2>2. CASE SetTogether(c)
    <3>1. PICK other : Mixed(c, other)
      BY <2>2 DEF SetTogether
    <3>2. QED
      BY <3>1 DEF Mixed, past
  <2>3. QED
    BY <1>3, <2>1, <2>2 DEF Handler, RestoreSend, RestoreShow, Resume, past
<1>5. Live /\ conn \in Conns /\ (Clean' => Clean) /\ link[conn] = "up"
  BY <1>1, <1>3, <1>4 DEF Live, Clean, WebOn
<1>6. ~RestoreSend(c) => down' = down
  <2>1. CASE SetTogether(c)
    <3>1. PICK other : Mixed(c, other)
      BY <2>1 DEF SetTogether
    <3>2. QED
      BY <3>1 DEF Mixed
  <2>2. QED
    BY <1>3, <2>1 DEF Handler, Receive, RestoreShow, Resume, wire
<1>7. CASE c # conn
  <2>1. /\ up'[conn] = up[conn] /\ session'[conn] = session[conn] /\ cont'[conn] = cont[conn]
        /\ restore'[conn] = restore[conn] /\ down'[conn] = down[conn]
    <3>1. CASE Receive(c)
      BY <1>0, <1>5, <1>7, <3>1 DEF Receive, Restore
    <3>2. CASE SetTogether(c)
      <4>1. PICK other : Mixed(c, other)
        BY <3>2 DEF SetTogether
      <4>2. session'[conn] = session[conn] /\ cont'[conn] = cont[conn] /\ down' = down
        BY <1>0, <1>5, <1>7, <4>1 DEF Mixed
      <4>3. up'[conn] = up[conn] /\ restore'[conn] = restore[conn]
        BY <1>0, <1>5, <1>7, <3>2 DEF SetTogether
      <4>4. QED
        BY <4>2, <4>3
    <3>3. CASE RestoreSend(c)
      BY <1>0, <1>5, <1>7, <3>3 DEF RestoreSend, Delivered
    <3>4. CASE RestoreShow(c)
      BY <1>0, <1>5, <1>7, <3>4 DEF RestoreShow, wire
    <3>5. CASE Resume(c)
      BY <1>0, <1>5, <1>7, <3>5 DEF Resume, wire
    <3>6. QED
      BY <1>3, <3>1, <3>2, <3>3, <3>4, <3>5 DEF Handler
  <2>2. (Quiet' => Quiet) /\ Aim(conn)' = Aim(conn)
    BY <1>1, <1>5, <2>1 DEF Quiet, Aim
  <2>3. QED
    BY <1>1, <1>4, <1>5, <2>1, <2>2, ShownSame
<1>8. CASE c = conn /\ RestoreSend(c)
  <2>1. /\ restore[conn] # None /\ restore[conn].step = "loaded" /\ cont' = cont
        /\ down' = Delivered(down, conn, <<[kind |-> "start", list |-> restore[conn].list]>>)
    BY <1>8 DEF RestoreSend
  <2> DEFINE m == [kind |-> "start", list |-> restore[conn].list]
  <2>2. m \in DownMsgs /\ m.list = restore[conn].list
    BY <1>5, <2>1, RestoreType DEF DownMsgs
  <2> HIDE DEF m
  <2>3. down'[conn] # <<>> /\ down'[conn][Len(down'[conn])] = m
    BY <1>5, <2>1, <2>2, DownMore DEF m
  <2>4. Aim(conn)' = restore[conn].list.sel /\ ~Quiet'
    BY <1>1, <2>2, <2>3 DEF Aim, Quiet
  <2>5. Clean => ~Saving /\ restore[conn].list.sel = Saved.sel
    BY <2>1 DEF RestoreInv, Loaded
  <2>6. Saved' = Saved /\ Saving' = Saving
    BY <1>4 DEF Saved, Saving
  <2>7. ContInv'
    BY <1>1, <1>5, <2>1, <2>4, <2>5, <2>6 DEF ShownInv, ContInv
  <2>8. QED
    BY <2>4, <2>7 DEF ShownInv, ReportInv, SentInv, SessionInv
<1>9. CASE c = conn /\ ~RestoreSend(c)
  BY <1>1, <1>3, <1>4, <1>5, <1>6, <1>9, OwnShown DEF Handler
<1>10. QED
  BY <1>7, <1>8, <1>9

LEMMA WebShown ==
  ASSUME TypeOK, WebInv, ShownInv, Web
  PROVE  ShownInv'
<1>0. cont \in [Conns -> Seq(Session)] /\ down \in [Conns -> Seq(DownMsgs)]
  BY DEF TypeOK
<1>1. UNCHANGED <<mode, phase, conn, alive, task, link, failed>> /\ UNCHANGED <<up, handler, restore, session>>
  BY ServerLeaves DEF process, Web, WebStart, WebStop, WebBegin, WebSave, WebSend, WebDisconnect, wire
<1>2. ASSUME NEW m \in DownMsgs, WebBegin(m) PROVE ShownInv'
  <2>1. /\ web' = [conn |-> registered, step |-> "save", msg |-> m] /\ registered # 0
        /\ UNCHANGED <<registered, down, cont>>
    BY <1>2 DEF WebBegin, wire
  <2>2. registered \in Conns
    BY <2>1, Numbers DEF TypeOK
  <2>3. web' \in Requests
    BY <2>1, <2>2 DEF Requests
  <2>4. web' # None /\ web'.conn = registered
    BY <2>1, <2>3, SensorAssumption
  <2>5. ~Clean'
    BY <2>1, <2>4 DEF Clean, Live, WebOn
  <2>6. Quiet' => Quiet
    BY <1>1, <2>1 DEF Quiet, Live
  <2>7. ReportInv' /\ SentInv'
    BY <1>1, <2>6 DEF ShownInv, ReportInv, SentInv, LastStatus, NoStatus
  <2>8. QED
    BY <2>5, <2>7 DEF ShownInv, ContInv, SessionInv
<1>3. CASE WebSave
  <2>1. /\ Saving /\ web # None /\ web' = [web EXCEPT !.step = "send"]
        /\ UNCHANGED <<registered, crossed, down, cont>>
    BY <1>3 DEF WebSave, Saving, wire, past
  <2>2. web' # None /\ web'.conn = web.conn
    BY <2>1, RequestParts
  <2>3. (Quiet' => Quiet) /\ (Clean' => Clean)
    BY <1>1, <2>1, <2>2 DEF Quiet, Clean, Live, WebOn
  <2>4. Clean' => cont'[conn] = <<>>
    BY <2>1, <2>3 DEF ShownInv, ContInv
  <2>5. ContInv'
    BY <1>1, <2>4 DEF ContInv
  <2>6. ReportInv' /\ SentInv' /\ SessionInv'
    BY <1>1, <2>1, <2>3 DEF ShownInv, ReportInv, SentInv, SessionInv, LastStatus, NoStatus
  <2>7. QED
    BY <2>5, <2>6 DEF ShownInv
<1>4. CASE WebSend
  <2>0. PICK c \in Conns, m \in DownMsgs : web # None /\ c = web.conn /\ m = web.msg
    BY <1>4, RequestType DEF WebSend
  <2> DEFINE w == [state |-> IF m.kind = "start" THEN "capturing" ELSE "idle", sel |-> m.list.sel]
  <2>1. /\ web.step = "send" /\ web' = None /\ UNCHANGED <<registered, config>>
        /\ handler[c] = "running" => /\ down' = Delivered(down, c, <<m>>)
                                     /\ cont' = [cont EXCEPT ![c] = Append(@, w)]
        /\ handler[c] # "running" => down' = down /\ cont' = cont
        /\ crossed \subseteq crossed'
    BY <1>4, <2>0 DEF WebSend
  <2>2. ~Saving /\ ~Saving' /\ Saved = m.list /\ Saved' = Saved
    BY <2>0, <2>1 DEF WebInv, Saving, Saved
  <2>3. w.sel = m.list.sel /\ (w.state = "idle" => m.kind # "start")
    OBVIOUS
  <2>4. m.kind # "start" => m.list.sel = {}
    BY DownList, CommandList, ListParts
  <2> HIDE DEF w
  <2>5. SUFFICES ASSUME Live' PROVE ShownInv'
    BY NotLive
  <2>6. Live /\ conn \in Conns /\ handler[conn] = "running" /\ link[conn] = "up"
    BY <1>1, <2>1, <2>5 DEF Live
  <2>7. CASE conn # c
    <3>1. down'[conn] = down[conn] /\ cont'[conn] = cont[conn]
      BY <1>0, <2>1, <2>6, <2>7 DEF Delivered
    <3>2. (Quiet' => Quiet) /\ Aim(conn)' = Aim(conn)
      BY <1>1, <2>6, <3>1 DEF Quiet, Aim
    <3>3. Clean' => Clean
      BY <1>1, <2>0, <2>1, <2>6, <2>7 DEF Clean, WebOn
    <3>4. ContInv'
      BY <1>1, <2>2, <3>1, <3>2, <3>3 DEF ShownInv, ContInv
    <3>5. ReportInv' /\ SentInv' /\ SessionInv'
      BY <1>1, <3>1, <3>2, <3>3 DEF ShownInv, ReportInv, SentInv, SessionInv, LastStatus, NoStatus
    <3>6. QED
      BY <3>4, <3>5 DEF ShownInv
  <2>8. CASE conn = c
    <3>1. down'[c] # <<>> /\ down'[c][Len(down'[c])] = m
      BY <2>1, <2>6, <2>8, DownMore
    <3>2. cont'[c] = Append(cont[c], w) /\ cont[c] \in Seq(Session)
      BY <1>0, <2>1, <2>6, <2>8
    <3>3. cont'[c][Len(cont'[c])] = w
      BY <3>2
    <3>4. Aim(c)' = m.list.sel /\ ~Quiet'
      BY <1>1, <2>8, <3>1 DEF Aim, Quiet
    <3>5. ContInv'
      BY <1>1, <2>2, <2>3, <2>4, <2>8, <3>3, <3>4 DEF ContInv
    <3>6. QED
      BY <3>4, <3>5 DEF ShownInv, ReportInv, SentInv, SessionInv
  <2>9. QED
    BY <2>7, <2>8
<1>5. CASE WebDisconnect
  <2>1. registered' = 0
    BY <1>5 DEF WebDisconnect
  <2>2. QED
    BY <1>1, <2>1, NotLive, Numbers DEF Live
<1>6. QED
  BY <1>2, <1>3, <1>4, <1>5, Begins DEF Web

LEMMA ShownStep ==
  ASSUME TypeOK, ConnInv, SelectInv, BlankInv, ServedInv, ShownInv, [Next]_vars
  PROVE  ShownInv'
<1>1. CASE UNCHANGED vars
  <2>1. UNCHANGED <<mode, phase, conn, alive, task, wire, server, failed, crossed>>
    BY <1>1 DEF vars, process, past
  <2>2. (Clean' => Clean) /\ (Quiet' => Quiet) /\ Aim(conn)' = Aim(conn)
    BY <2>1 DEF Live, Clean, WebOn, Quiet, Aim, wire, server
  <2>3. QED
    BY <2>1, <2>2, ShownSame DEF wire, server
<1>2. CASE SensorCrash \/ SensorStart
  <2>1. conn' = 0
    BY <1>2 DEF SensorCrash, SensorStart, ConnInv
  <2>2. QED
    BY <2>1, NotLive, Numbers DEF Live
<1>3. CASE ServerCrash
  <2>1. registered' = 0 /\ conn' = conn
    BY <1>3 DEF ServerCrash, process
  <2>2. QED
    BY <2>1, NotLive, Numbers DEF Live
<1>4. ASSUME NEW c \in Conns, Cut(c) PROVE ShownInv'
  <2>1. /\ UNCHANGED <<mode, phase, conn, alive, task, up, down, server, failed, crossed>>
        /\ link' = [link EXCEPT ![c] = "cut"] /\ link \in [Conns -> {"none", "up", "cut"}]
    BY <1>4 DEF Cut, process, past, TypeOK
  <2>2. \A d \in Conns : link'[d] = "up" => link[d] = "up"
    BY <2>1
  <2>3. (Clean' => Clean) /\ (Quiet' => Quiet) /\ Aim(conn)' = Aim(conn)
    BY <2>1, <2>2 DEF Live, Clean, WebOn, Quiet, Aim, server
  <2>4. QED
    BY <2>1, <2>3, ShownSame DEF server
<1>5. QED
  BY <1>1, <1>2, <1>3, <1>4, ThreadShown, LoopShown, HandlerShown, WebShown DEF Next, SelectInv

\* A sensor that has carried out its commands, whose reports have arrived and whose
\* requests have returned, is shown as it is: but for a restored selection that crossed a
\* request, no order of requests, returns and reports, and no two threads that set the
\* state at once, leave it shown idle while it captures, or with interfaces it does not
\* capture on.
THEOREM ShownStateIsTrue == Spec => []ShownMatchesSensor
<1>1. Init => BlankInv /\ ShownInv
  <2> SUFFICES ASSUME Init PROVE BlankInv /\ ShownInv
    OBVIOUS
  <2>1. conn = 0 /\ \A c \in Conns : session[c] = Fresh /\ cont[c] = <<>>
    BY DEF Init
  <2>2. ~Live
    BY <2>1, Numbers DEF Live
  <2>3. QED
    BY <2>1, <2>2 DEF BlankInv, ShownInv, ContInv, ReportInv, SentInv, SessionInv, Quiet, Clean
<1>2. TypeOK /\ ThreadInv /\ SelectInv /\ FrameInv /\ BlankInv /\ ShownInv /\ [Next]_vars
        => BlankInv' /\ ShownInv'
  BY BlankStep, ShownStep DEF ThreadInv, SelectInv, FrameInv
<1>3. ShownInv => ShownMatchesSensor
  <2>1. SUFFICES ASSUME ShownInv, NEW c \in Conns, Settled(c), c \notin crossed, cont[c] = <<>>,
                        Kinds(up[c]) \cap {"capturing", "idle"} = {}
                 PROVE  Right(session[c].state, session[c].sel, alive[c], failed)
    BY DEF ShownMatchesSensor, Right, RightState, RightSel
  <2>2. Quiet /\ Clean /\ conn = c
    BY <2>1 DEF Settled, Quiet, Clean, Live, WebOn
  <2>3. NoStatus(up[c])
    BY <2>1 DEF NoStatus, Status, Kinds
  <2>4. QED
    BY <2>1, <2>2, <2>3 DEF ShownInv, SessionInv
<1>4. QED
  BY <1>1, <1>2, <1>3, ThreadInvariant, SelectInvariant, FrameInvariant, PTL DEF Spec
=============================================================================
