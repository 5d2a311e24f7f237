------------------------------- MODULE Triage -------------------------------
(***************************************************************************)
(* What the operator decides about one device: its authorization with the  *)
(* audit trail (store/database.py, _transition_authorization,              *)
(* baseline_reset, clear_baseline_attestations), from the web and from the *)
(* command line, and the life of its new_host findings (store/findings.py, *)
(* ui/web/app.py, api_*_incident).                                         *)
(*                                                                         *)
(* Every connection autocommits, so a statement is a step and commit()     *)
(* does nothing.  Database._mu excludes the requests of the server from    *)
(* each other's writes; a command is a process of its own.  A request      *)
(* holds the lock while it is "locked" or at its "insert".                 *)
(***************************************************************************)
EXTENDS Integers, Sequences

CONSTANTS
    Reqs,            \* requests that may run at the same time
    Reasons,         \* the reasons an operator may give
    Findings,        \* ids of new_host findings of the device
    MaxTime,         \* bound on the clock
    MaxOps,          \* bound on requests
    MaxFaults,       \* bound on failed accesses, kills and clears
    None

States      == {"unapproved", "approved", "rejected"}
Decisions   == {"approve", "reject", "revoke"}
Lists       == {"snooze", "resolve", "reopen", "bulk"}
AllReasons  == Reasons \cup {"baseline", "reset", "cleanup", "none"}
Times       == 0..MaxTime
Rows        == [prev : States, new : States, reason : AllReasons,
                by : {"server", "command"}, solo : BOOLEAN]
Requests    == [op : Decisions \cup Lists \cup {"reset", "cleanup", "none"},
                at : {"idle", "ensure", "read", "lock", "locked", "insert", "silence", "apply"},
                by : {"server", "command"}, reason : AllReasons, prev : States,
                seen : Nat, clean : BOOLEAN, alone : BOOLEAN,
                list : SUBSET Findings, until : Times]
FindingRows == [is : {"unborn", "open", "resolved", "gone"},
                status : {"new", "snoozed", "resolved"}, until : Times \cup {None}]

ASSUME TriageAssumption ==
    /\ MaxTime \in Nat /\ MaxOps \in Nat /\ MaxFaults \in Nat
    /\ None \notin States /\ None \notin Times

VARIABLES
    auth,            \* devices.authorization, None without a row
    history,         \* authorization_history, oldest first
    req,             \* the requests in progress
    finding,         \* the rows of findings
    now,
    torn,            \* history: a fault, a clear or an overlap split row from trail
    ops, faults

vars == <<auth, history, req, finding, now, torn, ops, faults>>

Idle == [op |-> "none", at |-> "idle", by |-> "server", reason |-> "none", prev |-> "unapproved",
         seen |-> 0, clean |-> FALSE, alone |-> FALSE, list |-> {}, until |-> 0]

Fault == faults < MaxFaults /\ faults' = faults + 1

-----------------------------------------------------------------------------
(* Pure parts.                                                             *)

TargetByName(op) == IF op = "approve" THEN "approved"
                    ELSE IF op = "reject" THEN "rejected" ELSE "revoked"
Target(op) == IF op = "approve" THEN "approved"
              ELSE IF op = "reject" THEN "rejected" ELSE "unapproved"

\* Requests between their UPDATE of the row and their INSERT into the trail.
Writing == {r \in Reqs : req[r].at = "insert"}

\* Database._mu of the server
Locking == {r \in Reqs : req[r].by = "server" /\ req[r].at \in {"locked", "insert"}}
FreeForDecisions(r) == req[r].op \in Decisions \/ req[r].by = "command" \/ Locking = {}
Free(r) == req[r].by = "command" \/ Locking = {}

\* Two commands are two processes.
SameProcess(q, r) == req[q].by = "server" /\ req[r].by = "server"

LastRow == history[Len(history)]
Trail == IF history = <<>> THEN "unapproved" ELSE LastRow.new

\* findings.list_active
Active(i) == /\ finding[i].is = "open"
             /\ finding[i].status = "snoozed" => finding[i].until # None /\ finding[i].until <= now

Exists(i) == finding[i].is \in {"open", "resolved"}

\* findings.resolve, resolve_many and the UPDATE of approve_device
Resolved(S) == [i \in Findings |-> IF i \in S /\ Exists(i)
                                   THEN [finding[i] EXCEPT !.is = "resolved"] ELSE finding[i]]

\* What a request leaves behind when it ends.
Done(r) == [req EXCEPT ![r] = Idle]

-----------------------------------------------------------------------------
(* Requests about the authorization.                                       *)

\* A request arrives.  The bulk endpoint makes one such request per device, in turn.
Arrive(r, by, op, why, t) ==
    /\ req[r].at = "idle" /\ ops < MaxOps
    /\ ops' = ops + 1
    /\ req' = [req EXCEPT ![r] = [Idle EXCEPT !.op = op, !.by = by, !.reason = why, !.until = t,
                                  !.at = IF op \in Decisions THEN "ensure" ELSE "read"]]
    /\ UNCHANGED <<auth, history, finding, now, torn, faults>>

\* _ensure_device_row; a command does not create the row, an unknown host has none.
Ensure(r) ==
    /\ req[r].at = "ensure"
    /\ \/ auth # None /\ req' = [req EXCEPT ![r].at = "read"] /\ UNCHANGED auth
       \/ auth = None /\ req' = Done(r) /\ UNCHANGED auth
       \/ /\ auth = None /\ req[r].by = "server"
          /\ auth' = "unapproved"
          /\ req' = [req EXCEPT ![r].at = "read"]
    /\ UNCHANGED <<history, finding, now, torn, ops, faults>>

\* What a writer knows once it has read the state: clean and seen are history.
Knowing(r, prev, at) ==
    [req EXCEPT ![r] = [@ EXCEPT !.prev = prev, !.at = at, !.seen = Len(history),
                                 !.clean = ~torn /\ Writing = {}]]

\* _transition_authorization reads the state before it takes the lock.
ReadState(r) ==
    /\ req[r].op \in Decisions /\ req[r].at = "read"
    /\ req' = IF auth = None THEN Done(r)
              ELSE IF auth # Target(req[r].op) THEN Knowing(r, auth, "lock")
              ELSE IF req[r].op = "approve" THEN [req EXCEPT ![r].at = "silence"]
              ELSE Done(r)
    /\ UNCHANGED <<auth, history, finding, now, torn, ops, faults>>

\* baseline_reset reads it under the lock.
PreviousApproved == "approved"
Previous == auth
ResetRead(r) ==
    /\ req[r].op = "reset" /\ req[r].at = "read"
    /\ Free(r)
    /\ req' = IF auth \in {None, "unapproved"} THEN Done(r)
              ELSE Knowing(r, Previous, "locked")
    /\ UNCHANGED <<auth, history, finding, now, torn, ops, faults>>

\* clear_baseline_attestations: the latest transition must be the bulk approval.
BulkOnce == \E k \in DOMAIN history : history[k].reason = "baseline" /\ history[k].new = "approved"
BulkApproved ==
    /\ \E k \in DOMAIN history : history[k].reason = "baseline" /\ history[k].new = "approved"
    /\ LastRow.reason = "baseline"
CleanupRead(r) ==
    /\ req[r].op = "cleanup" /\ req[r].at = "read"
    /\ Free(r)
    /\ req' = IF BulkApproved THEN Knowing(r, "approved", "locked") ELSE Done(r)
    /\ UNCHANGED <<auth, history, finding, now, torn, ops, faults>>

\* UPDATE devices.  A missing row is not updated; the cleanup only touches approvals.
Updated(r) ==
    IF auth = None \/ (req[r].op = "cleanup" /\ auth # "approved") THEN auth
    ELSE Target(req[r].op)
Update(r) ==
    /\ \/ req[r].at = "locked"
       \/ req[r].at = "lock" /\ Free(r)
    /\ auth' = Updated(r)
    /\ req' = [q \in Reqs |->
                 IF q = r
                 THEN [req[q] EXCEPT !.at = "insert",
                                     !.alone = auth # None /\ \A w \in Writing : SameProcess(w, r)]
                 ELSE [req[q] EXCEPT !.alone = @ /\ SameProcess(q, r)]]
    /\ UNCHANGED <<history, finding, now, torn, ops, faults>>

\* INSERT INTO authorization_history, and the end of the locked part.  A complete write
\* brings row and trail together again, except for the cleanup, which records the end of
\* an approval whether or not it has found one.
RowOf(r) ==
    [prev |-> req[r].prev, new |-> Target(req[r].op), by |-> req[r].by,
     reason |-> req[r].reason,
     solo |-> req[r].clean /\ req[r].alone /\ req[r].seen = Len(history)]
Insert(r) ==
    /\ req[r].at = "insert"
    /\ history' = Append(history, RowOf(r))
    /\ torn' = IF req[r].op = "cleanup" THEN torn \/ ~RowOf(r).solo ELSE ~req[r].alone
    /\ req' = IF req[r].op = "approve" THEN [req EXCEPT ![r].at = "silence"] ELSE Done(r)
    /\ UNCHANGED <<auth, finding, now, ops, faults>>

\* The INSERT raises: the UPDATE stands.
InsertFails(r) ==
    /\ req[r].at = "insert"
    /\ Fault
    /\ torn' = TRUE
    /\ req' = Done(r)
    /\ UNCHANGED <<auth, history, finding, now, ops>>

\* approve_device resolves the device's findings, without the lock; errors are ignored,
\* and so is a device that has disappeared.
Silence(r) ==
    /\ req[r].at = "silence"
    /\ \/ finding' = Resolved(Findings) /\ UNCHANGED faults
       \/ auth = None /\ UNCHANGED <<finding, faults>>
       \/ Fault /\ UNCHANGED finding
    /\ req' = Done(r)
    /\ UNCHANGED <<auth, history, now, torn, ops>>

-----------------------------------------------------------------------------
(* Findings.                                                               *)

\* The pipeline adds a new_host finding; ids are not used twice.
AddFinding(i) ==
    /\ finding[i].is = "unborn"
    /\ finding' = [finding EXCEPT ![i].is = "open"]
    /\ UNCHANGED <<auth, history, req, now, torn, ops, faults>>

\* The incident handlers list first and treat what they listed afterwards.
Listed(r) == IF req[r].op = "reopen" THEN {i \in Findings : finding[i].is = "resolved"}
             ELSE {i \in Findings : Active(i)}
List(r) ==
    /\ req[r].op \in Lists /\ req[r].at = "read"
    /\ req' = [req EXCEPT ![r] = [@ EXCEPT !.list = Listed(r), !.at = "apply"]]
    /\ UNCHANGED <<auth, history, finding, now, torn, ops, faults>>

\* findings.snooze
SnoozedOpen(i, t) == [finding[i] EXCEPT !.is = "open", !.status = "snoozed", !.until = t]
Snoozed(i, t) == [finding[i] EXCEPT !.status = "snoozed", !.until = t]
\* findings.update_status
WithStatus(i, s) == [finding[i] EXCEPT !.status = s,
                                       !.is = IF s = "resolved" THEN "resolved" ELSE "open"]

\* One finding of the list: an UPDATE, of no row if it is gone.
Apply(r, i) ==
    /\ req[r].at = "apply" /\ req[r].op \in Lists \ {"bulk"}
    /\ i \in req[r].list
    /\ finding' = [finding EXCEPT ![i] =
                      IF ~Exists(i) THEN @
                      ELSE CASE req[r].op = "snooze" -> Snoozed(i, req[r].until)
                             [] req[r].op = "resolve" -> WithStatus(i, "resolved")
                             [] req[r].op = "reopen" -> WithStatus(i, "new")]
    /\ req' = [req EXCEPT ![r].list = @ \ {i}]
    /\ UNCHANGED <<auth, history, now, torn, ops, faults>>

\* resolve_many, one statement for the whole list.
ApplyBulk(r) ==
    /\ req[r].at = "apply" /\ req[r].op = "bulk" /\ req[r].list # {}
    /\ finding' = Resolved(req[r].list)
    /\ req' = Done(r)
    /\ UNCHANGED <<auth, history, now, torn, ops, faults>>

ApplyEnds(r) ==
    /\ req[r].at = "apply" /\ req[r].list = {}
    /\ req' = Done(r)
    /\ UNCHANGED <<auth, history, finding, now, torn, ops, faults>>

\* acknowledge_alert, bulk_alert_action: by id, from whatever page the operator looks at.
Acknowledge(i) ==
    /\ ops < MaxOps /\ finding[i].is = "open"
    /\ ops' = ops + 1
    /\ finding' = Resolved({i})
    /\ UNCHANGED <<auth, history, req, now, torn, faults>>

\* api_delete_resolved_alerts, and with all = TRUE api_delete_all_alerts.
Delete(all) ==
    /\ ops < MaxOps
    /\ ops' = ops + 1
    /\ finding' = [i \in Findings |->
                      IF finding[i].is = "resolved" \/ (all /\ Exists(i))
                      THEN [is |-> "gone", status |-> "new", until |-> None] ELSE finding[i]]
    /\ UNCHANGED <<auth, history, req, now, torn, faults>>

\* unsnooze_expired, every 30 seconds.
Expired(i) == /\ Exists(i) /\ finding[i].status = "snoozed"
              /\ finding[i].until # None /\ finding[i].until <= now
WokenUntil(i) == [finding[i] EXCEPT !.until = None]
Woken(i) == [finding[i] EXCEPT !.status = "new", !.until = None]
Unsnooze ==
    /\ \E i \in Findings : Expired(i)
    /\ finding' = [i \in Findings |-> IF Expired(i) THEN Woken(i) ELSE finding[i]]
    /\ UNCHANGED <<auth, history, req, now, torn, ops, faults>>

-----------------------------------------------------------------------------
(* The environment.                                                        *)

\* external: the clock.
Tick ==
    /\ now < MaxTime
    /\ now' = now + 1
    /\ UNCHANGED <<auth, history, req, finding, torn, ops, faults>>

\* The server, or a command, is killed.
Kill(S) ==
    /\ \E r \in S : req[r] # Idle
    /\ Fault
    /\ torn' = (torn \/ S \cap Writing # {})
    /\ req' = [r \in Reqs |-> IF r \in S THEN Idle ELSE req[r]]
    /\ UNCHANGED <<auth, history, finding, now, ops>>

\* clear_all_devices, under the server's lock: the trail stays.
Clear ==
    /\ auth # None
    /\ Locking = {}
    /\ Fault
    /\ auth' = None
    /\ torn' = TRUE
    /\ req' = [r \in Reqs |-> [req[r] EXCEPT !.alone = @ /\ req[r].by = "server"]]
    /\ UNCHANGED <<history, finding, now, ops>>

-----------------------------------------------------------------------------
\* A device nobody has looked at, or one the old `baseline set` approved.
Init ==
    /\ \/ auth = "unapproved" /\ history = <<>>
       \/ /\ auth = "approved"
          /\ history = <<[prev |-> "unapproved", new |-> "approved", reason |-> "baseline",
                          by |-> "server", solo |-> TRUE]>>
    /\ req = [r \in Reqs |-> Idle]
    /\ finding = [i \in Findings |-> [is |-> "unborn", status |-> "new", until |-> None]]
    /\ now = 0 /\ torn = FALSE /\ ops = 0 /\ faults = 0

Authorize(r) ==
    \/ \E by \in {"server", "command"} :
          \/ \E op \in Decisions, why \in Reasons : Arrive(r, by, op, why, 0)
          \/ \E op \in {"reset", "cleanup"} : Arrive(r, by, op, op, 0)
    \/ Ensure(r) \/ ReadState(r) \/ ResetRead(r) \/ CleanupRead(r)
    \/ Update(r) \/ Insert(r) \/ InsertFails(r) \/ Silence(r)
Incident(r) ==
    \/ \E op \in Lists \ {"snooze"} : Arrive(r, "server", op, "none", 0)
    \/ \E t \in now + 1 .. MaxTime : Arrive(r, "server", "snooze", "none", t)
    \/ List(r) \/ ApplyBulk(r) \/ ApplyEnds(r)
    \/ \E i \in Findings : Apply(r, i)
Alerts ==
    \/ \E i \in Findings : AddFinding(i) \/ Acknowledge(i)
    \/ \E all \in BOOLEAN : Delete(all)
    \/ Unsnooze

Next ==
    \/ \E r \in Reqs : Authorize(r) \/ Incident(r)
    \/ Alerts
    \/ Tick \/ Clear
    \/ Kill({r \in Reqs : req[r].by = "server"})
    \/ \E r \in Reqs : req[r].by = "command" /\ Kill({r})

Spec == Init /\ [][Next]_vars

\* Time passes, and _unsnooze_loop runs for as long as the program does.
FairSpec == Spec /\ WF_vars(Tick) /\ WF_vars(Unsnooze)

-----------------------------------------------------------------------------
(* Properties.                                                             *)

TypeOK ==
    /\ auth \in States \cup {None}
    /\ history \in Seq(Rows)
    /\ req \in [Reqs -> Requests]
    /\ finding \in [Findings -> FindingRows]
    /\ now \in Times
    /\ torn \in BOOLEAN
    /\ ops \in 0..MaxOps /\ faults \in 0..MaxFaults

\* "baseline" is the reason of bulk approvals only: the code tells them by this text.
Honest == \A k \in DOMAIN history : history[k].reason = "baseline" => history[k].new = "approved"

\* Whenever no write is in progress the last row of the audit trail is the state of the
\* device, unless the last write was cut short, cleared or overlapped by a write of
\* another process; the next complete write mends it (store/database.py:836-867).
AuditAgrees == Honest /\ ~torn /\ Writing = {} /\ auth # None => auth = Trail

\* The rows of writes that no other write came between form a path: each starts where
\* the one before ended, and none stays where it is (store/database.py:840-845,
\* 1065-1081, 1112-1129).
AuditIsPath ==
    Honest => \A k \in DOMAIN history : history[k].solo =>
        /\ history[k].prev = IF k = 1 THEN "unapproved" ELSE history[k - 1].new
        /\ history[k].prev # history[k].new

\* clear_baseline_attestations takes back no approval that a later decision recorded,
\* unless the decision was recorded by another process than the cleanup's after the
\* cleanup had looked (store/database.py:1098-1122).
HandApprovalKept ==
    [][\A r \in Reqs :
          req[r].op = "cleanup" /\ req[r].at = "locked" /\ auth # None /\ auth' # auth
          /\ req'[r].at = "insert"
          => \/ LastRow.reason = "baseline"
             \/ \E k \in req[r].seen + 1 .. Len(history) :
                   req[r].by = "command" \/ history[k].by = "command"]_vars

\* A resolved finding is opened again by a reopen request that saw it resolved, and by
\* nothing else, however old the list of a snooze or resolve request is
\* (store/findings.py:102-125, ui/web/app.py:2369-2374).
ResolvedStays ==
    [][\A i \in Findings :
          finding[i].is = "resolved" /\ finding'[i].is = "open"
          => \E r \in Reqs : req[r].op = "reopen" /\ i \in req[r].list]_vars

\* No finding is snoozed for good (store/findings.py:117-125, app.py:285-295).
SnoozeEnds ==
    \A i \in Findings :
        (Exists(i) /\ finding[i].status = "snoozed") ~> finding[i].status # "snoozed"

=============================================================================
