---------------------------- MODULE TriageProofs ----------------------------
(* Proofs about Triage, for any number of requests and any bounds.         *)
EXTENDS Triage, TLAPS

-----------------------------------------------------------------------------
(* The inductive invariant.                                                *)

\* Database._mu excludes the server's writers from each other.
MutexInv == \A q, r \in Locking : q = r

\* A writer that no other process interfered with is the only one, and the row still
\* holds what it wrote.
WriterInv ==
    \A r \in Writing : req[r].alone =>
        /\ Writing = {r}
        /\ auth # None
        /\ req[r].op # "cleanup" => auth = Target(req[r].op)
        /\ Honest /\ ~torn /\ req[r].clean /\ req[r].seen = Len(history)
              => auth = Target(req[r].op)

\* What a request has read before its write.
Knows(r) ==
    /\ req[r].at = "lock" => req[r].op \in Decisions
    /\ req[r].at = "locked" => req[r].op \in {"reset", "cleanup"}
    /\ req[r].op \in Decisions \cup {"reset", "cleanup"}
    /\ req[r].seen <= Len(history)
    /\ req[r].prev # Target(req[r].op)
    /\ Honest /\ req[r].clean /\ req[r].seen = Len(history) => req[r].prev = Trail
    /\ req[r].op = "cleanup" =>
          req[r].seen \in DOMAIN history /\ history[req[r].seen].reason = "baseline"
    /\ req[r].at = "locked" =>
          \A k \in req[r].seen + 1 .. Len(history) :
             req[r].by = "command" \/ history[k].by = "command"
KnowInv == \A r \in Reqs : req[r].at \in {"lock", "locked", "insert"} => Knows(r)

\* A cleared device is one whose trail has been left behind.
ClearedInv == auth = None => torn

AuditInv ==
    TypeOK /\ MutexInv /\ WriterInv /\ KnowInv /\ ClearedInv /\ AuditAgrees /\ AuditIsPath

-----------------------------------------------------------------------------
(* Types.                                                                  *)

LEMMA IdleType == Idle \in Requests
  BY TriageAssumption DEF Idle, Requests, AllReasons, States, Times

LEMMA TargetType == \A op : Target(op) \in States
  BY DEF Target, States

LEMMA ResolvedType ==
  ASSUME TypeOK, NEW S
  PROVE  Resolved(S) \in [Findings -> FindingRows]
  BY DEF TypeOK, Resolved, FindingRows

LEMMA DoneType ==
  ASSUME TypeOK, NEW r \in Reqs
  PROVE  Done(r) \in [Reqs -> Requests]
  BY IdleType DEF TypeOK, Done

LEMMA KnowingType ==
  ASSUME TypeOK, NEW r \in Reqs, NEW p \in States, NEW a \in {"lock", "locked"}
  PROVE  Knowing(r, p, a) \in [Reqs -> Requests]
<1>1. (~torn /\ Writing = {}) \in BOOLEAN /\ Len(history) \in Nat
  BY DEF TypeOK
<1> DEFINE n == [req[r] EXCEPT !.prev = p, !.at = a, !.seen = Len(history),
                               !.clean = ~torn /\ Writing = {}]
<1>2. n \in Requests
  BY <1>1 DEF TypeOK, Requests
<1>3. Knowing(r, p, a) = [req EXCEPT ![r] = n]
  BY DEF Knowing
<1>4. QED
  BY <1>2, <1>3 DEF TypeOK

LEMMA ArriveType ==
  ASSUME TypeOK, NEW r \in Reqs, NEW by \in {"server", "command"},
         NEW op \in Decisions \cup Lists \cup {"reset", "cleanup"},
         NEW why \in AllReasons, NEW t \in Times, Arrive(r, by, op, why, t)
  PROVE  TypeOK'
<1> DEFINE a == IF op \in Decisions THEN "ensure" ELSE "read"
<1> DEFINE n == [Idle EXCEPT !.op = op, !.by = by, !.reason = why, !.until = t, !.at = a]
<1>1. a \in {"ensure", "read"}
  OBVIOUS
<1>2. n \in Requests
  <2> HIDE DEF a
  <2> QED
    BY <1>1, IdleType DEF Requests
<1>3. req' = [req EXCEPT ![r] = n]
  BY DEF Arrive
<1>4. req' \in [Reqs -> Requests]
  <2> HIDE DEF n
  <2> QED
    BY <1>2, <1>3 DEF TypeOK
<1>5. QED
  BY <1>4, TriageAssumption DEF Arrive, TypeOK

LEMMA AuthorizeType ==
  ASSUME TypeOK, NEW r \in Reqs, Authorize(r)
  PROVE  TypeOK'
<1>1. ASSUME NEW by \in {"server", "command"}, NEW op \in Decisions, NEW why \in Reasons,
             Arrive(r, by, op, why, 0)
      PROVE  TypeOK'
  BY <1>1, ArriveType, TriageAssumption DEF AllReasons, Times
<1>2. ASSUME NEW by \in {"server", "command"}, NEW op \in {"reset", "cleanup"},
             Arrive(r, by, op, op, 0)
      PROVE  TypeOK'
  BY <1>2, ArriveType, TriageAssumption DEF AllReasons, Times
<1>3. CASE Ensure(r)
  <2>1. [req EXCEPT ![r].at = "read"] \in [Reqs -> Requests]
    BY DEF TypeOK, Requests
  <2>2. QED
    BY <1>3, <2>1, DoneType DEF Ensure, TypeOK, States
<1>4. CASE ReadState(r)
  <2>1. [req EXCEPT ![r].at = "silence"] \in [Reqs -> Requests]
    BY DEF TypeOK, Requests
  <2>2. auth # None => Knowing(r, auth, "lock") \in [Reqs -> Requests]
    BY KnowingType DEF TypeOK
  <2>3. req' \in [Reqs -> Requests]
    BY <1>4, <2>1, <2>2, DoneType DEF ReadState
  <2>4. QED
    BY <1>4, <2>3 DEF ReadState, TypeOK
<1>5. CASE ResetRead(r)
  <2>1. auth # None => Knowing(r, Previous, "locked") \in [Reqs -> Requests]
    BY KnowingType DEF TypeOK, Previous
  <2>2. req' \in [Reqs -> Requests]
    BY <1>5, <2>1, DoneType DEF ResetRead
  <2>3. QED
    BY <1>5, <2>2 DEF ResetRead, TypeOK
<1>6. CASE CleanupRead(r)
  <2>1. Knowing(r, "approved", "locked") \in [Reqs -> Requests]
    BY KnowingType DEF States
  <2>2. req' \in [Reqs -> Requests]
    BY <1>6, <2>1, DoneType DEF CleanupRead
  <2>3. QED
    BY <1>6, <2>2 DEF CleanupRead, TypeOK
<1>7. CASE Update(r)
  <2>1. auth' \in States \cup {None}
    BY <1>7, TargetType DEF Update, Updated, TypeOK
  <2>2. \A q \in Reqs : req'[q] \in Requests
    <3>1. ASSUME NEW q \in Reqs PROVE req'[q] \in Requests
      <4>1. CASE q = r
        <5>1. req'[r] = [req[r] EXCEPT !.at = "insert",
                           !.alone = auth # None /\ \A w \in Writing : SameProcess(w, r)]
          BY <1>7 DEF Update
        <5>2. (auth # None /\ \A w \in Writing : SameProcess(w, r)) \in BOOLEAN
          OBVIOUS
        <5>3. req[r] \in Requests
          BY DEF TypeOK
        <5>4. QED
          BY <4>1, <5>1, <5>2, <5>3 DEF Requests
      <4>2. CASE q # r
        <5>1. req'[q] = [req[q] EXCEPT !.alone = @ /\ SameProcess(q, r)]
          BY <1>7, <4>2 DEF Update
        <5>2. (req[q].alone /\ SameProcess(q, r)) \in BOOLEAN
          BY DEF SameProcess
        <5>3. req[q] \in Requests
          BY DEF TypeOK
        <5>4. QED
          BY <5>1, <5>2, <5>3 DEF Requests
      <4>3. QED
        BY <4>1, <4>2
    <3>2. QED
      BY <3>1
  <2>3. req' \in [Reqs -> Requests]
    BY <1>7, <2>2 DEF Update
  <2>4. QED
    BY <1>7, <2>1, <2>3 DEF Update, TypeOK
<1>8. CASE Insert(r)
  <2>1. RowOf(r) \in Rows
    <3>1. (req[r].clean /\ req[r].alone /\ req[r].seen = Len(history)) \in BOOLEAN
      BY DEF TypeOK, Requests
    <3>2. QED
      BY <3>1, TargetType DEF TypeOK, RowOf, Rows, Requests
  <2>2. history' \in Seq(Rows)
    BY <1>8, <2>1 DEF Insert, TypeOK
  <2>3. torn' \in BOOLEAN
    BY <1>8 DEF Insert, TypeOK, Requests
  <2>4. [req EXCEPT ![r].at = "silence"] \in [Reqs -> Requests]
    BY DEF TypeOK, Requests
  <2>5. req' \in [Reqs -> Requests]
    BY <1>8, <2>4, DoneType DEF Insert
  <2>6. QED
    BY <1>8, <2>2, <2>3, <2>5 DEF Insert, TypeOK
<1>9. CASE InsertFails(r)
  BY <1>9, DoneType, TriageAssumption DEF InsertFails, Fault, TypeOK
<1>10. CASE Silence(r)
  BY <1>10, DoneType, ResolvedType, TriageAssumption DEF Silence, Fault, TypeOK
<1>11. QED
  BY <1>1, <1>2, <1>3, <1>4, <1>5, <1>6, <1>7, <1>8, <1>9, <1>10 DEF Authorize

LEMMA WithStatusType ==
  ASSUME TypeOK, NEW i \in Findings
  PROVE  /\ \A s \in {"new", "resolved"} : WithStatus(i, s) \in FindingRows
         /\ \A t \in Times : Snoozed(i, t) \in FindingRows
         /\ Woken(i) \in FindingRows
  BY DEF TypeOK, WithStatus, Snoozed, Woken, FindingRows

LEMMA IncidentType ==
  ASSUME TypeOK, NEW r \in Reqs, Incident(r)
  PROVE  TypeOK'
<1>1. ASSUME NEW op \in Lists \ {"snooze"}, Arrive(r, "server", op, "none", 0)
      PROVE  TypeOK'
  BY <1>1, ArriveType, TriageAssumption DEF AllReasons, Times
<1>2. ASSUME NEW t \in now + 1 .. MaxTime, Arrive(r, "server", "snooze", "none", t)
      PROVE  TypeOK'
  <2>1. t \in Times /\ "snooze" \in Lists /\ "none" \in AllReasons
    BY TriageAssumption DEF Times, TypeOK, Lists, AllReasons
  <2>2. QED
    BY <1>2, <2>1, ArriveType
<1>3. CASE List(r)
  <2>1. Listed(r) \in SUBSET Findings
    BY DEF Listed
  <2> DEFINE n == [req[r] EXCEPT !.list = Listed(r), !.at = "apply"]
  <2>2. n \in Requests
    BY <2>1 DEF TypeOK, Requests
  <2>3. req' \in [Reqs -> Requests]
    <3>1. req' = [req EXCEPT ![r] = n]
      BY <1>3 DEF List
    <3> HIDE DEF n
    <3>2. QED
      BY <2>2, <3>1 DEF TypeOK
  <2>4. QED
    BY <1>3, <2>3 DEF List, TypeOK
<1>4. CASE ApplyBulk(r)
  BY <1>4, ResolvedType, DoneType DEF ApplyBulk, TypeOK
<1>5. CASE ApplyEnds(r)
  BY <1>5, DoneType DEF ApplyEnds, TypeOK
<1>6. ASSUME NEW i \in Findings, Apply(r, i) PROVE TypeOK'
  <2> DEFINE n == [req[r] EXCEPT !.list = @ \ {i}]
  <2>1. req' \in [Reqs -> Requests]
    <3>1. n \in Requests
      BY DEF TypeOK, Requests
    <3>2. req' = [req EXCEPT ![r] = n]
      BY <1>6 DEF Apply
    <3> HIDE DEF n
    <3>3. QED
      BY <3>1, <3>2 DEF TypeOK
  <2>2. req[r].until \in Times /\ req[r].op \in Decisions \cup Lists \cup {"reset", "cleanup", "none"}
    BY DEF TypeOK, Requests
  <2>3. finding'[i] \in FindingRows
    <3>0. finding[i] \in FindingRows
      BY DEF TypeOK
    <3>1. CASE ~Exists(i)
      BY <1>6, <3>0, <3>1 DEF Apply, TypeOK
    <3>2. CASE Exists(i) /\ req[r].op = "snooze"
      <4>1. finding'[i] = Snoozed(i, req[r].until)
        BY <1>6, <3>2 DEF Apply, TypeOK
      <4>2. QED
        BY <2>2, <4>1, WithStatusType
    <3>3. CASE Exists(i) /\ req[r].op = "resolve"
      <4>1. finding'[i] = WithStatus(i, "resolved")
        BY <1>6, <3>3 DEF Apply, TypeOK
      <4>2. QED
        BY <4>1, WithStatusType
    <3>4. CASE Exists(i) /\ req[r].op = "reopen"
      <4>1. finding'[i] = WithStatus(i, "new")
        BY <1>6, <3>4 DEF Apply, TypeOK
      <4>2. QED
        BY <4>1, WithStatusType
    <3>5. QED
      BY <1>6, <3>1, <3>2, <3>3, <3>4 DEF Apply, Lists
  <2>4. QED
    BY <1>6, <2>1, <2>3 DEF Apply, TypeOK
<1>7. QED
  BY <1>1, <1>2, <1>3, <1>4, <1>5, <1>6 DEF Incident

LEMMA AlertsType ==
  ASSUME TypeOK, Alerts
  PROVE  TypeOK'
<1>1. ASSUME NEW i \in Findings, AddFinding(i) PROVE TypeOK'
  BY <1>1 DEF AddFinding, TypeOK, FindingRows
<1>2. ASSUME NEW i \in Findings, Acknowledge(i) PROVE TypeOK'
  BY <1>2, ResolvedType, TriageAssumption DEF Acknowledge, TypeOK
<1>3. ASSUME NEW all \in BOOLEAN, Delete(all) PROVE TypeOK'
  <2>1. [is |-> "gone", status |-> "new", until |-> None] \in FindingRows
    BY DEF FindingRows
  <2>2. finding' \in [Findings -> FindingRows]
    <3> HIDE DEF FindingRows
    <3> QED
      BY <1>3, <2>1 DEF Delete, TypeOK
  <2>3. QED
    BY <1>3, <2>2, TriageAssumption DEF Delete, TypeOK
<1>4. CASE Unsnooze
  BY <1>4, WithStatusType DEF Unsnooze, TypeOK
<1>5. QED
  BY <1>1, <1>2, <1>3, <1>4 DEF Alerts

LEMMA ClearRequestType ==
  ASSUME TypeOK, Clear
  PROVE  req' \in [Reqs -> Requests]
<1>1. ASSUME NEW r \in Reqs PROVE req'[r] \in Requests
  <2>1. req'[r] = [req[r] EXCEPT !.alone = @ /\ req[r].by = "server"]
    BY DEF Clear
  <2>2. (req[r].alone /\ req[r].by = "server") \in BOOLEAN
    BY DEF TypeOK, Requests
  <2>3. req[r] \in Requests
    BY DEF TypeOK
  <2>4. QED
    BY <2>1, <2>2, <2>3 DEF Requests
<1>2. QED
  BY <1>1 DEF Clear

LEMMA TypeStep ==
  ASSUME TypeOK, [Next]_vars
  PROVE  TypeOK'
<1>1. ASSUME NEW r \in Reqs, Authorize(r) \/ Incident(r) PROVE TypeOK'
  BY <1>1, AuthorizeType, IncidentType
<1>2. CASE Tick
  BY <1>2, TriageAssumption DEF Tick, TypeOK, Times
<1>3. CASE Clear
  BY <1>3, ClearRequestType, TriageAssumption DEF Clear, Fault, TypeOK
<1>4. ASSUME NEW S, Kill(S) PROVE TypeOK'
  <2>1. req' \in [Reqs -> Requests]
    BY <1>4, IdleType DEF Kill, TypeOK
  <2>2. torn' \in BOOLEAN
    BY <1>4 DEF Kill, TypeOK
  <2>3. QED
    BY <1>4, <2>1, <2>2, TriageAssumption DEF Kill, Fault, TypeOK
<1>5. CASE UNCHANGED vars
  BY <1>5 DEF vars, TypeOK
<1>6. QED
  BY <1>1, <1>2, <1>3, <1>4, <1>5, AlertsType DEF Next

LEMMA TriageTypeInit == Init => TypeOK
<1> SUFFICES ASSUME Init PROVE TypeOK
  OBVIOUS
<1>1. [is |-> "unborn", status |-> "new", until |-> None] \in FindingRows
  BY DEF FindingRows
<1> DEFINE bulk == [prev |-> "unapproved", new |-> "approved", reason |-> "baseline",
                    by |-> "server", solo |-> TRUE]
<1>2. bulk \in Rows
  BY DEF Rows, States, AllReasons
<1>3. <<>> \in Seq(Rows) /\ <<bulk>> \in Seq(Rows)
  <2> HIDE DEF bulk
  <2> QED
    BY <1>2
<1>4. history \in Seq(Rows) /\ auth \in States
  BY <1>3 DEF Init, States
<1>5. finding \in [Findings -> FindingRows] /\ req \in [Reqs -> Requests]
  <2> HIDE DEF bulk
  <2> QED
    BY <1>1, IdleType DEF Init
<1>6. now = 0 /\ torn = FALSE /\ ops = 0 /\ faults = 0
  BY DEF Init
<1>7. 0 \in Times /\ 0 \in 0..MaxOps /\ 0 \in 0..MaxFaults
  BY TriageAssumption DEF Times
<1>8. QED
  BY <1>4, <1>5, <1>6, <1>7 DEF TypeOK

\* The types hold in every reachable state, whatever requests, faults and kills do.
THEOREM TriageTypeCorrect == Spec => []TypeOK
<1>2. TypeOK /\ [Next]_vars => TypeOK'
  BY TypeStep
<1>3. QED
  BY TriageTypeInit, <1>2, PTL DEF Spec

-----------------------------------------------------------------------------
(* The audit trail.                                                        *)

\* What is said about the trail alone does not change while the trail does not.
LEMMA SameTrail ==
  ASSUME history' = history
  PROVE  /\ Honest' = Honest /\ Trail' = Trail /\ AuditIsPath' = AuditIsPath
  BY DEF Honest, Trail, LastRow, AuditIsPath

\* Steps that leave the row, the trail and every writer alone.
LEMMA QuietStep ==
  ASSUME AuditInv, TypeOK', UNCHANGED <<auth, history, torn>>,
         \A q \in Reqs : req'[q].at \in {"lock", "locked", "insert"} => req'[q] = req[q],
         \A q \in Writing : req'[q] = req[q]
  PROVE  AuditInv'
<1>1. Writing' = Writing
  BY DEF Writing
<1>2. Locking' \subseteq Locking
  BY DEF Locking
<1>3. MutexInv'
  BY <1>2 DEF AuditInv, MutexInv
<1>4. WriterInv'
  BY <1>1, SameTrail DEF AuditInv, WriterInv, Writing
<1>5. KnowInv'
  BY SameTrail DEF AuditInv, KnowInv, Knows
<1>6. AuditAgrees'
  BY <1>1, SameTrail DEF AuditInv, AuditAgrees
<1>7. QED
  BY <1>3, <1>4, <1>5, <1>6, SameTrail DEF AuditInv, ClearedInv

\* A request that has read the state, before or under the lock.
LEMMA KnowingStep ==
  ASSUME AuditInv, TypeOK', UNCHANGED <<auth, history, torn>>, NEW r \in Reqs,
         NEW p \in States, NEW a \in {"lock", "locked"}, req' = Knowing(r, p, a),
         req[r].at = "read", p # Target(req[r].op),
         a = "lock" => req[r].op \in Decisions,
         a = "locked" => req[r].op \in {"reset", "cleanup"} /\ Free(r),
         \/ req[r].op # "cleanup" /\ p = auth
         \/ req[r].op = "cleanup" /\ p = "approved" /\ BulkApproved
  PROVE  AuditInv'
<1>1. \A q \in Reqs \ {r} : req'[q] = req[q]
  BY DEF Knowing, AuditInv, TypeOK
<1>2. /\ req'[r].at = a /\ req'[r].prev = p /\ req'[r].seen = Len(history)
      /\ req'[r].op = req[r].op /\ req'[r].by = req[r].by
      /\ req'[r].clean = (~torn /\ Writing = {})
  <2>1. req'[r] = [req[r] EXCEPT !.prev = p, !.at = a, !.seen = Len(history),
                                 !.clean = ~torn /\ Writing = {}]
    BY DEF Knowing, AuditInv, TypeOK
  <2>2. QED
    BY <2>1 DEF AuditInv, TypeOK, Requests
<1>3. Writing' = Writing
  <2>1. r \notin Writing /\ req'[r].at # "insert"
    BY <1>2 DEF Writing
  <2>2. QED
    BY <1>1, <2>1 DEF Writing
<1>4. MutexInv'
  <2>1. Locking' \subseteq Locking \cup {r}
    BY <1>1 DEF Locking
  <2>2. r \in Locking' => Locking = {}
    BY <1>2 DEF Locking, Free
  <2>3. QED
    BY <2>1, <2>2 DEF AuditInv, MutexInv
<1>5. WriterInv'
  <2>1. \A q \in Writing : req'[q] = req[q]
    BY <1>1 DEF Writing
  <2>2. QED
    BY <1>3, <2>1, SameTrail DEF AuditInv, WriterInv
<1>6. KnowInv'
  <2>1. ASSUME NEW q \in Reqs \ {r}, req'[q].at \in {"lock", "locked", "insert"}
        PROVE  Knows(q)'
    BY <1>1, <2>1, SameTrail DEF AuditInv, KnowInv, Knows
  <2>2. Knows(r)'
    <3>1. history \in Seq(Rows) /\ Len(history) \in Nat
      BY DEF AuditInv, TypeOK
    <3>2. Honest /\ ~torn /\ Writing = {} => p = Trail
      <4>1. CASE req[r].op # "cleanup"
        BY <4>1, TriageAssumption DEF AuditInv, AuditAgrees
      <4>2. CASE req[r].op = "cleanup"
        <5>1. BulkApproved /\ p = "approved"
          BY <4>2
        <5>2. history # <<>> /\ LastRow.reason = "baseline"
          BY <3>1, <5>1 DEF BulkApproved
        <5>3. Len(history) \in DOMAIN history
          BY <3>1, <5>2
        <5>4. QED
          BY <5>1, <5>2, <5>3 DEF Honest, LastRow, Trail
      <4>3. QED
        BY <4>1, <4>2
    <3>3. req[r].op = "cleanup" =>
            Len(history) \in DOMAIN history /\ history[Len(history)].reason = "baseline"
      <4>1. SUFFICES ASSUME BulkApproved
                     PROVE  Len(history) \in DOMAIN history /\ history[Len(history)].reason = "baseline"
        OBVIOUS
      <4>2. PICK k \in DOMAIN history : TRUE
        BY <4>1 DEF BulkApproved
      <4>3. QED
        BY <3>1, <4>1, <4>2 DEF BulkApproved, LastRow
    <3>4. \A k \in Len(history) + 1 .. Len(history) : FALSE
      BY <3>1
    <3>5. /\ req'[r].at = "lock" => req'[r].op \in Decisions
          /\ req'[r].at = "locked" => req'[r].op \in {"reset", "cleanup"}
          /\ req'[r].op \in Decisions \cup {"reset", "cleanup"}
          /\ req'[r].prev # Target(req'[r].op)
      BY <1>2
    <3>6. Honest' /\ req'[r].clean /\ req'[r].seen = Len(history') => req'[r].prev = Trail'
      BY <1>2, <3>2, SameTrail
    <3>7. /\ req'[r].seen <= Len(history')
          /\ req'[r].op = "cleanup" => req'[r].seen \in DOMAIN history'
                                      /\ history'[req'[r].seen].reason = "baseline"
          /\ \A k \in req'[r].seen + 1 .. Len(history') : FALSE
      BY <1>2, <3>1, <3>3, <3>4
    <3>8. QED
      BY <3>5, <3>6, <3>7 DEF Knows
  <2>3. QED
    BY <2>1, <2>2 DEF KnowInv
<1>7. AuditAgrees'
  BY <1>3, SameTrail DEF AuditInv, AuditAgrees
<1>8. QED
  BY <1>4, <1>5, <1>6, <1>7, SameTrail DEF AuditInv, ClearedInv

\* Requests that end before they have written both.
LEMMA DropStep ==
  ASSUME AuditInv, TypeOK', UNCHANGED <<auth, history>>, NEW S,
         req' = [q \in Reqs |-> IF q \in S THEN Idle ELSE req[q]],
         torn => torn', S \cap Writing # {} => torn'
  PROVE  AuditInv'
<1>1. Idle.at = "idle"
  BY DEF Idle
<1>2. Writing' = Writing \ S
  BY <1>1 DEF Writing
<1>3. MutexInv'
  BY <1>1 DEF AuditInv, MutexInv, Locking
<1>4. WriterInv'
  BY <1>2, SameTrail DEF AuditInv, WriterInv, Writing
<1>5. KnowInv'
  BY <1>1, SameTrail DEF AuditInv, KnowInv, Knows
<1>6. AuditAgrees'
  BY <1>2, SameTrail DEF AuditInv, AuditAgrees
<1>7. QED
  BY <1>3, <1>4, <1>5, <1>6, SameTrail DEF AuditInv, ClearedInv

\* No two of the server's requests are between their reading or writing under the lock.
LEMMA ServerAlone ==
  ASSUME AuditInv, NEW q \in Reqs, NEW r \in Reqs, SameProcess(q, r),
         q \in Writing, req[r].at \in {"locked", "insert"} \/ Free(r)
  PROVE  q = r
  BY DEF AuditInv, MutexInv, Locking, SameProcess, Free, Writing

LEMMA BulkTrail ==
  ASSUME AuditInv, NEW r \in Reqs, req[r].at \in {"lock", "locked", "insert"},
         req[r].op = "cleanup", req[r].seen = Len(history), Honest
  PROVE  Trail = "approved"
<1>1. req[r].seen \in DOMAIN history /\ history[req[r].seen].reason = "baseline"
  BY DEF AuditInv, KnowInv, Knows
<1>2. history \in Seq(Rows)
  BY DEF AuditInv, TypeOK
<1>3. history # <<>>
  BY <1>1, <1>2
<1>4. QED
  BY <1>1, <1>3 DEF Honest, Trail, LastRow

LEMMA UpdateStep ==
  ASSUME AuditInv, TypeOK', NEW r \in Reqs, Update(r)
  PROVE  AuditInv'
<1> DEFINE free == auth # None /\ \A w \in Writing : SameProcess(w, r)
<1>1. /\ req'[r].at = "insert" /\ req'[r].op = req[r].op /\ req'[r].by = req[r].by
      /\ req'[r].prev = req[r].prev /\ req'[r].seen = req[r].seen
      /\ req'[r].clean = req[r].clean /\ req'[r].alone = free
  <2>1. req'[r] = [req[r] EXCEPT !.at = "insert", !.alone = free]
    BY DEF Update
  <2>2. QED
    BY <2>1 DEF AuditInv, TypeOK, Requests
<1>2. ASSUME NEW q \in Reqs \ {r}
      PROVE  /\ req'[q].at = req[q].at /\ req'[q].op = req[q].op /\ req'[q].by = req[q].by
             /\ req'[q].prev = req[q].prev /\ req'[q].seen = req[q].seen
             /\ req'[q].clean = req[q].clean
             /\ req'[q].alone = (req[q].alone /\ SameProcess(q, r))
  <2>1. req'[q] = [req[q] EXCEPT !.alone = @ /\ SameProcess(q, r)]
    BY DEF Update
  <2>2. QED
    BY <2>1 DEF AuditInv, TypeOK, Requests
<1>3. req[r].at \in {"lock", "locked"} /\ (req[r].at = "lock" => Free(r))
  BY DEF Update
<1>4. Writing' = Writing \cup {r} /\ r \notin Writing
  BY <1>1, <1>2, <1>3 DEF Writing
<1>5. history' = history /\ torn' = torn
  BY DEF Update
<1>6. \A w \in Writing : ~SameProcess(w, r)
  BY <1>3, <1>4, ServerAlone DEF Writing
<1>7. MutexInv'
  <2>1. Locking' \subseteq Locking \cup {r}
    BY <1>2 DEF Locking
  <2>2. r \in Locking' => Locking \subseteq {r}
    BY <1>1, <1>3 DEF AuditInv, MutexInv, Locking, Free
  <2>3. QED
    BY <2>1, <2>2 DEF AuditInv, MutexInv
<1>8. Knows(r)
  BY <1>3 DEF AuditInv, KnowInv
<1>9. req'[r].alone => Writing = {} /\ auth # None
  BY <1>1, <1>6
<1>10. WriterInv'
  <2>1. SUFFICES ASSUME NEW q \in Writing', req'[q].alone
                 PROVE  /\ Writing' = {q} /\ auth' # None
                        /\ req'[q].op # "cleanup" => auth' = Target(req'[q].op)
                        /\ Honest' /\ ~torn' /\ req'[q].clean /\ req'[q].seen = Len(history')
                              => auth' = Target(req'[q].op)
    BY DEF WriterInv
  <2>2. q = r
    BY <1>2, <1>4, <1>6, <2>1 DEF Writing
  <2>3. Writing' = {q} /\ auth # None
    BY <1>4, <1>9, <2>1, <2>2
  <2>4. auth' # None
    BY <2>3, TargetType, TriageAssumption DEF Update, Updated
  <2>5. req'[q].op # "cleanup" => auth' = Target(req'[q].op)
    BY <1>1, <2>2, <2>3 DEF Update, Updated
  <2>6. ASSUME Honest', ~torn', req'[q].seen = Len(history'), req'[q].op = "cleanup"
        PROVE  auth' = Target(req'[q].op)
    <3>1. Honest /\ ~torn /\ req[r].seen = Len(history) /\ req[r].op = "cleanup"
      BY <1>1, <1>5, <2>2, <2>6, SameTrail
    <3>2. Trail = "approved"
      BY <1>3, <3>1, BulkTrail
    <3>3. auth = "approved"
      BY <1>9, <2>1, <2>2, <3>1, <3>2 DEF AuditInv, AuditAgrees
    <3>4. QED
      BY <1>1, <2>2, <2>3, <3>1, <3>3 DEF Update, Updated
  <2>7. QED
    BY <2>3, <2>4, <2>5, <2>6
<1>11. KnowInv'
  <2>1. SUFFICES ASSUME NEW q \in Reqs, req'[q].at \in {"lock", "locked", "insert"}
                 PROVE  Knows(q)'
    BY DEF KnowInv
  <2>2. CASE q = r
    BY <1>1, <1>3, <1>5, <1>8, <2>2, SameTrail DEF Knows
  <2>3. CASE q # r
    <3>1. Knows(q)
      BY <1>2, <2>1, <2>3 DEF AuditInv, KnowInv
    <3>2. QED
      BY <1>2, <1>5, <2>3, <3>1, SameTrail DEF Knows
  <2>4. QED
    BY <2>2, <2>3
<1>12. AuditAgrees'
  BY <1>4 DEF AuditAgrees
<1>13. ClearedInv'
  <2>1. auth' = None => auth = None
    BY TargetType, TriageAssumption DEF Update, Updated
  <2>2. QED
    BY <1>5, <2>1 DEF AuditInv, ClearedInv
<1>14. QED
  BY <1>5, <1>7, <1>10, <1>11, <1>12, <1>13, SameTrail DEF AuditInv

LEMMA InsertStep ==
  ASSUME AuditInv, TypeOK', NEW r \in Reqs, Insert(r)
  PROVE  AuditInv'
<1> DEFINE n == Len(history)
<1>1. history \in Seq(Rows) /\ n \in Nat /\ history' = Append(history, RowOf(r))
  BY DEF AuditInv, TypeOK, Insert
<1>2. /\ Len(history') = n + 1 /\ history'[n + 1] = RowOf(r)
      /\ \A k \in 1..n : history'[k] = history[k]
      /\ DOMAIN history = 1..n /\ DOMAIN history' = 1..(n + 1)
  BY <1>1
<1>3. /\ RowOf(r).prev = req[r].prev /\ RowOf(r).new = Target(req[r].op)
      /\ RowOf(r).by = req[r].by
      /\ RowOf(r).solo = (req[r].clean /\ req[r].alone /\ req[r].seen = n)
  BY DEF RowOf
<1>4. req'[r].at \notin {"lock", "locked", "insert"} /\ \A q \in Reqs \ {r} : req'[q] = req[q]
  BY DEF Insert, Done, Idle, AuditInv, TypeOK, Requests
<1>5. r \in Writing /\ Writing' = Writing \ {r}
  BY <1>4 DEF Writing, Insert
<1>6. Honest' => Honest
  BY <1>2 DEF Honest
<1>7. Trail' = Target(req[r].op)
  <2>1. history' # <<>>
    BY <1>1
  <2>2. QED
    BY <1>2, <1>3, <2>1 DEF Trail, LastRow
<1>8. Knows(r)
  BY DEF Insert, AuditInv, KnowInv
<1>9. MutexInv'
  <2>1. Locking' \subseteq Locking
    BY <1>4 DEF Locking
  <2>2. QED
    BY <2>1 DEF AuditInv, MutexInv
<1>10. WriterInv'
  BY <1>4, <1>5 DEF AuditInv, WriterInv, Writing
<1>11. KnowInv'
  <2>1. SUFFICES ASSUME NEW q \in Reqs, req'[q].at \in {"lock", "locked", "insert"}
                 PROVE  Knows(q)'
    BY DEF KnowInv
  <2>2. q # r /\ req'[q] = req[q] /\ Knows(q)
    BY <1>4, <2>1 DEF AuditInv, KnowInv
  <2>3. req[q].seen \in Nat /\ req[q].seen <= n
    BY <2>2 DEF Knows, AuditInv, TypeOK, Requests
  <2>4. req[q].op = "cleanup" => req[q].seen \in DOMAIN history'
                                /\ history'[req[q].seen].reason = "baseline"
    BY <1>2, <2>2 DEF Knows
  <2>5. req[q].at = "locked" => req[q].by = "command" \/ req[r].by = "command"
    <3>1. req[q].at = "locked" => ~SameProcess(r, q)
      BY <1>5, <2>2, ServerAlone
    <3>2. QED
      BY <3>1 DEF SameProcess, AuditInv, TypeOK, Requests
  <2>6. ASSUME req[q].at = "locked", NEW k \in req[q].seen + 1 .. n + 1
        PROVE  req[q].by = "command" \/ history'[k].by = "command"
    <3>1. CASE k = n + 1
      BY <1>2, <1>3, <2>5, <2>6, <3>1
    <3>2. CASE k # n + 1
      <4>1. k \in req[q].seen + 1 .. n /\ k \in 1..n
        BY <1>1, <2>3, <3>2
      <4>2. QED
        BY <1>2, <2>2, <2>6, <4>1 DEF Knows
    <3>3. QED
      BY <3>1, <3>2
  <2>7. req[q].seen <= n + 1 /\ req[q].seen # n + 1
    BY <1>1, <2>3
  <2>8. QED
    BY <1>2, <2>2, <2>4, <2>6, <2>7 DEF Knows
<1>12. ~torn' => auth # None /\ (Honest => auth = Target(req[r].op))
  BY <1>3, <1>5 DEF AuditInv, WriterInv, Insert, ClearedInv
<1>13. AuditAgrees'
  BY <1>6, <1>7, <1>12 DEF AuditAgrees, Insert
<1>14. ClearedInv'
  BY <1>12 DEF ClearedInv, Insert
<1>15. AuditIsPath'
  <2>1. SUFFICES ASSUME Honest', NEW k \in 1..(n + 1), history'[k].solo
                 PROVE  /\ history'[k].prev = IF k = 1 THEN "unapproved" ELSE history'[k - 1].new
                        /\ history'[k].prev # history'[k].new
    BY <1>2 DEF AuditIsPath
  <2>2. CASE k = n + 1
    <3>1. req[r].prev = Trail /\ req[r].prev # Target(req[r].op)
      BY <1>2, <1>3, <1>6, <1>8, <2>1, <2>2 DEF Knows
    <3>2. Trail = IF n = 0 THEN "unapproved" ELSE history[n].new
      BY <1>1 DEF Trail, LastRow
    <3>3. n # 0 => history'[n] = history[n]
      <4>1. n # 0 => n \in 1..n
        BY <1>1
      <4> HIDE DEF n
      <4>2. QED
        BY <1>2, <4>1
    <3>4. (k = 1 <=> n = 0) /\ k - 1 = n
      BY <1>1, <2>2
    <3>5. QED
      BY <1>2, <1>3, <2>2, <3>1, <3>2, <3>3, <3>4
  <2>3. CASE k # n + 1
    <3>1. k \in 1..n /\ (k # 1 => k - 1 \in 1..n)
      BY <1>1, <2>1, <2>3
    <3>2. QED
      BY <1>2, <1>6, <2>1, <3>1 DEF AuditInv, AuditIsPath
  <2>4. QED
    BY <2>2, <2>3
<1>16. QED
  BY <1>9, <1>10, <1>11, <1>13, <1>14, <1>15 DEF AuditInv

LEMMA ClearStep ==
  ASSUME AuditInv, TypeOK', Clear
  PROVE  AuditInv'
<1>1. ASSUME NEW q \in Reqs
      PROVE  /\ req'[q].at = req[q].at /\ req'[q].op = req[q].op /\ req'[q].by = req[q].by
             /\ req'[q].prev = req[q].prev /\ req'[q].seen = req[q].seen
             /\ req'[q].clean = req[q].clean
             /\ req'[q].alone = (req[q].alone /\ req[q].by = "server")
  <2>1. req'[q] = [req[q] EXCEPT !.alone = @ /\ req[q].by = "server"]
    BY DEF Clear
  <2>2. QED
    BY <2>1 DEF AuditInv, TypeOK, Requests
<1>2. auth' = None /\ torn' = TRUE /\ history' = history /\ Locking = {}
  BY DEF Clear
<1>3. Writing' = Writing /\ Locking' = Locking
  BY <1>1 DEF Writing, Locking
<1>4. MutexInv' /\ ClearedInv' /\ AuditAgrees'
  BY <1>2, <1>3 DEF MutexInv, ClearedInv, AuditAgrees
<1>5. WriterInv'
  BY <1>1, <1>2, <1>3 DEF WriterInv, Locking, Writing
<1>6. KnowInv'
  BY <1>1, <1>2, SameTrail DEF AuditInv, KnowInv, Knows
<1>7. QED
  BY <1>2, <1>4, <1>5, <1>6, SameTrail DEF AuditInv

\* _ensure_device_row makes a row for a cleared device.
LEMMA EnsureStep ==
  ASSUME AuditInv, TypeOK', NEW r \in Reqs, Ensure(r), auth = None, auth' = "unapproved",
         req' = [req EXCEPT ![r].at = "read"]
  PROVE  AuditInv'
<1>1. req'[r].at = "read" /\ \A q \in Reqs \ {r} : req'[q] = req[q]
  BY DEF AuditInv, TypeOK, Requests
<1>2. torn' = torn /\ history' = history /\ torn
  BY DEF Ensure, AuditInv, ClearedInv
<1>3. Writing' = Writing
  BY <1>1 DEF Ensure, Writing
<1>4. MutexInv'
  <2>1. Locking' \subseteq Locking
    BY <1>1 DEF Locking
  <2>2. QED
    BY <2>1 DEF AuditInv, MutexInv
<1>5. WriterInv'
  BY <1>1, <1>3 DEF AuditInv, WriterInv, Writing, Ensure
<1>6. KnowInv'
  BY <1>1, <1>2, SameTrail DEF AuditInv, KnowInv, Knows
<1>7. AuditAgrees' /\ ClearedInv'
  BY <1>2 DEF AuditAgrees, ClearedInv
<1>8. QED
  BY <1>2, <1>4, <1>5, <1>6, <1>7, SameTrail DEF AuditInv

LEMMA AuditStep ==
  ASSUME AuditInv, [Next]_vars
  PROVE  AuditInv'
<1>0. TypeOK'
  BY TypeStep DEF AuditInv
<1> DEFINE W == {"lock", "locked", "insert"}
<1>a. Idle.at = "idle"
  BY DEF Idle
<1>1. ASSUME NEW r \in Reqs, NEW by, NEW op, NEW why, NEW t, Arrive(r, by, op, why, t)
      PROVE  AuditInv'
  <2>1. req'[r].at \notin W /\ \A q \in Reqs \ {r} : req'[q] = req[q]
    BY <1>1, IdleType DEF Arrive, AuditInv, TypeOK, Requests
  <2>2. r \notin Writing
    BY <1>1 DEF Arrive, Writing
  <2>3. QED
    BY <1>0, <1>1, <2>1, <2>2, QuietStep DEF Arrive, Writing
<1>2. ASSUME NEW r \in Reqs, UNCHANGED <<auth, history, torn>>, req[r].at \notin W,
             \/ req' = Done(r)
             \/ \E a : a \notin W /\ req' = [req EXCEPT ![r].at = a]
             \/ \E L : req' = [req EXCEPT ![r].list = L]
             \/ \E L : req' = [req EXCEPT ![r] = [@ EXCEPT !.list = L, !.at = "apply"]]
      PROVE  AuditInv'
  <2>1. req'[r].at \notin W /\ \A q \in Reqs \ {r} : req'[q] = req[q]
    BY <1>2, <1>a DEF Done, AuditInv, TypeOK, Requests
  <2>2. r \notin Writing
    BY <1>2 DEF Writing
  <2>3. QED
    BY <1>0, <1>2, <2>1, <2>2, QuietStep DEF Writing
<1>3. ASSUME NEW r \in Reqs, Ensure(r) PROVE AuditInv'
  <2>1. CASE UNCHANGED auth
    BY <1>2, <1>3, <2>1 DEF Ensure
  <2>2. CASE ~UNCHANGED auth
    BY <1>0, <1>3, <2>2, EnsureStep DEF Ensure
  <2>3. QED
    BY <2>1, <2>2
<1>4. ASSUME NEW r \in Reqs, ReadState(r) PROVE AuditInv'
  <2>1. CASE req' = Knowing(r, auth, "lock") /\ auth # None /\ auth # Target(req[r].op)
    <3>1. auth \in States /\ req[r].op # "cleanup"
      BY <1>4, <2>1 DEF AuditInv, TypeOK, ReadState, Decisions
    <3>2. QED
      BY <1>0, <1>4, <2>1, <3>1, KnowingStep DEF ReadState
  <2>2. CASE req' = Done(r) \/ req' = [req EXCEPT ![r].at = "silence"]
    BY <1>2, <1>4, <2>2 DEF ReadState
  <2>3. QED
    BY <1>4, <2>1, <2>2 DEF ReadState
<1>5. ASSUME NEW r \in Reqs, ResetRead(r) PROVE AuditInv'
  <2>1. CASE req' = Knowing(r, Previous, "locked") /\ auth \notin {None, "unapproved"}
    <3>1. auth \in States /\ auth # Target(req[r].op)
      BY <1>5, <2>1 DEF AuditInv, TypeOK, ResetRead, Target
    <3>2. QED
      BY <1>0, <1>5, <2>1, <3>1, KnowingStep DEF ResetRead, Previous
  <2>2. CASE req' = Done(r)
    BY <1>2, <1>5, <2>2 DEF ResetRead
  <2>3. QED
    BY <1>5, <2>1, <2>2 DEF ResetRead
<1>6. ASSUME NEW r \in Reqs, CleanupRead(r) PROVE AuditInv'
  <2>1. CASE req' = Knowing(r, "approved", "locked") /\ BulkApproved
    <3>1. "approved" \in States /\ "approved" # Target(req[r].op)
      BY <1>6 DEF CleanupRead, Target, States
    <3>2. QED
      BY <1>0, <1>6, <2>1, <3>1, KnowingStep DEF CleanupRead
  <2>2. CASE req' = Done(r)
    BY <1>2, <1>6, <2>2 DEF CleanupRead
  <2>3. QED
    BY <1>6, <2>1, <2>2 DEF CleanupRead
<1>7. ASSUME NEW r \in Reqs, InsertFails(r) PROVE AuditInv'
  <2>1. req' = [q \in Reqs |-> IF q \in {r} THEN Idle ELSE req[q]]
    BY <1>7 DEF InsertFails, Done, AuditInv, TypeOK
  <2>2. QED
    BY <1>0, <1>7, <2>1, DropStep DEF InsertFails
<1>8. ASSUME NEW r \in Reqs, Silence(r) PROVE AuditInv'
  BY <1>2, <1>8 DEF Silence
<1>9. ASSUME NEW r \in Reqs, Authorize(r) PROVE AuditInv'
  BY <1>0, <1>1, <1>3, <1>4, <1>5, <1>6, <1>7, <1>8, <1>9, UpdateStep, InsertStep DEF Authorize
<1>10. ASSUME NEW r \in Reqs, Incident(r) PROVE AuditInv'
  <2>1. CASE List(r)
    BY <1>2, <2>1 DEF List
  <2>2. CASE ApplyBulk(r)
    BY <1>2, <2>2 DEF ApplyBulk
  <2>3. CASE ApplyEnds(r)
    BY <1>2, <2>3 DEF ApplyEnds
  <2>4. ASSUME NEW i \in Findings, Apply(r, i) PROVE AuditInv'
    <3>1. req' = [req EXCEPT ![r].list = req[r].list \ {i}]
      BY <2>4 DEF Apply
    <3>2. req[r].at \notin W /\ UNCHANGED <<auth, history, torn>>
      BY <2>4 DEF Apply
    <3>3. QED
      BY <1>2, <3>1, <3>2
  <2>5. QED
    BY <1>1, <1>10, <2>1, <2>2, <2>3, <2>4 DEF Incident
<1>11. ASSUME UNCHANGED <<auth, history, torn, req>> PROVE AuditInv'
  BY <1>0, <1>11, QuietStep DEF Writing
<1>12. CASE Alerts
  BY <1>11, <1>12 DEF Alerts, AddFinding, Acknowledge, Delete, Unsnooze
<1>13. CASE Tick
  BY <1>11, <1>13 DEF Tick
<1>14. CASE Clear
  BY <1>0, <1>14, ClearStep
<1>15. ASSUME NEW S, Kill(S) PROVE AuditInv'
  BY <1>0, <1>15, DropStep DEF Kill
<1>16. CASE UNCHANGED vars
  BY <1>11, <1>16 DEF vars
<1>17. QED
  BY <1>9, <1>10, <1>12, <1>13, <1>14, <1>15, <1>16 DEF Next

LEMMA AuditInit == Init => AuditInv
<1> SUFFICES ASSUME Init PROVE AuditInv
  OBVIOUS
<1>1. TypeOK
  BY TriageTypeInit
<1>2. \A r \in Reqs : req[r].at = "idle"
  BY DEF Init, Idle
<1>3. Writing = {} /\ Locking = {}
  BY <1>2 DEF Writing, Locking
<1>4. MutexInv /\ WriterInv /\ KnowInv
  BY <1>2, <1>3 DEF MutexInv, WriterInv, KnowInv
<1>5. ClearedInv
  BY TriageAssumption DEF Init, ClearedInv, States
<1>6. CASE history = <<>>
  BY <1>1, <1>3, <1>4, <1>5, <1>6 DEF Init, AuditInv, AuditAgrees, AuditIsPath, Trail
<1>7. CASE auth = "approved" /\
           history = <<[prev |-> "unapproved", new |-> "approved", reason |-> "baseline",
                        by |-> "server", solo |-> TRUE]>>
  <2>1. /\ Len(history) = 1 /\ DOMAIN history = {1} /\ history # <<>>
        /\ history[1].prev = "unapproved" /\ history[1].new = "approved"
    BY <1>7
  <2>2. QED
    BY <1>1, <1>4, <1>5, <1>7, <2>1 DEF AuditInv, AuditAgrees, AuditIsPath, Trail, LastRow
<1>8. QED
  BY <1>6, <1>7 DEF Init

\* Unless cut short, cleared or overlapped, the row of the device and the last row of
\* its trail agree between writes, for any number of concurrent requests.
THEOREM AuditTrailAgrees == Spec => []AuditAgrees
<1>1. AuditInv /\ [Next]_vars => AuditInv'
  BY AuditStep
<1>2. AuditInv => AuditAgrees
  BY DEF AuditInv
<1>3. QED
  BY AuditInit, <1>1, <1>2, PTL DEF Spec

\* The rows that no other write came between form a path without repetitions.
THEOREM AuditTrailIsPath == Spec => []AuditIsPath
<1>1. AuditInv /\ [Next]_vars => AuditInv'
  BY AuditStep
<1>2. AuditInv => AuditIsPath
  BY DEF AuditInv
<1>3. QED
  BY AuditInit, <1>1, <1>2, PTL DEF Spec

\* The cleanup of bulk approvals takes back no decision recorded after them, except one
\* that another process recorded while the cleanup ran.
THEOREM HandApprovalsKept == Spec => HandApprovalKept
<1> DEFINE A == \A r \in Reqs :
          req[r].op = "cleanup" /\ req[r].at = "locked" /\ auth # None /\ auth' # auth
          /\ req'[r].at = "insert"
          => \/ LastRow.reason = "baseline"
             \/ \E k \in req[r].seen + 1 .. Len(history) :
                   req[r].by = "command" \/ history[k].by = "command"
<1>1. AuditInv /\ [Next]_vars => AuditInv'
  BY AuditStep
<1>2. AuditInv => [A]_vars
  <2>1. SUFFICES ASSUME AuditInv, NEW r \in Reqs, req[r].op = "cleanup", req[r].at = "locked"
                 PROVE  \/ LastRow.reason = "baseline"
                        \/ \E k \in req[r].seen + 1 .. Len(history) :
                              req[r].by = "command" \/ history[k].by = "command"
    OBVIOUS
  <2>2. Knows(r)
    BY <2>1 DEF AuditInv, KnowInv
  <2>3. req[r].seen \in Nat /\ Len(history) \in Nat
    BY <2>1 DEF AuditInv, TypeOK, Requests
  <2>4. CASE req[r].seen = Len(history)
    BY <2>1, <2>2, <2>4 DEF Knows, LastRow
  <2>5. CASE req[r].seen # Len(history)
    <3>1. Len(history) \in req[r].seen + 1 .. Len(history)
      BY <2>2, <2>3, <2>5 DEF Knows
    <3>2. QED
      BY <2>1, <2>2, <3>1 DEF Knows
  <2>6. QED
    BY <2>4, <2>5
<1>3. QED
  BY AuditInit, <1>1, <1>2, PTL DEF Spec, HandApprovalKept

-----------------------------------------------------------------------------
(* Findings.                                                               *)

LEMMA ReopenStep ==
  ASSUME TypeOK, [Next]_vars, NEW i \in Findings,
         finding[i].is = "resolved", finding'[i].is = "open"
  PROVE  \E r \in Reqs : req[r].op = "reopen" /\ i \in req[r].list
<1>1. finding' # finding
  OBVIOUS
<1>2. \A S : Resolved(S)[i].is = "resolved"
  BY DEF Resolved, TypeOK, FindingRows
<1>3. ASSUME NEW r \in Reqs, NEW j \in Findings, Apply(r, j)
      PROVE  \E q \in Reqs : req[q].op = "reopen" /\ i \in req[q].list
  <2>1. i = j
    BY <1>3 DEF Apply, TypeOK
  <2>2. i \in req[r].list /\ req[r].op \in {"snooze", "resolve", "reopen"}
    BY <1>3, <2>1 DEF Apply, Lists
  <2>3. CASE req[r].op = "snooze"
    <3>1. finding'[i] = Snoozed(i, req[r].until) \/ finding'[i] = finding[i]
      BY <1>3, <2>1, <2>3 DEF Apply, TypeOK
    <3>2. QED
      BY <3>1 DEF Snoozed, TypeOK, FindingRows
  <2>4. CASE req[r].op = "resolve"
    <3>1. finding'[i] = WithStatus(i, "resolved") \/ finding'[i] = finding[i]
      BY <1>3, <2>1, <2>4 DEF Apply, TypeOK
    <3>2. QED
      BY <3>1 DEF WithStatus, TypeOK, FindingRows
  <2>5. QED
    BY <2>2, <2>3, <2>4
<1>4. ASSUME NEW r \in Reqs PROVE ~Authorize(r)
  BY <1>1, <1>2 DEF Authorize, Arrive, Ensure, ReadState, ResetRead, CleanupRead, Update,
     Insert, InsertFails, Silence
<1>5. ASSUME NEW r \in Reqs, Incident(r) PROVE \E j \in Findings : Apply(r, j)
  BY <1>1, <1>2, <1>5 DEF Incident, Arrive, List, ApplyBulk, ApplyEnds
<1>6. ~Alerts
  <2>1. \A j \in Findings : ~AddFinding(j)
    BY DEF AddFinding, TypeOK, FindingRows
  <2>2. \A j \in Findings : ~Acknowledge(j)
    BY <1>2 DEF Acknowledge
  <2>3. \A all \in BOOLEAN : ~Delete(all)
    BY DEF Delete
  <2>4. ~Unsnooze
    <3>1. Woken(i).is = finding[i].is
      BY DEF Woken, TypeOK, FindingRows
    <3>2. Unsnooze => finding'[i] \in {Woken(i), finding[i]}
      BY DEF Unsnooze
    <3>3. QED
      BY <3>1, <3>2
  <2>5. QED
    BY <2>1, <2>2, <2>3, <2>4 DEF Alerts
<1>7. ~Tick /\ ~Clear /\ (\A S : ~Kill(S)) /\ ~UNCHANGED vars
  BY <1>1 DEF Tick, Clear, Kill, vars
<1>8. QED
  BY <1>3, <1>4, <1>5, <1>6, <1>7 DEF Next

\* Nothing but a reopen request that saw it resolved opens a resolved finding.
THEOREM ResolvedFindingsStay == Spec => ResolvedStays
<1> DEFINE A == \A i \in Findings :
          finding[i].is = "resolved" /\ finding'[i].is = "open"
          => \E r \in Reqs : req[r].op = "reopen" /\ i \in req[r].list
<1>1. TypeOK /\ [Next]_vars => [A]_vars
  BY ReopenStep
<1>2. QED
  BY TriageTypeCorrect, <1>1, PTL DEF Spec, ResolvedStays
=============================================================================
