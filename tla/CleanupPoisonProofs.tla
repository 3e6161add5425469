-------------------------- MODULE CleanupPoisonProofs --------------------------
(* The safety of CleanupPoison for any providers, bindings and units, and    *)
(* any number of errors and deaths: what may still run is always the         *)
(* marker's, is identified there, and nothing else blocks a provider.        *)
EXTENDS CleanupPoison, TLAPS

-----------------------------------------------------------------------------
(* The inductive invariant *)

\* Where a provider is: it recovers from a marker it has found, or it has launched a unit
\* under its own.
Recovering == {"scan_gate", "scan_command", "observe", "decide", "clear"}
Launching  == {"armed", "bind_gate", "popen", "identify", "release", "confirm",
               "identify_unit", "session", "stop", "reap", "confirm_clean", "disarm"}
Stages == Outside \cup {"read", "prepare", "arm", "done"} \cup Recovering \cup Launching

\* Every variable has its type.
TypeOK ==
  /\ lock \in Providers \cup {NoProvider}
  /\ pc \in [Providers -> Stages] /\ mine \in [Providers -> Units \cup {NoUnit}]
  /\ seen \in [Providers -> {0, 1}]
  /\ rollback \in [Providers -> BOOLEAN] /\ calm \in [Providers -> BOOLEAN]
  /\ marker \in Marker \cup {NoMarker} /\ twin \in BOOLEAN
  /\ used \subseteq Units /\ writer \subseteq Units /\ token \subseteq Units
  /\ launcher \in [Units -> {"none", "gate", "run", "gone"}]
  /\ unit \in [Units -> {"absent", "active", "ended"}]
  /\ members \subseteq Units /\ reused \subseteq Units
  /\ faults \in Nat /\ deaths \in Nat

\* Whoever is inside holds the lock; what it launches is its marker's.
Locks(p) ==
  /\ lock = p <=> pc[p] \notin Outside
  /\ pc[p] \in Outside \cup {"read", "prepare", "arm"} \cup Recovering => mine[p] = NoUnit
  /\ pc[p] \in {"prepare", "arm"} => marker = NoMarker
  /\ pc[p] \in Recovering => marker # NoMarker
  /\ pc[p] \in Launching => mine[p] \in Units /\ marker # NoMarker /\ marker.unit = mine[p]

\* What a provider has made sure of on its way to the removal of a marker it has found.
Recovers(p) ==
  /\ pc[p] \in {"scan_command", "observe", "decide", "clear"} => launcher[marker.unit] # "gate"
  /\ pc[p] \in {"observe", "decide", "clear"} => launcher[marker.unit] # "run"
  /\ pc[p] \in {"decide", "clear"} => ~MayRun(marker.unit)

\* Where the gate was started, or something has come of it.
Running == Started \cup {"session", "stop", "reap"}

\* How far a launch is.
Launches(p) ==
  /\ pc[p] \in {"armed", "bind_gate", "popen"} => launcher[mine[p]] = "none"
  /\ pc[p] = "popen" => marker.gate
  /\ pc[p] \in Running => launcher[mine[p]] # "none"
  /\ pc[p] = "release" => marker.pid
  /\ pc[p] \in {"confirm_clean", "disarm"} => launcher[mine[p]] = "gone"
  /\ pc[p] = "disarm" => ~MayRun(mine[p])

\* Where there was nothing to wait for there still is not.
Calms(p) ==
  /\ pc[p] \in Recovering \cup {"read"} /\ calm[p] /\ marker # NoMarker =>
       marker.binding = BindingOf[p] /\ Settled(marker.unit)
  /\ pc[p] = "refused" => ~calm[p]

\* A gate that may still get its token is the one a provider has just started.
Written(u) == \E p \in Providers : pc[p] \in {"identify", "release"} /\ mine[p] = u

\* The gate of the unit was opened, so that something of it may be left.
Opened(u) == u \in token \/ launcher[u] = "run" \/ unit[u] # "absent" \/ u \in members

\* What was started has a used name; what may run is the marker's; the marker has the gate
\* of what was started, and the process of what was opened.
Guarded(u) ==
  /\ Opened(u) => launcher[u] # "none"
  /\ launcher[u] # "none" => u \in used
  /\ MayRun(u) => marker # NoMarker /\ marker.unit = u
  /\ marker # NoMarker /\ marker.unit = u /\ launcher[u] # "none" => marker.gate
  /\ marker # NoMarker /\ marker.unit = u /\ Opened(u) => marker.pid

LockInv     == \A p \in Providers : Locks(p)
RecoveryInv == \A p \in Providers : Recovers(p)
LaunchInv   == \A p \in Providers : Launches(p)
CalmInv     == \A p \in Providers : Calms(p)
WriterInv   == \A u \in writer : Written(u)
UnitInv     == \A u \in Units : Guarded(u)
UsedInv     == marker # NoMarker => marker.unit \in used

IInv ==
  /\ TypeOK /\ LockInv /\ RecoveryInv /\ LaunchInv /\ CalmInv
  /\ WriterInv /\ UnitInv /\ UsedInv

-----------------------------------------------------------------------------
(* Types *)

\* The names of the stages, spelled out.
LEMMA AllStages ==
  Stages = {"idle", "refused", "read", "prepare", "arm", "done", "scan_gate", "scan_command",
            "observe", "decide", "clear", "armed", "bind_gate", "popen", "identify", "release",
            "confirm", "identify_unit", "session", "stop", "reap", "confirm_clean", "disarm"}
  BY DEF Stages, Outside, Recovering, Launching

\* The variables of the providers have their types.
OwnType ==
  /\ lock \in Providers \cup {NoProvider}
  /\ pc \in [Providers -> Stages] /\ mine \in [Providers -> Units \cup {NoUnit}]
  /\ seen \in [Providers -> {0, 1}]
  /\ rollback \in [Providers -> BOOLEAN] /\ calm \in [Providers -> BOOLEAN]

\* A provider that leaves changes its own variables only, and closes its gate.
LEMMA LeaveIs ==
  ASSUME TypeOK, NEW p \in Providers, NEW stage \in Stages, Leave(p, stage)
  PROVE  /\ OwnType'
         /\ lock' = NoProvider /\ pc'[p] = stage /\ mine'[p] = NoUnit /\ calm'[p] = calm[p]
         /\ \A q \in Providers : q # p =>
              pc'[q] = pc[q] /\ mine'[q] = mine[q] /\ calm'[q] = calm[q]
         /\ writer' = writer \ {mine[p]} /\ token' = token
  BY DEF TypeOK, OwnType, Leave, Goto

\* A provider that goes on changes its place.
LEMMA StepIs ==
  ASSUME TypeOK, NEW p \in Providers, NEW from, NEW to \in Stages, Step(p, from, to)
  PROVE  /\ OwnType'
         /\ pc[p] = from /\ pc'[p] = to
         /\ UNCHANGED <<lock, mine, calm>>
         /\ \A q \in Providers : q # p => pc'[q] = pc[q]
  BY DEF TypeOK, OwnType, Step, Goto


-----------------------------------------------------------------------------
(* What the steps of a provider have in common *)

\* The other providers are where they were.
Others(p) ==
  \A q \in Providers : q # p => pc'[q] = pc[q] /\ mine'[q] = mine[q] /\ calm'[q] = calm[q]

\* The marker is left, or gets a record more, or is removed when nothing may run.
Updated ==
  \/ marker' = marker
  \/ /\ marker # NoMarker /\ marker' # NoMarker /\ marker'.unit = marker.unit
     /\ marker.gate => marker'.gate
     /\ marker.pid => marker'.pid
  \/ marker' = NoMarker /\ \A u \in Units : ~MayRun(u)

\* Everyone but the holder of the lock is outside, where nothing is said of the units.
LEMMA OthersKeep ==
  ASSUME LockInv, CalmInv, NEW p \in Providers, pc[p] \notin Outside, Others(p),
         lock' \in {p, NoProvider}, NEW q \in Providers, q # p
  PROVE  Locks(q)' /\ Recovers(q)' /\ Launches(q)' /\ Calms(q)'
<1>1. lock = p
  BY DEF LockInv, Locks
<1>2. pc[q] \in Outside /\ mine[q] = NoUnit
  BY <1>1 DEF LockInv, Locks
<1>3. pc'[q] \in Outside /\ mine'[q] = NoUnit /\ lock' # q
  BY <1>2, NobodyAssumption DEF Others
<1>4. pc'[q] \in {"idle", "refused"}
  BY <1>3 DEF Outside
<1>5. Locks(q)'
  BY <1>3, <1>4 DEF Locks, Recovering, Launching, Outside
<1>6. Recovers(q)' /\ Launches(q)'
  BY <1>4 DEF Recovers, Launches, Running, Started
<1>7. pc'[q] = "refused" => ~calm'[q]
  BY <1>2 DEF Others, CalmInv, Calms
<1>8. Calms(q)'
  BY <1>4, <1>7 DEF Calms, Recovering
<1>9. QED
  BY <1>5, <1>6, <1>8

\* So a step of a provider keeps the invariant when it keeps what concerns itself.
LEMMA Assemble ==
  ASSUME IInv, NEW p \in Providers, pc[p] \notin Outside, Others(p), lock' \in {p, NoProvider},
         TypeOK', Locks(p)', Recovers(p)', Launches(p)', Calms(p)',
         WriterInv', UnitInv', UsedInv'
  PROVE  IInv'
<1>1. LockInv /\ CalmInv
  BY DEF IInv
<1>2. \A q \in Providers : Locks(q)' /\ Recovers(q)' /\ Launches(q)' /\ Calms(q)'
  BY <1>1, OthersKeep
<1>3. LockInv' /\ RecoveryInv' /\ LaunchInv' /\ CalmInv'
  BY <1>2 DEF LockInv, RecoveryInv, LaunchInv, CalmInv
<1>4. QED
  BY <1>3 DEF IInv

\* What is known of the units does not suffer from a change of the marker.
LEMMA UnitKeeps ==
  ASSUME UnitInv, UsedInv, UNCHANGED <<used, token, launcher, unit, members>>,
         writer' \subseteq writer, Updated
  PROVE  UnitInv' /\ UsedInv'
<1>1. \A u \in Units : (MayRun(u)' => MayRun(u)) /\ (Opened(u)' <=> Opened(u))
  BY DEF MayRun, Opened
<1>2. UsedInv'
  BY DEF Updated, UsedInv
<1>3. ASSUME NEW u \in Units PROVE Guarded(u)'
  <2>1. Guarded(u)
    BY DEF UnitInv
  <2>2. MayRun(u)' => marker' # NoMarker /\ marker'.unit = u
    BY <1>1, <2>1 DEF Guarded, Updated
  <2>3. marker' # NoMarker /\ marker'.unit = u =>
          marker # NoMarker /\ marker.unit = u
          /\ (marker.gate => marker'.gate) /\ (marker.pid => marker'.pid)
    BY DEF Updated
  <2>4. QED
    BY <1>1, <2>1, <2>2, <2>3 DEF Guarded
<1>4. QED
  BY <1>2, <1>3 DEF UnitInv

\* A gate stays the one its provider holds, unless it is closed.
LEMMA WriterKeeps ==
  ASSUME WriterInv, NEW p \in Providers, Others(p), writer' \subseteq writer,
         pc[p] \in {"identify", "release"} =>
           \/ mine[p] \notin writer'
           \/ pc'[p] \in {"identify", "release"} /\ mine'[p] = mine[p]
  PROVE  WriterInv'
<1>1. ASSUME NEW u \in writer' PROVE Written(u)'
  <2>1. PICK q \in Providers : pc[q] \in {"identify", "release"} /\ mine[q] = u
    BY DEF WriterInv, Written
  <2>2. pc'[q] \in {"identify", "release"} /\ mine'[q] = u
    BY <2>1 DEF Others
  <2>3. QED
    BY <2>2 DEF Written
<1>2. QED
  BY <1>1 DEF WriterInv

\* A record keeps the unit of the marker and what was recorded.
LEMMA RecordIs ==
  ASSUME NEW stage \in DOMAIN After, marker \in Marker
  PROVE  LET m == Recorded(stage) IN
           /\ m \in Marker /\ m # NoMarker /\ m.unit = marker.unit
           /\ m.gate = (marker.gate \/ stage = "bind_gate")
           /\ m.pid = (marker.pid \/ stage = "identify")
<1>1. stage \in {"bind_gate", "identify", "identify_unit"}
  BY DEF After
<1>2. CASE stage = "bind_gate"
  <2>1. Recorded(stage) = [marker EXCEPT !.gate = TRUE]
    BY <1>2 DEF Recorded
  <2>2. QED
    BY <1>2, <2>1, NoMarkerAssumption DEF Marker
<1>3. CASE stage = "identify"
  <2>1. Recorded(stage) = [marker EXCEPT !.pid = TRUE]
    BY <1>3 DEF Recorded
  <2>2. QED
    BY <1>3, <2>1, NoMarkerAssumption DEF Marker
<1>4. CASE stage = "identify_unit"
  <2>1. Recorded(stage) = [marker EXCEPT !.group = TRUE]
    BY <1>4 DEF Recorded
  <2>2. QED
    BY <1>4, <2>1, NoMarkerAssumption DEF Marker
<1>5. QED
  BY <1>1, <1>2, <1>3, <1>4

\* Where the marker is removed nothing may run.
LEMMA RemovalIsSafe ==
  ASSUME IInv, NEW p \in Providers, pc[p] \in {"clear", "disarm"}, NEW u \in Units
  PROVE  ~MayRun(u)
<1>1. Guarded(u)
  BY DEF IInv, UnitInv
<1>2. CASE pc[p] = "clear"
  <2>1. ~MayRun(marker.unit)
    BY <1>2 DEF IInv, RecoveryInv, Recovers
  <2>2. QED
    BY <1>1, <2>1 DEF Guarded
<1>3. CASE pc[p] = "disarm"
  <2>1. ~MayRun(mine[p])
    BY <1>3 DEF IInv, LaunchInv, Launches, Running, Started
  <2>2. marker.unit = mine[p]
    BY <1>3 DEF IInv, LockInv, Locks, Launching
  <2>3. QED
    BY <1>1, <2>1, <2>2 DEF Guarded
<1>4. QED
  BY <1>2, <1>3

\* What an interrupted update leaves behind is as good as what it found or would leave.
LEMMA HalfWayIs ==
  ASSUME IInv, NEW p \in Providers, marker' \in HalfWay(p)
  PROVE  /\ Updated /\ marker' \in Marker \cup {NoMarker}
         /\ pc[p] \in {"identify", "confirm", "release", "identify_unit"} =>
              marker' # NoMarker /\ marker'.unit = marker.unit
<1>1. marker \in Marker \cup {NoMarker}
  BY DEF IInv, TypeOK
<1>2. pc[p] \in Launching => marker # NoMarker
  BY DEF IInv, LockInv, Locks
<1>3. CASE pc[p] \in DOMAIN After
  <2>1. pc[p] \in {"bind_gate", "identify", "identify_unit"}
    BY <1>3 DEF After
  <2>2. marker # NoMarker /\ marker \in Marker
    BY <1>1, <1>2, <2>1 DEF Launching
  <2>3. marker' \in {marker, Recorded(pc[p])}
    BY <1>3, <2>1 DEF HalfWay
  <2>4. QED
    BY <1>3, <2>2, <2>3, RecordIs DEF Updated
<1>4. CASE pc[p] \in {"clear", "disarm"}
  <2>1. pc[p] \notin DOMAIN After
    BY <1>4 DEF After
  <2>2. marker' \in {marker, NoMarker}
    BY <1>4, <2>1 DEF HalfWay
  <2>3. \A u \in Units : ~MayRun(u)
    BY <1>4, RemovalIsSafe
  <2>4. QED
    BY <1>1, <1>4, <2>2, <2>3 DEF Updated
<1>5. CASE pc[p] \notin DOMAIN After /\ pc[p] \notin {"clear", "disarm"}
  <2>1. marker' = marker
    BY <1>5 DEF HalfWay
  <2>2. QED
    BY <1>1, <1>2, <2>1 DEF Updated, Launching
<1>6. QED
  BY <1>3, <1>4, <1>5


\* A provider that leaves keeps the invariant, whatever it leaves the marker like.
LEMMA LeaveKeeps ==
  ASSUME IInv, NEW p \in Providers, pc[p] \notin Outside, NEW stage \in Outside,
         Leave(p, stage), stage = "refused" => ~calm[p],
         UNCHANGED <<used, external>>, marker' \in HalfWay(p),
         twin' \in BOOLEAN, faults' \in Nat, deaths' \in Nat
  PROVE  IInv'
<1>1. TypeOK /\ stage \in Stages
  BY DEF IInv, Stages
<1>2. /\ OwnType'
      /\ lock' = NoProvider /\ pc'[p] = stage /\ mine'[p] = NoUnit /\ calm'[p] = calm[p]
      /\ Others(p)
      /\ writer' = writer \ {mine[p]} /\ token' = token
  BY <1>1, LeaveIs DEF Others
<1>3. Updated /\ marker' \in Marker \cup {NoMarker}
  BY HalfWayIs
<1>4. TypeOK'
  BY <1>1, <1>2, <1>3 DEF TypeOK, OwnType, external
<1>5. UnitInv' /\ UsedInv'
  BY <1>2, <1>3, UnitKeeps DEF IInv, external
<1>6. WriterInv'
  BY <1>2, WriterKeeps DEF IInv
<1>7. pc'[p] \in {"idle", "refused"} /\ pc'[p] \in Outside /\ lock' # p
  BY <1>2, NobodyAssumption DEF Outside
<1>8. Locks(p)'
  BY <1>2, <1>7 DEF Locks, Recovering, Launching
<1>9. Recovers(p)' /\ Launches(p)'
  BY <1>7 DEF Recovers, Launches, Running, Started
<1>10. Calms(p)'
  BY <1>2, <1>7 DEF Calms, Recovering
<1>11. QED
  BY <1>2, <1>4, <1>5, <1>6, <1>8, <1>9, <1>10, Assemble

\* A provider that stays inside, and leaves the units alone.
LEMMA MoveKeeps ==
  ASSUME IInv, NEW p \in Providers, pc[p] \notin Outside, pc'[p] \notin Outside, Others(p),
         UNCHANGED <<lock, used, writer, token, launcher, unit, members>>, Updated,
         pc[p] \in {"identify", "release"} =>
           pc'[p] \in {"identify", "release"} /\ mine'[p] = mine[p],
         TypeOK', Locks(p)', Recovers(p)', Launches(p)', Calms(p)'
  PROVE  IInv'
<1>1. UnitInv' /\ UsedInv'
  BY UnitKeeps DEF IInv
<1>2. WriterInv'
  BY WriterKeeps DEF IInv
<1>3. lock' = p
  BY DEF IInv, LockInv, Locks
<1>4. QED
  BY <1>1, <1>2, <1>3, Assemble

\* A step of a provider that does nothing but go on, and perhaps remove the temporary name.
Quietly(p, from, to) ==
  /\ OwnType' /\ pc[p] = from /\ pc'[p] = to /\ Others(p)
  /\ twin' \in BOOLEAN /\ UNCHANGED <<lock, mine, calm, marker, used, gate, external, counts>>

\* Most of them are steps of the model of this name.
LEMMA StepIsQuiet ==
  ASSUME TypeOK, NEW p \in Providers, NEW from, NEW to \in Stages, Step(p, from, to),
         twin' \in BOOLEAN, UNCHANGED <<marker, used, gate, external, counts>>
  PROVE  Quietly(p, from, to)
<1>1. /\ OwnType' /\ pc[p] = from /\ pc'[p] = to /\ UNCHANGED <<lock, mine, calm>>
      /\ \A q \in Providers : q # p => pc'[q] = pc[q]
  BY StepIs
<1>2. QED
  BY <1>1 DEF Quietly, Others

\* Such a step keeps the invariant if what is known at its end is known at its beginning.
LEMMA QuietKeeps ==
  ASSUME IInv, NEW p \in Providers, NEW from \in Stages \ Outside, NEW to \in Stages \ Outside,
         from \notin {"identify", "release"},
         Quietly(p, from, to), Locks(p)', Recovers(p)', Launches(p)', Calms(p)'
  PROVE  IInv'
<1>1. TypeOK
  BY DEF IInv
<1>2. /\ OwnType' /\ pc[p] = from /\ pc'[p] = to /\ UNCHANGED <<lock, mine, calm>> /\ Others(p)
  BY DEF Quietly
<1>3. TypeOK'
  BY <1>1, <1>2 DEF TypeOK, OwnType, Quietly, gate, external, counts
<1>4. UNCHANGED <<lock, used, writer, token, launcher, unit, members>> /\ Updated
  BY <1>2 DEF Quietly, gate, external, Updated
<1>5. QED
  BY <1>2, <1>3, <1>4, MoveKeeps

\* What is known of the holder of the lock.
LEMMA HolderIs ==
  ASSUME IInv, NEW p \in Providers
  PROVE  /\ TypeOK /\ Locks(p) /\ Recovers(p) /\ Launches(p) /\ Calms(p)
         /\ \A u \in Units : Guarded(u)
         /\ marker # NoMarker => marker \in Marker /\ marker.unit \in Units /\ marker.unit \in used
  BY DEF IInv, TypeOK, LockInv, RecoveryInv, LaunchInv, CalmInv, UnitInv, UsedInv, Marker


\* What such a step changes, and what it does not.
LEMMA QuietIs ==
  ASSUME NEW p \in Providers, NEW from, NEW to, Quietly(p, from, to)
  PROVE  /\ pc[p] = from /\ pc'[p] = to
         /\ mine'[p] = mine[p] /\ calm'[p] = calm[p] /\ lock' = lock
         /\ marker' = marker /\ launcher' = launcher
         /\ \A u : MayRun(u)' <=> MayRun(u)
         /\ \A u : Settled(u)' <=> Settled(u)
<1>1. pc[p] = from /\ pc'[p] = to /\ UNCHANGED <<lock, mine, calm>>
  BY DEF Quietly
<1>2. UNCHANGED <<marker, launcher, unit, members, token, writer>>
  BY DEF Quietly, gate, external
<1>3. QED
  BY <1>1, <1>2 DEF MayRun, Settled

-----------------------------------------------------------------------------
(* Recovery *)

\* An interrupted update may have changed nothing.
LEMMA HalfWayIsSelf == ASSUME NEW p PROVE marker \in HalfWay(p)
<1>1. CASE pc[p] \in DOMAIN After
  <2>1. pc[p] \notin {"clear", "disarm"}
    BY <1>1 DEF After
  <2>2. QED
    BY <1>1, <2>1 DEF HalfWay
<1>2. CASE pc[p] \in {"clear", "disarm"}
  <2>1. pc[p] \notin DOMAIN After
    BY <1>2 DEF After
  <2>2. QED
    BY <1>2, <2>1 DEF HalfWay
<1>3. CASE pc[p] \notin DOMAIN After /\ pc[p] \notin {"clear", "disarm"}
  BY <1>3 DEF HalfWay
<1>4. QED
  BY <1>1, <1>2, <1>3

\* A refusal changes nothing but the provider's own variables.
LEMMA RefuseKeeps ==
  ASSUME IInv, NEW p \in Providers, pc[p] \notin Outside, ~calm[p],
         Leave(p, "refused"), twin' \in BOOLEAN, UNCHANGED <<marker, used, external, counts>>
  PROVE  IInv'
<1>1. marker' \in HalfWay(p)
  BY HalfWayIsSelf
<1>2. faults' \in Nat /\ deaths' \in Nat
  BY DEF IInv, TypeOK, counts
<1>3. "refused" \in Outside /\ UNCHANGED used
  BY DEF Outside
<1>4. QED
  BY <1>1, <1>2, <1>3, LeaveKeeps

\* Reading the marker, or that there is none.
LEMMA ReadKeeps == ASSUME IInv, NEW p \in Providers, Read(p) PROVE IInv'
<1>1. TypeOK /\ Locks(p) /\ Calms(p) /\ pc[p] = "read" /\ pc[p] \notin Outside /\ twin \in BOOLEAN
  BY HolderIs DEF Read, Outside, TypeOK
<1>2. CASE marker = NoMarker /\ Step(p, "read", "prepare") /\ UNCHANGED <<file, gate, external, counts>>
  <2>1. {"read", "prepare"} \subseteq Stages \ Outside
    BY AllStages DEF Outside
  <2>2. Quietly(p, "read", "prepare")
    BY <1>1, <1>2, <2>1, StepIsQuiet DEF file
  <2>3. /\ pc'[p] = "prepare" /\ mine'[p] = mine[p] /\ lock' = lock /\ marker' = marker
    BY <1>1, <2>1, <2>2, QuietIs
  <2>4. Locks(p)'
    BY <1>1, <1>2, <2>3 DEF Locks, Outside, Recovering, Launching
  <2>5. Recovers(p)' /\ Launches(p)' /\ Calms(p)'
    BY <2>3 DEF Recovers, Launches, Calms, Recovering, Running, Started
  <2>6. QED
    BY <2>1, <2>2, <2>4, <2>5, QuietKeeps
<1>3. CASE /\ marker # NoMarker /\ marker.binding = BindingOf[p]
           /\ Step(p, "read", "scan_gate")
           /\ twin' = FALSE
           /\ UNCHANGED <<marker, used, gate, external, counts>>
  <2>1. {"read", "scan_gate"} \subseteq Stages \ Outside
    BY AllStages DEF Outside
  <2>2. Quietly(p, "read", "scan_gate")
    BY <1>1, <1>3, <2>1, StepIsQuiet
  <2>3. /\ pc'[p] = "scan_gate" /\ mine'[p] = mine[p] /\ calm'[p] = calm[p]
        /\ lock' = lock /\ marker' = marker /\ \A u : Settled(u)' <=> Settled(u)
    BY <1>1, <2>1, <2>2, QuietIs
  <2>4. Locks(p)'
    BY <1>1, <1>3, <2>3 DEF Locks, Outside, Recovering, Launching
  <2>5. Recovers(p)' /\ Launches(p)'
    BY <2>3 DEF Recovers, Launches, Running, Started
  <2>6. Calms(p)'
    BY <1>1, <1>3, <2>3 DEF Calms, Recovering
  <2>7. QED
    BY <2>1, <2>2, <2>4, <2>5, <2>6, QuietKeeps
<1>4. CASE /\ marker # NoMarker /\ marker.binding # BindingOf[p]
           /\ twin' = FALSE
           /\ Leave(p, "refused")
           /\ UNCHANGED <<marker, used, external, counts>>
  <2>1. ~calm[p]
    BY <1>1, <1>4 DEF Calms
  <2>2. QED
    BY <1>1, <1>4, <2>1, RefuseKeeps
<1>5. QED
  BY <1>2, <1>3, <1>4 DEF Read

\* A step of recovery that finds nothing against the marker, and goes on to the next.
LEMMA RecoveryGoesOn ==
  ASSUME IInv, NEW p \in Providers, NEW from \in Recovering, NEW to \in Recovering,
         Quietly(p, from, to), from # "clear",
         to \in {"scan_command", "observe", "decide", "clear"} => launcher[marker.unit] # "gate",
         to \in {"observe", "decide", "clear"} => launcher[marker.unit] # "run",
         to \in {"decide", "clear"} => ~MayRun(marker.unit)
  PROVE  IInv'
<1>1. TypeOK /\ Locks(p) /\ Calms(p)
  BY HolderIs
<1>2. {from, to} \subseteq Stages \ Outside /\ from \notin {"identify", "release"}
  BY DEF Stages, Recovering, Outside
<1>3. /\ pc[p] = from /\ pc'[p] = to /\ mine'[p] = mine[p] /\ calm'[p] = calm[p]
      /\ lock' = lock /\ marker' = marker /\ launcher' = launcher
      /\ \A u : MayRun(u)' <=> MayRun(u)
      /\ \A u : Settled(u)' <=> Settled(u)
  BY <1>1, <1>2, QuietIs
<1>4. Locks(p)'
  BY <1>1, <1>3 DEF Locks, Outside, Recovering, Launching
<1>5. Recovers(p)'
  BY <1>3 DEF Recovers
<1>6. Launches(p)'
  BY <1>3 DEF Launches, Recovering, Running, Started
<1>7. Calms(p)'
  BY <1>1, <1>3 DEF Calms, Recovering
<1>8. QED
  BY <1>2, <1>4, <1>5, <1>6, <1>7, QuietKeeps


\* An observation counts, and after the second clean one the provider goes on.
LEMMA ConfirmIs ==
  ASSUME TypeOK, NEW p \in Providers, NEW u, NEW from \in Stages, NEW to \in Stages,
         Confirm(p, u, from, to)
  PROVE  Quietly(p, from, from) \/ (Clean(u) /\ Quietly(p, from, to))
<1>1. seen[p] \in {0, 1} /\ twin \in BOOLEAN
  BY DEF TypeOK
<1>2. PICK stage \in {from, to} : /\ pc' = [pc EXCEPT ![p] = stage]
                                  /\ stage = from \/ Clean(u)
  BY DEF Confirm, Goto
<1>3. PICK n \in {0, 1} : seen' = [seen EXCEPT ![p] = n]
  <2>1. (seen[p] + 1) % 2 \in {0, 1}
    BY <1>1
  <2>2. QED
    BY <2>1 DEF Confirm
<1>4. OwnType'
  BY <1>2, <1>3 DEF TypeOK, OwnType, Confirm
<1>5. pc[p] = from /\ pc'[p] = stage /\ Others(p)
  BY <1>2 DEF TypeOK, Confirm, Others
<1>6. Quietly(p, from, stage)
  BY <1>1, <1>4, <1>5 DEF Confirm, Quietly, file
<1>7. QED
  BY <1>2, <1>6

\* The scans: what is not found of the gate, or of the launcher, is not there to come.
LEMMA ScanKeeps == ASSUME IInv, NEW p \in Providers, Scan(p) PROVE IInv'
<1>1. /\ TypeOK /\ Locks(p) /\ Recovers(p) /\ Calms(p)
      /\ \A u \in Units : Guarded(u)
      /\ marker # NoMarker => marker \in Marker /\ marker.unit \in Units
      /\ twin \in BOOLEAN
  BY HolderIs DEF TypeOK
<1>2. {"scan_gate", "scan_command", "observe"} \subseteq Stages \cap Recovering
  BY AllStages DEF Recovering
<1>3. pc[p] \in {"scan_gate", "scan_command"}
  BY DEF Scan
<1>4. pc[p] \in Recovering /\ marker # NoMarker /\ pc[p] \notin Outside
  BY <1>1, <1>3 DEF Locks, Recovering, Outside
<1>5. calm[p] => Settled(marker.unit)
  BY <1>1, <1>4 DEF Calms
<1>6. CASE Refuse(p)
  <2>1. ~Step(p, "scan_gate", "scan_command") /\ ~Step(p, "scan_command", "observe")
    <3>1. pc'[p] = "refused"
      BY <1>1, <1>6 DEF Refuse, Leave, Goto, TypeOK
    <3>2. Step(p, "scan_gate", "scan_command") => pc'[p] = "scan_command"
      BY <1>1, <1>2, StepIs
    <3>3. Step(p, "scan_command", "observe") => pc'[p] = "observe"
      BY <1>1, <1>2, StepIs
    <3>4. QED
      BY <3>1, <3>2, <3>3
  <2>2. launcher[marker.unit] \in {"gate", "run"}
    BY <2>1 DEF Scan
  <2>3. ~calm[p]
    BY <1>5, <2>2 DEF Settled
  <2>4. QED
    BY <1>1, <1>4, <1>6, <2>3, RefuseKeeps DEF Refuse, file
<1>7. CASE /\ pc[p] = "scan_gate" /\ ~(marker.gate /\ launcher[marker.unit] = "gate")
           /\ Step(p, "scan_gate", "scan_command") /\ UNCHANGED <<file, gate, external, counts>>
  <2>1. Quietly(p, "scan_gate", "scan_command")
    BY <1>1, <1>2, <1>7, StepIsQuiet DEF file
  <2>2. launcher[marker.unit] # "gate"
    BY <1>1, <1>4, <1>7 DEF Guarded
  <2>3. QED
    BY <1>2, <2>1, <2>2, RecoveryGoesOn
<1>8. CASE /\ pc[p] = "scan_command" /\ launcher[marker.unit] # "run"
           /\ Step(p, "scan_command", "observe") /\ UNCHANGED <<file, gate, external, counts>>
  <2>1. Quietly(p, "scan_command", "observe")
    BY <1>1, <1>2, <1>8, StepIsQuiet DEF file
  <2>2. launcher[marker.unit] # "gate"
    BY <1>1, <1>8 DEF Recovers
  <2>3. QED
    BY <1>2, <1>8, <2>1, <2>2, RecoveryGoesOn
<1>9. QED
  BY <1>6, <1>7, <1>8 DEF Scan

\* The observations: no launcher is left, so that what is clean stays so.
LEMMA ObserveKeeps ==
  ASSUME IInv, NEW p \in Providers, Observe(p) \/ GiveUp(p) PROVE IInv'
<1>1. /\ TypeOK /\ Locks(p) /\ Recovers(p) /\ Calms(p) /\ twin \in BOOLEAN
  BY HolderIs DEF TypeOK
<1>2. pc[p] = "observe"
  BY DEF Observe, GiveUp
<1>3. {"observe", "decide"} \subseteq Stages \cap Recovering
  BY AllStages DEF Recovering
<1>4. launcher[marker.unit] \notin {"gate", "run"} /\ marker # NoMarker
  BY <1>1, <1>2, <1>3 DEF Locks, Recovers
<1>5. CASE Observe(p)
  <2>1. \/ Quietly(p, "observe", "observe")
        \/ Clean(marker.unit) /\ Quietly(p, "observe", "decide")
    BY <1>1, <1>3, <1>5, ConfirmIs DEF Observe
  <2>2. Clean(marker.unit) => ~MayRun(marker.unit)
    BY <1>4 DEF Clean, MayRun
  <2>3. CASE Quietly(p, "observe", "observe")
    BY <1>3, <1>4, <2>3, RecoveryGoesOn
  <2>4. CASE Clean(marker.unit) /\ Quietly(p, "observe", "decide")
    BY <1>3, <1>4, <2>2, <2>4, RecoveryGoesOn
  <2>5. QED
    BY <2>1, <2>3, <2>4
<1>6. CASE GiveUp(p)
  <2>1. ~calm[p]
    BY <1>1, <1>2, <1>3, <1>4, <1>6 DEF GiveUp, Calms, Settled, Clean
  <2>2. pc[p] \notin Outside
    BY <1>2 DEF Outside
  <2>3. QED
    BY <1>1, <1>6, <2>1, <2>2, RefuseKeeps DEF GiveUp, Refuse, file
<1>7. QED
  BY <1>5, <1>6

\* The decision on a recorded launcher refuses nobody who had nothing to wait for.
LEMMA DecideKeeps == ASSUME IInv, NEW p \in Providers, Decide(p) PROVE IInv'
<1>1. /\ TypeOK /\ Locks(p) /\ Recovers(p) /\ Calms(p) /\ twin \in BOOLEAN
  BY HolderIs DEF TypeOK
<1>2. pc[p] = "decide" /\ pc[p] \notin Outside
  BY DEF Decide, Outside
<1>3. {"decide", "clear"} \subseteq Stages \cap Recovering
  BY AllStages DEF Recovering
<1>4. /\ launcher[marker.unit] \notin {"gate", "run"} /\ marker # NoMarker
      /\ ~MayRun(marker.unit)
  BY <1>1, <1>2, <1>3 DEF Locks, Recovers
<1>5. CASE Excluded
  <2>1. Quietly(p, "decide", "clear")
    BY <1>1, <1>3, <1>5, StepIsQuiet DEF Decide, file
  <2>2. QED
    BY <1>3, <1>4, <2>1, RecoveryGoesOn
<1>6. CASE ~Excluded
  <2>1. ~calm[p]
    BY <1>1, <1>2, <1>3, <1>4, <1>6 DEF Excluded, Calms, Settled
  <2>2. QED
    BY <1>1, <1>2, <1>6, <2>1, RefuseKeeps DEF Decide, Refuse, file
<1>7. QED
  BY <1>5, <1>6


\* The marker is removed while nothing may run: recovery's end, and the launch's.
LEMMA RemoveKeeps ==
  ASSUME IInv, NEW p \in Providers, Clear(p) \/ Disarm(p) PROVE IInv'
<1>1. /\ TypeOK /\ Locks(p) /\ Calms(p)
  BY HolderIs
<1>2. PICK from \in {"clear", "disarm"}, to \in {"prepare", "done"} :
        Step(p, from, to) /\ marker' = NoMarker /\ (to = "prepare" => from = "clear")
  BY DEF Clear, Disarm
<1>3. UNCHANGED <<twin, used, gate, external, counts>>
  BY DEF Clear, Disarm
<1>4. to \in Stages /\ from \in Stages
  BY <1>2, AllStages
<1>5. /\ OwnType' /\ pc[p] = from /\ pc'[p] = to /\ UNCHANGED <<lock, mine, calm>> /\ Others(p)
  BY <1>1, <1>2, <1>4, StepIs DEF Others
<1>6. Updated
  BY <1>2, <1>5, RemovalIsSafe DEF Updated
<1>7. TypeOK'
  BY <1>1, <1>2, <1>3, <1>5 DEF TypeOK, OwnType, gate, external, counts
<1>8. pc[p] \notin Outside /\ pc'[p] \notin Outside /\ pc[p] \notin {"identify", "release"}
  BY <1>2, <1>5 DEF Outside
<1>9. Locks(p)'
  BY <1>1, <1>2, <1>5, <1>8 DEF Locks, Recovering, Launching, Outside
<1>10. Recovers(p)' /\ Launches(p)' /\ Calms(p)'
  BY <1>2, <1>5 DEF Recovers, Launches, Calms, Recovering, Running, Started
<1>11. QED
  BY <1>3, <1>5, <1>6, <1>7, <1>8, <1>9, <1>10, MoveKeeps DEF gate, external

-----------------------------------------------------------------------------
(* The launch *)

\* A provider that is about to launch, or has nothing left to do.
LEMMA PrepareKeeps == ASSUME IInv, NEW p \in Providers, Prepare(p) PROVE IInv'
<1>1. TypeOK /\ Locks(p) /\ twin \in BOOLEAN
  BY HolderIs DEF TypeOK
<1>2. PICK to \in {"done", "arm"} :
        Step(p, "prepare", to) /\ UNCHANGED <<file, gate, external, counts>>
  BY DEF Prepare
<1>3. {"prepare", "done", "arm"} \subseteq Stages \ Outside
  BY AllStages DEF Outside
<1>4. Quietly(p, "prepare", to)
  BY <1>1, <1>2, <1>3, StepIsQuiet DEF file
<1>5. /\ pc[p] = "prepare" /\ pc'[p] = to /\ mine'[p] = mine[p] /\ lock' = lock /\ marker' = marker
  BY <1>4, QuietIs
<1>6. Locks(p)'
  BY <1>1, <1>2, <1>5 DEF Locks, Outside, Recovering, Launching
<1>7. Recovers(p)' /\ Launches(p)' /\ Calms(p)'
  BY <1>2, <1>5 DEF Recovers, Launches, Calms, Recovering, Running, Started
<1>8. QED
  BY <1>2, <1>3, <1>4, <1>6, <1>7, QuietKeeps

\* The new marker is of a unit whose name was never used.
LEMMA ArmKeeps == ASSUME IInv, NEW p \in Providers, Arm(p) PROVE IInv'
<1>1. TypeOK /\ Locks(p) /\ \A u \in Units : Guarded(u)
  BY HolderIs
<1>2. pc[p] = "arm" /\ marker = NoMarker /\ pc[p] \notin Outside /\ lock = p
  BY <1>1 DEF Arm, Locks, Outside
<1>3. PICK u \in Units \ used :
        /\ marker' = [unit |-> u, binding |-> BindingOf[p], gate |-> FALSE, pid |-> FALSE,
                      group |-> FALSE]
        /\ mine' = [mine EXCEPT ![p] = u]
        /\ used' = used \cup {u}
  BY DEF Arm
<1>4. /\ twin' = TRUE /\ pc' = [pc EXCEPT ![p] = "armed"]
      /\ UNCHANGED <<lock, seen, rollback, calm, writer, token, launcher, unit, members, reused,
                     faults, deaths>>
  BY DEF Arm, Goto, gate, external, counts
<1>5. marker' \in Marker /\ marker' # NoMarker /\ marker'.unit = u
  <2>1. BindingOf[p] \in Bindings /\ u \in Units
    BY BindingAssumption
  <2>2. marker' \in Marker
    BY <1>3, <2>1 DEF Marker
  <2>3. QED
    BY <1>3, <2>2, NoMarkerAssumption
<1>6. /\ pc'[p] = "armed" /\ mine'[p] = u /\ calm'[p] = calm[p] /\ Others(p)
  BY <1>1, <1>3, <1>4 DEF TypeOK, Others
<1>7. TypeOK'
  <2>1. OwnType'
    BY <1>1, <1>3, <1>4, AllStages DEF TypeOK, OwnType
  <2>2. QED
    BY <1>1, <1>3, <1>4, <1>5, <2>1 DEF TypeOK, OwnType
<1>8. \A v \in Units : (MayRun(v)' <=> MayRun(v)) /\ (Opened(v)' <=> Opened(v))
  BY <1>4 DEF MayRun, Opened
<1>9. launcher[u] = "none" /\ ~Opened(u)
  BY <1>1, <1>3 DEF Guarded
<1>10. UnitInv' /\ UsedInv'
  <2>1. ASSUME NEW v \in Units PROVE Guarded(v)'
    <3>1. ~MayRun(v)
      BY <1>1, <1>2 DEF Guarded
    <3>2. Guarded(v)
      BY <1>1
    <3>3. QED
      BY <1>3, <1>4, <1>5, <1>8, <1>9, <3>1, <3>2 DEF Guarded
  <2>2. QED
    BY <1>3, <1>5, <2>1 DEF UnitInv, UsedInv
<1>11. WriterInv'
  BY <1>2, <1>4, <1>6, WriterKeeps DEF IInv
<1>12. Locks(p)'
  BY <1>2, <1>4, <1>5, <1>6 DEF Locks, Outside, Recovering, Launching
<1>13. Recovers(p)' /\ Launches(p)' /\ Calms(p)'
  BY <1>4, <1>6, <1>9 DEF Recovers, Launches, Calms, Recovering, Running, Started
<1>14. QED
  BY <1>2, <1>4, <1>6, <1>7, <1>10, <1>11, <1>12, <1>13, Assemble

\* A step of a launch, or of its end, that changes no unit and leaves the marker or records
\* something more in it.
LEMMA LaunchGoesOn ==
  ASSUME IInv, NEW p \in Providers, NEW from \in Launching, NEW to \in Launching,
         pc[p] = from, pc'[p] = to, Others(p), mine'[p] = mine[p], TypeOK',
         UNCHANGED <<lock, used, gate, external>>, Updated, marker' # NoMarker,
         from \in {"identify", "release"} => to \in {"identify", "release"},
         to \in {"armed", "bind_gate", "popen"} => launcher[mine[p]] = "none",
         to = "popen" => marker'.gate,
         to \in Running => launcher[mine[p]] # "none",
         to = "release" => marker'.pid,
         to \in {"confirm_clean", "disarm"} => launcher[mine[p]] = "gone",
         to = "disarm" => ~MayRun(mine[p])
  PROVE  IInv'
<1>1. Locks(p)
  BY HolderIs
<1>2. pc[p] \notin Outside /\ pc'[p] \notin Outside
  BY DEF Launching, Outside
<1>3. marker'.unit = marker.unit
  BY DEF Updated
<1>4. UNCHANGED <<writer, token, launcher, unit, members>>
  BY DEF gate, external
<1>5. \A u : MayRun(u)' <=> MayRun(u)
  BY <1>4 DEF MayRun
<1>6. Locks(p)'
  BY <1>1, <1>2, <1>3 DEF Locks, Launching, Recovering, Outside
<1>7. Recovers(p)' /\ Calms(p)'
  BY DEF Recovers, Calms, Launching, Recovering
<1>8. Launches(p)'
  BY <1>4, <1>5 DEF Launches, Running, Started
<1>9. QED
  BY <1>2, <1>4, <1>6, <1>7, <1>8, MoveKeeps

\* The same for a step that only goes on.
LEMMA LaunchQuiet ==
  ASSUME IInv, NEW p \in Providers, NEW from \in Launching, NEW to \in Launching,
         Quietly(p, from, to),
         from \notin {"identify", "release"},
         to \in {"armed", "bind_gate", "popen"} => launcher[mine[p]] = "none",
         to \notin {"popen", "identify", "release"},
         to \in Running => launcher[mine[p]] # "none",
         to \in {"confirm_clean", "disarm"} => launcher[mine[p]] = "gone",
         to = "disarm" => ~MayRun(mine[p])
  PROVE  IInv'
<1>1. TypeOK /\ Locks(p)
  BY HolderIs
<1>2. /\ OwnType' /\ pc[p] = from /\ pc'[p] = to /\ Others(p) /\ twin' \in BOOLEAN
      /\ UNCHANGED <<lock, mine, calm, marker, used, gate, external, counts>>
  BY DEF Quietly
<1>3. TypeOK'
  BY <1>1, <1>2 DEF TypeOK, OwnType, gate, external, counts
<1>4. marker # NoMarker
  BY <1>1, <1>2 DEF Locks
<1>5. QED
  BY <1>2, <1>3, <1>4, LaunchGoesOn DEF Updated


\* The steps that only go on: the temporary name is removed, the unit is seen to be active
\* or the wait is over, the turn ends.
LEMMA PassKeeps ==
  ASSUME IInv, NEW p \in Providers, Unlink(p) \/ ConfirmActive(p) \/ EndSession(p)
  PROVE  IInv'
<1>1. TypeOK /\ Launches(p) /\ twin \in BOOLEAN
  BY HolderIs DEF TypeOK
<1>2. {"armed", "bind_gate", "confirm", "identify_unit", "session", "stop"} \subseteq Launching \cap Stages
  BY AllStages DEF Launching
<1>x. {"identify_unit", "session", "stop", "confirm"} \subseteq Running /\ "bind_gate" \notin Running
  BY DEF Running, Started
<1>3. CASE Unlink(p)
  <2>1. Quietly(p, "armed", "bind_gate")
    BY <1>1, <1>2, <1>3, StepIsQuiet DEF Unlink
  <2>2. launcher[mine[p]] = "none"
    BY <1>1, <1>3 DEF Unlink, Step, Launches, Running, Started
  <2>3. QED
    BY <1>2, <1>x, <2>1, <2>2, LaunchQuiet
<1>4. CASE ConfirmActive(p)
  <2>x. launcher[mine[p]] # "none"
    BY <1>1, <1>x, <1>4 DEF ConfirmActive, Launches, Running, Started
  <2>1. CASE Step(p, "confirm", "identify_unit") /\ UNCHANGED writer
    <3>1. Quietly(p, "confirm", "identify_unit")
      BY <1>1, <1>2, <1>4, <2>1, StepIsQuiet DEF ConfirmActive, file, gate
    <3>2. QED
      BY <1>2, <2>x, <3>1, LaunchQuiet
  <2>2. CASE /\ Goto(p, "stop") /\ rollback' = [rollback EXCEPT ![p] = TRUE]
             /\ UNCHANGED <<lock, mine, seen, calm, writer>>
    <3>1. OwnType' /\ pc'[p] = "stop" /\ Others(p)
      BY <1>1, <1>2, <2>2 DEF Goto, TypeOK, OwnType, Others
    <3>2. Quietly(p, "confirm", "stop")
      BY <1>1, <1>4, <2>2, <3>1 DEF ConfirmActive, Quietly, file, gate
    <3>3. QED
      BY <1>2, <2>x, <3>2, LaunchQuiet
  <2>3. QED
    BY <1>4, <2>1, <2>2 DEF ConfirmActive
<1>5. CASE EndSession(p)
  <2>1. Quietly(p, "session", "stop")
    BY <1>1, <1>2, <1>5, StepIsQuiet DEF EndSession, file
  <2>2. launcher[mine[p]] # "none"
    BY <1>1, <1>x, <1>5 DEF EndSession, Step, Launches, Running, Started
  <2>3. QED
    BY <1>2, <2>1, <2>2, LaunchQuiet
<1>6. QED
  BY <1>3, <1>4, <1>5

\* A record: the gate's before the process is started, the process's before it is released.
LEMMA RecordKeeps == ASSUME IInv, NEW p \in Providers, Record(p) PROVE IInv'
<1>1. TypeOK /\ Locks(p) /\ Launches(p) /\ (marker # NoMarker => marker \in Marker)
  BY HolderIs
<1>2. PICK from \in DOMAIN After : pc[p] = from
  BY DEF Record
<1>3. DOMAIN After = {"bind_gate", "identify", "identify_unit"}
  BY DEF After
<1>4. PICK to \in {"popen", "release", "session"} :
        /\ to = After[from]
        /\ from = "bind_gate" => to = "popen"
        /\ from = "identify" => to = "release"
        /\ from = "identify_unit" => to = "session"
  BY <1>3 DEF After
<1>5. from \in Launching /\ to \in Launching /\ to \in Stages
  BY <1>3, AllStages DEF Launching
<1>6. Step(p, from, to) /\ marker' = Recorded(from) /\ UNCHANGED <<twin, used, gate, external, counts>>
  BY <1>2, <1>4 DEF Record
<1>7. marker \in Marker /\ marker # NoMarker
  BY <1>1, <1>2, <1>5 DEF Locks
<1>8. /\ marker' \in Marker /\ marker' # NoMarker /\ marker'.unit = marker.unit
      /\ marker'.gate = (marker.gate \/ from = "bind_gate")
      /\ marker'.pid = (marker.pid \/ from = "identify")
  BY <1>6, <1>7, RecordIs
<1>9. Updated
  BY <1>7, <1>8 DEF Updated
<1>10. /\ OwnType' /\ pc'[p] = to /\ UNCHANGED <<lock, mine, calm>> /\ Others(p)
  BY <1>1, <1>5, <1>6, StepIs DEF Others
<1>11. TypeOK'
  BY <1>1, <1>6, <1>8, <1>10 DEF TypeOK, OwnType, gate, external, counts
<1>12. /\ to = "popen" => launcher[mine[p]] = "none" /\ marker'.gate
       /\ to = "release" => marker'.pid
       /\ to # "popen" => launcher[mine[p]] # "none"
       /\ "popen" \notin Running
  BY <1>1, <1>2, <1>3, <1>4, <1>8 DEF Launches, Running, Started
<1>13. UNCHANGED <<lock, used, gate, external>> /\ mine'[p] = mine[p]
  BY <1>6, <1>10
<1>14. from \in {"identify", "release"} => to \in {"identify", "release"}
  BY <1>3, <1>4
<1>15. QED
  BY <1>2, <1>4, <1>5, <1>8, <1>9, <1>10, <1>11, <1>12, <1>13, <1>14, LaunchGoesOn

\* What is clean at the end of a launch, whose launcher is over, stays so.
LEMMA ConfirmCleanKeeps ==
  ASSUME IInv, NEW p \in Providers, ConfirmClean(p) PROVE IInv'
<1>1. TypeOK /\ Launches(p) /\ Locks(p)
  BY HolderIs
<1>2. {"confirm_clean", "disarm"} \subseteq Launching /\ {"confirm_clean", "disarm", "done"} \subseteq Stages
  BY AllStages DEF Launching
<1>3. pc[p] = "confirm_clean" /\ launcher[mine[p]] = "gone"
  BY <1>1 DEF ConfirmClean, Launches, Running, Started
<1>4. PICK to \in {"done", "disarm"} : Confirm(p, mine[p], "confirm_clean", to)
  BY DEF ConfirmClean
<1>5. \/ Quietly(p, "confirm_clean", "confirm_clean")
      \/ Clean(mine[p]) /\ Quietly(p, "confirm_clean", to)
  BY <1>1, <1>2, <1>4, ConfirmIs
<1>6. Clean(mine[p]) => ~MayRun(mine[p])
  BY <1>3 DEF Clean, MayRun
<1>x. "confirm_clean" \notin Running /\ "disarm" \notin Running
  BY DEF Running, Started
<1>7. CASE Quietly(p, "confirm_clean", "confirm_clean")
  BY <1>2, <1>3, <1>7, <1>x, LaunchQuiet
<1>8. CASE Clean(mine[p]) /\ Quietly(p, "confirm_clean", to) /\ to = "disarm"
  BY <1>2, <1>3, <1>6, <1>8, <1>x, LaunchQuiet
<1>9. CASE Quietly(p, "confirm_clean", to) /\ to = "done"
  <2>1. pc'[p] = "done" /\ mine'[p] = mine[p] /\ lock' = lock /\ marker' = marker
    BY <1>9, QuietIs
  <2>2. Locks(p)'
    BY <1>1, <1>3, <2>1 DEF Locks, Outside, Recovering, Launching
  <2>3. Recovers(p)' /\ Launches(p)' /\ Calms(p)'
    BY <2>1 DEF Recovers, Launches, Calms, Recovering, Running, Started
  <2>4. {"confirm_clean", "done"} \subseteq Stages \ Outside
    BY <1>2 DEF Outside
  <2>5. QED
    BY <1>9, <2>2, <2>3, <2>4, QuietKeeps
<1>10. QED
  BY <1>5, <1>7, <1>8, <1>9


\* The gate of a new unit is started: from now on it is the marker's.
LEMMA PopenKeeps == ASSUME IInv, NEW p \in Providers, Popen(p) PROVE IInv'
<1>1. /\ TypeOK /\ Locks(p) /\ Launches(p) /\ \A u \in Units : Guarded(u)
      /\ marker # NoMarker => marker.unit \in used
  BY HolderIs
<1>2. PICK u \in Units \cup {NoUnit} : u = mine[p]
  BY <1>1 DEF TypeOK
<1>3. /\ Step(p, "popen", "identify")
      /\ launcher' = [launcher EXCEPT ![u] = "gate"]
      /\ writer' = writer \cup {u}
      /\ UNCHANGED <<file, token, unit, members, reused, counts>>
  BY <1>2 DEF Popen
<1>4. {"popen", "identify"} \subseteq Stages \ Outside /\ {"popen", "identify"} \subseteq Launching
  BY AllStages DEF Outside, Launching
<1>5. /\ OwnType' /\ pc[p] = "popen" /\ pc'[p] = "identify" /\ UNCHANGED <<lock, mine, calm>>
      /\ Others(p)
  BY <1>1, <1>3, <1>4, StepIs DEF Others
<1>6. u \in Units /\ marker # NoMarker /\ marker.unit = u /\ lock = p /\ marker.gate
      /\ launcher[u] = "none"
  BY <1>1, <1>2, <1>4, <1>5 DEF Locks, Launches
<1>7. TypeOK'
  BY <1>1, <1>3, <1>5, <1>6 DEF TypeOK, OwnType, file, counts
<1>8. UnitInv' /\ UsedInv'
  <2>1. ASSUME NEW v \in Units PROVE Guarded(v)'
    <3>1. Guarded(v) /\ (v # u => launcher'[v] = launcher[v]) /\ launcher'[u] = "gate"
      BY <1>1, <1>3, <1>6 DEF TypeOK
    <3>2. Opened(v)' => Opened(v)
      BY <1>3, <3>1 DEF Opened
    <3>3. CASE v = u
      BY <1>1, <1>3, <1>6, <3>1, <3>2, <3>3 DEF Guarded, file
    <3>4. CASE v # u
      <4>1. MayRun(v)' => MayRun(v)
        BY <1>3, <3>1, <3>4 DEF MayRun
      <4>2. QED
        BY <1>3, <3>1, <3>2, <3>4, <4>1 DEF Guarded, file
    <3>5. QED
      BY <3>3, <3>4
  <2>2. QED
    BY <1>1, <1>3, <2>1 DEF UnitInv, UsedInv, file
<1>9. WriterInv'
  <2>1. ASSUME NEW v \in writer' PROVE Written(v)'
    <3>1. CASE v = u
      BY <1>2, <1>5, <3>1 DEF Written
    <3>2. CASE v # u
      <4>1. PICK q \in Providers : pc[q] \in {"identify", "release"} /\ mine[q] = v
        BY <1>3, <3>2 DEF IInv, WriterInv, Written
      <4>2. QED
        BY <1>5, <4>1 DEF Written, Others
    <3>3. QED
      BY <3>1, <3>2
  <2>2. QED
    BY <2>1 DEF WriterInv
<1>10. launcher'[mine'[p]] = "gate"
  BY <1>1, <1>2, <1>3, <1>5, <1>6 DEF TypeOK
<1>11. Locks(p)'
  BY <1>1, <1>2, <1>3, <1>5, <1>6 DEF Locks, Launching, Recovering, Outside, file
<1>12. Launches(p)' /\ Recovers(p)' /\ Calms(p)'
  BY <1>5, <1>10 DEF Launches, Recovers, Calms, Recovering
<1>13. QED
  BY <1>4, <1>5, <1>6, <1>7, <1>8, <1>9, <1>11, <1>12, Assemble

\* What may run is marked; the steps below start nothing, and say of a unit at most what the
\* marker has: units other than that of the provider are left alone.
LEMMA OwnUnit ==
  ASSUME IInv, NEW u \in Units, used' = used, marker' = marker,
         \A v \in Units : v # u => (MayRun(v)' => MayRun(v)) /\ (Opened(v)' <=> Opened(v))
                                   /\ launcher'[v] = launcher[v],
         Guarded(u)'
  PROVE  UnitInv' /\ UsedInv'
<1>1. ASSUME NEW v \in Units, v # u PROVE Guarded(v)'
  <2>1. Guarded(v)
    BY DEF IInv, UnitInv
  <2>2. (MayRun(v)' => MayRun(v)) /\ (Opened(v)' <=> Opened(v)) /\ launcher'[v] = launcher[v]
    BY <1>1
  <2>3. QED
    BY <2>1, <2>2 DEF Guarded
<1>2. UsedInv'
  BY DEF IInv, UsedInv
<1>3. QED
  BY <1>1, <1>2 DEF UnitInv

\* The token: the marker has everything recovery needs of what it lets start.
LEMMA ReleaseKeeps == ASSUME IInv, NEW p \in Providers, ReleaseGate(p) PROVE IInv'
<1>1. /\ TypeOK /\ Locks(p) /\ Launches(p) /\ \A u \in Units : Guarded(u)
      /\ marker # NoMarker => marker.unit \in used
  BY HolderIs
<1>2. PICK u \in Units \cup {NoUnit} : u = mine[p]
  BY <1>1 DEF TypeOK
<1>3. /\ Step(p, "release", "confirm")
      /\ token' = token \cup {u} /\ writer' = writer \ {u}
      /\ UNCHANGED <<file, external, counts>>
  BY <1>2 DEF ReleaseGate
<1>4. /\ {"release", "confirm"} \subseteq Stages \ Outside
      /\ {"release", "confirm"} \subseteq Launching \cap Running
  BY AllStages DEF Outside, Launching, Running, Started
<1>5. /\ OwnType' /\ pc[p] = "release" /\ pc'[p] = "confirm" /\ UNCHANGED <<lock, mine, calm>>
      /\ Others(p)
  BY <1>1, <1>3, <1>4, StepIs DEF Others
<1>6. /\ u \in Units /\ marker # NoMarker /\ marker.unit = u /\ lock = p /\ marker.pid
      /\ launcher[u] # "none"
  BY <1>1, <1>2, <1>4, <1>5 DEF Locks, Launches
<1>7. TypeOK'
  BY <1>1, <1>3, <1>5, <1>6 DEF TypeOK, OwnType, file, external, counts
<1>8. Guarded(u)'
  <2>1. Guarded(u) /\ UNCHANGED <<marker, used, launcher>>
    BY <1>1, <1>3, <1>6 DEF file, external
  <2>2. QED
    BY <1>6, <2>1 DEF Guarded
<1>9. \A v \in Units : v # u => (MayRun(v)' => MayRun(v)) /\ (Opened(v)' <=> Opened(v))
                                 /\ launcher'[v] = launcher[v]
  BY <1>3 DEF MayRun, Opened, external
<1>10. UnitInv' /\ UsedInv'
  BY <1>3, <1>6, <1>8, <1>9, OwnUnit DEF file
<1>11. WriterInv'
  BY <1>2, <1>3, <1>5, WriterKeeps DEF IInv
<1>12. Locks(p)'
  BY <1>1, <1>2, <1>3, <1>5, <1>6 DEF Locks, Launching, Recovering, Outside, file
<1>13. launcher'[mine'[p]] # "none"
  BY <1>2, <1>3, <1>5, <1>6 DEF external
<1>14. Launches(p)' /\ Recovers(p)' /\ Calms(p)'
  BY <1>5, <1>13 DEF Launches, Recovers, Calms, Recovering
<1>15. QED
  BY <1>4, <1>5, <1>6, <1>7, <1>10, <1>11, <1>12, <1>14, Assemble

\* The unit is stopped, and the launcher reaped: nothing is opened that was not.
LEMMA EndKeeps ==
  ASSUME IInv, NEW p \in Providers,
         \/ Stop(p)
         \/ /\ Step(p, "reap", "confirm_clean")
            /\ launcher' = [launcher EXCEPT ![mine[p]] = "gone"]
            /\ UNCHANGED <<gate, file, unit, members, reused, counts>>
  PROVE  IInv'
<1>1. /\ TypeOK /\ Locks(p) /\ Launches(p) /\ \A u \in Units : Guarded(u)
  BY HolderIs
<1>2. PICK u \in Units \cup {NoUnit} : u = mine[p]
  BY <1>1 DEF TypeOK
<1>3. PICK from \in {"stop", "reap"}, to \in {"reap", "confirm_clean"} :
        Step(p, from, to) /\ UNCHANGED <<gate, file, counts>>
        /\ (to = "confirm_clean" => launcher' = [launcher EXCEPT ![u] = "gone"])
  BY <1>2 DEF Stop
<1>4. /\ {from, to} \subseteq Stages \ Outside /\ {from, to} \subseteq Launching
      /\ from \in Running
  BY <1>3, AllStages DEF Outside, Launching, Running, Started
<1>5. /\ OwnType' /\ pc[p] = from /\ pc'[p] = to /\ UNCHANGED <<lock, mine, calm>>
      /\ Others(p)
  BY <1>1, <1>3, <1>4, StepIs DEF Others
<1>6. /\ u \in Units /\ marker # NoMarker /\ marker.unit = u /\ lock = p
      /\ launcher[u] # "none"
  BY <1>1, <1>2, <1>4, <1>5 DEF Locks, Launches
<1>7. /\ \/ launcher' = launcher
         \/ launcher' = [launcher EXCEPT ![u] = "gone"]
      /\ \/ unit' = unit
         \/ unit[u] = "active" /\ unit' = [unit EXCEPT ![u] = "ended"]
      /\ members' \in {members, members \ {u}} /\ reused' = reused
  BY <1>2 DEF Stop
<1>8. TypeOK'
  BY <1>1, <1>3, <1>5, <1>6, <1>7 DEF TypeOK, OwnType, file, gate, counts
<1>9. \A v \in Units : (MayRun(v)' => MayRun(v)) /\ (Opened(v)' => Opened(v))
  BY <1>1, <1>3, <1>6, <1>7 DEF MayRun, Opened, TypeOK, gate
<1>10. \A v \in Units : v # u => launcher'[v] = launcher[v] /\ (Opened(v) => Opened(v)')
  BY <1>1, <1>3, <1>6, <1>7 DEF Opened, TypeOK, gate
<1>11. launcher'[u] # "none" /\ (to = "confirm_clean" => launcher'[u] = "gone")
  BY <1>1, <1>3, <1>6, <1>7 DEF TypeOK
<1>12. Guarded(u)'
  <2>1. Guarded(u) /\ UNCHANGED <<marker, used>>
    BY <1>1, <1>3, <1>6 DEF file
  <2>2. QED
    BY <1>6, <1>9, <1>11, <2>1 DEF Guarded
<1>13. UnitInv' /\ UsedInv'
  BY <1>3, <1>6, <1>9, <1>10, <1>12, OwnUnit DEF file
<1>14. WriterInv'
  BY <1>3, <1>5, WriterKeeps DEF IInv, gate
<1>15. Locks(p)'
  BY <1>1, <1>2, <1>3, <1>5, <1>6 DEF Locks, Launching, Recovering, Outside, file
<1>16. mine'[p] = u
  BY <1>2, <1>5
<1>17. Launches(p)' /\ Recovers(p)' /\ Calms(p)'
  BY <1>3, <1>5, <1>11, <1>16 DEF Launches, Recovers, Calms, Recovering, Running, Started
<1>18. QED
  BY <1>4, <1>5, <1>6, <1>8, <1>13, <1>14, <1>15, <1>17, Assemble


-----------------------------------------------------------------------------
(* Leaving, errors and deaths *)

\* A provider that leaves with the marker as it is.
LEMMA IdleKeeps ==
  ASSUME IInv, NEW p \in Providers, pc[p] \notin Outside, Leave(p, "idle"),
         UNCHANGED <<file, external>>, faults' \in Nat, deaths' \in Nat
  PROVE  IInv'
<1>1. marker \in HalfWay(p) /\ "idle" \in Outside /\ "idle" # "refused" /\ twin \in BOOLEAN
  BY HalfWayIsSelf DEF Outside, IInv, TypeOK
<1>2. marker' \in HalfWay(p) /\ UNCHANGED <<used, external>> /\ twin' \in BOOLEAN
  BY <1>1 DEF file
<1>3. QED
  BY <1>1, <1>2, LeaveKeeps

\* An error in the middle of a start closes the gate; anywhere else the provider leaves.
LEMMA FailsKeeps == ASSUME IInv, NEW p \in Providers, Fails(p) PROVE IInv'
<1>1. /\ TypeOK /\ Locks(p) /\ Launches(p) /\ twin \in BOOLEAN
  BY HolderIs DEF TypeOK
<1>2. /\ pc[p] \notin Outside /\ marker' \in HalfWay(p) /\ UNCHANGED <<twin, used, external>>
      /\ faults' \in Nat /\ deaths' \in Nat
  BY <1>1 DEF Fails, Fault, TypeOK
<1>3. CASE pc[p] \notin Started
  <2>1. Leave(p, "idle") /\ "idle" \in Outside /\ "idle" # "refused"
    BY <1>3 DEF Fails, Outside
  <2>2. QED
    BY <1>1, <1>2, <2>1, LeaveKeeps
<1>4. CASE pc[p] \in Started
  <2>1. /\ pc' = [pc EXCEPT ![p] = "stop"] /\ rollback' = [rollback EXCEPT ![p] = TRUE]
        /\ writer' = writer \ {mine[p]}
        /\ UNCHANGED <<lock, mine, seen, calm, token>>
    BY <1>4 DEF Fails, Goto
  <2>2. /\ pc'[p] = "stop" /\ mine'[p] = mine[p] /\ Others(p) /\ lock' = lock
    BY <1>1, <2>1 DEF TypeOK, Others
  <2>3. /\ Updated /\ marker' \in Marker \cup {NoMarker}
        /\ marker' # NoMarker /\ marker'.unit = marker.unit
    BY <1>2, <1>4, HalfWayIs DEF Started
  <2>4. TypeOK'
    <3>1. OwnType'
      BY <1>1, <2>1, AllStages DEF TypeOK, OwnType
    <3>2. QED
      BY <1>1, <1>2, <2>1, <2>3, <3>1 DEF TypeOK, OwnType, external
  <2>5. UnitInv' /\ UsedInv'
    BY <1>2, <2>1, <2>3, UnitKeeps DEF IInv, external
  <2>6. WriterInv'
    BY <2>1, <2>2, WriterKeeps DEF IInv
  <2>7. pc[p] \in Launching /\ pc[p] \in Running /\ lock = p
    BY <1>1, <1>2, <1>4 DEF Launching, Running, Started, Locks
  <2>8. Locks(p)'
    BY <1>1, <2>2, <2>3, <2>7 DEF Locks, Outside, Recovering, Launching
  <2>9. launcher'[mine'[p]] # "none"
    BY <1>1, <1>2, <2>2, <2>7 DEF Launches, external
  <2>10. Launches(p)' /\ Recovers(p)' /\ Calms(p)'
    BY <2>2, <2>9 DEF Launches, Recovers, Calms, Recovering
  <2>11. QED
    BY <1>2, <2>2, <2>4, <2>5, <2>6, <2>7, <2>8, <2>10, Assemble
<1>5. QED
  BY <1>3, <1>4

\* A provider takes the free lock; everyone else is outside.
LEMMA AcquireKeeps == ASSUME IInv, NEW p \in Providers, Acquire(p) PROVE IInv'
<1>1. TypeOK /\ \A q \in Providers : Locks(q) /\ Calms(q)
  BY HolderIs
<1>2. PICK c \in BOOLEAN : c = (marker # NoMarker => marker.binding = BindingOf[p] /\ Settled(marker.unit))
  OBVIOUS
<1>3. /\ lock = NoProvider /\ lock' = p /\ pc' = [pc EXCEPT ![p] = "read"]
      /\ calm' = [calm EXCEPT ![p] = c]
      /\ UNCHANGED <<mine, seen, rollback, marker, twin, used, writer, token, launcher, unit,
                     members, reused, faults, deaths>>
  BY <1>2 DEF Acquire, Goto, file, gate, external, counts
<1>4. \A q \in Providers : pc[q] \in Outside
  BY <1>1, <1>3, NobodyAssumption DEF Locks
<1>5. /\ pc'[p] = "read" /\ calm'[p] = c
      /\ \A q \in Providers : q # p => pc'[q] = pc[q] /\ calm'[q] = calm[q]
  BY <1>1, <1>3 DEF TypeOK
<1>6. TypeOK'
  <2>1. OwnType'
    BY <1>1, <1>3, AllStages DEF TypeOK, OwnType
  <2>2. QED
    BY <1>1, <1>3, <2>1 DEF TypeOK, OwnType
<1>7. \A u : (MayRun(u)' <=> MayRun(u)) /\ (Opened(u)' <=> Opened(u)) /\ (Settled(u)' <=> Settled(u))
  BY <1>3 DEF MayRun, Opened, Settled
<1>8. UnitInv' /\ UsedInv'
  BY <1>3, <1>7 DEF IInv, UnitInv, UsedInv, Guarded
<1>9. writer = {}
  BY <1>4 DEF IInv, WriterInv, Written, Outside
<1>10. WriterInv'
  BY <1>3, <1>9 DEF WriterInv
<1>11. ASSUME NEW q \in Providers PROVE Locks(q)' /\ Recovers(q)' /\ Launches(q)' /\ Calms(q)'
  <2>1. CASE q = p
    <3>1. pc'[q] = "read" /\ mine'[q] = NoUnit /\ lock' = q
      BY <1>1, <1>3, <1>4, <1>5, <2>1 DEF Locks
    <3>2. Locks(q)'
      BY <3>1 DEF Locks, Outside, Recovering, Launching
    <3>3. Recovers(q)' /\ Launches(q)'
      BY <3>1 DEF Recovers, Launches, Running, Started
    <3>4. Calms(q)'
      BY <1>2, <1>3, <1>5, <1>7, <2>1, <3>1 DEF Calms, Recovering
    <3>5. QED
      BY <3>2, <3>3, <3>4
  <2>2. CASE q # p
    <3>1. pc'[q] \in Outside /\ pc'[q] = pc[q] /\ mine'[q] = NoUnit /\ lock' # q /\ calm'[q] = calm[q]
      BY <1>1, <1>3, <1>4, <1>5, <2>2 DEF Locks
    <3>2. pc'[q] \in {"idle", "refused"}
      BY <3>1 DEF Outside
    <3>3. Locks(q)'
      BY <3>1, <3>2 DEF Locks, Outside, Recovering, Launching
    <3>4. Recovers(q)' /\ Launches(q)'
      BY <3>2 DEF Recovers, Launches, Running, Started
    <3>5. Calms(q)'
      BY <1>1, <3>1, <3>2 DEF Calms, Recovering
    <3>6. QED
      BY <3>3, <3>4, <3>5
  <2>3. QED
    BY <2>1, <2>2
<1>12. QED
  BY <1>6, <1>8, <1>10, <1>11 DEF IInv, LockInv, RecoveryInv, LaunchInv, CalmInv

\* Every step of a provider keeps the invariant.
LEMMA ProviderKeeps ==
  ASSUME IInv, NEW p \in Providers, Acquire(p) \/ ProviderStep(p) \/ Fails(p) \/ Die(p)
  PROVE  IInv'
<1>1. CASE Acquire(p)
  BY <1>1, AcquireKeeps
<1>2. CASE Read(p) \/ Scan(p) \/ Observe(p) \/ GiveUp(p) \/ Decide(p) \/ Clear(p)
  BY <1>2, ReadKeeps, ScanKeeps, ObserveKeeps, DecideKeeps, RemoveKeeps
<1>3. CASE Prepare(p) \/ Arm(p) \/ Unlink(p) \/ Record(p) \/ Popen(p) \/ ReleaseGate(p)
  BY <1>3, PrepareKeeps, ArmKeeps, PassKeeps, RecordKeeps, PopenKeeps, ReleaseKeeps
<1>4. CASE ConfirmActive(p) \/ EndSession(p) \/ Stop(p) \/ ConfirmClean(p) \/ Disarm(p)
  BY <1>4, PassKeeps, EndKeeps, ConfirmCleanKeeps, RemoveKeeps
<1>5. /\ faults \in Nat /\ deaths \in Nat
  BY DEF IInv, TypeOK
<1>6. CASE Reap(p)
  <2>1. pc[p] = "reap" /\ UNCHANGED <<file, unit, members, reused, counts>>
    BY <1>6 DEF Reap
  <2>2. CASE /\ Step(p, "reap", "confirm_clean")
             /\ launcher' = [launcher EXCEPT ![mine[p]] = "gone"]
             /\ UNCHANGED gate
    BY <2>1, <2>2, EndKeeps
  <2>3. CASE Leave(p, "idle") /\ UNCHANGED launcher
    BY <1>5, <2>1, <2>3, IdleKeeps DEF Outside, external, counts
  <2>4. QED
    BY <1>6, <2>2, <2>3 DEF Reap
<1>7. CASE CleanupFails(p) \/ Done(p)
  BY <1>5, <1>7, IdleKeeps DEF CleanupFails, Done, Outside, counts
<1>8. CASE Fails(p)
  BY <1>8, FailsKeeps
<1>9. CASE Die(p)
  BY <1>5, <1>9, IdleKeeps DEF Die
<1>10. QED
  BY <1>1, <1>2, <1>3, <1>4, <1>6, <1>7, <1>8, <1>9 DEF ProviderStep

-----------------------------------------------------------------------------
(* systemd *)

\* What systemd and the launchers do: a gate only becomes a launcher with its token, a unit
\* only comes of a launcher with its token, and what is settled stays so.
LEMMA SystemdIs ==
  ASSUME TypeOK, NEW u \in Units, Systemd(u)
  PROVE  /\ TypeOK'
         /\ UNCHANGED <<lock, pc, mine, calm, marker, used, writer>>
         /\ \A v \in Units : /\ MayRun(v)' => MayRun(v)
                             /\ Opened(v)' => Opened(v)
                             /\ launcher'[v] = "none" <=> launcher[v] = "none"
                             /\ launcher'[v] = "gate" => launcher[v] = "gate"
                             /\ launcher[v] = "gone" => launcher'[v] = "gone"
                             /\ Settled(v) => Settled(v)'
                             /\ launcher'[v] = "run" => launcher[v] \in {"gate", "run"}
<1>1. CASE GateOpens(u)
  BY <1>1 DEF GateOpens, TypeOK, own, file, gate, counts, MayRun, Opened, Settled
<1>2. CASE GateCloses(u)
  BY <1>2 DEF GateCloses, TypeOK, own, file, gate, counts, MayRun, Opened, Settled
<1>3. CASE UnitStarts(u)
  BY <1>3 DEF UnitStarts, TypeOK, own, file, counts, MayRun, Opened, Settled
<1>4. CASE UnitEnds(u)
  BY <1>4 DEF UnitEnds, TypeOK, own, file, gate, counts, MayRun, Opened, Settled
<1>5. CASE MemberEnds(u)
  BY <1>5 DEF MemberEnds, TypeOK, own, file, gate, counts, MayRun, Opened, Settled
<1>6. CASE Collected(u)
  BY <1>6 DEF Collected, TypeOK, own, file, gate, counts, MayRun, Opened, Settled
<1>7. CASE LauncherEnds(u)
  BY <1>7 DEF LauncherEnds, TypeOK, own, file, gate, counts, MayRun, Opened, Settled
<1>8. CASE IdReused(u)
  BY <1>8 DEF IdReused, TypeOK, own, file, gate, counts, MayRun, Opened, Settled
<1>9. QED
  BY <1>1, <1>2, <1>3, <1>4, <1>5, <1>6, <1>7, <1>8 DEF Systemd


\* Every step of systemd keeps the invariant.
LEMMA SystemdKeeps == ASSUME IInv, NEW u \in Units, Systemd(u) PROVE IInv'
<1>1. /\ TypeOK'
      /\ UNCHANGED <<lock, pc, mine, calm, marker, used, writer>>
      /\ \A v \in Units : /\ MayRun(v)' => MayRun(v)
                          /\ Opened(v)' => Opened(v)
                          /\ launcher'[v] = "none" <=> launcher[v] = "none"
                          /\ launcher'[v] = "gate" => launcher[v] = "gate"
                          /\ launcher[v] = "gone" => launcher'[v] = "gone"
                          /\ Settled(v) => Settled(v)'
                          /\ launcher'[v] = "run" => launcher[v] \in {"gate", "run"}
  BY SystemdIs DEF IInv
<1>2. ASSUME NEW p \in Providers PROVE Locks(p)' /\ Recovers(p)' /\ Launches(p)' /\ Calms(p)'
  <2>1. /\ Locks(p) /\ Recovers(p) /\ Launches(p) /\ Calms(p)
        /\ marker # NoMarker => marker.unit \in Units
    BY HolderIs
  <2>2. Locks(p)'
    BY <1>1, <2>1 DEF Locks
  <2>3. Recovers(p)'
    <3>1. pc[p] \in Recovering => marker.unit \in Units
      BY <2>1 DEF Locks
    <3>2. QED
      BY <1>1, <2>1, <3>1 DEF Recovers, Recovering
  <2>4. Launches(p)'
    <3>1. pc[p] \in Launching => mine[p] \in Units
      BY <2>1 DEF Locks
    <3>2. QED
      BY <1>1, <2>1, <3>1 DEF Launches, Launching, Running, Started
  <2>5. Calms(p)'
    BY <1>1, <2>1 DEF Calms
  <2>6. QED
    BY <2>2, <2>3, <2>4, <2>5
<1>3. ASSUME NEW v \in Units PROVE Guarded(v)'
  <2>1. Guarded(v)
    BY HolderIs DEF IInv, UnitInv
  <2>2. QED
    BY <1>1, <2>1 DEF Guarded
<1>4. WriterInv' /\ UsedInv'
  BY <1>1 DEF IInv, WriterInv, Written, UsedInv
<1>5. QED
  BY <1>1, <1>2, <1>3, <1>4 DEF IInv, LockInv, RecoveryInv, LaunchInv, CalmInv, UnitInv

-----------------------------------------------------------------------------
(* The theorems *)

\* The invariant holds initially.
LEMMA InitInv == Init => IInv
<1> SUFFICES ASSUME Init PROVE IInv
  OBVIOUS
<1>1. TypeOK
  BY BoundsAssumption, AllStages DEF Init, TypeOK
<1>2. ASSUME NEW p \in Providers PROVE Locks(p) /\ Recovers(p) /\ Launches(p) /\ Calms(p)
  <2>1. pc[p] = "idle" /\ mine[p] = NoUnit /\ lock # p
    BY NobodyAssumption DEF Init
  <2>2. QED
    BY <2>1 DEF Locks, Recovers, Launches, Calms, Outside, Recovering, Launching, Running, Started
<1>3. ASSUME NEW u \in Units PROVE Guarded(u)
  BY DEF Init, Guarded, Opened, MayRun
<1>4. WriterInv /\ UsedInv
  BY DEF Init, WriterInv, UsedInv
<1>5. QED
  BY <1>1, <1>2, <1>3, <1>4 DEF IInv, LockInv, RecoveryInv, LaunchInv, CalmInv, UnitInv

\* A step that changes nothing keeps the invariant.
LEMMA StutterKeeps == IInv /\ UNCHANGED vars => IInv'
<1> SUFFICES ASSUME IInv, UNCHANGED vars PROVE IInv'
  OBVIOUS
<1>1. /\ UNCHANGED <<lock, pc, mine, seen, rollback, calm, marker, twin, used>>
      /\ UNCHANGED <<writer, token, launcher, unit, members, reused, faults, deaths>>
  BY DEF vars, own, file, gate, external, counts
<1>2. TypeOK'
  BY <1>1 DEF IInv, TypeOK
<1>3. \A u : (MayRun(u)' <=> MayRun(u)) /\ (Opened(u)' <=> Opened(u)) /\ (Settled(u)' <=> Settled(u))
  BY <1>1 DEF MayRun, Opened, Settled
<1>4. LockInv' /\ RecoveryInv' /\ LaunchInv' /\ CalmInv'
  BY <1>1, <1>3 DEF IInv, LockInv, RecoveryInv, LaunchInv, CalmInv, Locks, Recovers, Launches, Calms
<1>5. WriterInv' /\ UnitInv' /\ UsedInv'
  BY <1>1, <1>3 DEF IInv, WriterInv, Written, UnitInv, Guarded, UsedInv
<1>6. QED
  BY <1>2, <1>4, <1>5 DEF IInv

\* The invariant holds in every reachable state, for any providers, bindings and units, and
\* any bounds on the errors and deaths.
THEOREM CleanupInvariance == Spec => []IInv
<1>1. Init => IInv
  BY InitInv
<1>2. IInv /\ [Next]_vars => IInv'
  BY ProviderKeeps, SystemdKeeps, StutterKeeps DEF Next
<1>3. QED
  BY <1>1, <1>2, PTL DEF Spec

\* What runs, or may still start, is the marker's: no provider prepares the mount, or
\* launches another unit, under it, whoever died or failed at any point.
THEOREM MarkerIsKept == Spec => []MarkerGuards
<1>1. ASSUME IInv PROVE MarkerGuards
  <2>1. ASSUME NEW u \in Units, MayRun(u) PROVE marker # NoMarker /\ marker.unit = u
    BY <1>1, <2>1, HolderIs DEF IInv, UnitInv, Guarded
  <2>2. ASSUME NEW p \in Providers, pc[p] \in {"prepare", "arm"} PROVE marker = NoMarker
    BY <1>1, <2>2 DEF IInv, LockInv, Locks
  <2>3. QED
    BY <2>1, <2>2 DEF MarkerGuards
<1>2. QED
  BY <1>1, CleanupInvariance, PTL

\* Whatever was let past its gate is recorded so that recovery recognises it.
THEOREM LaunchIsRecorded == Spec => []LaunchIsIdentified
<1>1. ASSUME IInv PROVE LaunchIsIdentified
  <2>1. ASSUME NEW u \in Units, MayRun(u), u \notin writer
        PROVE  marker # NoMarker /\ marker.gate /\ marker.pid
    <3>1. Guarded(u)
      BY <1>1 DEF IInv, UnitInv
    <3>2. Opened(u)
      BY <2>1 DEF MayRun, Opened
    <3>3. QED
      BY <2>1, <3>1, <3>2 DEF Guarded
  <2>2. QED
    BY <2>1 DEF LaunchIsIdentified
<1>2. QED
  BY <1>1, CleanupInvariance, PTL

\* A provider that finds nothing left of its own marker's unit is not turned away.
THEOREM CalmIsAdmitted == Spec => []NoNeedlessRefusal
<1>1. IInv => NoNeedlessRefusal
  BY DEF IInv, CalmInv, Calms, NoNeedlessRefusal
<1>2. QED
  BY <1>1, CleanupInvariance, PTL
===============================================================================
