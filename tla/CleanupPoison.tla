----------------------------- MODULE CleanupPoison -----------------------------
(***************************************************************************)
(* The cleanup marker of skivolve/codex_app_server.py.  A Codex provider    *)
(* runs its agent in a transient systemd unit, which may outlive it.        *)
(* Before it launches anything it leaves a marker with the unit's identity, *)
(* and removes it only when the unit is confirmed to be over; the next      *)
(* provider that finds a marker must see for itself that nothing of the     *)
(* unit is left, or can still come, before it clears the marker and uses    *)
(* the same runtime mount.  Providers may die at any step.                  *)
(*                                                                         *)
(* The launcher is a shell behind a gate, a pipe only the provider can      *)
(* write; given the token it becomes systemd-run, in the same process.      *)
(* systemd is external: it starts a unit as one step of its launcher, and   *)
(* unloads none that has members.  The marker lives on a tmpfs, so there is *)
(* no loss of power.                                                        *)
(***************************************************************************)
EXTENDS Naturals

CONSTANTS
  Providers,
  Bindings, BindingOf,  \* auth file, protocol lock, provider lock and mount of each
  Units,                \* unit names, each used once (a bound on launches)
  NoProvider, NoUnit, NoMarker,
  MaxFaults,            \* bound on I/O errors
  MaxDeaths             \* bound on deaths of a provider

ASSUME BindingAssumption == BindingOf \in [Providers -> Bindings]
ASSUME NobodyAssumption == NoProvider \notin Providers /\ NoUnit \notin Units
ASSUME BoundsAssumption == MaxFaults \in Nat /\ MaxDeaths \in Nat

VARIABLES
  lock,      \* who holds the provider lock
  pc, mine,  \* where a provider is, and the unit it launches
  seen,      \* clean observations it has made in a row
  rollback,  \* it is closing because its start has failed
  calm,      \* history: there was nothing to wait for when it took the lock
  marker,    \* the marker file
  twin,      \* its temporary name is still there
  used,      \* unit names that were used
  writer,    \* units whose gate may still get its token
  token,     \* units whose gate has got it, until they are started
  launcher,  \* the launcher process of every unit
  unit,      \* what systemd says of it
  members,   \* units with processes in their cgroup
  reused,    \* units whose launcher's process id was taken by another process
  faults, deaths

own      == <<pc, mine, seen, rollback, calm>>
file     == <<marker, twin, used>>
external == <<launcher, unit, members, reused>>
gate     == <<writer, token>>
counts   == <<faults, deaths>>
vars     == <<lock, own, file, gate, external, counts>>

Marker == [unit : Units, binding : Bindings, gate : BOOLEAN, pid : BOOLEAN, group : BOOLEAN]

ASSUME NoMarkerAssumption == NoMarker \notin Marker

Fault == faults < MaxFaults /\ faults' = faults + 1 /\ UNCHANGED deaths

Outside == {"idle", "refused"}
Goto(p, stage) == pc' = [pc EXCEPT ![p] = stage]

\* The lock is given back, and the provider has left run_agent.
Leave(p, stage) ==
  /\ lock' = NoProvider
  /\ Goto(p, stage)
  /\ mine' = [mine EXCEPT ![p] = NoUnit]
  /\ seen' = [seen EXCEPT ![p] = 0]
  /\ rollback' = [rollback EXCEPT ![p] = FALSE]
  /\ writer' = writer \ {mine[p]}
  /\ UNCHANGED <<calm, token>>

Step(p, from, to) ==
  /\ pc[p] = from /\ Goto(p, to)
  /\ UNCHANGED <<lock, mine, seen, rollback, calm>>

-----------------------------------------------------------------------------
Init ==
  /\ lock = NoProvider
  /\ pc = [p \in Providers |-> "idle"] /\ mine = [p \in Providers |-> NoUnit]
  /\ seen = [p \in Providers |-> 0] /\ rollback = [p \in Providers |-> FALSE]
  /\ calm = [p \in Providers |-> FALSE]
  /\ marker = NoMarker /\ twin = FALSE /\ used = {}
  /\ writer = {} /\ token = {}
  /\ launcher = [u \in Units |-> "none"]
  /\ unit = [u \in Units |-> "absent"]
  /\ members = {} /\ reused = {}
  /\ faults = 0 /\ deaths = 0

\* Nothing of the unit is left, and nothing can come.
Settled(u) == launcher[u] \in {"none", "gone"} /\ unit[u] = "absent" /\ u \notin members

Acquire(p) ==
  /\ lock = NoProvider /\ pc[p] \in Outside
  /\ lock' = p /\ Goto(p, "read")
  /\ calm' = [calm EXCEPT ![p] =
                marker # NoMarker => marker.binding = BindingOf[p] /\ Settled(marker.unit)]
  /\ UNCHANGED <<mine, seen, rollback, file, gate, external, counts>>

-----------------------------------------------------------------------------
(* recover *)

Refuse(p) == Leave(p, "refused") /\ UNCHANGED <<file, external, counts>>

\* A marker its publisher left with two names loses the temporary one; a marker of
\* another binding is refused.
Read(p) ==
  /\ pc[p] = "read"
  /\ \/ marker = NoMarker /\ Step(p, "read", "prepare") /\ UNCHANGED <<file, gate, external, counts>>
     \/ /\ marker # NoMarker /\ marker.binding = BindingOf[p]
        /\ Step(p, "read", "scan_gate")
        /\ twin' = FALSE
        /\ UNCHANGED <<marker, used, gate, external, counts>>
     \/ /\ marker # NoMarker /\ marker.binding # BindingOf[p]
        /\ twin' = FALSE
        /\ Leave(p, "refused")
        /\ UNCHANGED <<marker, used, external, counts>>

\* No process may have the command line of the gate, and then none that of the
\* launcher.
Scan(p) ==
  \/ /\ pc[p] = "scan_gate"
     /\ IF marker.gate /\ launcher[marker.unit] = "gate" THEN Refuse(p)
        ELSE Step(p, "scan_gate", "scan_command") /\ UNCHANGED <<file, gate, external, counts>>
  \/ /\ pc[p] = "scan_command"
     /\ IF launcher[marker.unit] = "run" THEN Refuse(p)
        ELSE Step(p, "scan_command", "observe") /\ UNCHANGED <<file, gate, external, counts>>

\* Mutant of Clean: the processes in the unit's cgroup are not looked at.
CleanByState(u) == unit[u] \in {"absent", "ended"}

\* Neither systemd nor the cgroup, of a loaded unit or a captured one, shows a sign of
\* life.
Clean(u) == unit[u] \in {"absent", "ended"} /\ u \notin members

\* confirm_unit_clean: two clean observations in a row, until a deadline.
Confirm(p, u, from, to) ==
  /\ pc[p] = from
  /\ seen' = [seen EXCEPT ![p] = IF Clean(u) THEN (seen[p] + 1) % 2 ELSE 0]
  /\ Goto(p, IF Clean(u) /\ seen[p] = 1 THEN to ELSE from)
  /\ UNCHANGED <<lock, mine, rollback, calm, file, gate, external, counts>>

Observe(p) == pc[p] = "observe" /\ Confirm(p, marker.unit, "observe", "decide")

\* Mutant of GiveUp: there is no deadline.
GiveUpNever(p) == pc[p] = "observe" /\ FALSE

\* The deadline of five seconds.
GiveUp(p) == pc[p] = "observe" /\ ~Clean(marker.unit) /\ Refuse(p)

\* Mutant of Excluded: any process with the launcher's id is taken for it.
ExcludedById ==
  IF marker.pid THEN launcher[marker.unit] # "run" /\ marker.unit \notin reused
  ELSE unit[marker.unit] = "absent"

\* A recorded launcher is compared by process id and start time; without one the
\* unit must not be loaded.  (The code takes the state of its last observation: such
\* a unit cannot have changed since, as its gate was never opened.)
Excluded ==
  IF marker.pid THEN launcher[marker.unit] \notin {"gate", "run"}
  ELSE unit[marker.unit] = "absent"

Decide(p) ==
  /\ pc[p] = "decide"
  /\ IF Excluded THEN Step(p, "decide", "clear") /\ UNCHANGED <<file, gate, external, counts>>
     ELSE Refuse(p)

Clear(p) ==
  /\ Step(p, "clear", "prepare")
  /\ marker' = NoMarker
  /\ UNCHANGED <<twin, used, gate, external, counts>>

-----------------------------------------------------------------------------
(* The launch *)

\* The runtime mount, which every unit of this user shares, is emptied.  (Without a unit
\* name left, the bound on launches ends the attempt.)
Prepare(p) ==
  /\ Step(p, "prepare", IF used = Units THEN "done" ELSE "arm")
  /\ UNCHANGED <<file, gate, external, counts>>

\* The marker is linked to its name; the temporary name is removed after that.
Arm(p) ==
  /\ pc[p] = "arm" /\ marker = NoMarker
  /\ \E u \in Units \ used :
       /\ marker' = [unit |-> u, binding |-> BindingOf[p], gate |-> FALSE, pid |-> FALSE,
                     group |-> FALSE]
       /\ mine' = [mine EXCEPT ![p] = u]
       /\ used' = used \cup {u}
  /\ twin' = TRUE
  /\ Goto(p, "armed")
  /\ UNCHANGED <<lock, seen, rollback, calm, gate, external, counts>>

Unlink(p) ==
  /\ Step(p, "armed", "bind_gate")
  /\ twin' = FALSE
  /\ UNCHANGED <<marker, used, gate, external, counts>>

\* The marker after the record of this stage.
Recorded(stage) ==
  CASE stage = "bind_gate"     -> [marker EXCEPT !.gate = TRUE]
    [] stage = "identify"      -> [marker EXCEPT !.pid = TRUE]
    [] stage = "identify_unit" -> [marker EXCEPT !.group = TRUE]

\* The stages of a launch that are recorded, and what follows each.
After == [bind_gate |-> "popen", identify |-> "release", identify_unit |-> "session"]

\* bind_gate, identify_launcher, identify_unit: the marker is replaced.
Record(p) ==
  /\ pc[p] \in DOMAIN After /\ marker # NoMarker /\ marker.unit = mine[p]
  /\ marker' = Recorded(pc[p])
  /\ Step(p, pc[p], After[pc[p]])
  /\ UNCHANGED <<twin, used, gate, external, counts>>

\* Mutant of Popen: systemd-run is started without the gate.
PopenUngated(p) ==
  /\ Step(p, "popen", "identify")
  /\ launcher' = [launcher EXCEPT ![mine[p]] = "run"]
  /\ token' = token \cup {mine[p]}
  /\ UNCHANGED <<file, writer, unit, members, reused, counts>>

\* The shell behind the gate.
Popen(p) ==
  /\ Step(p, "popen", "identify")
  /\ launcher' = [launcher EXCEPT ![mine[p]] = "gate"]
  /\ writer' = writer \cup {mine[p]}
  /\ UNCHANGED <<file, token, unit, members, reused, counts>>

ReleaseGate(p) ==
  /\ Step(p, "release", "confirm")
  /\ token' = token \cup {mine[p]} /\ writer' = writer \ {mine[p]}
  /\ UNCHANGED <<file, external, counts>>

Started == {"identify", "release", "confirm", "identify_unit"}

\* The unit is active, or the launcher is over, or five seconds are.
ConfirmActive(p) ==
  /\ pc[p] = "confirm"
  /\ \/ unit[mine[p]] = "active" /\ Step(p, "confirm", "identify_unit") /\ UNCHANGED writer
     \/ /\ Goto(p, "stop") /\ rollback' = [rollback EXCEPT ![p] = TRUE]
        /\ UNCHANGED <<lock, mine, seen, calm, writer>>
  /\ UNCHANGED <<file, token, external, counts>>

\* The turn ends, with a result, an error or the request's deadline.
EndSession(p) ==
  /\ Step(p, "session", "stop")
  /\ UNCHANGED <<file, gate, external, counts>>

-----------------------------------------------------------------------------
(* close, and disarm *)

\* systemctl stop, and kill: the unit is stopped, or the command was of no use.
Stop(p) ==
  /\ Step(p, "stop", "reap")
  /\ \/ UNCHANGED <<unit, members>>
     \/ /\ unit[mine[p]] = "active"
        /\ unit' = [unit EXCEPT ![mine[p]] = "ended"]
        /\ members' \in {members, members \ {mine[p]}}
  /\ UNCHANGED <<file, gate, launcher, reused, counts>>

\* The launcher ends by itself, or is terminated, or cannot be reaped.  (When systemctl
\* is called again, the unit ends as it may at any time.)
Reap(p) ==
  /\ pc[p] = "reap"
  /\ \/ /\ Step(p, "reap", "confirm_clean")
        /\ launcher' = [launcher EXCEPT ![mine[p]] = "gone"]
        /\ UNCHANGED gate
     \/ Leave(p, "idle") /\ UNCHANGED launcher
  /\ UNCHANGED <<file, unit, members, reused, counts>>

ConfirmClean(p) ==
  /\ pc[p] = "confirm_clean"
  /\ Confirm(p, mine[p], "confirm_clean", IF rollback[p] THEN "done" ELSE "disarm")

CleanupFails(p) ==
  /\ pc[p] = "confirm_clean" /\ ~Clean(mine[p])
  /\ Leave(p, "idle")
  /\ UNCHANGED <<file, external, counts>>

\* The marker must have everything the launch has recorded.
Disarm(p) ==
  /\ marker = [unit |-> mine[p], binding |-> BindingOf[p], gate |-> TRUE, pid |-> TRUE,
               group |-> TRUE]
  /\ Step(p, "disarm", "done")
  /\ marker' = NoMarker
  /\ UNCHANGED <<twin, used, gate, external, counts>>

Done(p) ==
  /\ pc[p] = "done"
  /\ Leave(p, "idle")
  /\ UNCHANGED <<file, external, counts>>

-----------------------------------------------------------------------------
(* Errors, and the death of a provider *)

\* What an update of the marker leaves behind that raises half-way.
HalfWay(p) ==
  CASE pc[p] \in DOMAIN After       -> {marker, Recorded(pc[p])}
    [] pc[p] \in {"clear", "disarm"} -> {marker, NoMarker}
    [] OTHER                         -> {marker}

\* After the shell was started an error closes the transport; otherwise, or when
\* that is done, the provider leaves and the marker stays.
Fails(p) ==
  /\ pc[p] \notin Outside \cup {"session", "stop", "reap", "done"} /\ Fault
  /\ marker' \in HalfWay(p)
  /\ IF pc[p] \in Started
       THEN /\ Goto(p, "stop") /\ rollback' = [rollback EXCEPT ![p] = TRUE]
            /\ writer' = writer \ {mine[p]}
            /\ UNCHANGED <<lock, mine, seen, calm, token>>
       ELSE Leave(p, "idle")
  /\ UNCHANGED <<twin, used, external>>

\* The kernel closes the gate and releases the lock.
Die(p) ==
  /\ pc[p] \notin Outside
  /\ deaths < MaxDeaths /\ deaths' = deaths + 1
  /\ Leave(p, "idle")
  /\ UNCHANGED <<file, external, faults>>

-----------------------------------------------------------------------------
(* The launcher and systemd *)

\* The gate reads its token, or the end of the pipe.
GateOpens(u) ==
  /\ launcher[u] = "gate" /\ u \in token
  /\ launcher' = [launcher EXCEPT ![u] = "run"]
  /\ UNCHANGED <<lock, own, file, gate, unit, members, reused, counts>>

GateCloses(u) ==
  /\ launcher[u] = "gate" /\ u \notin token \cup writer
  /\ launcher' = [launcher EXCEPT ![u] = "gone"]
  /\ UNCHANGED <<lock, own, file, gate, unit, members, reused, counts>>

\* systemd-run has its unit started; it is used once.
UnitStarts(u) ==
  /\ launcher[u] = "run" /\ unit[u] = "absent" /\ u \in token
  /\ unit' = [unit EXCEPT ![u] = "active"]
  /\ members' = members \cup {u}
  /\ token' = token \ {u}
  /\ UNCHANGED <<lock, own, file, writer, launcher, reused, counts>>

\* The unit is over, though a member of its cgroup may not be.
UnitEnds(u) ==
  /\ unit[u] = "active"
  /\ unit' = [unit EXCEPT ![u] = "ended"]
  /\ members' \in {members, members \ {u}}
  /\ UNCHANGED <<lock, own, file, gate, launcher, reused, counts>>

MemberEnds(u) ==
  /\ u \in members /\ unit[u] = "ended"
  /\ members' = members \ {u}
  /\ UNCHANGED <<lock, own, file, gate, launcher, unit, reused, counts>>

\* --collect: an empty unit is unloaded.
Collected(u) ==
  /\ unit[u] = "ended" /\ u \notin members
  /\ unit' = [unit EXCEPT ![u] = "absent"]
  /\ UNCHANGED <<lock, own, file, gate, launcher, members, reused, counts>>

\* The launcher ends: its unit has, or could not be started, or it was killed.
LauncherEnds(u) ==
  /\ launcher[u] = "run"
  /\ launcher' = [launcher EXCEPT ![u] = "gone"]
  /\ UNCHANGED <<lock, own, file, gate, unit, members, reused, counts>>

IdReused(u) ==
  /\ launcher[u] = "gone" /\ u \notin reused
  /\ reused' = reused \cup {u}
  /\ UNCHANGED <<lock, own, file, gate, launcher, unit, members, counts>>

-----------------------------------------------------------------------------
ProviderStep(p) ==
  \/ Read(p) \/ Scan(p) \/ Observe(p) \/ GiveUp(p) \/ Decide(p) \/ Clear(p)
  \/ Prepare(p) \/ Arm(p) \/ Unlink(p) \/ Record(p) \/ Popen(p) \/ ReleaseGate(p)
  \/ ConfirmActive(p) \/ EndSession(p)
  \/ Stop(p) \/ Reap(p) \/ ConfirmClean(p) \/ CleanupFails(p) \/ Disarm(p) \/ Done(p)

Systemd(u) ==
  \/ GateOpens(u) \/ GateCloses(u) \/ UnitStarts(u) \/ UnitEnds(u) \/ MemberEnds(u)
  \/ Collected(u) \/ LauncherEnds(u) \/ IdReused(u)

Next ==
  \/ \E p \in Providers : Acquire(p) \/ ProviderStep(p) \/ Fails(p) \/ Die(p)
  \/ \E u \in Units : Systemd(u)

\* A provider that has the lock goes on; every wait it makes has a deadline.
Spec == Init /\ [][Next]_vars /\ \A p \in Providers : WF_vars(ProviderStep(p))

-----------------------------------------------------------------------------
(* Properties *)

\* The unit runs, has processes, or may still be started by a launcher.
MayRun(u) ==
  \/ unit[u] = "active" \/ u \in members
  \/ launcher[u] = "run" /\ u \in token
  \/ launcher[u] = "gate" /\ u \in token \cup writer

\* A unit that runs, or may still start, is the marker's, whoever died or failed at
\* any point: no provider ever prepares the mount, or launches another unit, under it.
MarkerGuards ==
  /\ \A u \in Units : MayRun(u) => marker # NoMarker /\ marker.unit = u
  /\ \A p \in Providers : pc[p] \in {"prepare", "arm"} => \A u \in Units : ~MayRun(u)

\* Once its gate is open, the marker has what tells the launcher from another
\* process: nothing is started that recovery could not recognise.
LaunchIsIdentified ==
  \A u \in Units : MayRun(u) /\ u \notin writer => marker # NoMarker /\ marker.gate /\ marker.pid

\* If nothing is left of the marker's unit when a provider of its binding takes the
\* lock, it is not turned away: neither a torn marker nor a reused process id
\* blocks the provider for ever.
NoNeedlessRefusal == \A p \in Providers : pc[p] = "refused" => ~calm[p]

\* Every provider that takes the lock gives it back.
LockIsReleased == \A p \in Providers : lock = p ~> lock # p
=============================================================================
