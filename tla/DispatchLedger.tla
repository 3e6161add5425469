---------------------------- MODULE DispatchLedger ----------------------------
(***************************************************************************)
(* The generator dispatch ledger of skivolve/runner.py: the append-only    *)
(* JSONL journal in which a run accounts every provider request before it  *)
(* leaves the machine.  Several processes may open the ledger of one       *)
(* result root; each append runs through check, write, fsync and the       *)
(* update of the in-memory copy, and may stop at every one of these points *)
(* because of an I/O error, the death of the process or of the host.       *)
(*                                                                         *)
(* An attempt id is drawn once per plan and a logical arm is planned at    *)
(* most once, so a record is identified by its logical arm.  Digests are   *)
(* left out: no property tells two of them apart.                          *)
(***************************************************************************)
EXTENDS Naturals, Sequences, FiniteSets

CONSTANTS
  Procs,       \* processes that open the ledger
  Arms,        \* logical arms: comparison, case, repetition, role
  Bindings,    \* header bindings: suite, manifest, provider, result root
  Binding,     \* the binding each process was configured with
  NoProc,      \* nobody holds the lifetime lock
  MaxFaults,   \* bound on I/O errors
  MaxCrashes   \* bound on deaths of a process or of the host

ASSUME BindingAssumption == Binding \in [Procs -> Bindings]
ASSUME NoProcAssumption  == NoProc \notin Procs
ASSUME BoundsAssumption  == MaxFaults \in Nat /\ MaxCrashes \in Nat

VARIABLES
  exists,   \* the journal file is there
  recs,     \* its complete records, page cache included
  torn,     \* bytes without a newline follow the last record
  synced,   \* the number of records an fsync has made durable
  linked,   \* an fsync of the directory has made the file name durable
  holder,   \* the owner of the lifetime flock
  status,   \* closed, opening or open, per process
  view,     \* the journal bytes a process remembers (identity, size, digest)
  mem,      \* the phase of every arm a process remembers
  op,       \* the append a process is in
  ready,    \* arms whose plan returned and whose provider is not yet called
  sent,     \* how often the request of an arm has been handed to a provider
  faults, crashes

file  == <<exists, recs, torn, synced, linked>>
local == <<status, view, mem, op, ready>>
vars  == <<file, holder, local, sent, faults, crashes>>

-----------------------------------------------------------------------------
(* Records, phases and replay *)

\* The phase the ledger demands of an arm before it accepts the event.
Required == [planned             |-> "none",
             dispatched          |-> "planned",
             completed           |-> "dispatched",
             failed_observed     |-> "dispatched",
             failed_not_observed |-> "planned"]

Events == DOMAIN Required
Phases == {"none", "planned", "dispatched", "completed", "failed"}
Record == [event : Events, arm : Arms]
Header == [event : {"header"}, binding : Bindings]

HeaderOf(p) == [event |-> "header", binding |-> Binding[p]]

Has(s, e, a) == \E i \in DOMAIN s : s[i] = [event |-> e, arm |-> a]

\* The phase a replay of the records s leaves arm a in.
PhaseOf(s, a) ==
  IF Has(s, "completed", a) THEN "completed"
  ELSE IF Has(s, "failed_observed", a) \/ Has(s, "failed_not_observed", a) THEN "failed"
  ELSE IF Has(s, "dispatched", a) THEN "dispatched"
  ELSE IF Has(s, "planned", a) THEN "planned"
  ELSE "none"

Replay(s) == [a \in Arms |-> PhaseOf(s, a)]

Prefix(s, n) == SubSeq(s, 1, n)

\* A header, then records each of which follows from those before it.
Legal(s) ==
  /\ s[1] \in Header
  /\ \A i \in 2..Len(s) :
       /\ s[i] \in Record
       /\ PhaseOf(Prefix(s, i - 1), s[i].arm) = Required[s[i].event]

\* What the constructor and every later read demand of the file.
Replayable(p) ==
  /\ ~torn
  /\ recs # <<>>
  /\ recs[1] = HeaderOf(p)
  /\ Legal(recs)

NoOp == [stage |-> "idle"]
Op   == [stage : {"checked", "written", "synced", "linked"}, rec : Header \cup Record]

Creates(p) == op[p].rec.event = "header"

-----------------------------------------------------------------------------
Init ==
  /\ exists = FALSE /\ recs = <<>> /\ torn = FALSE /\ synced = 0 /\ linked = FALSE
  /\ holder = NoProc
  /\ status = [p \in Procs |-> "closed"]
  /\ view   = [p \in Procs |-> <<>>]
  /\ mem    = [p \in Procs |-> [a \in Arms |-> "none"]]
  /\ op     = [p \in Procs |-> NoOp]
  /\ ready  = [p \in Procs |-> {}]
  /\ sent   = [a \in Arms |-> 0]
  /\ faults = 0 /\ crashes = 0

\* The object, or the whole process, is gone: nothing it remembers survives.
Forget(p) ==
  /\ status' = [status EXCEPT ![p] = "closed"]
  /\ view'   = [view EXCEPT ![p] = <<>>]
  /\ mem'    = [mem EXCEPT ![p] = [a \in Arms |-> "none"]]
  /\ op'     = [op EXCEPT ![p] = NoOp]
  /\ ready'  = [ready EXCEPT ![p] = {}]

\* Take the lock of a result root without a journal and start the header.
OpenNew(p) ==
  /\ status[p] = "closed" /\ holder = NoProc
  /\ ~exists
  /\ holder' = p
  /\ status' = [status EXCEPT ![p] = "opening"]
  /\ op'     = [op EXCEPT ![p] = [stage |-> "checked", rec |-> HeaderOf(p)]]
  /\ UNCHANGED <<file, view, mem, ready, sent, faults, crashes>>

\* Mutant of OpenExisting: taking the lock does not sync the directory.
OpenExistingUnlinked(p) ==
  /\ status[p] = "closed" /\ holder = NoProc
  /\ exists /\ Replayable(p)
  /\ holder' = p
  /\ status' = [status EXCEPT ![p] = "open"]
  /\ view'   = [view EXCEPT ![p] = recs]
  /\ mem'    = [mem EXCEPT ![p] = Replay(recs)]
  /\ UNCHANGED <<file, op, ready, sent, faults, crashes>>

\* Take the lock of a journal and replay it.  Taking the lock syncs the
\* directory before the journal is read.
OpenExisting(p) ==
  /\ status[p] = "closed" /\ holder = NoProc
  /\ exists /\ Replayable(p)
  /\ linked' = TRUE
  /\ holder' = p
  /\ status' = [status EXCEPT ![p] = "open"]
  /\ view'   = [view EXCEPT ![p] = recs]
  /\ mem'    = [mem EXCEPT ![p] = Replay(recs)]
  /\ UNCHANGED <<exists, recs, torn, synced, op, ready, sent, faults, crashes>>

\* The replay is refused; the lock is released again, the directory stays synced.
OpenRefused(p) ==
  /\ status[p] = "closed" /\ holder = NoProc
  /\ exists /\ ~Replayable(p)
  /\ linked' = TRUE
  /\ UNCHANGED <<exists, recs, torn, synced, holder, local, sent, faults, crashes>>

Close(p) ==
  /\ status[p] = "open" /\ op[p] = NoOp
  /\ holder' = NoProc
  /\ Forget(p)
  /\ UNCHANGED <<file, sent, faults, crashes>>

\* _read: the file has the bytes that the process has read or written last.
Unmoved(p) == view[p] = recs

\* Mutant of InSync: the replayed phases are not compared with memory.
InSyncBytesOnly(p) == Replayable(p) /\ Unmoved(p)

\* _sync: the bytes are those remembered and replay to what is remembered.
InSync(p) ==
  /\ Replayable(p)
  /\ Unmoved(p)
  /\ mem[p] = Replay(recs)

\* Mutant of Begin: the transition is not compared with the arm's phase.
BeginUnordered(p, r) ==
  /\ status[p] = "open" /\ op[p] = NoOp
  /\ InSync(p)
  /\ op' = [op EXCEPT ![p] = [stage |-> "checked", rec |-> r]]
  /\ UNCHANGED <<file, holder, status, view, mem, ready, sent, faults, crashes>>

\* plan_attempt, mark_dispatched, mark_completed, mark_failed up to the write.
Begin(p, r) ==
  /\ status[p] = "open" /\ op[p] = NoOp
  /\ InSync(p)
  /\ mem[p][r.arm] = Required[r.event]
  /\ op' = [op EXCEPT ![p] = [stage |-> "checked", rec |-> r]]
  /\ UNCHANGED <<file, holder, status, view, mem, ready, sent, faults, crashes>>

\* The whole record reaches the file, not yet the disk.
Write(p) ==
  /\ op[p].stage = "checked"
  /\ IF Creates(p) THEN ~exists ELSE view[p] = recs /\ ~torn
  /\ exists' = TRUE
  /\ recs'   = Append(recs, op[p].rec)
  /\ op'     = [op EXCEPT ![p].stage = "written"]
  /\ UNCHANGED <<torn, synced, linked, holder, status, view, mem, ready, sent, faults, crashes>>

\* A successful fsync makes every byte of the file durable.
Fsync(p) ==
  /\ op[p].stage = "written"
  /\ synced' = Len(recs)
  /\ op'     = [op EXCEPT ![p].stage = "synced"]
  /\ UNCHANGED <<exists, recs, torn, linked, holder, status, view, mem, ready, sent, faults, crashes>>

\* The creating append also syncs the directory.
FsyncDirectory(p) ==
  /\ op[p].stage = "synced" /\ Creates(p)
  /\ linked' = TRUE
  /\ op'     = [op EXCEPT ![p].stage = "linked"]
  /\ UNCHANGED <<exists, recs, torn, synced, holder, status, view, mem, ready, sent, faults, crashes>>

\* Mutant of Stored: the append returns before its fsync.
StoredUnsynced(p) == op[p].stage = IF Creates(p) THEN "linked" ELSE "written"

\* The record is as durable as its append makes it.
Stored(p) == op[p].stage = IF Creates(p) THEN "linked" ELSE "synced"

\* The append returns: memory follows the journal and the caller goes on.
Commit(p) ==
  /\ op[p] # NoOp /\ Stored(p)
  /\ LET r == op[p].rec IN
       /\ view'   = [view EXCEPT ![p] = recs]
       /\ status' = [status EXCEPT ![p] = "open"]
       /\ op'     = [op EXCEPT ![p] = NoOp]
       /\ IF Creates(p)
            THEN UNCHANGED <<mem, ready>>
            ELSE /\ mem' = [mem EXCEPT ![p][r.arm] = PhaseOf(recs, r.arm)]
                 /\ ready' = [ready EXCEPT ![p] =
                                IF r.event = "planned" THEN @ \cup {r.arm} ELSE @]
  /\ UNCHANGED <<file, holder, sent, faults, crashes>>

\* The append raises.  A failed constructor gives the lock back; otherwise the
\* object lives on with the memory it had.
Raise(p) ==
  IF Creates(p)
    THEN holder' = NoProc /\ Forget(p)
    ELSE /\ op' = [op EXCEPT ![p] = NoOp]
         /\ UNCHANGED <<holder, status, mem, ready>>

Fault == faults < MaxFaults /\ faults' = faults + 1

\* An error before, or in the middle of, the write.
WriteFails(p) ==
  /\ op[p].stage = "checked" /\ Fault
  /\ \/ UNCHANGED file
     \/ exists' = TRUE /\ torn' = TRUE /\ UNCHANGED <<recs, synced, linked>>
  /\ Raise(p)
  /\ UNCHANGED <<view, sent, crashes>>

\* fsync, the re-read or a check after it raises; the bytes stay in the file.
StoreFails(p) ==
  /\ op[p].stage \in {"written", "synced"} /\ Fault
  /\ Raise(p)
  /\ UNCHANGED <<file, view, sent, crashes>>

\* The last attestation raises after the remembered identity was replaced.
AttestFails(p) ==
  /\ op[p] # NoOp /\ Stored(p) /\ Fault
  /\ Raise(p)
  /\ view' = [view EXCEPT ![p] = IF Creates(p) THEN <<>> ELSE recs]
  /\ UNCHANGED <<file, sent, crashes>>

\* Mutant of Send: the caller keeps its permission after a call (a retry).
SendAgain(p, a) ==
  /\ status[p] = "open" /\ a \in ready[p] /\ sent[a] < 2
  /\ sent'  = [sent EXCEPT ![a] = @ + 1]
  /\ UNCHANGED <<file, holder, status, view, mem, op, ready, faults, crashes>>

\* A planned attempt's request is handed to the provider (_run_arm).
Send(p, a) ==
  /\ status[p] = "open" /\ a \in ready[p]
  /\ ready' = [ready EXCEPT ![p] = @ \ {a}]
  /\ sent'  = [sent EXCEPT ![a] = @ + 1]
  /\ UNCHANGED <<file, holder, status, view, mem, op, faults, crashes>>

\* Death of one process: the kernel drops its lock, the page cache stays.
Crash(p) ==
  /\ status[p] # "closed" /\ crashes < MaxCrashes
  /\ crashes' = crashes + 1
  /\ \/ UNCHANGED file
     \/ /\ op[p].stage = "checked"
        /\ exists' = TRUE /\ torn' = TRUE /\ UNCHANGED <<recs, synced, linked>>
  /\ holder' = NoProc
  /\ Forget(p)
  /\ UNCHANGED <<sent, faults>>

\* Death of the host: what no fsync covered may be lost or cut anywhere.
HostCrash ==
  /\ crashes < MaxCrashes
  /\ crashes' = crashes + 1
  /\ \/ /\ exists
        /\ \E n \in synced..Len(recs) :
             /\ recs'   = Prefix(recs, n)
             /\ synced' = n
             /\ torn' \in BOOLEAN
             /\ torn' => torn \/ n < Len(recs)
        /\ linked' = TRUE
        /\ UNCHANGED exists
     \/ /\ ~linked
        /\ exists' = FALSE /\ recs' = <<>> /\ torn' = FALSE /\ synced' = 0
        /\ UNCHANGED linked
  /\ holder' = NoProc
  /\ status' = [p \in Procs |-> "closed"]
  /\ view'   = [p \in Procs |-> <<>>]
  /\ mem'    = [p \in Procs |-> [a \in Arms |-> "none"]]
  /\ op'     = [p \in Procs |-> NoOp]
  /\ ready'  = [p \in Procs |-> {}]
  /\ UNCHANGED <<sent, faults>>

Append_(p) == Write(p) \/ Fsync(p) \/ FsyncDirectory(p) \/ Commit(p)

Next ==
  \/ \E p \in Procs :
       \/ OpenNew(p) \/ OpenExisting(p) \/ OpenRefused(p) \/ Close(p)
       \/ \E r \in Record : Begin(p, r)
       \/ Append_(p)
       \/ WriteFails(p) \/ StoreFails(p) \/ AttestFails(p)
       \/ \E a \in Arms : Send(p, a)
       \/ Crash(p)
  \/ HostCrash

Spec == Init /\ [][Next]_vars

-----------------------------------------------------------------------------
(* Properties *)

\* Every variable has its type; only the lock owner is open or appending.
TypeOK ==
  /\ exists \in BOOLEAN /\ torn \in BOOLEAN /\ linked \in BOOLEAN
  /\ recs \in Seq(Header \cup Record)
  /\ synced \in 0..Len(recs)
  /\ holder \in Procs \cup {NoProc}
  /\ status \in [Procs -> {"closed", "opening", "open"}]
  /\ view \in [Procs -> Seq(Header \cup Record)]
  /\ mem \in [Procs -> [Arms -> Phases]]
  /\ op \in [Procs -> Op \cup {NoOp}]
  /\ ready \in [Procs -> SUBSET Arms]
  /\ sent \in [Arms -> Nat]
  /\ faults \in 0..MaxFaults /\ crashes \in 0..MaxCrashes

\* The records that survive a death of the host, whatever it takes.
Durable == IF linked THEN Prefix(recs, synced) ELSE <<>>

\* A request is handed to a provider at most once per logical arm, across
\* processes, failed appends, restarts and losses of power: the duplicate
\* check of plan_attempt works on a replay that has seen every sent arm.
AtMostOneSend == \A a \in Arms : sent[a] <= 1

\* No request leaves before its plan is durable: whatever crashes next, a
\* sent arm is found planned by the next process that opens the ledger.
SentIsDurablyPlanned ==
  \A a \in Arms : sent[a] > 0 => Has(Durable, "planned", a)

\* Faults and crashes can tear the tail, but never leave complete records that
\* replay refuses for their order: an intact journal can always be reopened.
CompleteRecordsLegal == recs # <<>> => Legal(recs)

\* A process whose memory does not follow the journal any more (a failed
\* append, an attestation lost after it) writes nothing again: a record only
\* ever extends the bytes its writer remembers, follows from its memory, and goes
\* into a journal of its writer's suite, manifest, provider and root.
FailStop ==
  [][\A p \in Procs :
       (op[p].stage = "checked" /\ op'[p].stage = "written" /\ ~Creates(p))
         => /\ recs = view[p] /\ ~torn
            /\ recs # <<>> /\ recs[1] = HeaderOf(p)
            /\ mem[p] = Replay(recs)
            /\ recs' = Append(view[p], op[p].rec)]_vars

\* The ledger, with its files, processes and crashes, implements the register
\* read off the durable records.
Registry == INSTANCE AttemptRegistry WITH
              phase <- [a \in Arms |-> PhaseOf(Durable, a)]

ImplementsRegistry == Registry!Spec

-----------------------------------------------------------------------------
(* The inductive invariant behind AtMostOneSend and SentIsDurablyPlanned *)

DurablyPlanned(a) ==
  linked /\ \E i \in 1..synced : recs[i] = [event |-> "planned", arm |-> a]

\* The lock, the object and the append in progress belong together, and an
\* open ledger has a journal whose name is durable.
OwnerInv ==
  /\ linked => exists
  /\ ~exists => recs = <<>>
  /\ \A p \in Procs :
       /\ status[p] # "closed" <=> holder = p
       /\ status[p] = "closed" => op[p] = NoOp /\ ready[p] = {}
       /\ status[p] = "opening" => op[p] # NoOp /\ Creates(p) /\ ready[p] = {}
       /\ status[p] = "open" => linked /\ (op[p] # NoOp => ~Creates(p))

\* What each stage of an append has established.
AppendInv ==
  \A p \in Procs : op[p] # NoOp =>
    IF Creates(p)
      THEN /\ op[p].stage \in {"written", "synced", "linked"} => exists
           /\ op[p].stage = "linked" => linked
      ELSE /\ op[p].stage # "linked"
           /\ op[p].stage = "checked" =>
                /\ recs # <<>>
                /\ PhaseOf(recs, op[p].rec.arm) = Required[op[p].rec.event]
           /\ op[p].stage \in {"written", "synced"} =>
                recs # <<>> /\ recs[Len(recs)] = op[p].rec
           /\ op[p].stage = "synced" => synced = Len(recs)
           /\ op[p].rec.event = "planned" =>
                sent[op[p].rec.arm] = 0 /\ op[p].rec.arm \notin ready[p]

\* An arm that may be sent is not yet sent, and its plan is durable; so is
\* that of every arm that was sent.
SendInv ==
  /\ \A p \in Procs : \A a \in ready[p] : sent[a] = 0 /\ DurablyPlanned(a)
  /\ \A a \in Arms : sent[a] > 0 => sent[a] = 1 /\ DurablyPlanned(a)

IInv == TypeOK /\ OwnerInv /\ AppendInv /\ SendInv /\ CompleteRecordsLegal
=============================================================================
