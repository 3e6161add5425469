----------------------------- MODULE SpendLedger -----------------------------
(***************************************************************************)
(* The comparator spend ledger of skivolve/comparator_runtime.py, and the  *)
(* way run_transport uses it: every comparator call reserves its full      *)
(* ceiling, is executed, and is reconciled with its exact cost or, when    *)
(* that is unknown, forfeited at the ceiling.  The account is journaled in *)
(* an append-only file, from which an interrupted process restores it.     *)
(*                                                                         *)
(* One lock covers a whole operation of the ledger, so an operation is one *)
(* step; where it stops half-way because of an I/O error or a death it is  *)
(* one of the failing steps, followed by a crash.  One process uses the    *)
(* journal at a time.  Money is counted in whole units; a provider keeps   *)
(* to the ceiling it is given.                                             *)
(***************************************************************************)
EXTENDS Naturals, Sequences, FiniteSets, Functions

CONSTANTS
  Attempts,    \* comparator calls, each with an attempt id of its own
  Cap,         \* run_max_usd
  Ceiling,     \* per_invocation_max_usd
  MaxFaults,   \* bound on I/O errors
  MaxCrashes   \* bound on deaths of the process or the host

ASSUME AttemptsAssumption == IsFiniteSet(Attempts)
ASSUME AmountsAssumption == Cap \in Nat /\ Ceiling \in Nat \ {0}
ASSUME BoundsAssumption  == MaxFaults \in Nat /\ MaxCrashes \in Nat

VARIABLES
  exists,    \* the journal file is there
  lines,     \* its lines, page cache included
  ended,     \* the last line has its newline
  synced,    \* the number of lines an fsync has made durable
  linked,    \* an fsync of the directory has made the file name durable
  lost,      \* the host died before that, and took the file
  open,      \* a process has a ledger object
  identity,  \* the file attributes it remembers: none, match or stale
  spent, reserved,
  call,      \* where every comparator call is
  billed,    \* what the provider has charged for it
  faults, crashes

file   == <<exists, lines, ended, synced, linked, lost>>
memory == <<open, identity, spent, reserved>>
vars   == <<file, memory, call, billed, faults, crashes>>

-----------------------------------------------------------------------------
(* Records and replay *)

Entry(e, c, n) == [event |-> e, id |-> c, amount |-> n]
Record == [event : {"reserve", "reconcile", "forfeit"}, id : Attempts, amount : 0..Ceiling]
Junk   == [event |-> "junk"]   \* a line that does not parse

Opens(l, c)  == l.event = "reserve" /\ l.id = c
Closes(l, c) == l.event \in {"reconcile", "forfeit"} /\ l.id = c

Upto(s, n) == SubSeq(s, 1, n)

\* What a replay of the lines s charges for attempt c: the amount it was closed
\* with, the ceiling if it was not closed.
ChargeOf(s, c) ==
  IF \E i \in DOMAIN s : Closes(s[i], c)
    THEN s[CHOOSE i \in DOMAIN s : Closes(s[i], c)].amount
    ELSE IF \E i \in DOMAIN s : Opens(s[i], c) THEN Ceiling ELSE 0

Sum(f) == FoldFunction(+, 0, f)

Restored(s) == Sum([c \in Attempts |-> ChargeOf(s, c)])

Parses(s) == \A i \in DOMAIN s : s[i] # Junk

\* What a replay demands of line i: an attempt is reserved once, and closed once
\* after that.
Ordered(s, i, c) ==
  /\ Opens(s[i], c)  => ~\E j \in 1..(i-1) : Opens(s[j], c)
  /\ Closes(s[i], c) => /\ \E j \in 1..(i-1) : Opens(s[j], c)
                        /\ ~\E j \in 1..(i-1) : Closes(s[j], c)

Legal(s) == \A i \in DOMAIN s : \A c \in Attempts : Ordered(s, i, c)

-----------------------------------------------------------------------------
(* _append_journal *)

\* A record written behind a line without newline becomes part of that line.
Written(r) == IF ended THEN Append(lines, r) ELSE [lines EXCEPT ![Len(lines)] = Junk]

\* A journal nobody has looked at yet has no attributes to compare with.
Writable == identity # "stale"

\* An append that raises keeps the attributes of before.
Spoilt == identity' = IF identity = "none" THEN "none" ELSE "stale"

\* Mutant of AppendWorks: the record is left to the page cache.
AppendUnsynced(r) ==
  /\ Writable
  /\ exists' = TRUE /\ lines' = Written(r) /\ ended' = TRUE
  /\ linked' = (linked \/ ~exists)
  /\ identity' = "match"
  /\ UNCHANGED <<synced, lost>>

\* Write, fsync, and the directory too if the append created the file.
AppendWorks(r) ==
  /\ Writable
  /\ exists' = TRUE /\ lines' = Written(r) /\ ended' = TRUE
  /\ synced' = Len(lines')
  /\ linked' = (linked \/ ~exists)
  /\ identity' = "match"
  /\ UNCHANGED lost

Fault == faults < MaxFaults /\ faults' = faults + 1

\* Nothing was written, but the file may have been created.
FailsBefore ==
  /\ exists' \in {exists, TRUE}
  /\ UNCHANGED <<lines, ended, synced, linked, lost, identity>>

\* Part of the record was written, perhaps all but the newline.
FailsWriting(r) ==
  /\ exists' = TRUE /\ ended' = FALSE
  /\ lines' \in IF ended THEN {Append(lines, r), Append(lines, Junk)} ELSE {Written(r)}
  /\ Spoilt
  /\ UNCHANGED <<synced, linked, lost>>

\* The whole record was written; fsync, or a check after it, raised.
FailsSyncing(r) ==
  /\ exists' = TRUE /\ ended' = TRUE /\ lines' = Written(r)
  /\ synced' \in {synced, Len(lines')}
  /\ Spoilt
  /\ UNCHANGED <<linked, lost>>

\* The new file is durable and its attributes are remembered; the directory
\* could not be synced.
FailsLinking(r) ==
  /\ ~exists
  /\ exists' = TRUE /\ ended' = TRUE /\ lines' = Written(r)
  /\ synced' = Len(lines') /\ identity' = "match"
  /\ UNCHANGED <<linked, lost>>

AppendFails(r) ==
  \/ ~Writable /\ UNCHANGED <<file, identity, faults>>
  \/ /\ Writable /\ Fault
     /\ FailsBefore \/ FailsWriting(r) \/ FailsSyncing(r) \/ FailsLinking(r)

-----------------------------------------------------------------------------
Init ==
  /\ exists = FALSE /\ lines = <<>> /\ ended = TRUE /\ synced = 0
  /\ linked = FALSE /\ lost = FALSE
  /\ open = FALSE /\ identity = "none" /\ spent = 0 /\ reserved = 0
  /\ call = [c \in Attempts |-> "new"]
  /\ billed = [c \in Attempts |-> 0]
  /\ faults = 0 /\ crashes = 0

Restorable == Parses(lines) /\ Legal(lines) /\ Restored(lines) \in 0..Cap

\* The constructor replays the journal; a reservation without an end is
\* charged in full.  (If it refuses, nothing changes.)
Open ==
  /\ ~open /\ Restorable
  /\ open' = TRUE
  /\ spent' = Restored(lines) /\ reserved' = 0
  /\ identity' = IF exists THEN "match" ELSE "none"
  /\ UNCHANGED <<file, call, billed, faults, crashes>>

\* Mutant of Affordable: what other calls have reserved is not counted.
AffordableAlone == spent + Ceiling <= Cap

Affordable == spent + reserved + Ceiling <= Cap

Reserve(c) ==
  /\ open /\ call[c] = "new" /\ Affordable
  /\ AppendWorks(Entry("reserve", c, Ceiling))
  /\ reserved' = reserved + Ceiling
  /\ call' = [call EXCEPT ![c] = "reserved"]
  /\ UNCHANGED <<open, spent, billed, faults, crashes>>

ReserveFails(c) ==
  /\ open /\ call[c] = "new" /\ Affordable
  /\ AppendFails(Entry("reserve", c, Ceiling))
  /\ call' = [call EXCEPT ![c] = "over"]
  /\ UNCHANGED <<open, spent, reserved, billed, crashes>>

\* The provider is called.  Its answer, with the cost, is validated or not.
Execute(c) ==
  /\ call[c] = "reserved"
  /\ billed' \in {[billed EXCEPT ![c] = n] : n \in 0..Ceiling}
  /\ \E answer \in {"valid", "invalid"} : call' = [call EXCEPT ![c] = answer]
  /\ UNCHANGED <<file, memory, faults, crashes>>

Finish(c, e, n) ==
  /\ AppendWorks(Entry(e, c, n))
  /\ reserved' = reserved - Ceiling
  /\ spent' = spent + n
  /\ call' = [call EXCEPT ![c] = "over"]
  /\ UNCHANGED <<open, billed, faults, crashes>>

FinishFails(c, e, n, next) ==
  /\ AppendFails(Entry(e, c, n))
  /\ call' = [call EXCEPT ![c] = next]
  /\ UNCHANGED <<open, spent, reserved, billed, crashes>>

Reconcile(c) == call[c] = "valid" /\ Finish(c, "reconcile", billed[c])

\* A failed reconcile is an exception, on which the reservation is forfeited.
ReconcileFails(c) == call[c] = "valid" /\ FinishFails(c, "reconcile", billed[c], "invalid")

Forfeit(c) == call[c] = "invalid" /\ Finish(c, "forfeit", Ceiling)

ForfeitFails(c) == call[c] = "invalid" /\ FinishFails(c, "forfeit", Ceiling, "over")

\* The process is gone, and with it the calls it was in.
Gone ==
  /\ open' = FALSE /\ identity' = "none" /\ spent' = 0 /\ reserved' = 0
  /\ call' = [c \in Attempts |-> IF call[c] = "new" THEN "new" ELSE "over"]

Crash ==
  /\ open /\ crashes < MaxCrashes /\ crashes' = crashes + 1
  /\ Gone
  /\ UNCHANGED <<file, billed, faults>>

\* The host dies: lines no fsync covered are lost, the first of them perhaps
\* only in part; a file whose name is not durable may be lost as a whole.
HostCrash ==
  /\ crashes < MaxCrashes /\ crashes' = crashes + 1
  /\ \/ \E n \in synced..Len(lines) :
          /\ synced' = n
          /\ \/ lines' = Upto(lines, n) /\ ended' = TRUE
             \/ /\ n < Len(lines) /\ ended' = FALSE
                /\ lines' \in {Upto(lines, n + 1), Append(Upto(lines, n), Junk)}
          /\ linked' = exists
          /\ UNCHANGED <<exists, lost>>
     \/ /\ exists /\ ~linked
        /\ exists' = FALSE /\ lines' = <<>> /\ ended' = TRUE /\ synced' = 0
        /\ lost' = TRUE /\ UNCHANGED linked
  /\ Gone
  /\ UNCHANGED <<billed, faults>>

Next ==
  \/ Open \/ Crash \/ HostCrash
  \/ \E c \in Attempts :
       \/ Reserve(c) \/ ReserveFails(c) \/ Execute(c)
       \/ Reconcile(c) \/ ReconcileFails(c) \/ Forfeit(c) \/ ForfeitFails(c)

Spec == Init /\ [][Next]_vars

-----------------------------------------------------------------------------
(* Properties *)

States == {"new", "reserved", "valid", "invalid", "over"}

\* Every variable has its type; in particular no reservation is released twice.
TypeOK ==
  /\ exists \in BOOLEAN /\ ended \in BOOLEAN /\ linked \in BOOLEAN /\ lost \in BOOLEAN
  /\ lines \in Seq(Record \cup {Junk})
  /\ synced \in 0..Len(lines)
  /\ open \in BOOLEAN /\ identity \in {"none", "match", "stale"}
  /\ spent \in Nat /\ reserved \in Nat
  /\ call \in [Attempts -> States]
  /\ billed \in [Attempts -> 0..Ceiling]
  /\ faults \in 0..MaxFaults /\ crashes \in 0..MaxCrashes

\* The provider never charges more than the cap of the run: not for calls made
\* at the same time, nor across I/O errors, crashes and restored journals.
BudgetHolds == ~lost => Sum(billed) <= Cap

Durable == Upto(lines, synced)

\* Whatever a call has cost, any later replay charges at least that, even if the
\* host dies at once: the reservation was durable before the call, and no close
\* record undercuts the bill.  (A journal with a spoilt line is never replayed.)
BillsAreCharged ==
  ~lost /\ Parses(Durable) => \A c \in Attempts : billed[c] <= ChargeOf(Durable, c)

\* A ledger never writes a journal its own replay refuses: no attempt is closed
\* twice, although a failed reconcile may be in the file when the forfeit comes.
JournalLegal == Parses(lines) => Legal(lines)

-----------------------------------------------------------------------------
(* The inductive invariant behind BillsAreCharged and JournalLegal *)

Live(c) == call[c] \in {"reserved", "valid", "invalid"}

\* Nothing is in a file that is not there, and a line without its newline is
\* never durable.
FileInv ==
  /\ ~exists => lines = <<>>
  /\ ~ended => synced < Len(lines)

\* The account stays within the cap and holds a reservation for every live call.
AccountInv ==
  /\ spent + reserved <= Cap
  /\ Ceiling * Cardinality({c \in Attempts : Live(c)}) <= reserved
  /\ \A c \in Attempts : Live(c) => open

\* The reservation of c is durable, unless a durable line is spoilt for ever.
Kept(c) == \E i \in 1..synced : Opens(lines[i], c) \/ lines[i] = Junk

\* Calls that run are reserved; close records never undercut the bill, and
\* there are none before it.
CallInv ==
  \A c \in Attempts :
    /\ Live(c) => Kept(c)
    /\ call[c] \in {"new", "reserved"} => billed[c] = 0
    /\ \A i \in DOMAIN lines : Closes(lines[i], c) =>
         call[c] \notin {"new", "reserved"} /\ billed[c] <= lines[i].amount

\* Up to the first spoilt line the journal is in order; an attempt that may be
\* closed has no close record, unless the ledger has lost track of its file.
OrderInv ==
  /\ \A i \in DOMAIN lines : \A c \in Attempts :
       (\A j \in 1..i : lines[j] # Junk) => Ordered(lines, i, c)
  /\ \A c \in Attempts :
       /\ \A i \in DOMAIN lines : Opens(lines[i], c) => call[c] # "new"
       /\ Live(c) => identity # "none"
       /\ Live(c) /\ identity = "match" => \A i \in DOMAIN lines : ~Closes(lines[i], c)

IInv == TypeOK /\ FileInv /\ AccountInv /\ CallInv /\ OrderInv

\* What has cost something is reserved too.
BilledInv == \A c \in Attempts : billed[c] > 0 => lost \/ Kept(c)

\* What an attempt is worth to the account: its ceiling while it runs, then its
\* bill.
Held == [c \in Attempts |-> IF Live(c) THEN Ceiling ELSE billed[c]]

\* The account of an open ledger covers every call of every run.
BudgetInv == BudgetHolds /\ (open /\ ~lost => Sum(Held) <= spent + reserved)
=============================================================================
