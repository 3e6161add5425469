------------------------- MODULE DispatchLedgerProofs -------------------------
(* Type correctness and the safety of DispatchLedger for every number of    *)
(* processes, arms, faults and crashes; that it fails stop, and implements  *)
(* AttemptRegistry.                                                         *)
EXTENDS DispatchLedger, SequenceTheorems, TLAPS

-----------------------------------------------------------------------------
(* Facts about records and replay *)

\* A prefix of a journal is a journal and agrees with it record by record.
LEMMA PrefixFacts ==
  ASSUME NEW S, NEW s \in Seq(S), NEW n \in 0..Len(s)
  PROVE  /\ Prefix(s, n) \in Seq(S)
         /\ Len(Prefix(s, n)) = n
         /\ \A i \in 1..n : Prefix(s, n)[i] = s[i]
<1>1. CASE n = 0
  BY <1>1, SubSeqEmpty DEF Prefix
<1>2. CASE n # 0
  <2>1. \A i \in 1..n : s[i] \in S
    OBVIOUS
  <2>2. QED
    BY <1>2, <2>1, SubSeqProperties DEF Prefix
<1>3. QED
  BY <1>1, <1>2

\* Replay only ever yields phases.
LEMMA PhaseType == ASSUME NEW s, NEW a PROVE PhaseOf(s, a) \in Phases
  BY DEF PhaseOf, Phases

\* An arm whose replayed phase is "none" has no planned record.
LEMMA NoneUnplanned ==
  ASSUME NEW s, NEW a, PhaseOf(s, a) = "none"
  PROVE  ~Has(s, "planned", a)
  BY DEF PhaseOf

\* The records a death of the host cannot take plan an arm iff the invariant
\* says so.
LEMMA DurableHas ==
  ASSUME TypeOK, NEW a \in Arms
  PROVE  Has(Durable, "planned", a) <=> DurablyPlanned(a)
<1>1. CASE linked
  <2>1. /\ Durable \in Seq(Header \cup Record)
        /\ Len(Durable) = synced
        /\ \A i \in 1..synced : Durable[i] = recs[i]
    BY <1>1, PrefixFacts DEF TypeOK, Durable
  <2>2. DOMAIN Durable = 1..synced
    BY <2>1
  <2>3. QED
    BY <1>1, <2>1, <2>2 DEF Has, DurablyPlanned
<1>2. CASE ~linked
  BY <1>2 DEF Durable, Has, DurablyPlanned
<1>3. QED
  BY <1>1, <1>2

-----------------------------------------------------------------------------
(* Type correctness *)

\* A ledger nobody has opened is well typed.
LEMMA InitType == Init => TypeOK
<1> SUFFICES ASSUME Init PROVE TypeOK
  OBVIOUS
<1>1. exists \in BOOLEAN /\ torn \in BOOLEAN /\ linked \in BOOLEAN
  BY DEF Init
<1>2. recs \in Seq(Header \cup Record) /\ synced \in 0..Len(recs)
  BY DEF Init
<1>3. faults \in 0..MaxFaults /\ crashes \in 0..MaxCrashes
  BY BoundsAssumption DEF Init
<1>4. view \in [Procs -> Seq(Header \cup Record)]
  BY DEF Init
<1>5. mem \in [Procs -> [Arms -> Phases]] /\ sent \in [Arms -> Nat]
  BY DEF Init, Phases
<1>6. QED
  BY <1>1, <1>2, <1>3, <1>4, <1>5 DEF Init, TypeOK

\* What an object that goes away leaves behind is well typed.
LEMMA ForgetType ==
  ASSUME TypeOK, NEW p \in Procs, Forget(p)
  PROVE  /\ status' \in [Procs -> {"closed", "opening", "open"}]
         /\ view' \in [Procs -> Seq(Header \cup Record)]
         /\ mem' \in [Procs -> [Arms -> Phases]]
         /\ op' \in [Procs -> Op \cup {NoOp}]
         /\ ready' \in [Procs -> SUBSET Arms]
  BY DEF TypeOK, Forget, Phases

\* The header a process writes is a header.
LEMMA HeaderType == ASSUME NEW p \in Procs PROVE HeaderOf(p) \in Header
  BY BindingAssumption DEF HeaderOf, Header

\* No step leaves the types: one step per action of the ledger.
LEMMA TypeStep == TypeOK /\ [Next]_vars => TypeOK'
<1> SUFFICES ASSUME TypeOK, [Next]_vars PROVE TypeOK'
  OBVIOUS
<1> USE DEF TypeOK
<1>1. ASSUME NEW p \in Procs, OpenNew(p) PROVE TypeOK'
  <2>1. [stage |-> "checked", rec |-> HeaderOf(p)] \in Op
    BY HeaderType DEF Op
  <2>2. QED
    BY <1>1, <2>1 DEF OpenNew, file
<1>2. ASSUME NEW p \in Procs, OpenExisting(p) PROVE TypeOK'
  <2>1. Replay(recs) \in [Arms -> Phases]
    BY PhaseType DEF Replay
  <2>2. QED
    BY <1>2, <2>1 DEF OpenExisting
<1>3. ASSUME NEW p \in Procs, OpenRefused(p) PROVE TypeOK'
  BY <1>3 DEF OpenRefused, local
<1>4. ASSUME NEW p \in Procs, Close(p) PROVE TypeOK'
  BY <1>4, ForgetType DEF Close, file
<1>5. ASSUME NEW p \in Procs, NEW r \in Record, Begin(p, r) PROVE TypeOK'
  <2>1. [stage |-> "checked", rec |-> r] \in Op
    BY DEF Op
  <2>2. QED
    BY <1>5, <2>1 DEF Begin, file
<1>6. ASSUME NEW p \in Procs, Write(p) PROVE TypeOK'
  <2>1. op[p] \in Op
    BY <1>6 DEF Write, NoOp
  <2>2. op[p].rec \in Header \cup Record /\ [op[p] EXCEPT !.stage = "written"] \in Op
    BY <2>1 DEF Op
  <2>3. recs' \in Seq(Header \cup Record) /\ Len(recs') = Len(recs) + 1
    BY <1>6, <2>2 DEF Write
  <2>4. QED
    BY <1>6, <2>2, <2>3 DEF Write
<1>7. ASSUME NEW p \in Procs, Fsync(p) PROVE TypeOK'
  <2>1. op[p] \in Op
    BY <1>7 DEF Fsync, NoOp
  <2>2. [op[p] EXCEPT !.stage = "synced"] \in Op
    BY <2>1 DEF Op
  <2>3. QED
    BY <1>7, <2>2 DEF Fsync
<1>8. ASSUME NEW p \in Procs, FsyncDirectory(p) PROVE TypeOK'
  <2>1. op[p] \in Op
    BY <1>8 DEF FsyncDirectory, NoOp
  <2>2. [op[p] EXCEPT !.stage = "linked"] \in Op
    BY <2>1 DEF Op
  <2>3. QED
    BY <1>8, <2>2 DEF FsyncDirectory
<1>9. ASSUME NEW p \in Procs, Commit(p) PROVE TypeOK'
  <2>1. op[p] \in Op
    BY <1>9 DEF Commit
  <2>2. op[p].rec.event # "header" => op[p].rec.arm \in Arms
    BY <2>1 DEF Op, Header, Record
  <2>3. PhaseOf(recs, op[p].rec.arm) \in Phases
    BY PhaseType
  <2>4. mem' \in [Procs -> [Arms -> Phases]] /\ ready' \in [Procs -> SUBSET Arms]
    <3>1. CASE Creates(p)
      BY <1>9, <3>1 DEF Commit
    <3>2. CASE ~Creates(p)
      <4>1. op[p].rec.arm \in Arms
        BY <2>2, <3>2 DEF Creates
      <4>2. mem' = [mem EXCEPT ![p][op[p].rec.arm] = PhaseOf(recs, op[p].rec.arm)]
        BY <1>9, <3>2 DEF Commit
      <4>3. ready' = [ready EXCEPT ![p] = IF op[p].rec.event = "planned"
                                            THEN @ \cup {op[p].rec.arm} ELSE @]
        BY <1>9, <3>2 DEF Commit
      <4>4. mem' \in [Procs -> [Arms -> Phases]]
        BY <2>3, <4>1, <4>2
      <4>5. ready' \in [Procs -> SUBSET Arms]
        BY <4>1, <4>3
      <4>6. QED
        BY <4>4, <4>5
    <3>3. QED
      BY <3>1, <3>2
  <2>5. QED
    BY <1>9, <2>4 DEF Commit, file
<1>10. ASSUME NEW p \in Procs, Raise(p)
       PROVE  /\ holder' \in Procs \cup {NoProc}
              /\ status' \in [Procs -> {"closed", "opening", "open"}]
              /\ mem' \in [Procs -> [Arms -> Phases]]
              /\ op' \in [Procs -> Op \cup {NoOp}]
              /\ ready' \in [Procs -> SUBSET Arms]
  <2>1. CASE Creates(p)
    <3>1. Forget(p) /\ holder' = NoProc
      BY <1>10, <2>1 DEF Raise
    <3>2. QED
      BY <3>1, ForgetType
  <2>2. CASE ~Creates(p)
    BY <1>10, <2>2 DEF Raise
  <2>3. QED
    BY <2>1, <2>2
<1>11. ASSUME NEW p \in Procs, WriteFails(p) PROVE TypeOK'
  <2>1. Raise(p)
    BY <1>11 DEF WriteFails
  <2>2. exists' \in BOOLEAN /\ torn' \in BOOLEAN /\ UNCHANGED <<recs, synced, linked>>
    BY <1>11 DEF WriteFails, file
  <2>3. faults' \in 0..MaxFaults
    BY <1>11, BoundsAssumption DEF WriteFails, Fault
  <2>4. UNCHANGED <<view, sent, crashes>>
    BY <1>11 DEF WriteFails
  <2>5. QED
    BY <1>10, <2>1, <2>2, <2>3, <2>4
<1>12. ASSUME NEW p \in Procs, StoreFails(p) PROVE TypeOK'
  BY <1>10, <1>12, BoundsAssumption DEF StoreFails, Fault, file
<1>13. ASSUME NEW p \in Procs, AttestFails(p) PROVE TypeOK'
  <2>1. view' \in [Procs -> Seq(Header \cup Record)]
    BY <1>13 DEF AttestFails
  <2>2. QED
    BY <1>10, <1>13, <2>1, BoundsAssumption DEF AttestFails, Fault, file
<1>14. ASSUME NEW p \in Procs, NEW a \in Arms, Send(p, a) PROVE TypeOK'
  BY <1>14 DEF Send, file
<1>15. ASSUME NEW p \in Procs, Crash(p) PROVE TypeOK'
  <2>1. Forget(p)
    BY <1>15 DEF Crash
  <2>2. /\ status' \in [Procs -> {"closed", "opening", "open"}]
        /\ view' \in [Procs -> Seq(Header \cup Record)]
        /\ mem' \in [Procs -> [Arms -> Phases]]
        /\ op' \in [Procs -> Op \cup {NoOp}]
        /\ ready' \in [Procs -> SUBSET Arms]
    BY <2>1, ForgetType
  <2>3. exists' \in BOOLEAN /\ torn' \in BOOLEAN /\ UNCHANGED <<recs, synced, linked>>
    BY <1>15 DEF Crash, file
  <2>4. crashes' \in 0..MaxCrashes
    BY <1>15, BoundsAssumption DEF Crash
  <2>5. QED
    BY <1>15, <2>2, <2>3, <2>4 DEF Crash
<1>16. ASSUME HostCrash PROVE TypeOK'
  <2>1. ASSUME NEW n \in synced..Len(recs), recs' = Prefix(recs, n), synced' = n
        PROVE  recs' \in Seq(Header \cup Record) /\ synced' \in 0..Len(recs')
    BY <2>1, PrefixFacts
  <2>2. ASSUME recs' = <<>>, synced' = 0
        PROVE  recs' \in Seq(Header \cup Record) /\ synced' \in 0..Len(recs')
    BY <2>2
  <2>3. /\ recs' \in Seq(Header \cup Record) /\ synced' \in 0..Len(recs')
        /\ exists' \in BOOLEAN /\ torn' \in BOOLEAN /\ linked' \in BOOLEAN
    BY <1>16, <2>1, <2>2 DEF HostCrash
  <2>4. /\ view' \in [Procs -> Seq(Header \cup Record)]
        /\ mem' \in [Procs -> [Arms -> Phases]]
    BY <1>16 DEF HostCrash, Phases
  <2>5. QED
    BY <1>16, <2>3, <2>4, BoundsAssumption DEF HostCrash
<1>17. CASE UNCHANGED vars
  BY <1>17 DEF vars, file, local
<1>18. QED
  BY <1>1, <1>2, <1>3, <1>4, <1>5, <1>6, <1>7, <1>8, <1>9, <1>11, <1>12, <1>13,
     <1>14, <1>15, <1>16, <1>17 DEF Next, Append_

\* Every state of every behaviour has its types.
THEOREM TypeCorrect == Spec => []TypeOK
<1>1. QED
  BY InitType, TypeStep, PTL DEF Spec

-----------------------------------------------------------------------------
(* The inductive invariant *)

\* While a process works on the ledger, no other one is in an append or holds
\* a planned arm.
LEMMA Alone ==
  ASSUME OwnerInv, NEW p \in Procs, status[p] # "closed"
  PROVE  /\ holder = p
         /\ \A q \in Procs : q # p => op[q] = NoOp /\ ready[q] = {} /\ status[q] = "closed"
  BY DEF OwnerInv

\* A process in an append has the ledger open, or is opening it.
LEMMA InAppend ==
  ASSUME TypeOK, OwnerInv, NEW p \in Procs, op[p] # NoOp
  PROVE  /\ op[p] \in Op
         /\ status[p] \in {"opening", "open"}
         /\ status[p] = "opening" <=> Creates(p)
  BY DEF TypeOK, OwnerInv

\* A header is no record of an arm, and a record names its arm and event.
LEMMA RecordFacts ==
  ASSUME NEW r \in Header \cup Record
  PROVE  /\ r.event = "header" <=> r \in Header
         /\ r.event # "header" => r \in Record /\ r = [event |-> r.event, arm |-> r.arm]
  BY DEF Header, Record, Events, Required

\* Appending a record leaves the earlier prefixes alone.
LEMMA PrefixOfAppend ==
  ASSUME NEW S, NEW s \in Seq(S), NEW r \in S, NEW n \in 0..Len(s)
  PROVE  Prefix(Append(s, r), n) = Prefix(s, n)
<1>1. /\ Append(s, r) \in Seq(S) /\ n \in 0..Len(Append(s, r))
      /\ \A i \in 1..n : Append(s, r)[i] = s[i]
  OBVIOUS
<1>2. /\ Prefix(Append(s, r), n) \in Seq(S) /\ Prefix(s, n) \in Seq(S)
      /\ Len(Prefix(Append(s, r), n)) = n /\ Len(Prefix(s, n)) = n
      /\ \A i \in 1..n : Prefix(Append(s, r), n)[i] = Prefix(s, n)[i]
  BY <1>1, PrefixFacts
<1>3. QED
  BY <1>2, SeqEqual

\* The prefix of full length is the sequence.
LEMMA WholePrefix ==
  ASSUME NEW S, NEW s \in Seq(S)
  PROVE  Prefix(s, Len(s)) = s
  BY PrefixFacts, SeqEqual

\* A prefix of a prefix is a prefix of the sequence.
LEMMA PrefixOfPrefix ==
  ASSUME NEW S, NEW s \in Seq(S), NEW n \in 0..Len(s), NEW m \in 0..n
  PROVE  Prefix(Prefix(s, n), m) = Prefix(s, m)
<1>1. Prefix(s, n) \in Seq(S) /\ m \in 0..Len(Prefix(s, n)) /\ m \in 0..Len(s)
  BY PrefixFacts
<1>2. /\ Prefix(Prefix(s, n), m) \in Seq(S) /\ Prefix(s, m) \in Seq(S)
      /\ Len(Prefix(Prefix(s, n), m)) = m /\ Len(Prefix(s, m)) = m
      /\ \A i \in 1..m : Prefix(Prefix(s, n), m)[i] = Prefix(s, n)[i]
      /\ \A i \in 1..m : Prefix(s, m)[i] = s[i]
      /\ \A i \in 1..n : Prefix(s, n)[i] = s[i]
  BY <1>1, PrefixFacts
<1>3. QED
  BY <1>2, SeqEqual

\* Every step keeps lock, object and append together.
LEMMA OwnerStep ==
  TypeOK /\ OwnerInv /\ AppendInv /\ [Next]_vars => OwnerInv'
<1> SUFFICES ASSUME TypeOK, OwnerInv, AppendInv, [Next]_vars PROVE OwnerInv'
  OBVIOUS
<1> USE NoProcAssumption
<1>1. ASSUME NEW p \in Procs, OpenNew(p) PROVE OwnerInv'
  BY <1>1 DEF OpenNew, OwnerInv, Creates, HeaderOf, NoOp, TypeOK, file
<1>2. ASSUME NEW p \in Procs, OpenExisting(p) PROVE OwnerInv'
  BY <1>2 DEF OpenExisting, OwnerInv, Creates, TypeOK
<1>3. ASSUME NEW p \in Procs, OpenRefused(p) PROVE OwnerInv'
  BY <1>3 DEF OpenRefused, OwnerInv, Creates, TypeOK, local
<1>4. ASSUME NEW p \in Procs, Close(p) PROVE OwnerInv'
  BY <1>4, Alone DEF Close, OwnerInv, Creates, Forget, TypeOK, file
<1>5. ASSUME NEW p \in Procs, NEW r \in Record, Begin(p, r) PROVE OwnerInv'
  <2>1. r.event # "header"
    BY RecordFacts DEF Header, Record, Events, Required
  <2>2. QED
    BY <1>5, <2>1 DEF Begin, OwnerInv, Creates, NoOp, TypeOK, file
<1>6. ASSUME NEW p \in Procs, Write(p) \/ Fsync(p) \/ FsyncDirectory(p) PROVE OwnerInv'
  <2>1. op[p] # NoOp
    BY <1>6 DEF Write, Fsync, FsyncDirectory, NoOp
  <2>2. op[p] \in Op /\ status[p] # "closed" /\ (status[p] = "opening" <=> Creates(p))
    BY <2>1, InAppend
  <2>3. /\ op' = [op EXCEPT ![p].stage = op'[p].stage]
        /\ op'[p].rec = op[p].rec /\ op'[p] # NoOp
    BY <1>6, <2>2 DEF Write, Fsync, FsyncDirectory, Op, NoOp, TypeOK
  <2>4. exists' /\ (linked => linked')
    <3>1. CASE Write(p)
      BY <3>1 DEF Write
    <3>2. CASE Fsync(p)
      BY <2>1, <2>2, <3>2 DEF Fsync, OwnerInv, AppendInv
    <3>3. CASE FsyncDirectory(p)
      BY <2>1, <3>3 DEF FsyncDirectory, AppendInv
    <3>4. QED
      BY <1>6, <3>1, <3>2, <3>3
  <2>5. UNCHANGED <<holder, status, ready>>
    BY <1>6 DEF Write, Fsync, FsyncDirectory
  <2>6. QED
    BY <2>1, <2>2, <2>3, <2>4, <2>5 DEF OwnerInv, Creates, TypeOK
<1>7. ASSUME NEW p \in Procs, Commit(p) PROVE OwnerInv'
  <2>1. op[p] \in Op /\ status[p] # "closed" /\ (status[p] = "opening" <=> Creates(p))
    BY <1>7, InAppend DEF Commit
  <2>2. linked
    <3>1. CASE Creates(p)
      BY <1>7, <3>1 DEF Commit, Stored, AppendInv
    <3>2. CASE ~Creates(p)
      BY <2>1, <3>2 DEF OwnerInv, TypeOK
    <3>3. QED
      BY <3>1, <3>2
  <2>3. /\ op' = [op EXCEPT ![p] = NoOp] /\ status' = [status EXCEPT ![p] = "open"]
        /\ UNCHANGED <<file, holder>>
        /\ \A q \in Procs : q # p => ready'[q] = ready[q]
    <3>1. CASE Creates(p)
      BY <1>7, <3>1 DEF Commit
    <3>2. CASE ~Creates(p)
      BY <1>7, <3>2 DEF Commit, TypeOK
    <3>3. QED
      BY <3>1, <3>2
  <2>4. QED
    BY <2>1, <2>2, <2>3 DEF OwnerInv, Creates, TypeOK, file
<1>8. ASSUME NEW p \in Procs, Raise(p), op[p] # NoOp,
             linked' = linked, recs' = recs, exists => exists'
      PROVE  OwnerInv'
  <2>1. status[p] # "closed" /\ (status[p] = "opening" <=> Creates(p))
    BY <1>8, InAppend
  <2>2. CASE Creates(p)
    <3>1. /\ holder = p
          /\ \A q \in Procs : q # p => op[q] = NoOp /\ ready[q] = {} /\ status[q] = "closed"
      BY <2>1, Alone
    <3>2. holder' = NoProc /\ Forget(p)
      BY <1>8, <2>2 DEF Raise
    <3>3. \A q \in Procs : status'[q] = "closed" /\ op'[q] = NoOp /\ ready'[q] = {}
      BY <3>1, <3>2 DEF Forget, TypeOK
    <3>4. QED
      BY <1>8, <3>2, <3>3 DEF OwnerInv
  <2>3. CASE ~Creates(p)
    BY <1>8, <2>1, <2>3 DEF Raise, OwnerInv, Creates, TypeOK
  <2>4. QED
    BY <2>2, <2>3
<1>9. ASSUME NEW p \in Procs, WriteFails(p) \/ StoreFails(p) \/ AttestFails(p)
      PROVE  OwnerInv'
  <2>1. Raise(p)
    BY <1>9 DEF WriteFails, StoreFails, AttestFails
  <2>2. op[p] # NoOp
    BY <1>9 DEF WriteFails, StoreFails, AttestFails, NoOp
  <2>3. linked' = linked /\ recs' = recs /\ (exists => exists')
    BY <1>9 DEF WriteFails, StoreFails, AttestFails, file
  <2>4. QED
    BY <1>8, <2>1, <2>2, <2>3
<1>10. ASSUME NEW p \in Procs, NEW a \in Arms, Send(p, a) PROVE OwnerInv'
  BY <1>10 DEF Send, OwnerInv, Creates, TypeOK, file
<1>11. ASSUME NEW p \in Procs, Crash(p) PROVE OwnerInv'
  <2>1. linked' = linked /\ recs' = recs /\ (exists => exists')
    BY <1>11 DEF Crash, file
  <2>2. QED
    BY <1>11, <2>1, Alone DEF Crash, Forget, OwnerInv, Creates, TypeOK
<1>12. ASSUME HostCrash PROVE OwnerInv'
  <2>1. exists' \/ (~linked' /\ recs' = <<>>)
    BY <1>12 DEF HostCrash
  <2>2. QED
    BY <1>12, <2>1 DEF HostCrash, OwnerInv
<1>13. CASE UNCHANGED vars
  BY <1>13 DEF vars, file, local, OwnerInv, Creates
<1>14. QED
  BY <1>1, <1>2, <1>3, <1>4, <1>5, <1>6, <1>7, <1>9, <1>10, <1>11, <1>12, <1>13
     DEF Next, Append_

\* No step loses a durable plan.
LEMMA DurableStep ==
  ASSUME TypeOK, OwnerInv, [Next]_vars, NEW a \in Arms, DurablyPlanned(a)
  PROVE  DurablyPlanned(a)'
<1>1. PICK i \in 1..synced : recs[i] = [event |-> "planned", arm |-> a]
  BY DEF DurablyPlanned
<1>2. linked /\ i \in 1..Len(recs)
  BY <1>1 DEF DurablyPlanned, TypeOK
<1>3. CASE UNCHANGED <<recs, synced>> /\ linked'
  BY <1>1, <1>3 DEF DurablyPlanned
<1>4. ASSUME NEW p \in Procs, Write(p) PROVE DurablyPlanned(a)'
  <2>1. op[p].rec \in Header \cup Record
    BY <1>4 DEF Write, TypeOK, Op, NoOp
  <2>2. recs'[i] = recs[i] /\ synced' = synced /\ linked' = linked
    BY <1>2, <1>4, <2>1 DEF Write, TypeOK
  <2>3. QED
    BY <1>1, <1>2, <2>2 DEF DurablyPlanned
<1>5. ASSUME NEW p \in Procs, Fsync(p) PROVE DurablyPlanned(a)'
  <2>1. recs' = recs /\ linked' = linked /\ synced' = Len(recs)
    BY <1>5 DEF Fsync
  <2>2. QED
    BY <1>1, <1>2, <2>1 DEF DurablyPlanned
<1>6. ASSUME HostCrash PROVE DurablyPlanned(a)'
  <2>1. PICK n \in synced..Len(recs) : recs' = Prefix(recs, n) /\ synced' = n /\ linked'
    BY <1>2, <1>6 DEF HostCrash
  <2>2. n \in 0..Len(recs) /\ i \in 1..n
    BY <1>1, <1>2, <2>1 DEF TypeOK
  <2>3. recs'[i] = recs[i]
    BY <2>1, <2>2, PrefixFacts DEF TypeOK
  <2>4. QED
    BY <1>1, <2>1, <2>2, <2>3 DEF DurablyPlanned
<1>7. CASE UNCHANGED vars
  BY <1>2, <1>3, <1>7 DEF vars, file
<1>8. ASSUME NEW p \in Procs,
             \/ OpenNew(p) \/ OpenExisting(p) \/ OpenRefused(p) \/ Close(p)
             \/ \E r \in Record : Begin(p, r)
             \/ FsyncDirectory(p) \/ Commit(p)
             \/ WriteFails(p) \/ StoreFails(p) \/ AttestFails(p)
             \/ \E b \in Arms : Send(p, b)
             \/ Crash(p)
      PROVE  UNCHANGED <<recs, synced>> /\ linked'
  BY <1>2, <1>8 DEF OpenNew, OpenExisting, OpenRefused, Close, Begin, FsyncDirectory,
     Commit, WriteFails, StoreFails, AttestFails, Send, Crash, file
<1>9. QED
  BY <1>3, <1>4, <1>5, <1>6, <1>7, <1>8 DEF Next, Append_

\* Every step keeps what the stages of an append have established.
LEMMA AppendStep ==
  TypeOK /\ OwnerInv /\ AppendInv /\ SendInv /\ [Next]_vars => AppendInv'
<1> SUFFICES ASSUME TypeOK, OwnerInv, AppendInv, SendInv, [Next]_vars PROVE AppendInv'
  OBVIOUS
<1>1. ASSUME NEW p \in Procs, OpenNew(p) PROVE AppendInv'
  <2>1. op' = [op EXCEPT ![p] = [stage |-> "checked", rec |-> HeaderOf(p)]]
    BY <1>1 DEF OpenNew
  <2>2. \A q \in Procs : q # p => op'[q] = NoOp
    BY <1>1, <2>1, NoProcAssumption DEF OpenNew, OwnerInv, TypeOK
  <2>3. Creates(p)' /\ op'[p].stage = "checked"
    BY <2>1 DEF Creates, HeaderOf, TypeOK
  <2>4. QED
    BY <2>2, <2>3 DEF AppendInv
<1>2. ASSUME op' = [q \in Procs |-> NoOp] PROVE AppendInv'
  BY <1>2 DEF AppendInv
<1>3. ASSUME NEW p \in Procs, op' = [op EXCEPT ![p] = NoOp],
             status[p] # "closed" \/ holder = NoProc
      PROVE  AppendInv'
  <2>1. \A q \in Procs : q # p => op[q] = NoOp
    BY <1>3, Alone, NoProcAssumption DEF OwnerInv
  <2>2. op' = [q \in Procs |-> NoOp]
    BY <1>3, <2>1 DEF TypeOK
  <2>3. QED
    BY <1>2, <2>2
<1>4. ASSUME NEW p \in Procs, Forget(p), status[p] # "closed" PROVE AppendInv'
  BY <1>3, <1>4 DEF Forget
<1>5. ASSUME NEW p \in Procs, OpenExisting(p) \/ OpenRefused(p) PROVE AppendInv'
  BY <1>3, <1>5, NoProcAssumption DEF OpenExisting, OpenRefused, OwnerInv, AppendInv, TypeOK, local
<1>6. ASSUME NEW p \in Procs, NEW r \in Record, Begin(p, r) PROVE AppendInv'
  <2>1. /\ status[p] = "open" /\ InSync(p) /\ mem[p][r.arm] = Required[r.event]
        /\ op' = [op EXCEPT ![p] = [stage |-> "checked", rec |-> r]]
        /\ UNCHANGED <<recs, sent, ready>>
    BY <1>6 DEF Begin, file
  <2>2. \A q \in Procs : q # p => op'[q] = NoOp
    BY <2>1, Alone DEF TypeOK
  <2>3. op'[p] = [stage |-> "checked", rec |-> r] /\ ~Creates(p)'
    BY <2>1, RecordFacts DEF TypeOK, Creates, Header, Record, Events, Required
  <2>4. recs # <<>> /\ PhaseOf(recs, r.arm) = Required[r.event]
    BY <2>1 DEF InSync, Replayable, Replay, Record
  <2>5. ASSUME r.event = "planned" PROVE sent[r.arm] = 0 /\ r.arm \notin ready[p]
    <3>1. r.arm \in Arms /\ PhaseOf(recs, r.arm) = "none"
      BY <2>4, <2>5 DEF Record, Required
    <3>2. ~Has(recs, "planned", r.arm)
      BY <3>1, NoneUnplanned
    <3>3. ~DurablyPlanned(r.arm)
      BY <3>1, <3>2 DEF DurablyPlanned, Has, TypeOK
    <3>4. QED
      BY <3>1, <3>3 DEF SendInv, TypeOK
  <2>6. QED
    BY <2>1, <2>2, <2>3, <2>4, <2>5 DEF AppendInv, Creates
<1>7. ASSUME NEW p \in Procs, Write(p) \/ Fsync(p) \/ FsyncDirectory(p) PROVE AppendInv'
  <2>1. op[p] # NoOp
    BY <1>7 DEF Write, Fsync, FsyncDirectory, NoOp
  <2>2. op[p] \in Op /\ status[p] # "closed"
    BY <2>1, InAppend
  <2>3. \A q \in Procs : q # p => op'[q] = NoOp
    BY <1>7, <2>2, Alone DEF Write, Fsync, FsyncDirectory, TypeOK
  <2>4. op'[p].rec = op[p].rec /\ UNCHANGED <<sent, ready>>
    BY <1>7, <2>2 DEF Write, Fsync, FsyncDirectory, Op, TypeOK
  <2>5. CASE Write(p)
    <3>1. /\ op'[p].stage = "written" /\ exists' /\ recs' = Append(recs, op[p].rec)
          /\ op[p].rec \in Header \cup Record
      BY <2>2, <2>5 DEF Write, Op, TypeOK
    <3>2. recs' # <<>> /\ recs'[Len(recs')] = op[p].rec
      <4>1. recs \in Seq(Header \cup Record)
        BY DEF TypeOK
      <4>2. Len(recs') = Len(recs) + 1 /\ recs'[Len(recs) + 1] = op[p].rec
        BY <3>1, <4>1
      <4>3. QED
        BY <4>1, <4>2
    <3>3. QED
      BY <2>1, <2>3, <2>4, <3>1, <3>2 DEF AppendInv, Creates
  <2>6. CASE Fsync(p)
    <3>1. /\ op[p].stage = "written" /\ op'[p].stage = "synced"
          /\ UNCHANGED <<exists, recs>> /\ synced' = Len(recs)
      BY <2>2, <2>6 DEF Fsync, Op, TypeOK
    <3>2. QED
      BY <2>1, <2>3, <2>4, <3>1 DEF AppendInv, Creates
  <2>7. CASE FsyncDirectory(p)
    <3>1. op[p].stage = "synced" /\ op'[p].stage = "linked" /\ linked' /\ Creates(p) /\ exists' = exists
      BY <2>2, <2>7 DEF FsyncDirectory, Op, TypeOK
    <3>2. QED
      BY <2>1, <2>3, <2>4, <3>1 DEF AppendInv, Creates
  <2>8. QED
    BY <1>7, <2>5, <2>6, <2>7
<1>8. ASSUME NEW p \in Procs, Commit(p) PROVE AppendInv'
  <2>1. op' = [op EXCEPT ![p] = NoOp] /\ status[p] # "closed"
    BY <1>8, InAppend DEF Commit
  <2>2. QED
    BY <1>3, <2>1
<1>9. ASSUME NEW p \in Procs, WriteFails(p) \/ StoreFails(p) \/ AttestFails(p)
      PROVE  AppendInv'
  <2>1. Raise(p)
    BY <1>9 DEF WriteFails, StoreFails, AttestFails
  <2>2. status[p] # "closed"
    BY <1>9, InAppend DEF WriteFails, StoreFails, AttestFails, NoOp
  <2>3. op' = [op EXCEPT ![p] = NoOp]
    BY <2>1 DEF Raise, Forget
  <2>4. QED
    BY <1>3, <2>2, <2>3
<1>10. ASSUME NEW p \in Procs, NEW a \in Arms, Send(p, a) PROVE AppendInv'
  <2>1. /\ status[p] = "open" /\ a \in ready[p]
        /\ ready' = [ready EXCEPT ![p] = @ \ {a}] /\ sent' = [sent EXCEPT ![a] = @ + 1]
        /\ UNCHANGED <<exists, recs, synced, linked, op>>
    BY <1>10 DEF Send, file
  <2>2. \A q \in Procs : q # p => op'[q] = NoOp
    BY <2>1, Alone
  <2>3. ASSUME op[p] # NoOp, op[p].rec.event = "planned"
        PROVE  sent'[op[p].rec.arm] = 0 /\ op[p].rec.arm \notin ready'[p]
    <3>1. op[p].rec \in Record /\ ~Creates(p)
      BY <2>3 DEF TypeOK, Op, Header, Creates
    <3>2. op[p].rec.arm \in Arms /\ sent[op[p].rec.arm] = 0 /\ op[p].rec.arm \notin ready[p]
      BY <2>3, <3>1 DEF AppendInv, Record
    <3>3. QED
      BY <2>1, <3>2 DEF TypeOK
  <2>4. QED
    BY <2>1, <2>2, <2>3 DEF AppendInv, Creates
<1>11. ASSUME NEW p \in Procs, Close(p) \/ Crash(p) PROVE AppendInv'
  BY <1>4, <1>11 DEF Close, Crash
<1>12. ASSUME HostCrash PROVE AppendInv'
  BY <1>2, <1>12 DEF HostCrash
<1>13. CASE UNCHANGED vars
  BY <1>13 DEF vars, file, local, AppendInv, Creates
<1>14. QED
  BY <1>1, <1>5, <1>6, <1>7, <1>8, <1>9, <1>10, <1>11, <1>12, <1>13 DEF Next, Append_

\* Every step keeps the accounts of sent and sendable arms.
LEMMA SendStep ==
  TypeOK /\ OwnerInv /\ AppendInv /\ SendInv /\ [Next]_vars => SendInv'
<1> SUFFICES ASSUME TypeOK, OwnerInv, AppendInv, SendInv, [Next]_vars PROVE SendInv'
  OBVIOUS
<1>1. \A a \in Arms : DurablyPlanned(a) => DurablyPlanned(a)'
  BY DurableStep
<1>2. ASSUME sent' = sent, \A q \in Procs : ready'[q] \subseteq ready[q]
      PROVE  SendInv'
  BY <1>1, <1>2 DEF SendInv, TypeOK
<1>3. ASSUME NEW p \in Procs, Commit(p) PROVE SendInv'
  <2>1. op[p] # NoOp /\ op[p] \in Op
    BY <1>3, InAppend DEF Commit
  <2>2. CASE Creates(p)
    BY <1>2, <1>3, <2>2 DEF Commit
  <2>3. CASE ~Creates(p) /\ op[p].rec.event # "planned"
    <3>1. ready' = [ready EXCEPT ![p] = ready[p]] /\ sent' = sent
      BY <1>3, <2>3 DEF Commit
    <3>2. QED
      BY <1>2, <3>1 DEF TypeOK
  <2>4. CASE ~Creates(p) /\ op[p].rec.event = "planned"
    <3>1. PICK b \in Arms : op[p].rec = [event |-> "planned", arm |-> b]
      BY <2>1, <2>4 DEF Op, Header, Record, Creates
    <3>2. /\ ready' = [ready EXCEPT ![p] = ready[p] \cup {b}] /\ sent' = sent
          /\ op[p].stage = "synced" /\ UNCHANGED <<recs, synced, linked>>
      BY <1>3, <2>4, <3>1 DEF Commit, Stored, file
    <3>3. sent[b] = 0 /\ recs # <<>> /\ recs[Len(recs)] = op[p].rec /\ synced = Len(recs)
      BY <2>1, <2>4, <3>1, <3>2 DEF AppendInv
    <3>4. status[p] = "open" /\ linked
      <4>1. status[p] = "open"
        BY <2>1, <2>4, InAppend
      <4>2. QED
        BY <4>1 DEF OwnerInv
    <3>5. Len(recs) \in 1..Len(recs)
      <4>1. recs \in Seq(Header \cup Record)
        BY DEF TypeOK
      <4>2. QED
        BY <3>3, <4>1
    <3>6. DurablyPlanned(b)
      BY <3>1, <3>3, <3>4, <3>5 DEF DurablyPlanned
    <3>7. DurablyPlanned(b)'
      BY <1>1, <3>1, <3>6
    <3>8. \A q \in Procs : ready'[q] \subseteq ready[q] \cup {b}
      BY <3>2 DEF TypeOK
    <3>9. ASSUME NEW q \in Procs, NEW a \in ready'[q]
          PROVE  sent'[a] = 0 /\ DurablyPlanned(a)'
      <4>1. CASE a = b
        BY <3>2, <3>3, <3>7, <4>1
      <4>2. CASE a # b
        <5>1. a \in ready[q] /\ a \in Arms
          BY <3>8, <4>2 DEF TypeOK
        <5>2. QED
          BY <1>1, <3>2, <5>1 DEF SendInv
      <4>3. QED
        BY <4>1, <4>2
    <3>10. ASSUME NEW a \in Arms, sent'[a] > 0
           PROVE  sent'[a] = 1 /\ DurablyPlanned(a)'
      BY <1>1, <3>2, <3>10 DEF SendInv
    <3>11. QED
      BY <3>9, <3>10 DEF SendInv
  <2>5. QED
    BY <2>2, <2>3, <2>4
<1>4. ASSUME NEW p \in Procs, NEW a \in Arms, Send(p, a) PROVE SendInv'
  <2>1. /\ status[p] = "open" /\ a \in ready[p]
        /\ ready' = [ready EXCEPT ![p] = @ \ {a}] /\ sent' = [sent EXCEPT ![a] = @ + 1]
    BY <1>4 DEF Send
  <2>2. sent[a] = 0 /\ DurablyPlanned(a)
    BY <2>1 DEF SendInv
  <2>3. \A q \in Procs : a \notin ready'[q] /\ ready'[q] \subseteq ready[q]
    <3>1. \A q \in Procs : q # p => ready[q] = {}
      BY <2>1, Alone
    <3>2. QED
      BY <2>1, <3>1 DEF TypeOK
  <2>4. sent'[a] = 1 /\ \A b \in Arms : b # a => sent'[b] = sent[b]
    BY <2>1, <2>2 DEF TypeOK
  <2>5. ASSUME NEW q \in Procs, NEW b \in ready'[q]
        PROVE  sent'[b] = 0 /\ DurablyPlanned(b)'
    <3>1. b # a /\ b \in ready[q] /\ b \in Arms
      BY <2>3 DEF TypeOK
    <3>2. QED
      BY <1>1, <2>4, <3>1 DEF SendInv
  <2>6. ASSUME NEW b \in Arms, sent'[b] > 0
        PROVE  sent'[b] = 1 /\ DurablyPlanned(b)'
    BY <1>1, <2>2, <2>4, <2>6 DEF SendInv
  <2>7. QED
    BY <2>5, <2>6 DEF SendInv
<1>5. ASSUME NEW p \in Procs, Forget(p), sent' = sent PROVE SendInv'
  BY <1>2, <1>5 DEF Forget, TypeOK
<1>6. ASSUME NEW p \in Procs, Close(p) \/ Crash(p) PROVE SendInv'
  BY <1>5, <1>6 DEF Close, Crash
<1>7. ASSUME NEW p \in Procs, WriteFails(p) \/ StoreFails(p) \/ AttestFails(p)
      PROVE  SendInv'
  <2>1. Raise(p) /\ sent' = sent
    BY <1>7 DEF WriteFails, StoreFails, AttestFails
  <2>2. CASE Creates(p)
    BY <1>5, <2>1, <2>2 DEF Raise
  <2>3. CASE ~Creates(p)
    BY <1>2, <2>1, <2>3 DEF Raise
  <2>4. QED
    BY <2>2, <2>3
<1>8. ASSUME NEW p \in Procs,
             \/ OpenNew(p) \/ OpenExisting(p) \/ OpenRefused(p)
             \/ \E r \in Record : Begin(p, r)
             \/ Write(p) \/ Fsync(p) \/ FsyncDirectory(p)
      PROVE  SendInv'
  BY <1>2, <1>8 DEF OpenNew, OpenExisting, OpenRefused, Begin, Write, Fsync, FsyncDirectory, local
<1>9. ASSUME HostCrash PROVE SendInv'
  BY <1>2, <1>9 DEF HostCrash
<1>10. CASE UNCHANGED vars
  BY <1>2, <1>10 DEF vars, local
<1>11. QED
  BY <1>3, <1>4, <1>6, <1>7, <1>8, <1>9, <1>10 DEF Next, Append_

\* Every step keeps the complete records replayable.
LEMMA LegalStep ==
  TypeOK /\ OwnerInv /\ AppendInv /\ CompleteRecordsLegal /\ [Next]_vars
    => CompleteRecordsLegal'
<1> SUFFICES ASSUME TypeOK, OwnerInv, AppendInv, CompleteRecordsLegal, [Next]_vars
             PROVE  CompleteRecordsLegal'
  OBVIOUS
<1>1. recs \in Seq(Header \cup Record) /\ Len(recs) \in Nat
  BY DEF TypeOK
<1>2. CASE recs' = recs
  BY <1>2 DEF CompleteRecordsLegal, Legal
<1>3. ASSUME NEW p \in Procs, Write(p) PROVE CompleteRecordsLegal'
  <2> DEFINE r == op[p].rec
  <2>1. op[p] # NoOp /\ op[p] \in Op /\ op[p].stage = "checked" /\ r \in Header \cup Record
    BY <1>3, InAppend DEF Write, NoOp, Op
  <2>2. recs' = Append(recs, r)
    BY <1>3 DEF Write
  <2> HIDE DEF r
  <2>3. /\ Len(recs') = Len(recs) + 1 /\ recs'[Len(recs) + 1] = r
        /\ \A i \in 1..Len(recs) : recs'[i] = recs[i]
    BY <1>1, <2>1, <2>2
  <2>4. \A n \in 0..Len(recs) : Prefix(recs', n) = Prefix(recs, n)
    BY <1>1, <2>1, <2>2, PrefixOfAppend
  <2>5. CASE Creates(p)
    <3>1. recs = <<>> /\ r \in Header
      BY <1>3, <2>1, <2>5, RecordFacts DEF Write, OwnerInv, Creates, r
    <3>2. Len(recs') = 1 /\ recs'[1] = r
      BY <2>3, <3>1
    <3>3. QED
      BY <3>1, <3>2 DEF CompleteRecordsLegal, Legal
  <2>6. CASE ~Creates(p)
    <3>1. /\ recs # <<>> /\ r \in Record
          /\ PhaseOf(recs, r.arm) = Required[r.event]
      BY <2>1, <2>6, RecordFacts DEF AppendInv, Creates, r
    <3>2. Legal(recs) /\ Len(recs) >= 1
      BY <1>1, <3>1, EmptySeq DEF CompleteRecordsLegal
    <3>3. recs'[1] \in Header
      BY <2>3, <3>2 DEF Legal
    <3>4. ASSUME NEW i \in 2..Len(recs')
          PROVE  recs'[i] \in Record /\ PhaseOf(Prefix(recs', i - 1), recs'[i].arm) = Required[recs'[i].event]
      <4>1. CASE i <= Len(recs)
        <5>1. i \in 2..Len(recs) /\ i - 1 \in 0..Len(recs) /\ recs'[i] = recs[i]
          BY <1>1, <2>3, <4>1
        <5>2. Prefix(recs', i - 1) = Prefix(recs, i - 1)
          BY <2>4, <5>1
        <5>3. QED
          BY <3>2, <5>1, <5>2 DEF Legal
      <4>2. CASE i = Len(recs) + 1
        <5>1. recs'[i] = r /\ i - 1 = Len(recs) /\ Len(recs) \in 0..Len(recs)
          BY <1>1, <2>3, <4>2
        <5>2. Prefix(recs', i - 1) = recs
          BY <1>1, <2>4, <5>1, WholePrefix
        <5>3. QED
          BY <3>1, <5>1, <5>2
      <4>3. QED
        BY <1>1, <2>3, <4>1, <4>2
    <3>5. QED
      BY <3>3, <3>4 DEF CompleteRecordsLegal, Legal
  <2>7. QED
    BY <2>5, <2>6
<1>4. ASSUME HostCrash PROVE CompleteRecordsLegal'
  <2>1. CASE recs' = <<>>
    BY <2>1 DEF CompleteRecordsLegal
  <2>2. ASSUME NEW n \in synced..Len(recs), recs' = Prefix(recs, n), recs' # <<>>
        PROVE  CompleteRecordsLegal'
    <3>1. n \in 0..Len(recs)
      BY <2>2 DEF TypeOK
    <3>2. /\ recs' \in Seq(Header \cup Record) /\ Len(recs') = n
          /\ \A i \in 1..n : recs'[i] = recs[i]
      BY <1>1, <2>2, <3>1, PrefixFacts
    <3>3. n >= 1 /\ recs # <<>> /\ Legal(recs)
      BY <1>1, <2>2, <3>1, <3>2, EmptySeq DEF CompleteRecordsLegal
    <3>4. \A m \in 0..n : Prefix(recs', m) = Prefix(recs, m)
      BY <1>1, <2>2, <3>1, PrefixOfPrefix
    <3>5. recs'[1] \in Header
      BY <3>1, <3>2, <3>3 DEF Legal
    <3>6. ASSUME NEW i \in 2..Len(recs')
          PROVE  recs'[i] \in Record /\ PhaseOf(Prefix(recs', i - 1), recs'[i].arm) = Required[recs'[i].event]
      <4>1. i \in 2..Len(recs) /\ i - 1 \in 0..n /\ recs'[i] = recs[i]
        BY <1>1, <3>1, <3>2
      <4>2. Prefix(recs', i - 1) = Prefix(recs, i - 1)
        BY <3>4, <4>1
      <4>3. QED
        BY <3>3, <4>1, <4>2 DEF Legal
    <3>7. QED
      BY <3>5, <3>6 DEF CompleteRecordsLegal, Legal
  <2>3. QED
    BY <1>4, <2>1, <2>2 DEF HostCrash
<1>5. ASSUME NEW p \in Procs,
             \/ OpenNew(p) \/ OpenExisting(p) \/ OpenRefused(p) \/ Close(p)
             \/ \E r \in Record : Begin(p, r)
             \/ Fsync(p) \/ FsyncDirectory(p) \/ Commit(p)
             \/ WriteFails(p) \/ StoreFails(p) \/ AttestFails(p)
             \/ \E b \in Arms : Send(p, b)
             \/ Crash(p)
      PROVE  recs' = recs
  BY <1>5 DEF OpenNew, OpenExisting, OpenRefused, Close, Begin, Fsync, FsyncDirectory,
     Commit, WriteFails, StoreFails, AttestFails, Send, Crash, file
<1>6. CASE UNCHANGED vars
  BY <1>2, <1>6 DEF vars, file
<1>7. QED
  BY <1>2, <1>3, <1>4, <1>5, <1>6 DEF Next, Append_

-----------------------------------------------------------------------------
\* The inductive invariant holds initially.
LEMMA InitInv == Init => IInv
<1> SUFFICES ASSUME Init PROVE IInv
  OBVIOUS
<1>1. TypeOK
  BY InitType
<1>2. OwnerInv
  BY NoProcAssumption DEF Init, OwnerInv
<1>3. AppendInv /\ SendInv /\ CompleteRecordsLegal
  BY DEF Init, AppendInv, SendInv, CompleteRecordsLegal
<1>4. QED
  BY <1>1, <1>2, <1>3 DEF IInv

\* Every step keeps the inductive invariant.
LEMMA InvStep == IInv /\ [Next]_vars => IInv'
  BY TypeStep, OwnerStep, AppendStep, SendStep, LegalStep DEF IInv

\* The inductive invariant holds in every state of every behaviour.
THEOREM Invariance == Spec => []IInv
<1>1. QED
  BY InitInv, InvStep, PTL DEF Spec

\* A logical arm's request leaves at most once, for any number of processes,
\* arms, I/O errors and crashes (plan_attempt, _append, _replay).
THEOREM SendsAtMostOnce == Spec => []AtMostOneSend
<1>1. IInv => AtMostOneSend
  BY DEF IInv, SendInv, AtMostOneSend, TypeOK
<1>2. QED
  BY <1>1, Invariance, PTL

\* A request that left is planned in what no crash can take away.
THEOREM SendsAreAccounted == Spec => []SentIsDurablyPlanned
<1>1. IInv => SentIsDurablyPlanned
  BY DurableHas DEF IInv, SendInv, SentIsDurablyPlanned
<1>2. QED
  BY <1>1, Invariance, PTL

\* The complete records of a journal always replay.
THEOREM JournalReplays == Spec => []CompleteRecordsLegal
<1>1. IInv => CompleteRecordsLegal
  BY DEF IInv
<1>2. QED
  BY <1>1, Invariance, PTL

-----------------------------------------------------------------------------
(* Fail-stop *)

\* What a checked record of an arm was compared with still holds, if the bytes are
\* those remembered.
CheckedInv ==
  \A p \in Procs :
    op[p] # NoOp /\ op[p].stage = "checked" /\ ~Creates(p) /\ view[p] = recs =>
      /\ recs # <<>> /\ recs[1] = HeaderOf(p)
      /\ mem[p] = Replay(recs)

\* The append a process is in, and what it remembers, change by its own steps only.
LEMMA CheckedStep ==
  ASSUME IInv, CheckedInv, [Next]_vars
  PROVE  CheckedInv'
<1> USE DEF IInv
<1>1. ASSUME NEW p \in Procs, op'[p] # NoOp, op'[p].stage = "checked", ~Creates(p)',
             view'[p] = recs', UNCHANGED <<recs, view, mem, op>>
      PROVE  recs' # <<>> /\ recs'[1] = HeaderOf(p) /\ mem'[p] = Replay(recs)'
  BY <1>1 DEF CheckedInv, Creates, Replay
<1>2. CASE UNCHANGED <<recs, view, mem, op>>
  BY <1>1, <1>2 DEF CheckedInv, Creates, HeaderOf
<1>3. ASSUME NEW q \in Procs, op'[q] = NoOp \/ op'[q].stage # "checked",
             \A p \in Procs : p # q => op'[p] = NoOp
      PROVE  CheckedInv'
  BY <1>3 DEF CheckedInv
<1>4. ASSUME NEW q \in Procs, OpenNew(q) PROVE CheckedInv'
  <2>1. \A p \in Procs : op[p] = NoOp
    BY <1>4, NoProcAssumption DEF OpenNew, OwnerInv
  <2>2. \A p \in Procs : p # q => op'[p] = NoOp
    BY <1>4, <2>1 DEF OpenNew, TypeOK
  <2>3. Creates(q)'
    BY <1>4 DEF OpenNew, TypeOK, Creates, HeaderOf
  <2>4. QED
    BY <2>2, <2>3 DEF CheckedInv
<1>5. ASSUME NEW q \in Procs, OpenExisting(q) PROVE CheckedInv'
  <2>1. \A p \in Procs : op[p] = NoOp
    BY <1>5, NoProcAssumption DEF OpenExisting, OwnerInv
  <2>2. QED
    BY <1>5, <2>1 DEF OpenExisting, CheckedInv
<1>6. ASSUME NEW q \in Procs, NEW r \in Record, Begin(q, r) PROVE CheckedInv'
  <2>1. status[q] # "closed"
    BY <1>6 DEF Begin
  <2>2. \A p \in Procs : p # q => op'[p] = NoOp
    BY <1>6, <2>1, Alone DEF Begin, TypeOK
  <2>3. recs # <<>> /\ recs[1] = HeaderOf(q) /\ mem[q] = Replay(recs)
    BY <1>6 DEF Begin, InSync, Replayable
  <2>4. QED
    BY <1>6, <2>2, <2>3 DEF Begin, CheckedInv, file, Replay
<1>7. ASSUME NEW q \in Procs,
             \/ Write(q) \/ Fsync(q) \/ FsyncDirectory(q) \/ Commit(q)
             \/ WriteFails(q) \/ StoreFails(q) \/ AttestFails(q)
             \/ Close(q) \/ Crash(q)
      PROVE  CheckedInv'
  <2>1. status[q] # "closed"
    BY <1>7 DEF Write, Fsync, FsyncDirectory, Commit, WriteFails, StoreFails, AttestFails,
                Close, Crash, OwnerInv, NoOp
  <2>2. \A p \in Procs : p # q => op[p] = NoOp
    BY <2>1, Alone
  <2>3. op'[q] = NoOp \/ op'[q].stage # "checked"
    <3>1. CASE Write(q) \/ Fsync(q) \/ FsyncDirectory(q)
      BY <3>1 DEF Write, Fsync, FsyncDirectory, TypeOK, Op, NoOp
    <3>2. CASE Commit(q) \/ Close(q) \/ Crash(q)
      BY <3>2 DEF Commit, Close, Crash, Forget, TypeOK
    <3>3. CASE WriteFails(q) \/ StoreFails(q) \/ AttestFails(q)
      BY <3>3 DEF WriteFails, StoreFails, AttestFails, Raise, Forget, TypeOK
    <3>4. QED
      BY <1>7, <3>1, <3>2, <3>3
  <2>4. \A p \in Procs : p # q => op'[p] = op[p]
    <3>1. CASE Write(q) \/ Fsync(q) \/ FsyncDirectory(q)
      BY <3>1 DEF Write, Fsync, FsyncDirectory, TypeOK
    <3>2. CASE Commit(q) \/ Close(q) \/ Crash(q)
      BY <3>2 DEF Commit, Close, Crash, Forget, TypeOK
    <3>3. CASE WriteFails(q) \/ StoreFails(q) \/ AttestFails(q)
      BY <3>3 DEF WriteFails, StoreFails, AttestFails, Raise, Forget, TypeOK
    <3>4. QED
      BY <1>7, <3>1, <3>2, <3>3
  <2>5. QED
    BY <2>2, <2>3, <2>4, <1>3
<1>8. CASE HostCrash
  BY <1>8 DEF HostCrash, CheckedInv
<1>9. ASSUME NEW q \in Procs, OpenRefused(q) \/ \E a \in Arms : Send(q, a) PROVE CheckedInv'
  BY <1>9, <1>2 DEF OpenRefused, Send, local, file
<1>10. CASE UNCHANGED vars
  BY <1>10, <1>2 DEF vars, local, file
<1>11. QED
  BY <1>4, <1>5, <1>6, <1>7, <1>8, <1>9, <1>10 DEF Next, Append_

\* A process whose memory does not follow the journal writes nothing again, whatever
\* failed before (_sync, _append).
THEOREM WritersFailStop == Spec => FailStop
<1> DEFINE Extends ==
      \A p \in Procs :
        (op[p].stage = "checked" /\ op'[p].stage = "written" /\ ~Creates(p))
          => /\ recs = view[p] /\ ~torn
             /\ recs # <<>> /\ recs[1] = HeaderOf(p)
             /\ mem[p] = Replay(recs)
             /\ recs' = Append(view[p], op[p].rec)
<1>1. Init => CheckedInv
  BY DEF Init, CheckedInv
<1>2. IInv /\ CheckedInv /\ [Next]_vars => CheckedInv'
  BY CheckedStep
<1>3. IInv /\ CheckedInv /\ [Next]_vars => [Extends]_vars
  <2> SUFFICES ASSUME IInv, CheckedInv, Next, NEW p \in Procs,
                      op[p].stage = "checked", op'[p].stage = "written", ~Creates(p)
               PROVE  /\ recs = view[p] /\ ~torn
                      /\ recs # <<>> /\ recs[1] = HeaderOf(p)
                      /\ mem[p] = Replay(recs)
                      /\ recs' = Append(view[p], op[p].rec)
    OBVIOUS
  <2>1. op[p] # NoOp
    BY DEF NoOp
  <2>2. status[p] # "closed"
    BY <2>1 DEF IInv, OwnerInv
  <2>3. \A q \in Procs : q # p => op[q] = NoOp /\ status[q] = "closed"
    BY <2>2, Alone DEF IInv
  <2>4. op'[p] # NoOp /\ op'[p] # op[p]
    BY DEF NoOp
  <2>5. Write(p)
    <3>1. ASSUME NEW q \in Procs, OpenNew(q) \/ OpenExisting(q) \/ OpenRefused(q) PROVE FALSE
      BY <3>1, <2>2, NoProcAssumption DEF OpenNew, OpenExisting, OpenRefused, IInv, OwnerInv
    <3>2. ASSUME NEW q \in Procs, \E a \in Arms : Send(q, a) PROVE FALSE
      BY <3>2, <2>4 DEF Send
    <3>3. ASSUME NEW q \in Procs, NEW r \in Record, Begin(q, r) PROVE FALSE
      BY <3>3, <2>1, <2>3 DEF Begin
    <3>4. ASSUME NEW q \in Procs, Fsync(q) \/ FsyncDirectory(q) PROVE FALSE
      BY <3>4, <2>3 DEF Fsync, FsyncDirectory, NoOp
    <3>5. ASSUME NEW q \in Procs, Commit(q) \/ Close(q) \/ Crash(q) PROVE FALSE
      <4>1. q = p
        BY <3>5, <2>3 DEF Commit, Close, Crash
      <4>2. op'[p] = NoOp
        BY <3>5, <4>1 DEF Commit, Close, Crash, Forget, IInv, TypeOK
      <4>3. QED
        BY <4>2, <2>4
    <3>6. ASSUME NEW q \in Procs, WriteFails(q) \/ StoreFails(q) \/ AttestFails(q) PROVE FALSE
      <4>1. q = p
        BY <3>6, <2>3 DEF WriteFails, StoreFails, AttestFails, NoOp
      <4>2. op'[p] = NoOp
        BY <3>6, <4>1 DEF WriteFails, StoreFails, AttestFails, Raise, Forget, IInv, TypeOK
      <4>3. QED
        BY <4>2, <2>4
    <3>7. ASSUME HostCrash PROVE FALSE
      BY <3>7, <2>4 DEF HostCrash
    <3>8. ASSUME NEW q \in Procs, Write(q) PROVE q = p
      BY <3>8, <2>3 DEF Write, NoOp
    <3>9. QED
      BY <3>1, <3>2, <3>3, <3>4, <3>5, <3>6, <3>7, <3>8 DEF Next, Append_
  <2>6. view[p] = recs /\ ~torn /\ recs' = Append(recs, op[p].rec)
    BY <2>5 DEF Write
  <2>7. QED
    BY <2>1, <2>6 DEF CheckedInv
<1>4. QED
  BY <1>1, <1>2, <1>3, Invariance, PTL DEF Spec, FailStop

-----------------------------------------------------------------------------
(* Refinement *)

\* A journal that is extended moves every arm forward, if its records follow from
\* each other.
LEMMA PhasesAdvance ==
  ASSUME NEW s \in Seq(Header \cup Record), NEW n \in 0..Len(s), NEW a \in Arms,
         s # <<>> => Legal(s)
  PROVE  PhaseOf(s, a) \in Registry!Later[PhaseOf(Prefix(s, n), a)]
<1> DEFINE t == Prefix(s, n)
<1>1. /\ t \in Seq(Header \cup Record) /\ Len(t) = n
      /\ \A i \in 1..n : t[i] = s[i]
      /\ DOMAIN t = 1..n /\ DOMAIN s = 1..Len(s) /\ 1..n \subseteq 1..Len(s)
  BY PrefixFacts
<1> HIDE DEF t
<1>2. \A e : Has(t, e, a) => Has(s, e, a)
  BY <1>1 DEF Has
<1>3. ASSUME Has(t, "failed_observed", a) \/ Has(t, "failed_not_observed", a),
             ~Has(t, "completed", a)
      PROVE  ~Has(s, "completed", a)
  <2> SUFFICES ASSUME Has(s, "completed", a) PROVE FALSE
    OBVIOUS
  <2>1. PICK i \in 1..Len(s) : s[i] = [event |-> "completed", arm |-> a]
    BY <1>1 DEF Has
  <2>2. PICK j \in 1..n : t[j] = [event |-> "failed_observed", arm |-> a]
                           \/ t[j] = [event |-> "failed_not_observed", arm |-> a]
    BY <1>1, <1>3 DEF Has
  <2>3. i \notin 1..n
    BY <1>1, <1>3, <2>1 DEF Has
  <2>4. i \in 2..Len(s) /\ j \in 1..(i - 1) /\ i - 1 \in 0..Len(s) /\ s # <<>>
    BY <2>1, <2>2, <2>3
  <2>5. PhaseOf(Prefix(s, i - 1), a) = "dispatched"
    <3>1. PhaseOf(Prefix(s, i - 1), s[i].arm) = Required[s[i].event]
      BY <2>4 DEF Legal
    <3>2. s[i].arm = a /\ s[i].event = "completed"
      BY <2>1
    <3>3. QED
      BY <3>1, <3>2 DEF Required
  <2>6. /\ DOMAIN Prefix(s, i - 1) = 1..(i - 1)
        /\ Prefix(s, i - 1)[j] = s[j] /\ s[j] = t[j]
    <3>1. /\ Prefix(s, i - 1) \in Seq(Header \cup Record)
          /\ Len(Prefix(s, i - 1)) = i - 1
          /\ \A k \in 1..(i - 1) : Prefix(s, i - 1)[k] = s[k]
      BY <2>4, PrefixFacts
    <3>2. QED
      BY <3>1, <2>4, <2>2, <1>1
  <2>7. \/ Has(Prefix(s, i - 1), "failed_observed", a)
        \/ Has(Prefix(s, i - 1), "failed_not_observed", a)
    BY <2>2, <2>4, <2>6 DEF Has
  <2>8. PhaseOf(Prefix(s, i - 1), a) \in {"completed", "failed"}
    BY <2>7 DEF PhaseOf
  <2>9. QED
    BY <2>5, <2>8
<1>4. CASE Has(t, "completed", a)
  <2>1. PhaseOf(t, a) = "completed" /\ PhaseOf(s, a) = "completed"
    BY <1>2, <1>4 DEF PhaseOf
  <2>2. QED
    BY <2>1 DEF Registry!Later, t
<1>5. CASE /\ ~Has(t, "completed", a)
           /\ Has(t, "failed_observed", a) \/ Has(t, "failed_not_observed", a)
  <2>1. PhaseOf(t, a) = "failed" /\ PhaseOf(s, a) = "failed"
    BY <1>2, <1>3, <1>5 DEF PhaseOf
  <2>2. QED
    BY <2>1 DEF Registry!Later, t
<1>6. CASE /\ ~Has(t, "completed", a)
           /\ ~Has(t, "failed_observed", a) /\ ~Has(t, "failed_not_observed", a)
           /\ Has(t, "dispatched", a)
  <2>1. PhaseOf(t, a) = "dispatched" /\ PhaseOf(s, a) \in {"dispatched", "completed", "failed"}
    BY <1>2, <1>6 DEF PhaseOf
  <2>2. QED
    BY <2>1 DEF Registry!Later, t
<1>7. CASE /\ ~Has(t, "completed", a)
           /\ ~Has(t, "failed_observed", a) /\ ~Has(t, "failed_not_observed", a)
           /\ ~Has(t, "dispatched", a) /\ Has(t, "planned", a)
  <2>1. /\ PhaseOf(t, a) = "planned"
        /\ PhaseOf(s, a) \in {"planned", "dispatched", "completed", "failed"}
    BY <1>2, <1>7 DEF PhaseOf
  <2>2. QED
    BY <2>1 DEF Registry!Later, t
<1>8. CASE /\ ~Has(t, "completed", a)
           /\ ~Has(t, "failed_observed", a) /\ ~Has(t, "failed_not_observed", a)
           /\ ~Has(t, "dispatched", a) /\ ~Has(t, "planned", a)
  <2>1. PhaseOf(t, a) = "none" /\ PhaseOf(s, a) \in Phases
    BY <1>8, PhaseType DEF PhaseOf
  <2>2. QED
    BY <2>1 DEF Registry!Later, Registry!Phases, Phases, t
<1>9. QED
  BY <1>4, <1>5, <1>6, <1>7, <1>8

\* What is durable is a prefix of what is durable after any step.
LEMMA DurableGrows ==
  ASSUME IInv, [Next]_vars
  PROVE  /\ Durable' \in Seq(Header \cup Record)
         /\ Durable' # <<>> => Legal(Durable')
         /\ \E n \in 0..Len(Durable') : Durable = Prefix(Durable', n)
<1> USE DEF IInv
<1> DEFINE R == Header \cup Record
<1>1. /\ recs \in Seq(R) /\ synced \in 0..Len(recs)
      /\ recs' \in Seq(R) /\ synced' \in 0..Len(recs')
  BY TypeStep DEF TypeOK
<1>2. recs' # <<>> => Legal(recs')
  BY LegalStep DEF CompleteRecordsLegal, Legal
<1>3. Durable' \in Seq(R) /\ Len(Durable') = (IF linked' THEN synced' ELSE 0)
  BY <1>1, PrefixFacts DEF Durable
<1>4. Durable' # <<>> => Legal(Durable')
  <2> SUFFICES ASSUME Durable' # <<>> PROVE Legal(Durable')
    OBVIOUS
  <2>1. linked' /\ Durable' = Prefix(recs', synced') /\ Len(Durable') = synced'
    BY <1>3 DEF Durable
  <2>2. synced' >= 1 /\ Len(recs') >= 1 /\ recs' # <<>>
    BY <1>1, <1>3, <2>1, EmptySeq
  <2>3. /\ \A i \in 1..synced' : Durable'[i] = recs'[i]
        /\ \A m \in 0..synced' : Prefix(Durable', m) = Prefix(recs', m)
    BY <1>1, <2>1, PrefixFacts, PrefixOfPrefix
  <2>4. Durable'[1] \in Header
    BY <1>2, <2>2, <2>3 DEF Legal
  <2>5. ASSUME NEW i \in 2..Len(Durable')
        PROVE  /\ Durable'[i] \in Record
               /\ PhaseOf(Prefix(Durable', i - 1), Durable'[i].arm) = Required[Durable'[i].event]
    <3>1. i \in 2..Len(recs') /\ i - 1 \in 0..synced' /\ i \in 1..synced'
      BY <1>1, <2>1
    <3>2. Durable'[i] = recs'[i] /\ Prefix(Durable', i - 1) = Prefix(recs', i - 1)
      BY <2>3, <3>1
    <3>3. QED
      BY <1>2, <2>2, <3>1, <3>2 DEF Legal
  <2>6. QED
    BY <2>4, <2>5 DEF Legal
<1>5. ASSUME ~linked PROVE \E n \in 0..Len(Durable') : Durable = Prefix(Durable', n)
  <2>1. Prefix(Durable', 0) \in Seq(R) /\ Len(Prefix(Durable', 0)) = 0
    BY <1>1, <1>3, PrefixFacts
  <2>2. Durable = Prefix(Durable', 0)
    BY <1>5, <2>1, EmptySeq DEF Durable
  <2>3. QED
    BY <1>1, <1>3, <2>2
<1>6. ASSUME linked, linked', synced <= synced', synced <= Len(recs'),
             \A m \in 0..synced : Prefix(recs', m) = Prefix(recs, m)
      PROVE  \E n \in 0..Len(Durable') : Durable = Prefix(Durable', n)
  <2>1. Durable = Prefix(recs, synced) /\ Durable' = Prefix(recs', synced')
    BY <1>6 DEF Durable
  <2>2. synced \in 0..synced' /\ synced \in 0..synced
    BY <1>1, <1>6
  <2>3. Prefix(Durable', synced) = Prefix(recs', synced)
    BY <1>1, <2>1, <2>2, PrefixOfPrefix
  <2>4. QED
    BY <1>3, <1>6, <2>1, <2>2, <2>3
<1>7. ASSUME linked, UNCHANGED recs, linked', synced <= synced'
      PROVE  \E n \in 0..Len(Durable') : Durable = Prefix(Durable', n)
  BY <1>1, <1>6, <1>7
<1>8. ASSUME linked, NEW p \in Procs, Write(p)
      PROVE  \E n \in 0..Len(Durable') : Durable = Prefix(Durable', n)
  <2>1. op[p].rec \in R
    BY <1>8 DEF Write, TypeOK, Op, NoOp
  <2>2. recs' = Append(recs, op[p].rec) /\ synced' = synced /\ linked'
    BY <1>8 DEF Write
  <2>3. \A m \in 0..synced : Prefix(recs', m) = Prefix(recs, m)
    BY <1>1, <2>1, <2>2, PrefixOfAppend
  <2>4. QED
    BY <1>1, <1>6, <1>8, <2>2, <2>3
<1>9. ASSUME linked, HostCrash
      PROVE  \E n \in 0..Len(Durable') : Durable = Prefix(Durable', n)
  <2>1. PICK n \in synced..Len(recs) : recs' = Prefix(recs, n) /\ synced' = n /\ linked'
    BY <1>9 DEF HostCrash
  <2>2. n \in 0..Len(recs) /\ Len(recs') = n
    BY <1>1, <2>1, PrefixFacts
  <2>3. \A m \in 0..synced : Prefix(recs', m) = Prefix(recs, m)
    BY <1>1, <2>1, <2>2, PrefixOfPrefix
  <2>4. QED
    BY <1>1, <1>6, <1>9, <2>1, <2>2, <2>3
<1>10. ASSUME linked, NEW p \in Procs,
             \/ OpenNew(p) \/ OpenExisting(p) \/ OpenRefused(p) \/ Close(p)
             \/ \E r \in Record : Begin(p, r)
             \/ Fsync(p) \/ FsyncDirectory(p) \/ Commit(p)
             \/ WriteFails(p) \/ StoreFails(p) \/ AttestFails(p)
             \/ \E b \in Arms : Send(p, b)
             \/ Crash(p)
       PROVE  UNCHANGED recs /\ linked' /\ synced <= synced'
  <2>1. synced <= synced /\ synced <= Len(recs)
    BY <1>1
  <2>2. CASE OpenNew(p) \/ OpenExisting(p) \/ OpenRefused(p) \/ Close(p)
    BY <1>10, <2>1, <2>2 DEF OpenNew, OpenExisting, OpenRefused, Close, file
  <2>3. CASE (\E r \in Record : Begin(p, r)) \/ (\E b \in Arms : Send(p, b))
    BY <1>10, <2>1, <2>3 DEF Begin, Send, file
  <2>4. CASE Fsync(p) \/ FsyncDirectory(p) \/ Commit(p)
    BY <1>10, <2>1, <2>4 DEF Fsync, FsyncDirectory, Commit, file
  <2>5. CASE WriteFails(p) \/ StoreFails(p) \/ AttestFails(p) \/ Crash(p)
    BY <1>10, <2>1, <2>5 DEF WriteFails, StoreFails, AttestFails, Crash, file
  <2>6. QED
    BY <1>10, <2>2, <2>3, <2>4, <2>5
<1>11. ASSUME linked, UNCHANGED vars
       PROVE  \E n \in 0..Len(Durable') : Durable = Prefix(Durable', n)
  BY <1>1, <1>7, <1>11 DEF vars, file
<1>12. \E n \in 0..Len(Durable') : Durable = Prefix(Durable', n)
  <2>1. ASSUME linked, NEW p \in Procs,
               \/ OpenNew(p) \/ OpenExisting(p) \/ OpenRefused(p) \/ Close(p)
               \/ \E r \in Record : Begin(p, r)
               \/ Fsync(p) \/ FsyncDirectory(p) \/ Commit(p)
               \/ WriteFails(p) \/ StoreFails(p) \/ AttestFails(p)
               \/ \E b \in Arms : Send(p, b)
               \/ Crash(p)
        PROVE  \E n \in 0..Len(Durable') : Durable = Prefix(Durable', n)
    <3>1. UNCHANGED recs /\ linked' /\ synced <= synced'
      BY <1>10, <2>1
    <3>2. QED
      BY <1>7, <2>1, <3>1
  <2>2. QED
    BY <1>5, <1>8, <1>9, <1>11, <2>1 DEF Next, Append_
<1>13. QED
  BY <1>3, <1>4, <1>12

\* A ledger nobody has opened is a register in which no arm is planned.
LEMMA InitRegistry == Init => Registry!Init
<1> SUFFICES ASSUME Init PROVE Registry!Init
  OBVIOUS
<1>1. Durable = <<>>
  BY DEF Init, Durable
<1>2. \A e, a : ~Has(<<>>, e, a)
  BY DEF Has
<1>3. \A a \in Arms : PhaseOf(Durable, a) = "none"
  BY <1>1, <1>2 DEF PhaseOf
<1>4. sent = [a \in Arms |-> 0]
  BY DEF Init
<1>5. QED
  BY <1>3, <1>4 DEF Registry!Init

\* A step that hands nothing over moves the register forward.
LEMMA AdvanceStep ==
  ASSUME IInv, [Next]_vars, UNCHANGED sent
  PROVE  Registry!Advance
<1> DEFINE now == [a \in Arms |-> PhaseOf(Durable, a)]
           next == [a \in Arms |-> PhaseOf(Durable', a)]
<1>1. now \in [Arms -> Registry!Phases] /\ next \in [Arms -> Registry!Phases]
  BY PhaseType DEF Phases, Registry!Phases
<1>2. ASSUME NEW a \in Arms PROVE PhaseOf(Durable', a) \in Registry!Later[PhaseOf(Durable, a)]
  <2>1. PICK n \in 0..Len(Durable') : Durable = Prefix(Durable', n)
    BY DurableGrows
  <2>2. Durable' \in Seq(Header \cup Record) /\ (Durable' # <<>> => Legal(Durable'))
    BY DurableGrows
  <2>3. PhaseOf(Durable', a) \in Registry!Later[PhaseOf(Prefix(Durable', n), a)]
    BY <2>1, <2>2, PhasesAdvance
  <2>4. QED
    BY <2>1, <2>3
<1>3. \A a \in Arms : next[a] \in Registry!Later[now[a]]
  BY <1>2
<1>4. QED
  BY <1>1, <1>3 DEF Registry!Advance

\* The only step that changes how often a request was handed over is Send.
LEMMA OnlySendSends ==
  ASSUME Next, ~UNCHANGED sent
  PROVE  \E p \in Procs, a \in Arms : Send(p, a)
<1>1. ASSUME NEW p \in Procs,
             OpenNew(p) \/ OpenExisting(p) \/ OpenRefused(p) \/ Close(p)
      PROVE  UNCHANGED sent
  BY <1>1 DEF OpenNew, OpenExisting, OpenRefused, Close, local
<1>2. ASSUME NEW p \in Procs, NEW r \in Record, Begin(p, r) PROVE UNCHANGED sent
  BY <1>2 DEF Begin
<1>3. ASSUME NEW p \in Procs, Append_(p) PROVE UNCHANGED sent
  BY <1>3 DEF Append_, Write, Fsync, FsyncDirectory, Commit
<1>4. ASSUME NEW p \in Procs, WriteFails(p) \/ StoreFails(p) \/ AttestFails(p) \/ Crash(p)
      PROVE  UNCHANGED sent
  BY <1>4 DEF WriteFails, StoreFails, AttestFails, Crash
<1>5. ASSUME HostCrash PROVE UNCHANGED sent
  BY <1>5 DEF HostCrash
<1>6. QED
  BY <1>1, <1>2, <1>3, <1>4, <1>5 DEF Next

\* A request leaves for an arm that the durable records have planned.
LEMMA SendStepRegistry ==
  ASSUME IInv, NEW p \in Procs, NEW a \in Arms, Send(p, a)
  PROVE  Registry!Send(a)
<1>1. sent[a] = 0 /\ DurablyPlanned(a)
  BY DEF Send, IInv, SendInv
<1>2. Has(Durable, "planned", a)
  BY <1>1, DurableHas DEF IInv
<1>3. PhaseOf(Durable, a) # "none"
  BY <1>2, NoneUnplanned
<1>4. sent' = [sent EXCEPT ![a] = 1]
  BY <1>1 DEF Send, IInv, TypeOK
<1>5. Durable' = Durable
  BY DEF Send, file, Durable
<1>6. QED
  BY <1>1, <1>3, <1>4, <1>5 DEF Registry!Send

\* Every step of the ledger is a step of the register.
LEMMA RegistryStep ==
  IInv /\ [Next]_vars => [Registry!Next]_<<[a \in Arms |-> PhaseOf(Durable, a)], sent>>
<1> SUFFICES ASSUME IInv, [Next]_vars PROVE Registry!Next
  OBVIOUS
<1>1. CASE UNCHANGED sent
  BY <1>1, AdvanceStep DEF Registry!Next
<1>2. CASE ~UNCHANGED sent
  <2>1. Next
    BY <1>2 DEF vars
  <2>2. PICK p \in Procs, a \in Arms : Send(p, a)
    BY <1>2, <2>1, OnlySendSends
  <2>3. QED
    BY <2>2, SendStepRegistry DEF Registry!Next
<1>3. QED
  BY <1>1, <1>2

\* The ledger with its files, processes and crashes implements the register: in the
\* durable records an arm only moves forward, and its provider is asked once, after
\* it is planned there.
THEOREM Implements == Spec => ImplementsRegistry
<1>1. Init => Registry!Init
  BY InitRegistry
<1>2. IInv /\ [Next]_vars => [Registry!Next]_<<[a \in Arms |-> PhaseOf(Durable, a)], sent>>
  BY RegistryStep
<1>3. QED
  BY <1>1, <1>2, Invariance, PTL DEF Spec, ImplementsRegistry, Registry!Spec
==============================================================================
