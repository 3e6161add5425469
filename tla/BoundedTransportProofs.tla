------------------------- MODULE BoundedTransportProofs -------------------------
(* The safety of BoundedTransport for every limit, chunk and output: what is *)
(* accepted is whole, what is reported happened, and nothing stays behind.   *)
EXTENDS BoundedTransport, TLAPS

-----------------------------------------------------------------------------
(* The inductive invariant *)

\* Where the main thread is: before there are threads, in the loop, in the cleanup, or
\* past the call.
Starting == {"prepare", "spawn", "callback"}
Cleaning == {"wait", "wait again", "close early", "join", "close", "conclude"}
Past     == {"returned", "over"}
Stages   == Starting \cup {"poll", "check"} \cup Cleaning \cup Past

\* The results of a call that was carried through.
Answered == {"completed", "accepted", "rejected"}
Clean    == {"overflow", "timeout", "error"} \cup Answered

\* Every variable has its type.
TypeOK ==
  /\ pc \in Stages /\ timedOut \in BOOLEAN /\ terminated \in BOOLEAN
  /\ thread \in [Streams -> {"new", "ready", "inside", "ended"}]
  /\ taken \in [Outputs -> Nat] /\ captured \in [Outputs -> Nat]
  /\ overflow \in Outputs \cup {"none"} /\ errors \in BOOLEAN /\ closed \subseteq Streams
  /\ result.kind \in Kinds
  /\ client \in {"none", "running", "ok", "error", "killed"} /\ doomed \in BOOLEAN
  /\ unit \in {"none", "running", "finished", "failed"}
  /\ wrote \in [Outputs -> Nat] /\ late \in BOOLEAN
  /\ caller \in {"agent", "comparator"} /\ runtime \in {"none", "made", "keyed", "removed"}
  /\ stops \in Nat

\* There are threads only when there is a client, and a unit only then.
StartInv ==
  /\ pc \in {"prepare", "spawn"} => client = "none"
  /\ pc \in Starting => \A s \in Streams : thread[s] = "new"
  /\ pc \notin {"prepare", "spawn"} \cup Past => client # "none"
  /\ \A s \in Streams : thread[s] # "new" => client # "none"

\* What a reader has got of what was written to its stream s: all of it when it has ended,
\* unless it has failed or some stream has overflowed.
Read(s) ==
  /\ captured[s] <= Limit /\ captured[s] <= taken[s] /\ taken[s] <= wrote[s]
  /\ overflow = "none" => captured[s] = taken[s]
  /\ overflow = s => captured[s] = Limit /\ wrote[s] > Limit /\ thread[s] = "ended"
  /\ thread[s] = "ended" => errors \/ overflow # "none" \/ (~Held /\ taken[s] = wrote[s])

StreamInv == \A s \in Outputs : Read(s)

\* Nothing is stopped without a reason, and the loop is not left without one.
StopInv ==
  /\ client = "ok" => unit = "finished"
  /\ timedOut => late
  /\ terminated => stops > 0 /\ (overflow # "none" \/ timedOut)
  /\ stops > 0 => terminated \/ result.kind \in {"refused", "overflow"}
  /\ pc = "check" => Ended \/ overflow # "none" \/ timedOut
  /\ pc \in Cleaning => Ended \/ terminated
  /\ pc = "conclude" => closed = Streams

\* The result says how the call was left, which does not change any more.
ResultInv ==
  /\ result.kind = "none" <=> pc \notin Past
  /\ result.kind \in Clean =>
       Ended /\ closed = Streams /\ \A s \in Streams : thread[s] = "ended"
  /\ result.kind \in {"overflow", "refused"} => stops > 0
  /\ result.kind = "overflow" =>
       overflow # "none" /\ result.stream = overflow /\ result.bytes = Limit
  /\ result.kind = "timeout" => timedOut /\ overflow = "none"
  /\ result.kind \in Answered =>
       /\ overflow = "none" /\ ~errors /\ ~timedOut
       /\ result = [kind |-> result.kind, status |-> client, bytes |-> captured]
  /\ result.kind = "accepted" => result.status = "ok"

IInv == TypeOK /\ StartInv /\ StreamInv /\ StopInv /\ ResultInv

-----------------------------------------------------------------------------
(* Preliminaries *)

\* The lesser of two numbers.
LEMMA LesserOfTwo ==
  ASSUME NEW m \in Nat, NEW n \in Nat
  PROVE  Min({m, n}) = IF m <= n THEN m ELSE n
<1>1. PICK k \in {m, n} : k = IF m <= n THEN m ELSE n
  OBVIOUS
<1>2. \A j \in {m, n} : k <= j
  BY <1>1
<1>3. \A i \in {m, n} : (\A j \in {m, n} : i <= j) => i = k
  BY <1>1, <1>2
<1>4. QED
  BY <1>1, <1>2, <1>3 DEF Min

\* The names of the stages, and which of them are where.
LEMMA AllStages ==
  Stages = {"prepare", "spawn", "callback", "poll", "check", "wait", "wait again", "close early",
            "join", "close", "conclude", "returned", "over"}
  BY DEF Stages, Starting, Cleaning, Past

\* The invariant holds initially.
LEMMA InitInv == Init => IInv
<1> SUFFICES ASSUME Init PROVE IInv
  OBVIOUS
<1>1. TypeOK
  BY AllStages, BoundsAssumption DEF Init, TypeOK, Kinds
<1>2. StartInv
  BY DEF Init, StartInv, Starting, Past
<1>3. StreamInv
  BY BoundsAssumption DEF Init, StreamInv, Read, Streams, Outputs
<1>4. StopInv
  BY DEF Init, StopInv, Cleaning
<1>5. ResultInv
  BY DEF Init, ResultInv, Clean, Answered, Past
<1>6. QED
  BY <1>1, <1>2, <1>3, <1>4, <1>5 DEF IInv

-----------------------------------------------------------------------------
(* Client, unit and clock *)

\* What the world does: once nobody holds the pipes nothing is written, and what has ended
\* stays so.
LEMMA WorldIs ==
  ASSUME TypeOK, client = "ok" => unit = "finished", World
  PROVE  /\ UNCHANGED <<pc, timedOut, terminated, result, thread, taken, captured, overflow,
                        errors, closed, caller, runtime, stops>>
         /\ client' \in {"none", "running", "ok", "error", "killed"} /\ doomed' = doomed
         /\ unit' \in {"none", "running", "finished", "failed"} /\ late' \in BOOLEAN
         /\ wrote' \in [Outputs -> Nat] /\ \A s \in Outputs : wrote[s] <= wrote'[s]
         /\ client' = "none" <=> client = "none"
         /\ Ended => client' = client
         /\ client # "none" /\ ~Held => ~Held' /\ wrote' = wrote
         /\ late => late'
         /\ client' = "ok" => unit' = "finished"
<1>1. CASE UnitStarts
  BY <1>1 DEF UnitStarts, TypeOK, main, io, place, Held, Alive, Ended
<1>2. CASE UnitWrites
  BY <1>2 DEF UnitWrites, TypeOK, main, io, place, Held, Alive, Ended
<1>3. CASE UnitEnds
  BY <1>3 DEF UnitEnds, TypeOK, main, io, place, Held, Alive, Ended
<1>4. CASE ClientEnds \/ ClientDies
  BY <1>4 DEF ClientEnds, ClientDies, TypeOK, main, io, place, Held, Alive, Ended
<1>5. CASE TimePasses
  BY <1>5 DEF TimePasses, TypeOK, main, io, place, Held, Alive, Ended
<1>6. QED
  BY <1>1, <1>2, <1>3, <1>4, <1>5 DEF World

\* The world keeps the invariant.
LEMMA WorldKeeps == ASSUME IInv, World PROVE IInv'
<1>1. TypeOK /\ StartInv /\ StreamInv /\ StopInv /\ ResultInv
  BY DEF IInv
<1>2. /\ UNCHANGED <<pc, timedOut, terminated, result, thread, taken, captured, overflow,
                     errors, closed, caller, runtime, stops>>
      /\ client' \in {"none", "running", "ok", "error", "killed"} /\ doomed' = doomed
      /\ unit' \in {"none", "running", "finished", "failed"} /\ late' \in BOOLEAN
      /\ wrote' \in [Outputs -> Nat] /\ \A s \in Outputs : wrote[s] <= wrote'[s]
      /\ client' = "none" <=> client = "none"
      /\ Ended => client' = client
      /\ client # "none" /\ ~Held => ~Held' /\ wrote' = wrote
      /\ late => late'
      /\ client' = "ok" => unit' = "finished"
  BY <1>1, WorldIs DEF StopInv
<1>3. TypeOK'
  BY <1>1, <1>2 DEF TypeOK
<1>4. StartInv'
  BY <1>1, <1>2 DEF StartInv
<1>5. StreamInv'
  <2>1. ASSUME NEW s \in Outputs PROVE Read(s)'
    <3>1. Read(s) /\ (thread[s] = "ended" => client # "none")
      BY <1>1 DEF StreamInv, StartInv, Streams
    <3>2. /\ wrote[s] \in Nat /\ wrote'[s] \in Nat /\ wrote[s] <= wrote'[s]
          /\ taken[s] \in Nat /\ captured[s] \in Nat
      BY <1>1, <1>2 DEF TypeOK
    <3>3. taken'[s] <= wrote'[s] /\ (wrote[s] > Limit => wrote'[s] > Limit)
      BY <1>2, <3>1, <3>2, BoundsAssumption DEF Read
    <3>4. QED
      BY <1>2, <3>1, <3>3 DEF Read
  <2>2. QED
    BY <2>1 DEF StreamInv
<1>6. Ended => Ended'
  BY <1>2 DEF Ended
<1>7. StopInv'
  BY <1>1, <1>2, <1>6 DEF StopInv
<1>8. ResultInv'
  <2>1. result.kind \in Answered => client' = client
    BY <1>1, <1>2 DEF ResultInv, Clean
  <2>2. QED
    BY <1>1, <1>2, <1>6, <2>1 DEF ResultInv
<1>9. QED
  BY <1>3, <1>4, <1>5, <1>7, <1>8 DEF IInv


-----------------------------------------------------------------------------
(* The threads *)

\* A thread that goes on, while the call is not over: what concerns the streams is left to
\* show.
LEMMA ThreadKeeps ==
  ASSUME IInv, NEW s \in Streams, thread[s] \in {"ready", "inside"},
         NEW t \in {"inside", "ready", "ended"}, thread' = [thread EXCEPT ![s] = t],
         Steady, taken' \in [Outputs -> Nat], captured' \in [Outputs -> Nat],
         errors' \in BOOLEAN, overflow' \in Outputs \cup {"none"},
         overflow # "none" => overflow' # "none", StreamInv'
  PROVE  IInv'
<1>1. TypeOK /\ StartInv /\ StopInv /\ ResultInv
  BY DEF IInv
<1>2. /\ UNCHANGED <<pc, timedOut, terminated, result, closed, client, doomed, unit, wrote, late>>
      /\ UNCHANGED <<caller, runtime, stops>>
  BY DEF Steady, main, world, place
<1>3. TypeOK'
  BY <1>1, <1>2 DEF TypeOK
<1>4. client # "none" /\ pc \notin Starting
  BY <1>1 DEF StartInv
<1>5. StartInv'
  BY <1>1, <1>2, <1>4 DEF StartInv, Starting
<1>6. StopInv'
  BY <1>1, <1>2 DEF StopInv, Ended
<1>7. result.kind \notin Clean
  BY <1>1 DEF ResultInv
<1>8. ResultInv'
  BY <1>1, <1>2, <1>7 DEF ResultInv, Clean, Answered
<1>9. QED
  BY <1>3, <1>5, <1>6, <1>8 DEF IInv

\* A thread tries its stream, and a closed one is an error of the reader's.
LEMMA EnterKeeps == ASSUME IInv, NEW s \in Streams, Enter(s) PROVE IInv'
<1>1. TypeOK /\ StreamInv
  BY DEF IInv
<1>2. PICK t \in {"inside", "ended"} :
        thread' = [thread EXCEPT ![s] = t] /\ (t = "inside" <=> s \notin closed)
  BY DEF Enter
<1>3. /\ thread[s] = "ready" /\ errors' = (errors \/ (s \in closed /\ s \in Outputs))
      /\ Steady /\ UNCHANGED <<taken, captured, overflow, wrote, client, unit>>
  BY DEF Enter, Steady, world
<1>4. ASSUME NEW q \in Outputs PROVE Read(q)'
  <2>1. Read(q) /\ q \in Streams
    BY <1>1 DEF StreamInv, Streams
  <2>2. CASE q = s
    BY <1>1, <1>2, <1>3, <2>1, <2>2 DEF Read, Held, Alive, TypeOK
  <2>3. CASE q # s
    BY <1>1, <1>2, <1>3, <2>1, <2>3 DEF Read, Held, Alive, TypeOK
  <2>4. QED
    BY <2>2, <2>3
<1>5. StreamInv'
  BY <1>4 DEF StreamInv
<1>6. errors' \in BOOLEAN /\ taken' \in [Outputs -> Nat] /\ captured' \in [Outputs -> Nat]
      /\ overflow' \in Outputs \cup {"none"} /\ (overflow # "none" => overflow' # "none")
  BY <1>1, <1>3 DEF TypeOK
<1>7. QED
  BY <1>2, <1>3, <1>5, <1>6, ThreadKeeps

\* A reader gets a chunk, the end, or more than fits.
LEMMA TakeKeeps == ASSUME IInv, NEW s \in Outputs, Take(s) PROVE IInv'
<1>1. TypeOK /\ StreamInv /\ Read(s) /\ s \in Streams
  BY DEF IInv, StreamInv, Streams
<1>2. /\ wrote[s] \in Nat /\ taken[s] \in Nat /\ captured[s] \in Nat
      /\ captured[s] <= Limit /\ captured[s] <= taken[s] /\ taken[s] <= wrote[s]
      /\ Limit \in Nat /\ Chunk \in Nat /\ Chunk # 0
  BY <1>1, BoundsAssumption DEF Read, TypeOK
<1>3. PICK left \in Nat : left = wrote[s] - taken[s]
  BY <1>2
<1>4. PICK n \in Nat : n = Min({left, Chunk}) /\ n = IF left <= Chunk THEN left ELSE Chunk
  BY <1>2, LesserOfTwo
<1>5. PICK kept \in Nat : kept = Kept(s, n) /\ kept = IF n <= Limit - captured[s] THEN n ELSE Limit - captured[s]
  <2>1. Limit - captured[s] \in Nat
    BY <1>2
  <2>2. QED
    BY <2>1, LesserOfTwo DEF Kept
<1>6. PICK t \in {"ready", "ended"} :
        /\ thread' = [thread EXCEPT ![s] = t]
        /\ n > Limit - captured[s] =>
             t = "ended" /\ overflow' = IF overflow = "none" THEN s ELSE overflow
        /\ ~(n > Limit - captured[s]) =>
             overflow' = overflow /\ (t = "ended" <=> n = 0)
  BY <1>3, <1>4 DEF Take
<1>7. /\ thread[s] = "inside" /\ (left >= Chunk \/ ~Held)
      /\ taken' = [taken EXCEPT ![s] = taken[s] + n]
      /\ captured' = [captured EXCEPT ![s] = captured[s] + kept]
      /\ Steady /\ UNCHANGED <<errors, wrote, client, unit>>
  BY <1>3, <1>4, <1>5 DEF Take, Steady, world
<1>8. /\ captured[s] + kept <= Limit /\ captured[s] + kept <= taken[s] + n
      /\ taken[s] + n <= wrote[s] /\ captured[s] + kept \in Nat /\ taken[s] + n \in Nat
  BY <1>2, <1>3, <1>4, <1>5
<1>9. n > Limit - captured[s] => captured[s] + kept = Limit /\ wrote[s] > Limit
  BY <1>2, <1>3, <1>4, <1>5
<1>10. ~(n > Limit - captured[s]) => kept = n
  BY <1>2, <1>5
<1>11. /\ taken' \in [Outputs -> Nat] /\ taken'[s] = taken[s] + n
       /\ captured' \in [Outputs -> Nat] /\ captured'[s] = captured[s] + kept
       /\ thread'[s] = t
  BY <1>1, <1>6, <1>7, <1>8 DEF TypeOK
<1>12. ASSUME NEW q \in Outputs PROVE Read(q)'
  <2>1. CASE q = s
    <3>1. overflow # s
      BY <1>1, <1>7 DEF Read
    <3>2. captured'[s] <= Limit /\ captured'[s] <= taken'[s] /\ taken'[s] <= wrote'[s]
      BY <1>7, <1>8, <1>11
    <3>3. overflow' = "none" => captured'[s] = taken'[s]
      BY <1>1, <1>6, <1>10, <1>11 DEF Read, Outputs
    <3>4. overflow' = s => captured'[s] = Limit /\ wrote'[s] > Limit /\ thread'[s] = "ended"
      BY <1>6, <1>7, <1>9, <1>11, <3>1
    <3>5. n = 0 => ~Held' /\ taken'[s] = wrote'[s]
      <4>1. n = 0 => left = 0
        BY <1>2, <1>4
      <4>2. n = 0 => ~Held /\ taken[s] + n = wrote[s]
        BY <1>2, <1>3, <1>7, <4>1
      <4>3. QED
        BY <1>7, <1>11, <4>2 DEF Held, Alive
    <3>6. thread'[s] = "ended" => overflow' # "none" \/ n = 0
      BY <1>1, <1>6, <1>11 DEF Outputs
    <3>7. QED
      BY <2>1, <3>2, <3>3, <3>4, <3>5, <3>6 DEF Read
  <2>2. CASE q # s
    <3>1. /\ taken'[q] = taken[q] /\ captured'[q] = captured[q] /\ thread'[q] = thread[q]
          /\ Read(q) /\ q \in Streams
      BY <1>1, <1>6, <1>7, <2>2 DEF TypeOK, StreamInv, Streams
    <3>2. overflow' = "none" => overflow = "none"
      BY <1>6 DEF Outputs
    <3>3. overflow' = q => overflow = q
      BY <1>6, <2>2
    <3>4. QED
      BY <1>7, <3>1, <3>2, <3>3 DEF Read, Held, Alive
  <2>3. QED
    BY <2>1, <2>2
<1>13. /\ overflow' \in Outputs \cup {"none"} /\ (overflow # "none" => overflow' # "none")
       /\ errors' \in BOOLEAN /\ StreamInv'
  BY <1>1, <1>6, <1>7, <1>12 DEF TypeOK, StreamInv
<1>14. QED
  BY <1>1, <1>6, <1>7, <1>11, <1>13, ThreadKeeps

\* A read fails, or the writer is done.
LEMMA OtherThreadsKeep ==
  ASSUME IInv, Written \/ \E s \in Outputs : TakeFails(s) PROVE IInv'
<1>1. TypeOK /\ StreamInv
  BY DEF IInv
<1>2. PICK s \in Streams :
        /\ thread[s] = "inside" /\ thread' = [thread EXCEPT ![s] = "ended"]
        /\ s \in Outputs => errors'
        /\ errors' \in BOOLEAN /\ (errors => errors')
        /\ Steady /\ UNCHANGED <<taken, captured, overflow>>
  BY <1>1 DEF Written, TakeFails, TypeOK, Streams, Outputs
<1>3. ASSUME NEW q \in Outputs PROVE Read(q)'
  <2>1. Read(q) /\ q \in Streams /\ UNCHANGED <<wrote, client, unit>>
    BY <1>1, <1>2 DEF StreamInv, Streams, Steady, world
  <2>2. CASE q = s
    BY <1>1, <1>2, <2>1, <2>2 DEF Read, Held, Alive, TypeOK
  <2>3. CASE q # s
    BY <1>1, <1>2, <2>1, <2>3 DEF Read, Held, Alive, TypeOK
  <2>4. QED
    BY <2>2, <2>3
<1>4. /\ StreamInv' /\ taken' \in [Outputs -> Nat] /\ captured' \in [Outputs -> Nat]
      /\ overflow' \in Outputs \cup {"none"} /\ (overflow # "none" => overflow' # "none")
  BY <1>1, <1>2, <1>3 DEF TypeOK, StreamInv
<1>5. QED
  BY <1>2, <1>4, ThreadKeeps

-----------------------------------------------------------------------------
(* The main thread *)

\* A stop of the unit and of the client, or none.
LEMMA StoppingIs ==
  ASSUME TypeOK, StopProcess \/ Quiet
  PROVE  /\ UNCHANGED <<client, wrote, late>> /\ doomed' \in BOOLEAN
         /\ unit' \in {unit, "failed"} /\ (unit = "finished" => unit' = "finished")
         /\ stops' \in Nat /\ (StopProcess => stops' > 0) /\ (Quiet => stops' = stops)
         /\ stops > 0 => stops' > 0
<1>1. stops \in Nat /\ doomed \in BOOLEAN
  BY DEF TypeOK
<1>2. CASE StopProcess
  <2>1. unit' = unit \/ unit' = (IF unit = "running" THEN "failed" ELSE unit)
    BY <1>2 DEF StopProcess
  <2>2. UNCHANGED <<client, wrote, late>> /\ doomed' = TRUE /\ stops' = stops + 1
    BY <1>2 DEF StopProcess
  <2>3. ~Quiet
    BY <1>1, <2>2 DEF Quiet
  <2>4. QED
    BY <1>1, <2>1, <2>2, <2>3
<1>3. CASE Quiet /\ ~StopProcess
  BY <1>1, <1>3 DEF Quiet, world
<1>4. QED
  BY <1>2, <1>3

\* The streams are as they were when only the unit is stopped.
LEMMA StreamsKeep ==
  ASSUME StreamInv, UNCHANGED io, UNCHANGED <<client, wrote>>, unit' \in {unit, "failed"}
  PROVE  StreamInv'
  BY DEF StreamInv, Read, io, Held, Alive

\* A step of the main thread within the call, which keeps its threads and their streams.
LEMMA WithinKeeps ==
  ASSUME IInv, StopProcess \/ Quiet, UNCHANGED <<io, place, result>>,
         client # "none", pc \notin Starting \cup Past, pc' \in Cleaning \cup {"check"},
         timedOut' \in BOOLEAN, terminated' \in BOOLEAN, closed' \subseteq Streams,
         timedOut => timedOut', timedOut' => late, terminated => terminated',
         terminated' => stops' > 0 /\ (overflow # "none" \/ timedOut'),
         terminated' \/ Quiet,
         pc' = "check" => Ended \/ overflow # "none" \/ timedOut',
         pc' \in Cleaning => Ended \/ terminated',
         pc' = "conclude" => closed' = Streams
  PROVE  IInv'
<1>1. TypeOK /\ StartInv /\ StreamInv /\ StopInv /\ ResultInv
  BY DEF IInv
<1>2. /\ UNCHANGED <<client, wrote, late>> /\ doomed' \in BOOLEAN
      /\ unit' \in {unit, "failed"} /\ (unit = "finished" => unit' = "finished")
      /\ stops' \in Nat /\ (Quiet => stops' = stops)
  BY <1>1, StoppingIs
<1>3. UNCHANGED <<thread, taken, captured, overflow, errors, caller, runtime, result>>
  BY DEF io, place
<1>4. pc' \in Stages /\ pc' \notin Starting \cup Past /\ (Ended <=> Ended')
  BY <1>2, AllStages DEF Stages, Starting, Cleaning, Past, Ended
<1>5. result.kind = "none"
  BY <1>1 DEF ResultInv
<1>6. TypeOK'
  BY <1>1, <1>2, <1>3, <1>4 DEF TypeOK
<1>7. StartInv'
  BY <1>1, <1>2, <1>3, <1>4 DEF StartInv, Starting
<1>8. StreamInv'
  BY <1>1, <1>2, StreamsKeep
<1>9. StopInv'
  BY <1>1, <1>2, <1>3, <1>4 DEF StopInv
<1>10. ResultInv'
  BY <1>3, <1>4, <1>5 DEF ResultInv, Clean, Answered
<1>11. QED
  BY <1>6, <1>7, <1>8, <1>9, <1>10 DEF IInv

\* The loop is left for its reason, and a process that still runs is stopped.
LEMMA LoopKeeps == ASSUME IInv, Poll \/ Check \/ Wait \/ Close \/ Join PROVE IInv'
<1>1. TypeOK /\ StartInv /\ StopInv
  BY DEF IInv
<1>2. /\ timedOut \in BOOLEAN /\ terminated \in BOOLEAN /\ closed \subseteq Streams
      /\ client \in {"none", "running", "ok", "error", "killed"}
  BY <1>1 DEF TypeOK
<1>3. CASE Poll
  <2>1. /\ pc = "poll" /\ pc' = "check" /\ Quiet
        /\ UNCHANGED <<result, terminated, io, closed, place>>
        /\ \/ timedOut' = timedOut /\ (Ended \/ overflow # "none")
           \/ timedOut' = TRUE /\ late
    BY <1>3 DEF Poll, Goto
  <2>5. timedOut => late
    BY <1>1 DEF StopInv
  <2>6. timedOut' \in BOOLEAN /\ (timedOut => timedOut')
    <3>1. CASE timedOut' = timedOut
      BY <1>2, <3>1
    <3>2. CASE timedOut' = TRUE
      BY <3>2
    <3>3. QED
      BY <2>1, <3>1, <3>2
  <2>7. (timedOut' => late) /\ (Ended \/ overflow # "none" \/ timedOut')
    BY <2>1, <2>5
  <2>2. client # "none" /\ pc \notin Starting \cup Past
    BY <1>1, <2>1 DEF StartInv, Starting, Past
  <2>3. terminated' => stops' > 0 /\ (overflow # "none" \/ timedOut')
    BY <1>1, <2>1 DEF StopInv, Quiet
  <2>4. QED
    BY <1>2, <2>1, <2>2, <2>3, <2>6, <2>7, WithinKeeps DEF Cleaning
<1>4. CASE Check
  <2>1. /\ pc = "check" /\ pc' = "wait" /\ UNCHANGED <<result, timedOut, io, closed, place>>
        /\ Alive => StopProcess /\ terminated' = TRUE
        /\ ~Alive => Quiet /\ terminated' = terminated
    BY <1>4 DEF Check, Goto
  <2>2. client # "none" /\ pc \notin Starting \cup Past
    BY <1>1, <2>1 DEF StartInv, Starting, Past
  <2>3. Alive \/ Ended
    BY <1>2, <2>2 DEF Alive, Ended
  <2>4. overflow # "none" \/ timedOut' \/ ~Alive
    BY <1>1, <2>1 DEF StopInv, Alive, Ended
  <2>5. terminated' => stops' > 0 /\ (overflow # "none" \/ timedOut')
    BY <1>1, <2>1, <2>4, StoppingIs DEF StopInv, Quiet
  <2>6. /\ terminated' \in BOOLEAN /\ (terminated => terminated')
        /\ terminated' \/ Quiet
        /\ Ended \/ terminated'
    <3>1. CASE Alive
      BY <2>1, <3>1
    <3>2. CASE Ended /\ ~Alive
      <4>1. terminated' = terminated /\ Quiet
        BY <2>1, <3>2
      <4>2. QED
        BY <1>2, <3>2, <4>1
    <3>3. QED
      BY <2>3, <3>1, <3>2
  <2>7. timedOut' \in BOOLEAN /\ (timedOut => timedOut') /\ (timedOut' => late)
    BY <1>1, <1>2, <2>1 DEF StopInv
  <2>8. QED
    BY <1>2, <2>1, <2>2, <2>5, <2>6, <2>7, WithinKeeps DEF Cleaning
<1>5. CASE Wait \/ Close \/ Join
  <2>1. /\ pc \in Cleaning /\ pc' \in Cleaning
        /\ UNCHANGED <<result, timedOut, terminated, io, place>>
        /\ closed' \subseteq Streams /\ (pc' = "conclude" => closed' = Streams)
        /\ (~Ended /\ StopProcess) \/ Quiet
    BY <1>2, <1>5 DEF Wait, Close, Join, Goto, Cleaning, Streams, Outputs
  <2>2. client # "none" /\ pc \notin Starting \cup Past /\ (Ended \/ terminated)
    BY <1>1, <2>1 DEF StartInv, StopInv, Starting, Past, Cleaning
  <2>3. terminated' => stops' > 0 /\ (overflow # "none" \/ timedOut')
    BY <1>1, <2>1, StoppingIs DEF StopInv
  <2>4. pc' # "check"
    BY <2>1 DEF Cleaning
  <2>5. QED
    BY <1>1, <1>2, <2>1, <2>2, <2>3, <2>4, WithinKeeps DEF StopInv
<1>6. QED
  BY <1>3, <1>4, <1>5

\* The directory is made, or is not.
LEMMA PrepareKeeps == ASSUME IInv, Prepare PROVE IInv'
<1>1. TypeOK /\ StartInv /\ StreamInv /\ StopInv /\ ResultInv
  BY DEF IInv
<1>2. PICK next \in {"spawn", "returned"} :
        /\ pc' = next /\ runtime' \in {"none", "made", "keyed"}
        /\ next = "spawn" => result' = result
        /\ next = "returned" => result' = [kind |-> "unprepared"]
  BY DEF Prepare, Goto, Return
<1>3. /\ pc = "prepare" /\ UNCHANGED <<timedOut, terminated, closed, caller, stops>>
      /\ UNCHANGED <<thread, taken, captured, overflow, errors>>
      /\ UNCHANGED <<client, doomed, unit, wrote, late>> /\ UNCHANGED io
  BY DEF Prepare, Quiet, world, io
<1>4. result.kind = "none" /\ result'.kind \in {"none", "unprepared"} /\ (result'.kind = "none" <=> next = "spawn")
  BY <1>1, <1>2, <1>3 DEF ResultInv, Past
<1>5. TypeOK'
  <2>1. pc' \in Stages
    BY <1>1, <1>2, <1>3, <1>4, AllStages
  <2>2. result'.kind \in Kinds
    BY <1>1, <1>2, <1>3, <1>4 DEF Kinds, TypeOK
  <2>3. QED
    BY <1>1, <1>2, <1>3, <1>4, <2>1, <2>2 DEF TypeOK
<1>6. StartInv'
  BY <1>1, <1>2, <1>3 DEF StartInv, Starting, Past
<1>7. StreamInv'
  BY <1>1, <1>3, StreamsKeep
<1>8. StopInv'
  BY <1>1, <1>2, <1>3, <1>4 DEF StopInv, Ended, Cleaning
<1>9. ResultInv'
  BY <1>2, <1>4 DEF ResultInv, Clean, Answered, Past
<1>10. QED
  BY <1>5, <1>6, <1>7, <1>8, <1>9 DEF IInv

\* The client is started, or cannot be.
LEMMA SpawnKeeps == ASSUME IInv, Spawn PROVE IInv'
<1>1. TypeOK /\ StartInv /\ StreamInv /\ StopInv /\ ResultInv
  BY DEF IInv
<1>2. PICK next \in {"callback", "returned"} :
        /\ pc' = next
        /\ next = "callback" => result' = result /\ client' = "running"
        /\ next = "returned" => result' = [kind |-> "unstarted"] /\ client' = "none"
  BY DEF Spawn, Goto, Return
<1>3. /\ pc = "spawn" /\ UNCHANGED <<timedOut, terminated, closed, caller, runtime, stops>>
      /\ UNCHANGED <<thread, taken, captured, overflow, errors>>
      /\ UNCHANGED <<doomed, unit, wrote, late>>
  BY DEF Spawn, io, place
<1>4. result.kind = "none" /\ result'.kind \in {"none", "unstarted"} /\ (result'.kind = "none" <=> next = "callback")
  BY <1>1, <1>2, <1>3 DEF ResultInv, Past
<1>5. TypeOK'
  <2>1. pc' \in Stages
    BY <1>1, <1>2, <1>3, <1>4, AllStages
  <2>2. result'.kind \in Kinds
    BY <1>1, <1>2, <1>3, <1>4 DEF Kinds, TypeOK
  <2>3. QED
    BY <1>1, <1>2, <1>3, <1>4, <2>1, <2>2 DEF TypeOK
<1>6. (\A s \in Streams : thread[s] = "new") /\ Outputs \subseteq Streams
  BY <1>1, <1>3 DEF StartInv, Starting, Streams
<1>7. StartInv'
  BY <1>1, <1>2, <1>3, <1>6 DEF StartInv, Starting, Past
<1>8. StreamInv'
  BY <1>1, <1>3, <1>6 DEF StreamInv, Read
<1>9. StopInv'
  BY <1>1, <1>2, <1>3, <1>4 DEF StopInv, Ended, Cleaning
<1>10. ResultInv'
  BY <1>2, <1>4 DEF ResultInv, Clean, Answered, Past
<1>11. QED
  BY <1>5, <1>7, <1>8, <1>9, <1>10 DEF IInv

\* The threads are started after the callback, or all is stopped.
LEMMA CallBackKeeps == ASSUME IInv, CallBack \/ CallBackFails PROVE IInv'
<1>1. TypeOK /\ StartInv /\ StreamInv /\ StopInv /\ ResultInv
  BY DEF IInv
<1>2. pc = "callback" /\ client # "none" /\ result.kind = "none"
  BY <1>1 DEF CallBack, CallBackFails, StartInv, ResultInv, Past
<1>3. (\A s \in Streams : thread[s] = "new") /\ Outputs \subseteq Streams
  BY <1>1, <1>2 DEF StartInv, Starting, Streams
<1>4. CASE CallBack
  <2>1. /\ pc' = "poll" /\ result' = result
        /\ UNCHANGED <<timedOut, terminated, closed, caller, runtime, stops>>
        /\ UNCHANGED <<taken, captured, overflow, errors>>
        /\ UNCHANGED <<client, doomed, unit, wrote, late>>
        /\ thread' = [s \in Streams |-> "ready"]
    BY <1>4 DEF CallBack, Goto, Quiet, world, place
  <2>2. TypeOK'
    <3>1. pc' \in Stages
      BY <1>1, <2>1, AllStages
    <3>2. result'.kind \in Kinds
      BY <1>1, <2>1 DEF Kinds, TypeOK
    <3>3. QED
      BY <1>1, <2>1, <3>1, <3>2 DEF TypeOK
  <2>3. StartInv'
    BY <1>2, <2>1 DEF StartInv, Starting, Past
  <2>4. StreamInv'
    BY <1>1, <1>3, <2>1 DEF StreamInv, Read
  <2>5. StopInv'
    BY <1>1, <2>1 DEF StopInv, Cleaning
  <2>6. ResultInv'
    BY <1>2, <2>1 DEF ResultInv, Clean, Answered, Past
  <2>7. QED
    BY <2>2, <2>3, <2>4, <2>5, <2>6 DEF IInv
<1>5. CASE CallBackFails
  <2>1. /\ pc' = "returned" /\ result' = [kind |-> "refused"] /\ StopProcess
        /\ closed' = Streams /\ UNCHANGED io
        /\ UNCHANGED <<timedOut, terminated, caller, runtime>>
        /\ UNCHANGED <<thread, taken, captured, overflow, errors>>
    BY <1>5 DEF CallBackFails, Return, io, place
  <2>2. /\ UNCHANGED <<client, wrote, late>> /\ doomed' \in BOOLEAN
        /\ unit' \in {unit, "failed"} /\ (unit = "finished" => unit' = "finished")
        /\ stops' \in Nat /\ stops' > 0
    BY <1>1, <2>1, StoppingIs
  <2>3. TypeOK'
    <3>1. pc' \in Stages
      BY <1>1, <2>1, <2>2, AllStages
    <3>2. result'.kind \in Kinds
      BY <1>1, <2>1, <2>2 DEF Kinds, TypeOK
    <3>3. QED
      BY <1>1, <2>1, <2>2, <3>1, <3>2 DEF TypeOK
  <2>4. StartInv'
    BY <1>2, <1>3, <2>1, <2>2 DEF StartInv, Starting, Past
  <2>5. StreamInv'
    BY <1>1, <2>1, <2>2, StreamsKeep
  <2>6. StopInv'
    BY <1>1, <2>1, <2>2 DEF StopInv, Cleaning
  <2>7. ResultInv'
    BY <2>1, <2>2 DEF ResultInv, Clean, Answered, Past
  <2>8. QED
    BY <2>3, <2>4, <2>5, <2>6, <2>7 DEF IInv
<1>6. QED
  BY <1>4, <1>5

\* What a call comes to, and what is told of it.
LEMMA ConcludeKeeps == ASSUME IInv, Conclude PROVE IInv'
<1>1. TypeOK /\ StartInv /\ StreamInv /\ StopInv /\ ResultInv
  BY DEF IInv
<1>2. PICK k \in {"unclean", "overflow", "timeout", "error", "completed"} :
        /\ k = "unclean" => result' = [kind |-> k]
        /\ k # "unclean" => ~Unclean
        /\ k = "overflow" =>
             /\ overflow # "none" /\ (terminated \/ StopProcess)
             /\ result' = [kind |-> k, stream |-> overflow, bytes |-> captured[overflow]]
        /\ k \in {"timeout", "error", "completed"} => overflow = "none"
        /\ k = "timeout" => timedOut /\ result' = [kind |-> k]
        /\ k = "error" => result' = [kind |-> k]
        /\ k = "completed" =>
             ~timedOut /\ ~errors /\ result' = [kind |-> k, status |-> client, bytes |-> captured]
        /\ k = "overflow" \/ Quiet
  BY DEF Conclude, Return
<1>3. /\ pc = "conclude" /\ pc' = "returned" /\ (StopProcess \/ Quiet) /\ UNCHANGED io
      /\ UNCHANGED <<timedOut, terminated, closed, caller, runtime>>
      /\ UNCHANGED <<thread, taken, captured, overflow, errors>>
  BY DEF Conclude, Return, io, place
<1>4. /\ UNCHANGED <<client, wrote, late>> /\ doomed' \in BOOLEAN
      /\ unit' \in {unit, "failed"} /\ (unit = "finished" => unit' = "finished")
      /\ stops' \in Nat /\ (StopProcess => stops' > 0) /\ (Quiet => stops' = stops)
      /\ (stops > 0 => stops' > 0)
  BY <1>1, <1>3, StoppingIs
<1>5. result'.kind = k /\ result.kind = "none"
  BY <1>1, <1>2, <1>3 DEF ResultInv, Past
<1>6. TypeOK'
  <2>1. pc' \in Stages
    BY <1>1, <1>3, <1>4, <1>5, AllStages
  <2>2. result'.kind \in Kinds
    BY <1>1, <1>3, <1>4, <1>5 DEF Kinds, TypeOK
  <2>3. QED
    BY <1>1, <1>3, <1>4, <1>5, <2>1, <2>2 DEF TypeOK
<1>7. StartInv'
  BY <1>1, <1>3, <1>4 DEF StartInv, Starting, Past
<1>8. StreamInv'
  BY <1>1, <1>3, <1>4, StreamsKeep
<1>9. k = "overflow" => stops' > 0
  BY <1>1, <1>2, <1>4 DEF StopInv
<1>10. StopInv'
  BY <1>1, <1>2, <1>3, <1>4, <1>5, <1>9 DEF StopInv, Cleaning
<1>11. ResultInv'
  <2>1. result'.kind = "none" <=> pc' \notin Past
    BY <1>3, <1>5 DEF Past
  <2>2. k # "unclean" => Ended' /\ closed' = Streams /\ \A s \in Streams : thread'[s] = "ended"
    BY <1>1, <1>2, <1>3, <1>4 DEF Unclean, StopInv, Ended
  <2>3. k = "overflow" => overflow' # "none" /\ result'.stream = overflow' /\ result'.bytes = Limit
    <3>1. k = "overflow" => overflow \in Outputs
      BY <1>1, <1>2 DEF TypeOK
    <3>2. k = "overflow" => captured[overflow] = Limit
      BY <1>1, <3>1 DEF StreamInv, Read
    <3>3. QED
      BY <1>2, <1>3, <3>2
  <2>4. k = "timeout" => timedOut' /\ overflow' = "none"
    BY <1>2, <1>3
  <2>5. k = "completed" =>
          /\ overflow' = "none" /\ ~errors' /\ ~timedOut'
          /\ result' = [kind |-> result'.kind, status |-> client', bytes |-> captured']
    BY <1>2, <1>3, <1>4, <1>5
  <2>6. k \notin {"refused", "accepted", "rejected"}
    OBVIOUS
  <2>7. QED
    BY <1>5, <1>9, <2>1, <2>2, <2>3, <2>4, <2>5, <2>6 DEF ResultInv, Clean, Answered
<1>12. QED
  BY <1>6, <1>7, <1>8, <1>10, <1>11 DEF IInv

\* The answer is read, or the directory removed.
LEMMA AfterKeeps == ASSUME IInv, Answer \/ Tidy PROVE IInv'
<1>1. TypeOK /\ StartInv /\ StreamInv /\ StopInv /\ ResultInv
  BY DEF IInv
<1>2. /\ pc \in Past /\ pc' \in Past /\ UNCHANGED io
      /\ UNCHANGED <<timedOut, terminated, closed, caller, stops>>
      /\ UNCHANGED <<thread, taken, captured, overflow, errors>>
      /\ UNCHANGED <<client, doomed, unit, wrote, late>>
      /\ runtime' \in {runtime, "removed"}
  BY DEF Answer, Tidy, Quiet, world, io, place, Past
<1>3. \/ result' = result
      \/ /\ result.kind = "completed" /\ result.status = "ok"
         /\ \E k \in {"accepted", "rejected"} : result' = [result EXCEPT !.kind = k]
  BY DEF Answer, Tidy, Unread
<1>4. \/ result' = result
      \/ \E k \in {"accepted", "rejected"} :
           /\ result.kind = "completed" /\ result.status = "ok"
           /\ result' = [kind |-> k, status |-> client, bytes |-> captured]
    <2>1. CASE result' # result
      <3>1. PICK k \in {"accepted", "rejected"} : result' = [result EXCEPT !.kind = k]
        BY <1>3, <2>1
      <3>2. result = [kind |-> result.kind, status |-> client, bytes |-> captured]
        BY <1>1, <1>3, <2>1 DEF ResultInv, Answered
      <3>3. result' = [kind |-> k, status |-> client, bytes |-> captured]
        BY <3>1, <3>2
      <3>4. QED
        BY <1>3, <2>1, <3>3
    <2>2. QED
      BY <2>1
<1>5. TypeOK'
  BY <1>1, <1>2, <1>4 DEF TypeOK, Kinds, Stages
<1>6. StartInv'
  BY <1>1, <1>2 DEF StartInv, Starting, Past
<1>7. StreamInv'
  BY <1>1, <1>2, StreamsKeep
<1>8. StopInv'
  <2>1. result'.kind = result.kind \/ result.kind = "completed"
    BY <1>4
  <2>2. QED
    BY <1>1, <1>2, <2>1 DEF StopInv, Cleaning, Past, Ended
<1>9. ResultInv'
  <2>1. CASE result' = result
    BY <1>1, <1>2, <2>1 DEF ResultInv, Ended
  <2>2. CASE \E k \in {"accepted", "rejected"} :
           /\ result.kind = "completed" /\ result.status = "ok"
           /\ result' = [kind |-> k, status |-> client, bytes |-> captured]
    <3>1. PICK k \in {"accepted", "rejected"} :
            /\ result.kind = "completed" /\ result.status = "ok"
            /\ result' = [kind |-> k, status |-> client, bytes |-> captured]
      BY <2>2
    <3>2. /\ Ended /\ closed = Streams /\ \A s \in Streams : thread[s] = "ended"
          /\ overflow = "none" /\ ~errors /\ ~timedOut
          /\ result = [kind |-> result.kind, status |-> client, bytes |-> captured]
      BY <1>1, <3>1 DEF ResultInv, Clean, Answered
    <3>3. Ended' /\ client = "ok"
      BY <1>2, <3>1, <3>2 DEF Ended
    <3>4. result'.kind = k /\ result'.status = "ok" /\ k # "none"
      BY <3>1, <3>3
    <3>5. result' = [kind |-> result'.kind, status |-> client', bytes |-> captured']
      BY <1>2, <3>1, <3>4
    <3>6. QED
      BY <1>2, <3>2, <3>3, <3>4, <3>5 DEF ResultInv
  <2>3. QED
    BY <1>4, <2>1, <2>2
<1>10. QED
  BY <1>5, <1>6, <1>7, <1>8, <1>9 DEF IInv

-----------------------------------------------------------------------------
(* The theorems *)

\* A step that changes nothing keeps the invariant.
LEMMA StutterKeeps == ASSUME IInv, UNCHANGED vars PROVE IInv'
  BY DEF IInv, TypeOK, StartInv, StreamInv, Read, StopInv, ResultInv, Ended, Held, Alive, vars,
         main, io, world, place

\* In every state of every call, whatever the sizes and whoever is slow, the invariant holds:
\* each reader's count is what it has of its stream, and the result is how the call was left.
THEOREM TransportInvariance == Spec => []IInv
<1>1. Init => IInv
  BY InitInv
<1>2. ASSUME IInv, [Next]_vars PROVE IInv'
  <2>1. CASE World
    BY <1>2, <2>1, WorldKeeps
  <2>2. CASE Threads \/ \E s \in Outputs : TakeFails(s)
    BY <1>2, <2>2, EnterKeeps, TakeKeeps, OtherThreadsKeep DEF Threads
  <2>3. CASE Main
    BY <1>2, <2>3, PrepareKeeps, SpawnKeeps, CallBackKeeps, LoopKeeps, ConcludeKeeps, AfterKeeps
    DEF Main
  <2>4. CASE UNCHANGED vars
    BY <1>2, <2>4, StutterKeeps
  <2>5. QED
    BY <1>2, <2>1, <2>2, <2>3, <2>4 DEF Next
<1>3. QED
  BY <1>1, <1>2, PTL DEF Spec

\* An accepted answer is all the unit wrote, and neither it nor the client was stopped: the
\* readers have ended with nothing left, no stop was tried without a reason the result would
\* tell, and a client that ends well waited for its unit.
THEOREM AnswersAreWhole == Spec => []AcceptedIsWhole
<1>1. ASSUME IInv PROVE AcceptedIsWhole
  <2>1. TypeOK /\ StreamInv /\ StopInv /\ ResultInv
    BY <1>1 DEF IInv
  <2>2. SUFFICES ASSUME result.kind = "accepted"
                 PROVE  /\ unit = "finished" /\ stops = 0
                        /\ \A s \in Outputs : result.bytes[s] = wrote[s] /\ wrote[s] <= Limit
    BY DEF AcceptedIsWhole
  <2>3. /\ overflow = "none" /\ ~errors /\ ~timedOut /\ (\A s \in Streams : thread[s] = "ended")
        /\ result = [kind |-> result.kind, status |-> client, bytes |-> captured]
        /\ result.status = "ok"
    BY <2>1, <2>2 DEF ResultInv, Clean, Answered
  <2>4. client = "ok" /\ result.bytes = captured
    BY <2>3
  <2>5. unit = "finished" /\ stops = 0
    BY <2>1, <2>2, <2>3, <2>4 DEF StopInv, TypeOK
  <2>6. ASSUME NEW s \in Outputs PROVE captured[s] = wrote[s] /\ wrote[s] <= Limit
    BY <2>1, <2>3 DEF StreamInv, Read, Streams
  <2>7. QED
    BY <2>4, <2>5, <2>6
<1>2. QED
  BY <1>1, TransportInvariance, PTL

\* What a refused call is refused for has happened.
THEOREM ReasonsAreReal == Spec => []ReasonIsReal
<1>1. ASSUME IInv PROVE ReasonIsReal
  <2>1. TypeOK /\ StreamInv /\ StopInv /\ ResultInv
    BY <1>1 DEF IInv
  <2>2. result.kind = "overflow" => wrote[result.stream] > Limit /\ result.bytes = Limit
    <3>1. SUFFICES ASSUME result.kind = "overflow"
                   PROVE  wrote[result.stream] > Limit /\ result.bytes = Limit
      OBVIOUS
    <3>2. overflow \in Outputs /\ result.stream = overflow /\ result.bytes = Limit
      BY <2>1, <3>1 DEF ResultInv, TypeOK
    <3>3. QED
      BY <2>1, <3>2 DEF StreamInv, Read
  <2>3. result.kind = "timeout" => late /\ overflow = "none"
    BY <2>1 DEF ResultInv, StopInv
  <2>4. QED
    BY <2>2, <2>3 DEF ReasonIsReal
<1>2. QED
  BY <1>1, TransportInvariance, PTL

\* A call that gives up has tried to stop the unit, one that is carried through leaves no
\* thread, pipe or client, and a completed one no unit: its readers saw the end of streams
\* that a running unit would hold.
THEOREM NothingIsLeft == Spec => []NothingStaysBehind
<1>1. ASSUME IInv PROVE NothingStaysBehind
  <2>1. TypeOK /\ StreamInv /\ StopInv /\ ResultInv
    BY <1>1 DEF IInv
  <2>2. result.kind \in {"overflow", "refused"} \/ terminated => stops > 0
    BY <2>1 DEF ResultInv, StopInv
  <2>3. result.kind \in {"overflow", "timeout", "error", "completed", "accepted", "rejected"} =>
          Ended /\ closed = Streams /\ \A s \in Streams : thread[s] = "ended"
    BY <2>1 DEF ResultInv, Clean, Answered
  <2>4. result.kind \in {"completed", "accepted", "rejected"} => unit # "running"
    <3>1. SUFFICES ASSUME result.kind \in {"completed", "accepted", "rejected"}
                   PROVE  unit # "running"
      OBVIOUS
    <3>2. overflow = "none" /\ ~errors
      BY <2>1, <3>1 DEF ResultInv, Answered
    <3>3. "stdout" \in Outputs /\ thread["stdout"] = "ended"
      BY <2>3, <3>1 DEF Streams, Outputs
    <3>4. ~Held
      BY <2>1, <3>2, <3>3 DEF StreamInv, Read
    <3>5. QED
      BY <3>4 DEF Held
  <2>5. QED
    BY <2>2, <2>3, <2>4 DEF NothingStaysBehind
<1>2. QED
  BY <1>1, TransportInvariance, PTL
===============================================================================
