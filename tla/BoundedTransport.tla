---------------------------- MODULE BoundedTransport ---------------------------
(***************************************************************************)
(* execute_bounded_transport of skivolve/comparator_runtime.py, and its    *)
(* two callers ClaudeCliProvider.run_agent and                             *)
(* SandboxedClaudeExecutor.execute: one call of an agent or a comparator   *)
(* in a systemd unit, from the private directory with a copy of the        *)
(* credential to its removal.  The process the harness starts is only the  *)
(* client (systemd-run --pipe --wait); the unit gets the same pipes, and   *)
(* outlives a client that is killed.  Two threads read, one writes, and    *)
(* the main thread polls for the end, an overflow or the deadline, stops   *)
(* what still runs, joins the threads, closes the pipes and says what      *)
(* happened.                                                               *)
(*                                                                         *)
(* A thread that is inside read or write holds the lock of its stream, so   *)
(* that close waits for it.  read returns a whole chunk, or what is left at *)
(* the end of the stream.  Client, unit and clock are external.             *)
(***************************************************************************)
EXTENDS Naturals, FiniteSets, FiniteSetsExt

CONSTANTS
  Limit,    \* bytes kept of a stream (stdout_limit, stderr_limit)
  Chunk,    \* bytes one read asks for
  MaxOut    \* bound on the bytes the unit writes to one stream

ASSUME BoundsAssumption ==
  Limit \in Nat \ {0} /\ Chunk \in Nat \ {0} /\ MaxOut \in Nat

VARIABLES
  pc,          \* the step of the main thread
  thread,      \* state of each thread, named by its stream
  taken,       \* bytes each reader has got out of its stream
  captured,    \* bytes each reader has kept
  overflow,    \* streams that overflowed, in order: the first one is reported
  errors,      \* reader_errors is not empty
  closed,      \* streams the main thread has closed
  timedOut, terminated,
  result,      \* what the call returns or raises
  client,      \* the process: running, then its exit
  doomed,      \* a SIGKILL has been sent to the client
  unit,        \* the unit
  wrote,       \* bytes the unit has written to each stream
  late,        \* the deadline has passed
  caller, runtime,  \* who calls, and the private runtime directory
  stops        \* history: how often a stop of the unit was tried

main  == <<pc, timedOut, terminated, result>>
io    == <<thread, taken, captured, overflow, errors>>
world == <<client, doomed, unit, wrote, late>>
place == <<caller, runtime>>
vars  == <<main, io, closed, world, place, stops>>

Outputs == {"stdout", "stderr"}
Streams == Outputs \cup {"stdin"}

Init ==
  /\ caller \in {"agent", "comparator"} /\ runtime = "none"
  /\ pc = "prepare" /\ timedOut = FALSE /\ terminated = FALSE
  /\ result = [kind |-> "none"]
  /\ thread = [s \in Streams |-> "new"]
  /\ taken = [s \in Outputs |-> 0] /\ captured = [s \in Outputs |-> 0]
  /\ overflow = "none" /\ errors = FALSE /\ closed = {}
  /\ client = "none" /\ doomed = FALSE /\ unit = "none"
  /\ wrote = [s \in Outputs |-> 0] /\ late = FALSE /\ stops = 0

-----------------------------------------------------------------------------
(* Client, unit and clock *)

Alive == client = "running"
Ended == client \in {"ok", "error", "killed"}

\* Somebody still has the other ends of the pipes.
Held == Alive \/ unit = "running"

UnitStarts ==
  /\ Alive /\ unit = "none" /\ unit' = "running"
  /\ UNCHANGED <<main, io, closed, place, client, doomed, wrote, late, stops>>

UnitWrites ==
  /\ unit = "running"
  /\ \E s \in Outputs : wrote[s] < MaxOut /\ wrote' = [wrote EXCEPT ![s] = @ + 1]
  /\ UNCHANGED <<main, io, closed, place, client, doomed, unit, late, stops>>

\* By itself, or at RuntimeMaxSec; a unit that never started cannot after its client.
UnitEnds ==
  /\ unit = "running" /\ unit' \in {"finished", "failed"}
  /\ UNCHANGED <<main, io, closed, place, client, doomed, wrote, late, stops>>

\* The client waits for the unit and passes its status on; it may fail alone.
ClientEnds ==
  /\ Alive
  /\ client' = IF unit = "finished" THEN "ok" ELSE "error"
  /\ UNCHANGED <<main, io, closed, place, doomed, unit, wrote, late, stops>>

ClientDies ==
  /\ Alive /\ doomed /\ client' = "killed"
  /\ UNCHANGED <<main, io, closed, place, doomed, unit, wrote, late, stops>>

TimePasses ==
  /\ client # "none" /\ ~late /\ late' = TRUE
  /\ UNCHANGED <<main, io, closed, place, client, doomed, unit, wrote, stops>>

-----------------------------------------------------------------------------
(* The threads *)

Steady == UNCHANGED <<main, closed, world, place, stops>>

\* Mutant of Enter: the error of reading a closed stream is swallowed.
EnterQuietly(s) ==
  /\ thread[s] = "ready"
  /\ thread' = [thread EXCEPT ![s] = IF s \notin closed THEN "inside" ELSE "ended"]
  /\ Steady /\ UNCHANGED <<taken, captured, overflow, errors>>

\* A closed stream cannot be read or written any more.
Enter(s) ==
  /\ thread[s] = "ready"
  /\ thread' = [thread EXCEPT ![s] = IF s \notin closed THEN "inside" ELSE "ended"]
  /\ errors' = (errors \/ (s \in closed /\ s \in Outputs))
  /\ Steady /\ UNCHANGED <<taken, captured, overflow>>

\* Mutant of Kept: a chunk that does not fit is kept whole.
KeptWhole(s, n) == n
\* Only what fits is kept of a chunk.
Kept(s, n) == Min({n, Limit - captured[s]})

\* read_stream: the next chunk, the end, or the overflow.
Take(s) ==
  /\ thread[s] = "inside"
  /\ LET left == wrote[s] - taken[s]
         n    == Min({left, Chunk})
     IN /\ left >= Chunk \/ ~Held
        /\ taken' = [taken EXCEPT ![s] = @ + n]
        /\ captured' = [captured EXCEPT ![s] = @ + Kept(s, n)]
        /\ IF n > Limit - captured[s]
             THEN /\ overflow' = IF overflow = "none" THEN s ELSE overflow
                  /\ thread' = [thread EXCEPT ![s] = "ended"]
             ELSE /\ thread' = [thread EXCEPT ![s] = IF n = 0 THEN "ended" ELSE "ready"]
                  /\ UNCHANGED overflow
  /\ Steady /\ UNCHANGED errors

\* A read fails.
TakeFails(s) ==
  /\ thread[s] = "inside" /\ errors' = TRUE
  /\ thread' = [thread EXCEPT ![s] = "ended"]
  /\ Steady /\ UNCHANGED <<taken, captured, overflow>>

\* write_stdin: all is read by the unit, or nobody is left to read it.
Written ==
  /\ thread["stdin"] = "inside" /\ (unit = "running" \/ ~Held)
  /\ thread' = [thread EXCEPT !["stdin"] = "ended"]
  /\ Steady /\ UNCHANGED <<taken, captured, overflow, errors>>

Threads == Written \/ (\E s \in Streams : Enter(s)) \/ (\E s \in Outputs : Take(s))

-----------------------------------------------------------------------------
(* The main thread *)

Return(r) == pc' = "returned" /\ result' = r
Goto(next) == pc' = next /\ UNCHANGED result

\* Mutant of StopProcess: the unit is stopped, and the client left to notice.
StopUnitOnly ==
  /\ stops' = stops + 1
  /\ unit' \in {unit, IF unit = "running" THEN "failed" ELSE unit}
  /\ UNCHANGED <<client, doomed, wrote, late>>

\* stop_process: the unit is stopped, which may fail, and the client killed, which may
\* take its time.
StopProcess ==
  /\ stops' = stops + 1 /\ doomed' = TRUE
  /\ unit' \in {unit, IF unit = "running" THEN "failed" ELSE unit}
  /\ UNCHANGED <<client, wrote, late>>

Quiet == UNCHANGED <<world, stops>>

\* The executables are attested again, and the directory is made and filled; any of it
\* may fail.  run_agent removes what is there then, the comparator's execute does not.
Prepare ==
  /\ pc = "prepare"
  /\ \/ runtime' = "keyed" /\ Goto("spawn")
     \/ /\ runtime' \in {"none", "made", "keyed"}
        /\ Return([kind |-> "unprepared"])
  /\ UNCHANGED <<timedOut, terminated, io, closed, caller>> /\ Quiet

Spawn ==
  /\ pc = "spawn"
  /\ \/ client' = "running" /\ Goto("callback")
     \/ client' = "none" /\ Return([kind |-> "unstarted"])
  /\ UNCHANGED <<timedOut, terminated, io, closed, place, doomed, unit, wrote, late, stops>>

\* on_started is called before anything is written.
CallBack ==
  /\ pc = "callback" /\ Goto("poll")
  /\ thread' = [s \in Streams |-> "ready"]
  /\ UNCHANGED <<timedOut, terminated, taken, captured, overflow, errors, closed, place>> /\ Quiet

CallBackFails ==
  /\ pc = "callback" /\ StopProcess
  /\ closed' = Streams
  /\ Return([kind |-> "refused"])
  /\ UNCHANGED <<timedOut, terminated, io, place>>

\* One iteration of the polling loop, when there is a reason to leave it.
Poll ==
  /\ pc = "poll"
  /\ \/ Ended /\ UNCHANGED timedOut
     \/ Alive /\ overflow # "none" /\ UNCHANGED timedOut
     \/ Alive /\ overflow = "none" /\ late /\ timedOut' = TRUE
  /\ Goto("check")
  /\ UNCHANGED <<terminated, io, closed, place>> /\ Quiet

Check ==
  /\ pc = "check" /\ Goto("wait")
  /\ IF Alive THEN StopProcess /\ terminated' = TRUE ELSE Quiet /\ UNCHANGED terminated
  /\ UNCHANGED <<timedOut, io, closed, place>>

\* process.wait, twice, with a second stop between; then the pipes of a process that
\* cannot be killed are closed.
Wait ==
  /\ pc \in {"wait", "wait again"}
  /\ IF Ended THEN Goto("join") /\ Quiet
     ELSE IF pc = "wait" THEN StopProcess /\ Goto("wait again")
     ELSE Goto("close early") /\ Quiet
  /\ UNCHANGED <<timedOut, terminated, io, closed, place>>

\* close waits for a thread that is inside its stream.
Closable(s) == thread[s] # "inside"

Close ==
  /\ pc \in {"close early", "close"}
  /\ IF closed = Streams
       THEN Goto(IF pc = "close" THEN "conclude" ELSE "join") /\ UNCHANGED closed
       ELSE /\ LET s == IF "stdin" \notin closed THEN "stdin"
                        ELSE IF "stdout" \notin closed THEN "stdout" ELSE "stderr"
               IN Closable(s) /\ closed' = closed \cup {s}
            /\ UNCHANGED <<pc, result>>
  /\ UNCHANGED <<timedOut, terminated, io, place>> /\ Quiet

\* The threads are joined until they end or the time for the cleanup is up.
Join ==
  /\ pc = "join" /\ Goto("close")
  /\ UNCHANGED <<timedOut, terminated, io, closed, place>> /\ Quiet

\* Mutant of Unclean: threads that still run are not looked at.
UncleanClient == ~Ended
Unclean == ~Ended \/ \E s \in Streams : thread[s] # "ended"

Conclude ==
  /\ pc = "conclude"
  /\ IF Unclean
       THEN Return([kind |-> "unclean"]) /\ Quiet
     ELSE IF overflow # "none"
       THEN /\ Return([kind |-> "overflow", stream |-> overflow,
                       bytes |-> captured[overflow]])
            /\ IF terminated THEN Quiet ELSE StopProcess
     ELSE IF timedOut THEN Return([kind |-> "timeout"]) /\ Quiet
     ELSE IF errors THEN Return([kind |-> "error"]) /\ Quiet
     ELSE Return([kind |-> "completed", status |-> client, bytes |-> captured]) /\ Quiet
  /\ UNCHANGED <<timedOut, terminated, io, closed, place>>

Unread == result.kind = "completed" /\ result.status = "ok"

\* Only a zero status is looked into, and an answer may still be no JSON.
Answer ==
  /\ pc = (IF caller = "agent" THEN "returned" ELSE "over") /\ Unread
  /\ \E valid \in BOOLEAN :
       result' = [result EXCEPT !.kind = IF valid THEN "accepted" ELSE "rejected"]
  /\ UNCHANGED <<pc, timedOut, terminated, io, closed, place>> /\ Quiet

\* The directory is removed when the caller is left, whichever way.
Tidies == caller = "agent" \/ result.kind # "unprepared"

Tidy ==
  /\ pc = "returned" /\ ~(caller = "agent" /\ Unread)
  /\ runtime' = IF Tidies /\ runtime # "none" THEN "removed" ELSE runtime
  /\ pc' = "over"
  /\ UNCHANGED <<timedOut, terminated, result, io, closed, caller>> /\ Quiet

Main ==
  \/ Prepare \/ Tidy \/ Spawn \/ CallBack \/ CallBackFails \/ Poll \/ Check \/ Wait \/ Close \/ Join
  \/ Conclude \/ Answer

World == UnitStarts \/ UnitWrites \/ UnitEnds \/ ClientEnds \/ ClientDies \/ TimePasses

Next == Main \/ Threads \/ (\E s \in Outputs : TakeFails(s)) \/ World

\* The scheduler runs every thread, the clock goes on, a killed process dies, and
\* RuntimeMaxSec with KillMode=control-group ends every unit.
Fairness ==
  /\ WF_vars(Main) /\ WF_vars(Threads)
  /\ WF_vars(TimePasses) /\ WF_vars(ClientDies) /\ WF_vars(UnitEnds)

Spec == Init /\ [][Next]_vars /\ Fairness

-----------------------------------------------------------------------------
(* Properties *)

Kinds == {"none", "unprepared", "unstarted", "refused", "unclean", "overflow", "timeout", "error",
          "completed", "accepted", "rejected"}

\* An accepted answer is everything the unit wrote, and the unit ended by itself: no
\* order of the client's end, the unit's end, the deadline and the readers hands on a
\* part of an answer, or the answer of a unit that was stopped.
AcceptedIsWhole ==
  result.kind = "accepted" =>
    /\ unit = "finished" /\ stops = 0
    /\ \A s \in Outputs : result.bytes[s] = wrote[s] /\ wrote[s] <= Limit

\* An overflow that is reported happened, and comes with the first Limit bytes; a timeout
\* is reported only past the deadline.
ReasonIsReal ==
  /\ result.kind = "overflow" =>
       wrote[result.stream] > Limit /\ result.bytes = Limit
  /\ result.kind = "timeout" => late /\ overflow = "none"

\* When the call gives up on a process that has not ended by itself, the unit has been
\* asked to stop; no call but an unclean one leaves a thread, a pipe or a client; and no
\* completed call leaves a unit, though only the client's end is waited for.
NothingStaysBehind ==
  /\ result.kind \in {"overflow", "refused"} \/ terminated => stops > 0
  /\ result.kind \in {"overflow", "timeout", "error", "completed", "accepted", "rejected"} =>
       Ended /\ closed = Streams /\ \A s \in Streams : thread[s] = "ended"
  /\ result.kind \in {"completed", "accepted", "rejected"} => unit # "running"

\* The call ends, whatever overflows, hangs or dies, since the unit ends some day; and the
\* copy of the credential is gone then, but for a comparator call that was never prepared.
CallEnds == <>(pc = "over" /\ (Tidies => runtime # "keyed"))
=============================================================================
