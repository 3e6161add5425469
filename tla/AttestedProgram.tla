----------------------------- MODULE AttestedProgram -----------------------------
(***************************************************************************)
(* A program of the host that is run from a private copy, while somebody may *)
(* update it: in place, in two writes, or by renaming a new file over it.    *)
(*                                                                         *)
(* The bundle of a verifier (skivolve/runner.py) is attested at the         *)
(* preflight, opened again much later, and copied then; the copy is looked  *)
(* at once more after it was run.  An executable of a provider or a         *)
(* comparator (VerifiedExecutable in skivolve/comparator_runtime.py) is held *)
(* open, copied at once, and the installed file is looked at before every   *)
(* launch.  One program stands for the interpreter, the tools, and what GCC *)
(* derives from them: each is attested and copied in the same way.  A write *)
(* changes the identity of the file it writes to (its times).               *)
(***************************************************************************)
EXTENDS Naturals, Sequences

CONSTANT MaxUpdates   \* bound on updates of the program

ASSUME UpdatesAssumption == MaxUpdates \in Nat

VARIABLES
  host,   \* the program's path, its files, and whether an update is half-way
  had,    \* history: every content the program has had
  prog    \* what the harness has read of it, and its private copy

programVars == <<host, had, prog>>

Nobody == [at |-> "open", use |-> "bundle", file |-> 0, stamp |-> 0, read |-> <<>>,
           digest |-> <<>>, version |-> <<>>, copied |-> <<>>, copy |-> <<>>,
           launched |-> FALSE]

HostInit ==
  /\ host = [path |-> 1, files |-> <<[bytes |-> <<1, 1>>, stamp |-> 0]>>, half |-> FALSE,
             updates |-> 0]
  /\ had = {<<1, 1>>}

ProgramInit == HostInit /\ \E use \in {"bundle", "held"} : prog = [Nobody EXCEPT !.use = use]

-----------------------------------------------------------------------------
(* Updates *)

Updated(h) ==
  /\ host' = h /\ had' = had \cup {h.files[h.path].bytes} /\ UNCHANGED prog

Rename ==
  /\ ~host.half /\ host.updates < MaxUpdates
  /\ LET new == host.updates + 2
     IN  Updated([host EXCEPT !.updates = @ + 1, !.path = Len(host.files) + 1,
                              !.files = Append(@, [bytes |-> <<new, new>>, stamp |-> 0])])

WriteFirstHalf ==
  /\ ~host.half /\ host.updates < MaxUpdates
  /\ Updated([host EXCEPT !.updates = @ + 1, !.half = TRUE,
       !.files[host.path].bytes[1] = host.updates + 2, !.files[host.path].stamp = @ + 1])

WriteSecondHalf ==
  /\ host.half
  /\ Updated([host EXCEPT !.half = FALSE, !.files[host.path].stamp = @ + 1,
       !.files[host.path].bytes[2] = host.files[host.path].bytes[1]])

Update == Rename \/ WriteFirstHalf \/ WriteSecondHalf

-----------------------------------------------------------------------------
Reading(stage, p) == prog.at = stage /\ prog' = p /\ UNCHANGED <<host, had>>

Opened == prog.file # 0

\* _stat_identity, _file_identity
SameFile(file) ==
  Opened /\ file = prog.file /\ host.files[file].stamp = prog.stamp

\* Read the next half by the descriptor.
ReadHalf(stage, to) ==
  Opened /\ Reading(stage, [prog EXCEPT
    !.read = Append(@, host.files[prog.file].bytes[Len(prog.read) + 1]),
    !.at = IF Len(prog.read) = 1 THEN to ELSE @])

\* Attestation: open it, read it whole, ask it for its version and its parts, and see
\* that it is the file it was.
Open ==
  Reading("open", [prog EXCEPT !.at = "digest", !.file = host.path,
                               !.stamp = host.files[host.path].stamp])

ReadDigest ==
  ReadHalf("digest", IF prog.use = "bundle" THEN "ask" ELSE "same")

\* The source is asked by its descriptor, a program that is held by that of its copy.
Ask ==
  \/ Opened /\ Reading("ask", [prog EXCEPT !.at = "same", !.version = host.files[prog.file].bytes])
  \/ prog.use = "held" /\ Reading("ready", [prog EXCEPT !.at = "idle", !.version = prog.copy])

Attested ==
  /\ SameFile(prog.file)
  /\ Reading("same", [prog EXCEPT !.digest = prog.read, !.read = <<>>,
                       !.at = IF prog.use = "held" THEN "copy" ELSE "attested"])

\* The bundle is made: the file at the path must be the one that was attested, and
\* have the same bytes; then it is read once more, for the copy.
Reopen ==
  /\ SameFile(host.path)
  /\ Reading("attested", [prog EXCEPT !.at = "again"])

ReadAgain == ReadHalf("again", "equal")

Compare ==
  /\ prog.read = prog.digest
  /\ Reading("equal", [prog EXCEPT !.at = "copy", !.read = <<>>])

ReadCopy == ReadHalf("copy", "verify")

\* The copy has the digest of the attestation; a file held open must not have changed.
Verify ==
  /\ prog.read = prog.digest
  /\ prog.use = "held" => SameFile(prog.file)
  /\ Reading("verify", [prog EXCEPT !.at = "ready", !.copied = prog.read,
                                    !.copy = prog.read, !.read = <<>>])

\* _verify_executable_bundle
BundleHolds == prog.copy = prog.copied

\* ensure_source_unchanged, by descriptor and by path, before every launch.
Launch ==
  /\ SameFile(prog.file) /\ SameFile(host.path) /\ BundleHolds
  /\ Reading("idle", [prog EXCEPT !.launched = TRUE])

\* Another program changes the private copy.
SpoilCopy ==
  /\ prog.at \in {"ready", "idle"} /\ BundleHolds /\ ~prog.launched
  /\ Reading(prog.at, [prog EXCEPT !.copy = <<0, 0>>])

Attest == Open \/ ReadDigest \/ Ask \/ Attested
MakeCopy == Reopen \/ ReadAgain \/ Compare \/ ReadCopy \/ Verify

-----------------------------------------------------------------------------
\* What is copied for a run is what the program was, whole, at one moment; a version
\* that is reported was asked of the bytes with that digest; and what is launched are
\* the bytes that were asked.
RunsOneProgram ==
  /\ prog.copied # <<>> => prog.copied \in had
  /\ prog.use = "bundle" /\ prog.at \notin {"open", "digest", "ask", "same"}
       => prog.version = prog.digest
  /\ prog.launched => prog.copy \in had /\ prog.version = prog.copy
================================================================================
