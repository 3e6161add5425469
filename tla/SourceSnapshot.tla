----------------------------- MODULE SourceSnapshot -----------------------------
(***************************************************************************)
(* The source of a variant, from its preflight to the snapshot an agent is  *)
(* given: _preflight_variant and _materialize_source of skivolve/runner.py. *)
(* The source is a worktree, which must have the bytes of a commit and is   *)
(* copied file by file while somebody may edit it, or the commit of a ref.  *)
(* HoldoutRun has the same checks with a version in the place of the tree.  *)
(*                                                                         *)
(* A check that does not hold ends the run; so does a file that is gone     *)
(* when it is read.                                                         *)
(***************************************************************************)
EXTENDS Trees

CONSTANTS
  SourceCommits,   \* the commits there are
  SourceNodes,     \* what an edit can put at a path
  Ignored,         \* paths that .gitignore covers
  MaxTouches       \* bound on edits, new directories and commits

ASSUME SourceAssumption == \A c \in SourceCommits : c = [p \in Paths |-> c[p]]

VARIABLES
  variant,  \* its kind and the schema version of the suite
  repo,     \* HEAD, the commit of its ref, and the worktree
  source,     \* what preflight and materialization know, and the snapshot
  touches

sourceVars == <<variant, repo, source, touches>>

NoStates == [p \in {} |-> [content |-> "", exec |-> FALSE]]

Unbound == [at |-> "preflight", head |-> 0, expected |-> NoStates, todo |-> {},
            copied |-> NoStates, context |-> NoStates, still |-> TRUE, steady |-> TRUE]

Normal    == variant.schema >= 4
Canonical == variant.schema >= 5
Flags     == [caches |-> TRUE, empty |-> Normal]

SourceInit ==
  /\ variant \in [kind : {"worktree", "git_ref"}, schema : {3, 4, 5}]
  /\ \E head, ref \in SourceCommits :
       /\ variant.kind = "git_ref" => head = ref
       /\ repo = [head |-> head, moved |-> 0, ref |-> ref, work |-> Tree(head, {}),
                  edited |-> {}]
  /\ source = Unbound
  /\ touches = 0

-----------------------------------------------------------------------------
Touch(r) ==
  /\ variant.kind = "worktree" /\ touches < MaxTouches
  /\ source.at \notin {"off", "made"}
  /\ touches' = touches + 1 /\ repo' = r
  /\ source' = [source EXCEPT !.still = FALSE, !.steady = @ /\ r.moved = repo.moved]
  /\ UNCHANGED variant

\* No path is edited twice: nothing is changed back between two looks.
EditFile(p) ==
  \E node \in SourceNodes[p] \ {repo.work.node[p]} :
    /\ p \notin repo.edited
    /\ Touch([repo EXCEPT !.work = Tree([@.node EXCEPT ![p] = node], @.dirs),
                          !.edited = @ \cup {p}])

MakeEmptyDir(d) ==
  d \notin repo.work.dirs /\ Touch([repo EXCEPT !.work.dirs = @ \cup {d}])

\* Everything that is not ignored is committed.
CommitAll ==
  /\ Dirty(repo.work, repo.head, Ignored)
  /\ Touch([repo EXCEPT !.moved = @ + 1, !.head =
       [p \in Paths |-> IF repo.head[p] = Absent /\ p \in Ignored THEN Absent
                        ELSE repo.work.node[p]]])

-----------------------------------------------------------------------------
At(stage, s) == source.at = stage /\ source' = s /\ UNCHANGED <<variant, repo, touches>>

\* Context files of a worktree are regular; those of a commit only need to be there,
\* unless their mode is part of the fingerprint.
ContextReads(node) == \A p \in Context : IsFile(node[p])
ContextListed(c) == \A p \in Context : c[p] # Absent /\ (Canonical => IsFile(c[p]))

PreflightRef ==
  /\ variant.kind = "git_ref"
  /\ GitScans(repo.ref, Normal) /\ ContextListed(repo.ref)
  /\ At("preflight", [source EXCEPT !.at = "take"])

PreflightWorktree ==
  /\ variant.kind = "worktree"
  /\ ~Dirty(repo.work, repo.head, Ignored)
  /\ Scans(repo.work, Flags) /\ IsFile(repo.work.node[Entry])
  /\ ContextReads(repo.work.node)
  /\ GitScans(repo.ref, Normal) /\ ContextListed(repo.ref)
  /\ WorktreeFingerprint(repo.work, Flags, Canonical)
       = GitFingerprint(repo.ref, Normal, Canonical)
  /\ At("preflight", [source EXCEPT !.at = "check", !.head = repo.moved,
       !.expected = WorktreeFingerprint(repo.work, Flags, Canonical)])

\* HEAD is where it was, and the source is as it was.
CheckTree ==
  /\ repo.moved = source.head
  /\ Scans(repo.work, Flags) /\ ContextReads(repo.work.node)
  /\ WorktreeFingerprint(repo.work, Flags, Canonical) = source.expected
  /\ At("check", [source EXCEPT !.at = "list", !.still = TRUE, !.steady = TRUE])

\* _copy_tree lists the files, and then copies one after the other.
ListFiles ==
  /\ Scans(repo.work, Flags)
  /\ At("list", [source EXCEPT !.at = "copy", !.todo = Kept(repo.work, Flags)])

\* A link is copied as a link, which the scan of the snapshot refuses.
CopyFile(p) ==
  /\ p \in source.todo /\ IsFile(repo.work.node[p])
  /\ At("copy", [source EXCEPT !.todo = @ \ {p},
       !.copied = [q \in DOMAIN @ \cup {p} |->
                     IF q = p THEN State(repo.work.node[p]) ELSE @[q]]])

ReadContext ==
  /\ source.todo = {} /\ ContextReads(repo.work.node)
  /\ At("copy", [source EXCEPT !.at = "clean",
       !.context = ContextStates(repo.work.node, FALSE)])

\* Mutant of CheckCleanTree: git is not asked again.
CheckCleanTreeNot == At("clean", [source EXCEPT !.at = "made"])

\* Git must still call the source clean.
CheckCleanTree ==
  /\ ~Dirty(repo.work, repo.head, Ignored)
  /\ At("clean", [source EXCEPT !.at = "made"])

\* _materialize_git_bundle, from the commit that the ref named at the preflight.
TakeCommit ==
  At("take", [source EXCEPT !.at = "made", !.copied = GitStates(repo.ref, Normal),
    !.context = ContextStates(repo.ref, FALSE)])

SourceNext ==
  \/ \E p \in Paths : EditFile(p)
  \/ \E p \in Bundle : CopyFile(p)
  \/ \E d \in Dirs(Bundle) \cup {"gap"} : MakeEmptyDir(d)
  \/ CommitAll \/ PreflightRef \/ PreflightWorktree \/ CheckTree \/ ListFiles
  \/ ReadContext \/ CheckCleanTree \/ TakeCommit

SourceSpec == SourceInit /\ [][SourceNext]_sourceVars

-----------------------------------------------------------------------------
\* The snapshot of a source is the bundle of the commit its variant names, whether it
\* comes from a worktree or from Git, with caches left out and whatever directories
\* there are.  While a worktree is copied it may be edited; that goes unnoticed only
\* for files that Git ignores, or if HEAD moves too.
SnapshotIsCommit ==
  source.at = "made" =>
    LET want == GitStates(repo.ref, Normal)
        Hidden == {p \in Ignored : repo.head[p] = Absent}
        Open == IF source.still THEN {} ELSE Hidden
    IN  source.steady =>
          /\ \A p \in Bundle \ Open :
               /\ p \in DOMAIN source.copied <=> p \in DOMAIN want
               /\ p \in DOMAIN want => source.copied[p] = want[p]
          /\ \A p \in Context \ Open :
               source.context[p].content = ContextStates(repo.ref, FALSE)[p].content
================================================================================
