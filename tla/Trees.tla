--------------------------------- MODULE Trees ---------------------------------
(***************************************************************************)
(* Directory trees as skivolve/runner.py scans, reads, copies and compares  *)
(* them, in a worktree and in a Git commit.  A digest of a tree is the *)
(* tree's states themselves.  Of the limits of a tree the one on its entries *)
(* is modelled; sizes and depths are refused in the same way.               *)
(***************************************************************************)
EXTENDS Naturals, FiniteSets

CONSTANTS
  Bundle,      \* the paths of a bundle or a workspace
  Parent,      \* the directory of each of them, or Root
  Root,
  CacheDirs,   \* directories of generated caches
  Stray,       \* paths that are generated by their suffix
  Entry,       \* SKILL.md
  Context,     \* paths of context files, outside the bundle
  MaxEntries   \* MAX_TREE_ENTRIES

ASSUME TreesAssumption ==
  /\ DOMAIN Parent = Bundle /\ Stray \subseteq Bundle /\ Entry \in Bundle
  /\ Context \cap Bundle = {} /\ MaxEntries \in Nat

Paths == Bundle \cup Context

Absent == [type |-> "absent", content |-> "", exec |-> FALSE]
Link   == [type |-> "link", content |-> "target", exec |-> FALSE]
File(content, exec) == [type |-> "file", content |-> content, exec |-> exec]

IsFile(node) == node.type = "file"

\* A tree is what is at every path, and the directories it has.
Present(t) == {p \in Bundle : t.node[p] # Absent}

Dirs(files) == {Parent[p] : p \in files} \ {Root}

Tree(node, more) ==
  [node |-> node, dirs |-> more \cup Dirs({p \in Bundle : node[p] # Absent})]

State(node) == [content |-> node.content, exec |-> node.exec]

-----------------------------------------------------------------------------
(* _scan_tree, with its flags: to ignore generated caches, and empty         *)
(* directories.                                                              *)

Raw        == [caches |-> FALSE, empty |-> FALSE]
Cacheless  == [caches |-> TRUE, empty |-> FALSE]
Normalized == [caches |-> TRUE, empty |-> TRUE]

\* Directories of caches are not entered.
Visited(t, f) == {p \in Present(t) : ~(f.caches /\ Parent[p] \in CacheDirs)}

Kept(t, f) == {p \in Visited(t, f) : ~(f.caches /\ p \in Stray)}

Retained(t, f) ==
  IF f.empty THEN Dirs(Kept(t, f)) ELSE {d \in t.dirs : ~(f.caches /\ d \in CacheDirs)}

\* Links are refused before anything is ignored.
Scans(t, f) ==
  /\ \A p \in Visited(t, f) : IsFile(t.node[p])
  /\ Cardinality(Kept(t, f)) + Cardinality(Retained(t, f)) <= MaxEntries

ReadTree(t, f) == [p \in Kept(t, f) |-> State(t.node[p])]

\* A tree of the given files, as copies and snapshots leave it.
Materialize(states) ==
  Tree([p \in Paths |-> IF p \in DOMAIN states
                        THEN File(states[p].content, states[p].exec) ELSE Absent], {})

CopyTree(t, f) == Materialize(ReadTree(t, f))

-----------------------------------------------------------------------------
(* Git *)

Generated(p) == p \in Stray \/ Parent[p] \in CacheDirs

\* The entries of a commit below the prefix of the bundle.
Tracked(c) == {p \in Bundle : c[p] # Absent}

GitKept(c, caches) == {p \in Tracked(c) : ~(caches /\ Generated(p))}

GitScans(c, caches) ==
  /\ \A p \in Tracked(c) : IsFile(c[p])
  /\ Cardinality(GitKept(c, caches)) + Cardinality(Dirs(GitKept(c, caches))) <= MaxEntries
  /\ Entry \in GitKept(c, caches)

GitStates(c, caches) == [p \in GitKept(c, caches) |-> State(c[p])]

\* status --untracked-files=all, which does not name what .gitignore covers.
Dirty(t, c, ignored) ==
  \E p \in Paths : t.node[p] # c[p] /\ ~(c[p] = Absent /\ p \in ignored)

-----------------------------------------------------------------------------
(* Fingerprints of a source: its bundle, and its context files, of which only *)
(* the canonical one tells whether they are executable.                       *)

ContextStates(node, canonical) ==
  [p \in Context |-> [State(node[p]) EXCEPT !.exec = canonical /\ @]]

WorktreeFingerprint(t, f, canonical) ==
  [bundle |-> ReadTree(t, f), context |-> ContextStates(t.node, canonical)]

GitFingerprint(c, caches, canonical) ==
  [bundle |-> GitStates(c, caches), context |-> ContextStates(c, canonical)]
================================================================================
