----------------------------- MODULE MCRunAdmission -----------------------------
(* Two attempts at the same holdout plan and a public run, in two roots; or  *)
(* one attempt alone, while its plan is prepared and its files are edited;   *)
(* or the snapshot of one source, with its trees; or one arm after its agent *)
(* has answered, with its verifier.                                          *)
EXTENDS HoldoutRun, SourceSnapshot, VerifierCell, TLC

CONSTANTS h1, h2, p1, x1, x2

MCRuns == {h1, h2, p1}
MCHoldout == {h1, h2}
MCJudged == {h1, p1}
MCRoots == {x1, x2}
MCWatchable == {h1, NoRun}
MCSymmetry == Permutations(MCRoots)

MCBundle == {"md", "extra", "cached", "stray", "log"}
MCParent == [md |-> "root", extra |-> "sub", cached |-> "cache", stray |-> "sub",
             log |-> "sub"]
MCCacheDirs == {"cache"}
MCStray == {"stray"}
MCContext == {"notes"}

Text  == File("text", FALSE)
Exec  == File("text", TRUE)
Other == File("other", FALSE)
Unended == File("open", FALSE)
Bytes == File("bytes", FALSE)

\* What the contents spell; "taken" is what a judge reads of "open" if it is changed
\* together with a file that comes after it.
MCPathOrder == <<"cached", "extra", "log", "md", "stray">>
MCWords == [text |-> <<<<"a">>, LF>>, other |-> <<<<"b">>, LF>>, open |-> <<<<"b">>>>,
  two |-> <<<<"a">>, LF, <<"b">>, LF>>, taken |-> <<<<"b">>, <<"diff --git", "md">>, LF>>]
    @@ ("" :> <<>>)

MCNodes == [md |-> {Absent, Text, Other}, extra |-> {Absent, Text, Exec, Link},
  cached |-> {Absent, Text, Link}, stray |-> {Absent, Text, Link}, log |-> {Absent, Text},
  notes |-> {Absent, Text, Exec, Link}]
MCIgnored == {"cached", "stray", "log"}

\* A commit, and what is the matter with it.
Commit == [md |-> Text, extra |-> Text, cached |-> Absent, stray |-> Absent,
           log |-> Absent, notes |-> Text]
MCCommits == {Commit} \cup
  {[Commit EXCEPT ![c[1]] = c[2]] : c \in
     {<<"extra", Exec>>, <<"extra", Link>>, <<"extra", Absent>>, <<"cached", Text>>,
      <<"cached", Link>>, <<"stray", Text>>, <<"log", Text>>, <<"md", Absent>>,
      <<"notes", Exec>>, <<"notes", Link>>}}

TreeOf(nodes) ==
  Tree([p \in Paths |-> IF p \in DOMAIN nodes THEN nodes[p] ELSE Absent], {})

MCFixtures == <<TreeOf([md |-> Text, extra |-> Text]), TreeOf([md |-> Text])>>

Crlf   == RawAnswer(<<"x", "cr", "lf", "x", "cr">>, NoJson)
Object == RawAnswer(<<"x">>, Json("object", <<<<"b", "text">>, <<"a", "text">>>>))
MCAnswers ==
  {[work |-> TreeOf(a[1]), output |-> a[2]] : a \in
     {<<[md |-> Text, extra |-> Text], Crlf>>, <<[md |-> Text, extra |-> Exec], Object>>,
      <<[md |-> Other, extra |-> Unended, stray |-> Text], [Crlf EXCEPT !.utf8 = FALSE]>>,
      <<[md |-> Bytes, cached |-> Text],
        RawAnswer(<<"x">>, Json("array", <<<<"0", "text">>, <<"0", "deep">>>>))>>,
      <<[md |-> Text, cached |-> Link], [Object EXCEPT !.bom = TRUE]>>,
      <<[md |-> Text, stray |-> Link],
        RawAnswer(<<"x">>, Json("object", <<<<"a", "text">>, <<"a", "text">>>>))>>}}

\* A patch that is given to a judge reads back as what ReadsBack allows and nothing else;
\* and of files whose lines all end with a newline, each tree has its own patch.
FilesOf(contents, execs) ==
  UNION {[paths -> [content : contents, exec : execs]] : paths \in SUBSET {"extra", "md"}}
PlainTrees == FilesOf({c \in DOMAIN MCWords : Plain(c)}, BOOLEAN)
ASSUME PatchAssumption ==
  /\ \A before \in FilesOf({"text", "open"}, {FALSE}),
        judged \in FilesOf({"text", "other", "open", "bytes"}, BOOLEAN),
        post \in FilesOf({"text", "other", "open", "taken"}, {FALSE}) :
       ReadsBack(before, judged, post)
  /\ \A before \in PlainTrees :
       Cardinality({DiffStates(before, after) : after \in PlainTrees}) = Cardinality(PlainTrees)

\* Line ends are normalised once and for all, and nothing else is lost.
Texts == UNION {[1..n -> {"x", "y", "cr", "lf"}] : n \in 0..5}
Rest(text) == SelectSeq(text, LAMBDA c : c \notin {"cr", "lf"})
Ends(text) == {k \in DOMAIN text :
  \/ text[k] = "lf"
  \/ text[k] = "cr" /\ (k < Len(text) => text[k + 1] # "lf")}
ASSUME LineFeedsAssumption ==
  \A text \in Texts :
    LET form == LineFeeds(text)
    IN  /\ \A k \in DOMAIN form : form[k] # "cr"
        /\ LineFeeds(form) = form /\ Rest(form) = Rest(text)
        /\ Cardinality(Ends(form)) = Cardinality(Ends(text))

\* One of the parts runs, and the others are off.
FixedAdmission == BindInit /\ watched = NoRun /\ there = {}
                    /\ rootOf = [r \in Runs |-> rootOf[h1]]
SourceOff == /\ variant = [kind |-> "git_ref", schema |-> 5]
             /\ repo = [head |-> Commit, moved |-> 0, ref |-> Commit,
                        work |-> TreeOf(Commit), edited |-> {}]
             /\ source = [Unbound EXCEPT !.at = "off"] /\ touches = 0
CellOff == /\ HostInit /\ prog = Nobody /\ current = 1 /\ unit = NoUnit
           /\ cell = NewCell("off", "workspace_diff")

parts == <<all, sourceVars, cellVars>>
admits == source.at = "off" /\ cell.at = "off"

PartsInit ==
  \/ BindInit /\ SourceOff /\ CellOff
  \/ FixedAdmission /\ SourceInit /\ CellOff
  \/ FixedAdmission /\ SourceOff /\ CellInit

PartsNext ==
  \/ admits /\ BindNext /\ UNCHANGED <<sourceVars, cellVars>>
  \/ source.at # "off" /\ SourceNext /\ UNCHANGED <<all, cellVars>>
  \/ cell.at # "off" /\ CellNext /\ UNCHANGED <<all, sourceVars>>

PartsSpec == PartsInit /\ [][PartsNext]_parts
=============================================================================
