-------------------------------- MODULE Patches --------------------------------
(***************************************************************************)
(* The patch that stands for an agent's work: _diff_states of               *)
(* skivolve/runner.py, and how calibration.py and git read it for a judge.  *)
(*                                                                         *)
(* A patch is one text, a sequence of words.  What a file spells is given   *)
(* by Words; a content that is not there is not UTF-8.  A line of a file    *)
(* goes into the patch as it is: if it has no newline, the next line of the *)
(* patch goes on where it stops.                                            *)
(***************************************************************************)
EXTENDS Trees, Sequences

LOCAL INSTANCE SequencesExt

CONSTANTS
  Words,      \* what the contents spell, for those that are text
  PathOrder   \* the paths of a bundle in the order of their names

ASSUME PatchesAssumption ==
  /\ \A c, d \in DOMAIN Words : Words[c] = Words[d] => c = d
  /\ DOMAIN PathOrder = 1..Cardinality(Bundle)
  /\ \A p \in Bundle : \E k \in DOMAIN PathOrder : PathOrder[k] = p

LF      == <<"newline">>
OtherLF == <<"form feed">>   \* any other end of a line that Python knows
Plus    == <<"+">>
Minus   == <<"-">>
Blank   == <<" ">>

Decodes(content) == content \in DOMAIN Words

-----------------------------------------------------------------------------
(* difflib *)

\* splitlines(keepends=True)
Lines(words) ==
  LET Ends == {k \in DOMAIN words : words[k] \in {LF, OtherLF} \/ k = Len(words)}
      end  == SetToSortSeq(Ends, <)
  IN  [i \in DOMAIN end |-> SubSeq(words, IF i = 1 THEN 1 ELSE end[i - 1] + 1, end[i])]

Marked(mark, lines) == FlattenSeq([k \in DOMAIN lines |-> <<mark>> \o lines[k]])

\* unified_diff of files that are shorter than its context and change in one place: what
\* they have in common at the beginning and at the end is kept.
UnifiedDiff(from, to, old, new) ==
  LET Common(s, t) == Len(LongestCommonPrefix({s, t}))
      a == Lines(old)
      b == Lines(new)
      n == Common(a, b)
      m == Common(Reverse(SubSeq(a, n + 1, Len(a))), Reverse(SubSeq(b, n + 1, Len(b))))
  IN  IF a = b THEN <<>>
      ELSE <<Minus, from, LF, Plus, to, LF, <<"@@", Len(a), Len(b)>>, LF>>
           \o Marked(Blank, SubSeq(a, 1, n))
           \o Marked(Minus, SubSeq(a, n + 1, Len(a) - m))
           \o Marked(Plus, SubSeq(b, n + 1, Len(b) - m))
           \o Marked(Blank, SubSeq(a, Len(a) - m + 1, Len(a)))

-----------------------------------------------------------------------------
(* _diff_states *)

Line(word) == <<word, LF>>
When(condition, text) == IF condition THEN text ELSE <<>>
ModeLine(p, from, to) == Line(<<"File mode changed:", p, from, to>>)

\* What is added for a path that is in one of the trees and not the same in both; the
\* first line may be missing.
Chunks(before, after, p, headed) ==
  LET was == p \in DOMAIN before
      is  == p \in DOMAIN after
      old == IF was THEN before[p].content ELSE ""
      new == IF is THEN after[p].content ELSE ""
  IN  IF ~Decodes(old) \/ ~Decodes(new) THEN Line(<<"Binary files differ:", p, old, new>>)
      ELSE When(headed, Line(<<"diff --git", p>>))
        \o When(~was, Line(<<"new file mode">>))
        \o When(~was /\ after[p].exec, ModeLine(p, FALSE, TRUE))
        \o When(~is, Line(<<"deleted file mode">>))
        \o UnifiedDiff(IF was THEN <<"-- a/", p>> ELSE <<"-- /dev/null">>,
                       IF is THEN <<"++ b/", p>> ELSE <<"++ /dev/null">>,
                       Words[old], Words[new])
        \o When(was /\ is /\ before[p].exec # after[p].exec,
                ModeLine(p, before[p].exec, after[p].exec))

Changed(before, after) ==
  {p \in DOMAIN before \cup DOMAIN after :
     p \in DOMAIN before /\ p \in DOMAIN after => before[p] # after[p]}

\* The chunks are joined, and the end of the last one is a newline.
Joined(before, after, headed) ==
  LET chunks == [k \in DOMAIN PathOrder |->
                   When(PathOrder[k] \in Changed(before, after),
                        Chunks(before, after, PathOrder[k], PathOrder[k] \in headed))]
      text == FlattenSeq(chunks)
  IN  text \o When(text # <<>> /\ text[Len(text)] # LF, <<LF>>)

DiffStates(before, after) == Joined(before, after, Bundle)

-----------------------------------------------------------------------------
(* The way to a judge *)

TextBase(before) ==
  before # <<>> /\ \A p \in DOMAIN before : Decodes(before[p].content) /\ ~before[p].exec

\* _comparator_base_files and _assert_runtime_pair_representable: text files that are not
\* executable, none of which is deleted.
Representable(before, patch) ==
  /\ TextBase(before) /\ patch # <<>>
  /\ \A k \in DOMAIN patch :
       patch[k][1] \notin {"++ /dev/null", "Binary files differ:", "File mode changed:"}

\* All lines end with a newline, and with nothing else.
Plain(content) ==
  /\ Decodes(content)
  /\ LET words == Words[content]
     IN  /\ words # <<>> => words[Len(words)] = LF
         /\ \A k \in DOMAIN words : words[k] # OtherLF

\* _validate_patch: git apply makes these files of a patch, which have no modes.  A line
\* that ends in another way, or not at all, is refused where it is removed or kept, and
\* never made; a change without lines is refused; and the first line of a file's chunks
\* may be missing.
ReadAs(before, patch, after) ==
  \E exec \in [DOMAIN after -> BOOLEAN], headed \in SUBSET DOMAIN after :
    LET told == [p \in DOMAIN after |-> [content |-> after[p].content, exec |-> exec[p]]]
    IN  /\ \A p \in Changed(before, told) :
             /\ p \in DOMAIN after => Plain(after[p].content)
             /\ p \in DOMAIN before => Plain(before[p].content)
             /\ p \in DOMAIN before /\ p \in DOMAIN after =>
                  before[p].content # after[p].content
        /\ Joined(before, told, headed) = patch

\* What a judge may read of the patch from one tree to another, if it is given the patch:
\* the files and modes of the other.  Only a last line without newline goes on, with a
\* newline, or with the header of a file that comes after it.
ReadsBack(before, judged, post) ==
  LET patch   == DiffStates(before, judged)
      headers == {Line(<<"diff --git", p>>) : p \in Changed(before, judged)}
  IN  Representable(before, patch) /\ ReadAs(before, patch, post) =>
        /\ DOMAIN post = DOMAIN judged
        /\ \A p \in DOMAIN post :
             /\ post[p].exec = judged[p].exec
             /\ \/ post[p] = judged[p]
                \/ \E more \in {<<LF>>} \cup headers :
                     LET words == Words[judged[p].content]
                     IN  words[Len(words)] # LF /\ Words[post[p].content] = words \o more
================================================================================
