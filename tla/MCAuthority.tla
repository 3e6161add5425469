------------------------------ MODULE MCAuthority ------------------------------
(* Two corpora, a rubric, a harness, and one whose suite names another baseline. *)
EXTENDS ComparatorAuthority, MCCorpora

MCCorpusNames == [good |-> GoodCorpus, other |-> OtherCorpus]

MCRubrics == [both |-> [c \in Criteria |-> IF c = c2 THEN "typed" ELSE "decisive"]]

MCFirst == [corpus |-> "good", rubric |-> "both", harness |-> "h1"]

Keys(p, sort) ==
  {k \in {p} \X (1..(IF p \in {"a1", "t1"} THEN 3 ELSE 1)) \X Orders :
     CASE sort = "always" -> TRUE
       [] sort = "AB" -> k[3] = "AB"
       [] sort = "once" -> k[2] = 1}

Deviating(p, sort, says) == [at |-> Keys(p, sort), says |-> says]

\* Overlooks a violation of a hard constraint, once or always; sees no winner, in one order
\* or in both; prefers the longer patch of a tie.
MCJudges ==
  {Deviating("a1", sort, OK("A", "tie")) : sort \in {"once", "always"}}
  \cup {Deviating("a2", sort, OK("tie", "tie")) : sort \in {"AB", "always"}}
  \cup {Deviating("t1", "always", OK("tie", "B"))}

\* The labels of the packaged corpus in small.
MCThinNames == [thin |-> ThinCorpus]
MCThinRubrics == [cautious |-> [c \in Criteria |-> IF c = c2 THEN "tie-only" ELSE "decisive"]]
MCThinFirst == [corpus |-> "thin", rubric |-> "cautious", harness |-> "h1"]
=============================================================================
