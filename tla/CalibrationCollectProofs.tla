------------------------ MODULE CalibrationCollectProofs ------------------------
(* First the spend ledger alone: its types and its safety, for every set of *)
(* calls, cap and ceiling, and every number of faults and crashes.  Then the *)
(* collector over it: the agreement of checkpoint and spend journal, for     *)
(* every release and every carried checkpoint.                               *)
EXTENDS CalibrationCollect, FiniteSetTheorems, SequenceTheorems, WellFoundedInduction, TLAPS

-----------------------------------------------------------------------------
(* Sums.  What a recursive definition computes is shown by its least          *)
(* counterexample: a set of numbers that is not empty has a least element.    *)

\* A nonempty set of numbers has a least element.
LEMMA Least ==
  ASSUME NEW T, T \subseteq Nat, T # {}
  PROVE  \E n \in T : \A m \in T : n <= m
<1> DEFINE R == OpToRel(<, Nat)
<1>1. IsWellFoundedOn(R, Nat)
  BY NatLessThanWellFounded
<1>2. \A m \in T, n \in T : m < n => <<m, n>> \in R
  BY DEF OpToRel
<1> HIDE DEF R
<1>3. \E n \in T : \A m \in T : ~(<<m, n>> \in R)
  BY <1>1, WFMin
<1>4. PICK n \in T : \A m \in T : ~(<<m, n>> \in R)
  BY <1>3
<1>5. ASSUME NEW m \in T PROVE n <= m
  <2>1. m \in Nat /\ n \in Nat /\ ~(m < n)
    BY <1>2, <1>4
  <2>2. QED
    BY <2>1
<1>6. QED
  BY <1>5

Picked(s) == CHOOSE x \in s : TRUE

Summed(g, f, S) ==
  g = [s \in SUBSET S |-> IF s = {} THEN 0 ELSE f[Picked(s)] + g[s \ {Picked(s)}]]

LEMMA PickedIn == ASSUME NEW s, s # {} PROVE Picked(s) \in s
  BY DEF Picked

LEMMA SmallerRest ==
  ASSUME NEW S, IsFiniteSet(S), NEW s \in SUBSET S, NEW x \in s
  PROVE  /\ Cardinality(s) \in Nat \ {0}
         /\ s \ {x} \in SUBSET S
         /\ Cardinality(s \ {x}) = Cardinality(s) - 1
<1>1. IsFiniteSet(s)
  BY FS_Subset
<1>2. Cardinality(s) \in Nat /\ Cardinality(s) # 0
  BY <1>1, FS_CardinalityType, FS_EmptySet
<1>3. Cardinality(s \ {x}) = Cardinality(s) - 1
  BY <1>1, FS_RemoveElement
<1>4. QED
  BY <1>2, <1>3

\* The summing function of finitely many numbers exists: else there were a
\* least size from which on no function sums the sets of that size.
LEMMA SummedExists ==
  ASSUME NEW S, IsFiniteSet(S), NEW f \in [S -> Nat]
  PROVE  \E g : Summed(g, f, S)
<1> DEFINE Step(g, s) == IF s = {} THEN 0 ELSE f[Picked(s)] + g[s \ {Picked(s)}]
           Sums(g, n) == \A s \in SUBSET S : Cardinality(s) <= n => g[s] = Step(g, s)
           Bad == {n \in Nat : ~\E g \in [SUBSET S -> Nat] : Sums(g, n)}
<1>1. \A s \in SUBSET S : IsFiniteSet(s) /\ Cardinality(s) \in Nat /\ Cardinality(s) <= Cardinality(S)
  BY FS_Subset, FS_CardinalityType
<1>2. \A s \in SUBSET S : s # {} => Picked(s) \in s /\ s \ {Picked(s)} \in SUBSET S
                                    /\ Cardinality(s \ {Picked(s)}) = Cardinality(s) - 1
                                    /\ Cardinality(s) # 0
  BY PickedIn, SmallerRest
<1> HIDE DEF Bad
<1>3. Bad = {}
  <2>1. SUFFICES ASSUME Bad # {} PROVE FALSE
    OBVIOUS
  <2>2. Bad \subseteq Nat
    BY DEF Bad
  <2>3. PICK n \in Bad : \A m \in Bad : n <= m
    BY <2>1, <2>2, Least
  <2>4. n \in Nat /\ ~\E g \in [SUBSET S -> Nat] : Sums(g, n)
    BY DEF Bad
  <2>5. CASE n = 0
    <3> DEFINE g == [s \in SUBSET S |-> 0]
    <3>1. g \in [SUBSET S -> Nat]
      OBVIOUS
    <3>2. ASSUME NEW s \in SUBSET S, Cardinality(s) <= 0 PROVE s = {}
      <4>1. Cardinality(s) = 0
        BY <1>1, <3>2
      <4>2. QED
        BY <1>2, <4>1
    <3>3. Sums(g, n)
      BY <2>5, <3>2
    <3> HIDE DEF g
    <3>4. QED
      BY <2>4, <3>1, <3>3
  <2>6. CASE n # 0
    <3>1. n - 1 \in Nat /\ n - 1 < n
      BY <2>4, <2>6
    <3>2. n - 1 \notin Bad
      BY <2>3, <2>4, <3>1
    <3>3. PICK h \in [SUBSET S -> Nat] : Sums(h, n - 1)
      BY <3>1, <3>2 DEF Bad
    <3> DEFINE g == [s \in SUBSET S |-> IF Cardinality(s) < n THEN h[s] ELSE Step(h, s)]
    <3>4. ASSUME NEW s \in SUBSET S PROVE Step(h, s) \in Nat
      <4>1. CASE s = {}
        BY <4>1
      <4>2. CASE s # {}
        <5>1. Picked(s) \in S /\ s \ {Picked(s)} \in SUBSET S
          BY <1>2, <4>2
        <5>2. f[Picked(s)] \in Nat /\ h[s \ {Picked(s)}] \in Nat
          BY <5>1
        <5>3. QED
          BY <4>2, <5>2
      <4>3. QED
        BY <4>1, <4>2
    <3>5. g \in [SUBSET S -> Nat]
      BY <3>4
    <3>6. ASSUME NEW s \in SUBSET S, Cardinality(s) <= n PROVE g[s] = Step(g, s)
      <4>1. g[s] = Step(h, s)
        <5>1. CASE Cardinality(s) < n
          <6>1. Cardinality(s) <= n - 1
            BY <1>1, <2>4, <5>1
          <6>2. QED
            BY <3>3, <5>1, <6>1
        <5>2. CASE ~(Cardinality(s) < n)
          BY <5>2
        <5>3. QED
          BY <5>1, <5>2
      <4>2. CASE s = {}
        BY <4>1, <4>2
      <4>3. CASE s # {}
        <5>1. s \ {Picked(s)} \in SUBSET S /\ Cardinality(s \ {Picked(s)}) < n
          BY <1>1, <1>2, <2>4, <3>6, <4>3
        <5>2. g[s \ {Picked(s)}] = h[s \ {Picked(s)}]
          BY <5>1
        <5> HIDE DEF g
        <5>3. QED
          BY <4>1, <4>3, <5>2
      <4>4. QED
        BY <4>2, <4>3
    <3> HIDE DEF g
    <3>7. QED
      BY <2>4, <3>5, <3>6
  <2>7. QED
    BY <2>5, <2>6
<1>4. Cardinality(S) \in Nat
  BY FS_CardinalityType
<1>5. PICK g \in [SUBSET S -> Nat] : Sums(g, Cardinality(S))
  BY <1>3, <1>4 DEF Bad
<1>6. \A s \in SUBSET S : g[s] = Step(g, s)
  BY <1>1, <1>5
<1>7. g = [s \in SUBSET S |-> Step(g, s)]
  BY <1>6
<1>8. QED
  BY <1>7 DEF Summed

\* A summing function takes natural numbers as values, and any element may be
\* the one that is taken out.
SumsUp(g, f, S) ==
  /\ g[{}] = 0
  /\ \A s \in SUBSET S : g[s] \in Nat /\ \A x \in s : g[s] = f[x] + g[s \ {x}]

LEMMA SummedFacts ==
  ASSUME NEW S, IsFiniteSet(S), NEW f \in [S -> Nat], NEW g, Summed(g, f, S)
  PROVE  SumsUp(g, f, S)
<1> DEFINE Fine(s) == g[s] \in Nat /\ \A x \in s : g[s] = f[x] + g[s \ {x}]
           Bad == {n \in Nat : \E s \in SUBSET S : Cardinality(s) = n /\ ~Fine(s)}
<1>1. \A s \in SUBSET S : g[s] = IF s = {} THEN 0 ELSE f[Picked(s)] + g[s \ {Picked(s)}]
  BY DEF Summed
<1>2. g[{}] = 0
  BY <1>1
<1>3. \A s \in SUBSET S : Cardinality(s) \in Nat
  BY FS_Subset, FS_CardinalityType
<1>4. Bad = {}
  <2>1. SUFFICES ASSUME Bad # {} PROVE FALSE
    OBVIOUS
  <2>2. PICK n \in Bad : \A m \in Bad : n <= m
    BY <2>1, Least
  <2>3. PICK s \in SUBSET S : Cardinality(s) = n /\ ~Fine(s)
    OBVIOUS
  <2>4. \A t \in SUBSET S : Cardinality(t) < n => Fine(t)
    BY <1>3, <2>2
  <2>5. ASSUME s = {} PROVE FALSE
    <3>1. g[s] = 0
      BY <1>2, <2>5
    <3>2. Fine(s)
      BY <2>5, <3>1
    <3>3. QED
      BY <2>3, <3>2
  <2> DEFINE c == Picked(s)
  <2>6. c \in s /\ g[s] = f[c] + g[s \ {c}]
    BY <1>1, <2>5, PickedIn
  <2> HIDE DEF c
  <2>7. Fine(s \ {c}) /\ f[c] \in Nat
    <3>1. s \ {c} \in SUBSET S /\ Cardinality(s \ {c}) = n - 1
      BY <2>3, <2>6, SmallerRest
    <3>2. n - 1 < n
      OBVIOUS
    <3>3. c \in S
      BY <2>6
    <3>4. QED
      BY <2>4, <3>1, <3>2, <3>3
  <2>8. g[s] \in Nat
    BY <2>6, <2>7
  <2>9. ASSUME NEW x \in s PROVE g[s] = f[x] + g[s \ {x}]
    <3>1. CASE x = c
      BY <2>6, <3>1
    <3>2. CASE x # c
      <4>1. Fine(s \ {x})
        BY <2>3, <2>4, SmallerRest
      <4> DEFINE u == s \ {c}
                 v == s \ {x}
      <4>2. x \in u /\ c \in v /\ u \ {x} = v \ {c}
        BY <2>6, <3>2
      <4>3. u \in SUBSET S /\ Cardinality(u) = n - 1 /\ n \in Nat \ {0}
        BY <2>3, <2>6, SmallerRest
      <4>10. Fine(u) /\ Fine(v)
        BY <2>7, <4>1
      <4> HIDE DEF u, v
      <4>4. u \ {x} \in SUBSET S /\ Cardinality(u \ {x}) = n - 1 - 1
        BY <4>2, <4>3, SmallerRest
      <4>5. Fine(u \ {x})
        <5>1. Cardinality(u \ {x}) < n
          BY <4>3, <4>4
        <5> HIDE DEF Fine
        <5>2. QED
          BY <2>4, <4>4, <5>1
      <4>6. g[u] = f[x] + g[u \ {x}] /\ g[v] = f[c] + g[u \ {x}]
        BY <4>2, <4>10
      <4>7. f[x] \in Nat /\ g[u \ {x}] \in Nat /\ g[s] = f[c] + g[u]
        BY <2>6, <4>5 DEF u
      <4>8. g[s] = f[x] + g[v]
        BY <2>7, <4>6, <4>7
      <4>9. QED
        BY <4>8 DEF v
    <3>3. QED
      BY <3>1, <3>2
  <2>10. QED
    BY <2>3, <2>8, <2>9
<1>5. QED
  BY <1>2, <1>3, <1>4 DEF SumsUp

LEMMA SumDef ==
  ASSUME NEW S, NEW f \in [S -> Nat]
  PROVE  Sum(f) = (CHOOSE g : Summed(g, f, S))[S]
  BY DEF Sum, FoldFunction, FoldFunctionOnSet, MapThenFoldSet, Summed, Picked

\* A sum is a summing function's value for the whole set.
LEMMA SumIs ==
  ASSUME NEW S, IsFiniteSet(S), NEW f \in [S -> Nat]
  PROVE  \E g : Summed(g, f, S) /\ Sum(f) = g[S]
<1> DEFINE g == CHOOSE g : Summed(g, f, S)
<1>1. Summed(g, f, S)
  BY SummedExists
<1>2. QED
  BY <1>1, SumDef

\* What is larger everywhere has the larger sum.
LEMMA SummedMonotone ==
  ASSUME NEW S, IsFiniteSet(S), NEW f \in [S -> Nat], NEW h \in [S -> Nat],
         NEW g, Summed(g, f, S), NEW k, Summed(k, h, S),
         NEW s \in SUBSET S, \A x \in s : f[x] <= h[x]
  PROVE  g[s] <= k[s]
<1> DEFINE Bad == {n \in Nat : \E t \in SUBSET s : Cardinality(t) = n /\ ~(g[t] <= k[t])}
<1>1. \A t \in SUBSET s : Cardinality(t) \in Nat
  BY FS_Subset, FS_CardinalityType
<1>2. Bad = {}
  <2>1. SUFFICES ASSUME Bad # {} PROVE FALSE
    OBVIOUS
  <2>2. PICK n \in Bad : \A m \in Bad : n <= m
    BY <2>1, Least
  <2>3. PICK t \in SUBSET s : Cardinality(t) = n /\ ~(g[t] <= k[t])
    OBVIOUS
  <2>4. SumsUp(g, f, S) /\ SumsUp(k, h, S)
    BY SummedFacts
  <2>5. PICK x : x \in t
    <3>1. g[{}] = 0 /\ k[{}] = 0
      BY <2>4 DEF SumsUp
    <3>2. t # {}
      BY <2>3, <3>1
    <3>3. QED
      BY <3>2
  <2>6. t \in SUBSET S /\ n \in Nat \ {0} /\ t \ {x} \in SUBSET S /\ Cardinality(t \ {x}) = n - 1
    BY <2>3, <2>5, SmallerRest
  <2>7. g[t \ {x}] <= k[t \ {x}]
    BY <1>1, <2>2, <2>6
  <2>9. /\ g[t] = f[x] + g[t \ {x}] /\ g[t \ {x}] \in Nat
        /\ k[t] = h[x] + k[t \ {x}] /\ k[t \ {x}] \in Nat
    BY <2>4, <2>5, <2>6 DEF SumsUp
  <2>10. f[x] \in Nat /\ h[x] \in Nat /\ f[x] <= h[x]
    BY <2>5
  <2>11. QED
    BY <2>3, <2>7, <2>9, <2>10
<1>3. QED
  BY <1>1, <1>2

\* The three facts about sums that the proofs below use.
LEMMA SumMonotone ==
  ASSUME NEW S, IsFiniteSet(S), NEW f \in [S -> Nat], NEW h \in [S -> Nat],
         \A x \in S : f[x] <= h[x]
  PROVE  Sum(f) \in Nat /\ Sum(h) \in Nat /\ Sum(f) <= Sum(h)
<1>1. PICK g : Summed(g, f, S) /\ Sum(f) = g[S]
  BY SumIs
<1>2. PICK k : Summed(k, h, S) /\ Sum(h) = k[S]
  BY SumIs
<1>3. S \in SUBSET S
  OBVIOUS
<1>4. SumsUp(g, f, S) /\ SumsUp(k, h, S)
  BY <1>1, <1>2, SummedFacts
<1>5. g[S] <= k[S]
  BY <1>1, <1>2, <1>3, SummedMonotone
<1>6. QED
  BY <1>1, <1>2, <1>3, <1>4, <1>5 DEF SumsUp

\* When one value changes, the sum changes by as much.
LEMMA SumChange ==
  ASSUME NEW S, IsFiniteSet(S), NEW f \in [S -> Nat], NEW h \in [S -> Nat],
         NEW x \in S, \A y \in S \ {x} : f[y] = h[y]
  PROVE  Sum(f) \in Nat /\ Sum(h) \in Nat /\ Sum(f) + h[x] = Sum(h) + f[x]
<1>1. PICK g : Summed(g, f, S) /\ Sum(f) = g[S]
  BY SumIs
<1>2. PICK k : Summed(k, h, S) /\ Sum(h) = k[S]
  BY SumIs
<1>3. S \in SUBSET S /\ S \ {x} \in SUBSET S
  OBVIOUS
<1>4. SumsUp(g, f, S) /\ SumsUp(k, h, S)
  BY <1>1, <1>2, SummedFacts
<1>5. /\ g[S] = f[x] + g[S \ {x}] /\ g[S \ {x}] \in Nat
      /\ k[S] = h[x] + k[S \ {x}] /\ k[S \ {x}] \in Nat
  BY <1>3, <1>4 DEF SumsUp
<1>6. \A y \in S \ {x} : f[y] <= h[y] /\ h[y] <= f[y]
  OBVIOUS
<1>7. g[S \ {x}] <= k[S \ {x}] /\ k[S \ {x}] <= g[S \ {x}]
  BY <1>1, <1>2, <1>3, <1>6, SummedMonotone
<1>8. f[x] \in Nat /\ h[x] \in Nat
  OBVIOUS
<1>9. QED
  BY <1>1, <1>2, <1>5, <1>7, <1>8

\* Nothing adds up to nothing.
LEMMA SumZero ==
  ASSUME NEW S, IsFiniteSet(S), NEW f \in [S -> Nat], \A x \in S : f[x] = 0
  PROVE  Sum(f) = 0
<1>1. PICK g : Summed(g, f, S) /\ Sum(f) = g[S]
  BY SumIs
<1>2. SumsUp(g, f, S)
  BY <1>1, SummedFacts
<1> DEFINE Bad == {n \in Nat : \E s \in SUBSET S : Cardinality(s) = n /\ g[s] # 0}
<1>3. Bad = {}
  <2>1. SUFFICES ASSUME Bad # {} PROVE FALSE
    OBVIOUS
  <2>2. PICK n \in Bad : \A m \in Bad : n <= m
    BY <2>1, Least
  <2>3. PICK s \in SUBSET S : Cardinality(s) = n /\ g[s] # 0
    OBVIOUS
  <2>4. PICK x : x \in s
    BY <1>2, <2>3 DEF SumsUp
  <2>5. n \in Nat \ {0} /\ s \ {x} \in SUBSET S /\ Cardinality(s \ {x}) = n - 1
    BY <2>3, <2>4, SmallerRest
  <2>6. g[s \ {x}] = 0
    BY <2>2, <2>5
  <2>7. g[s] = f[x] + g[s \ {x}] /\ f[x] = 0
    BY <1>2, <2>4 DEF SumsUp
  <2>8. QED
    BY <2>3, <2>6, <2>7
<1>4. Cardinality(S) \in Nat
  BY FS_CardinalityType
<1>5. QED
  BY <1>1, <1>2, <1>3, <1>4
-----------------------------------------------------------------------------
(* Facts about lines *)

Line == Record \cup {Junk}

\* A spoilt line is no record of any attempt.
LEMMA JunkFacts == ASSUME NEW c PROVE ~Opens(Junk, c) /\ ~Closes(Junk, c)
  BY DEF Junk, Opens, Closes

\* A prefix of the lines agrees with them line by line.
LEMMA UptoFacts ==
  ASSUME NEW s \in Seq(Line), NEW n \in 0..Len(s)
  PROVE  /\ Upto(s, n) \in Seq(Line)
         /\ Len(Upto(s, n)) = n
         /\ DOMAIN Upto(s, n) = 1..n
         /\ \A i \in 1..n : Upto(s, n)[i] = s[i]
<1>1. CASE n = 0
  BY <1>1, SubSeqEmpty DEF Upto
<1>2. CASE n # 0
  <2>1. \A i \in 1..n : s[i] \in Line
    OBVIOUS
  <2>2. QED
    BY <1>2, <2>1, SubSeqProperties DEF Upto
<1>3. QED
  BY <1>1, <1>2

\* A record that is written behind an unfinished line spoils that line, and no
\* other; the lines an fsync has covered stay what they are.
LEMMA WrittenFacts ==
  ASSUME TypeOK, FileInv, NEW r \in Record
  PROVE  /\ Written(r) \in Seq(Line)
         /\ Len(Written(r)) > synced /\ Len(Written(r)) >= Len(lines)
         /\ Written(r)[Len(Written(r))] \in {Junk, r}
         /\ \A i \in 1..(Len(Written(r)) - 1) : i \in DOMAIN lines /\ Written(r)[i] = lines[i]
<1>0. lines \in Seq(Line) /\ synced \in 0..Len(lines)
  BY DEF TypeOK, Line
<1>1. CASE ended
  <2>1. Written(r) = Append(lines, r)
    BY <1>1 DEF Written
  <2>2. r \in Line
    BY DEF Line
  <2>3. /\ Append(lines, r) \in Seq(Line)
        /\ Len(Append(lines, r)) = Len(lines) + 1
        /\ Append(lines, r)[Len(lines) + 1] = r
        /\ \A i \in 1..Len(lines) : Append(lines, r)[i] = lines[i]
    BY <1>0, <2>2
  <2>4. QED
    BY <1>0, <2>1, <2>3
<1>2. CASE ~ended
  <2>1. Written(r) = [lines EXCEPT ![Len(lines)] = Junk]
    BY <1>2 DEF Written
  <2>2. synced < Len(lines) /\ Len(lines) \in 1..Len(lines)
    BY <1>0, <1>2 DEF FileInv
  <2>3. Junk \in Line
    BY DEF Line
  <2>4. QED
    BY <1>0, <2>1, <2>2, <2>3, ExceptSeq
<1>3. QED
  BY <1>1, <1>2

-----------------------------------------------------------------------------
(* What an append does to the file, whether it returns or raises *)

\* The last line is new; it is the record or spoilt.
Adds(r) ==
  /\ Len(lines') \in Nat \ {0}
  /\ Len(lines') >= Len(lines)
  /\ lines'[Len(lines')] \in {Junk, r}
  /\ \A i \in 1..(Len(lines') - 1) : i \in DOMAIN lines /\ lines'[i] = lines[i]

FileTypes ==
  /\ exists \in BOOLEAN /\ ended \in BOOLEAN /\ linked \in BOOLEAN /\ lost \in BOOLEAN
  /\ lines \in Seq(Line)
  /\ synced \in 0..Len(lines)
  /\ identity \in {"none", "match", "stale"}

\* The lines an fsync has covered are kept, and no other line is invented.
Grows(r) ==
  /\ FileTypes' /\ FileInv'
  /\ synced <= synced'
  /\ \A i \in 1..synced : lines'[i] = lines[i]
  /\ lost' = lost
  /\ lines' = lines \/ Adds(r)

\* That is what writing the record does.
LEMMA WrittenAdds ==
  ASSUME TypeOK, FileInv, NEW r \in Record, lines' = Written(r)
  PROVE  /\ Adds(r) /\ lines' \in Seq(Line) /\ Len(lines') > synced
         /\ \A i \in 1..synced : lines'[i] = lines[i]
<1>1. /\ lines' \in Seq(Line)
      /\ Len(lines') > synced /\ Len(lines') >= Len(lines)
      /\ lines'[Len(lines')] \in {Junk, r}
      /\ \A i \in 1..(Len(lines') - 1) : i \in DOMAIN lines /\ lines'[i] = lines[i]
  BY WrittenFacts
<1>2. synced \in Nat /\ Len(lines') \in Nat
  <2>1. synced \in Nat
    BY DEF TypeOK
  <2>2. QED
    BY <1>1, <2>1, LenProperties
<1>3. Adds(r)
  BY <1>1, <1>2 DEF Adds
<1>4. \A i \in 1..synced : i \in 1..(Len(lines') - 1)
  BY <1>1, <1>2
<1>5. QED
  BY <1>1, <1>3, <1>4

\* So does a line of its own behind a finished one.
LEMMA AppendAdds ==
  ASSUME TypeOK, FileInv, NEW r, NEW l \in {r, Junk}, r \in Record, lines' = Append(lines, l)
  PROVE  /\ Adds(r) /\ lines' \in Seq(Line) /\ Len(lines') > synced
         /\ \A i \in 1..synced : lines'[i] = lines[i]
<1>1. lines \in Seq(Line) /\ l \in Line /\ synced \in 0..Len(lines) /\ Len(lines) \in Nat
  BY DEF TypeOK, Line
<1>2. /\ lines' \in Seq(Line) /\ Len(lines') = Len(lines) + 1
      /\ lines'[Len(lines) + 1] = l
      /\ \A i \in 1..Len(lines) : i \in DOMAIN lines /\ lines'[i] = lines[i]
  BY <1>1
<1>3. Adds(r)
  BY <1>1, <1>2 DEF Adds
<1>4. \A i \in 1..synced : i \in 1..Len(lines)
  BY <1>1
<1>5. QED
  BY <1>1, <1>2, <1>3, <1>4

\* An append that returns has made its line durable.
LEMMA WorksGrows ==
  ASSUME TypeOK, FileInv, NEW r \in Record, AppendWorks(r)
  PROVE  Grows(r) /\ Adds(r) /\ synced' = Len(lines') /\ identity' = "match" /\ identity # "stale"
<1>1. /\ lines' = Written(r) /\ synced' = Len(lines') /\ ended' = TRUE /\ exists' = TRUE
      /\ linked' = (linked \/ ~exists) /\ lost' = lost /\ identity' = "match" /\ identity # "stale"
  BY DEF AppendWorks, Writable
<1>2. /\ Adds(r) /\ lines' \in Seq(Line) /\ Len(lines') > synced
      /\ \A i \in 1..synced : lines'[i] = lines[i]
  BY <1>1, WrittenAdds
<1>3. FileTypes'
  <2>1. linked' \in BOOLEAN /\ lost' \in BOOLEAN /\ Len(lines') \in Nat
    BY <1>1, <1>2, LenProperties DEF TypeOK
  <2>2. QED
    BY <1>1, <1>2, <2>1 DEF FileTypes
<1>4. FileInv'
  BY <1>1 DEF FileInv
<1>5. synced <= synced'
  BY <1>1, <1>2 DEF TypeOK
<1>6. QED
  BY <1>1, <1>2, <1>3, <1>4, <1>5 DEF Grows

\* An append that raises may leave its line, whole or spoilt; if it does, the
\* ledger has lost track of a file it knew.
LEMMA FailsGrows ==
  ASSUME TypeOK, FileInv, NEW r \in Record, AppendFails(r)
  PROVE  /\ Grows(r)
         /\ faults' \in 0..MaxFaults
         /\ identity' = "none" => identity = "none"
         /\ exists /\ identity' = "match" => lines' = lines /\ identity = "match"
         /\ identity = "stale" => lines' = lines
<1>1. CASE ~Writable /\ UNCHANGED <<file, identity, faults>>
  BY <1>1 DEF Grows, FileTypes, FileInv, TypeOK, file, Line
<1>0. ASSUME Fault PROVE faults' \in 0..MaxFaults
  BY <1>0, BoundsAssumption DEF Fault, TypeOK
<1>2. CASE FailsBefore /\ Fault /\ Writable
  <2>1. /\ exists' \in {exists, TRUE} /\ lines' = lines /\ ended' = ended /\ synced' = synced
        /\ linked' = linked /\ lost' = lost /\ identity' = identity
    BY <1>2 DEF FailsBefore
  <2>2. FileTypes'
    BY <2>1 DEF FileTypes, TypeOK, Line
  <2>3. FileInv'
    BY <2>1 DEF FileInv
  <2>4. synced <= synced'
    BY <2>1 DEF TypeOK
  <2>5. QED
    BY <1>0, <1>2, <2>1, <2>2, <2>3, <2>4 DEF Grows
<1>3. ASSUME Fault, Spoilt, Writable, exists' = TRUE, lost' = lost, linked' = linked, ended' \in BOOLEAN,
             synced' \in synced..Len(lines'), ended' = FALSE => synced' = synced,
             Adds(r) /\ lines' \in Seq(Line) /\ Len(lines') > synced,
             \A i \in 1..synced : lines'[i] = lines[i]
      PROVE  /\ Grows(r) /\ faults' \in 0..MaxFaults
             /\ identity' = "none" => identity = "none"
             /\ identity' # "match" /\ identity # "stale"
  <2>1. synced \in Nat /\ synced <= synced' /\ synced' \in 0..Len(lines')
    BY <1>3, LenProperties DEF TypeOK
  <2>2. identity' \in {"none", "stale"} /\ (identity' = "none" => identity = "none")
    BY <1>3 DEF Spoilt
  <2>3. FileTypes'
    BY <1>3, <2>1, <2>2 DEF FileTypes, TypeOK
  <2>4. FileInv'
    BY <1>3, <2>1 DEF FileInv
  <2>5. QED
    BY <1>0, <1>3, <2>1, <2>2, <2>3, <2>4 DEF Grows, Writable
<1>4. CASE FailsWriting(r) /\ Fault /\ Writable
  <2>1. /\ Spoilt /\ exists' = TRUE /\ ended' = FALSE
        /\ synced' = synced /\ lost' = lost /\ linked' = linked
    BY <1>4 DEF FailsWriting
  <2>2. lines' = Written(r) \/ \E l \in {r, Junk} : lines' = Append(lines, l)
    BY <1>4 DEF FailsWriting
  <2>3. /\ Adds(r) /\ lines' \in Seq(Line) /\ Len(lines') > synced
        /\ \A i \in 1..synced : lines'[i] = lines[i]
    BY <2>2, WrittenAdds, AppendAdds
  <2>4. synced' \in synced..Len(lines')
    BY <2>1, <2>3, LenProperties DEF TypeOK
  <2>5. QED
    BY <1>3, <1>4, <2>1, <2>3, <2>4
<1>5. CASE FailsSyncing(r) /\ Fault /\ Writable
  <2>1. /\ Spoilt /\ exists' = TRUE /\ ended' = TRUE /\ lines' = Written(r)
        /\ synced' \in {synced, Len(lines')} /\ lost' = lost /\ linked' = linked
    BY <1>5 DEF FailsSyncing
  <2>2. /\ Adds(r) /\ lines' \in Seq(Line) /\ Len(lines') > synced
        /\ \A i \in 1..synced : lines'[i] = lines[i]
    BY <2>1, WrittenAdds
  <2>3. synced' \in synced..Len(lines')
    BY <2>1, <2>2, LenProperties DEF TypeOK
  <2>4. QED
    BY <1>3, <1>5, <2>1, <2>2, <2>3
<1>6. CASE FailsLinking(r) /\ Fault /\ Writable
  <2>1. /\ ~exists /\ exists' = TRUE /\ ended' = TRUE /\ lines' = Written(r)
        /\ synced' = Len(lines') /\ identity' = "match" /\ lost' = lost /\ linked' = linked
    BY <1>6 DEF FailsLinking
  <2>2. /\ Adds(r) /\ lines' \in Seq(Line) /\ Len(lines') > synced
        /\ \A i \in 1..synced : lines'[i] = lines[i]
    BY <2>1, WrittenAdds
  <2>3. synced' \in 0..Len(lines') /\ synced <= synced'
    BY <2>1, <2>2, LenProperties DEF TypeOK
  <2>4. FileTypes' /\ FileInv'
    BY <2>1, <2>2, <2>3 DEF FileTypes, FileInv, TypeOK
  <2>5. QED
    BY <1>0, <1>6, <2>1, <2>2, <2>3, <2>4 DEF Grows, Writable
<1>7. QED
  BY <1>1, <1>2, <1>4, <1>5, <1>6 DEF AppendFails
-----------------------------------------------------------------------------
(* What an append does to the invariant *)

\* What a replay demands, as far as it gets.
InOrder ==
  \A i \in DOMAIN lines : \A c \in Attempts :
    (\A j \in 1..i : lines[j] # Junk) => Ordered(lines, i, c)

\* A record that the journal is ready for.
Follows(r) ==
  \A c \in Attempts :
    /\ Opens(r, c)  => \A i \in DOMAIN lines : ~Opens(lines[i], c)
    /\ Closes(r, c) => Kept(c) /\ \A i \in DOMAIN lines : ~Closes(lines[i], c)

\* A durable line stays, so a reservation that is kept remains so.
LEMMA KeptStep ==
  ASSUME TypeOK, NEW r, Grows(r), NEW c, Kept(c)
  PROVE  Kept(c)'
<1>1. PICK i \in 1..synced : Opens(lines[i], c) \/ lines[i] = Junk
  BY DEF Kept
<1>2. synced \in Nat /\ synced' \in Nat /\ synced <= synced' /\ lines'[i] = lines[i]
  BY <1>1 DEF Grows, FileTypes, TypeOK
<1>3. i \in 1..synced'
  BY <1>1, <1>2
<1>4. QED
  BY <1>1, <1>2, <1>3 DEF Kept, Junk

\* A reservation is in the file, so the file is there.
LEMMA KeptExists ==
  ASSUME TypeOK, FileInv, NEW c, Kept(c)
  PROVE  exists
<1>1. PICK i \in 1..synced : TRUE
  BY DEF Kept
<1>2. synced \in 0..Len(lines) /\ Len(lines) # 0
  BY <1>1, LenProperties DEF TypeOK
<1>3. QED
  BY <1>2 DEF FileInv

\* The lines stay in order when the new one is ready to follow.
LEMMA OrderGrows ==
  ASSUME TypeOK, InOrder, NEW r \in Record, Grows(r), lines' = lines \/ Follows(r)
  PROVE  InOrder'
<1>1. CASE lines' = lines
  BY <1>1 DEF InOrder
<1>2. CASE Adds(r) /\ Follows(r)
  <2>1. SUFFICES ASSUME NEW i \in DOMAIN lines', NEW c \in Attempts,
                        \A j \in 1..i : lines'[j] # Junk
                 PROVE  Ordered(lines', i, c)
    BY DEF InOrder
  <2>2. DOMAIN lines' = 1..Len(lines') /\ DOMAIN lines = 1..Len(lines) /\ i \in Nat
        /\ Len(lines) \in Nat /\ Len(lines') \in Nat
    BY LenProperties DEF Grows, FileTypes, TypeOK
  <2>3. \A j \in 1..(i - 1) : j \in DOMAIN lines /\ lines'[j] = lines[j]
    BY <1>2, <2>2 DEF Adds
  <2>4. CASE i # Len(lines')
    <3>1. i \in DOMAIN lines /\ lines'[i] = lines[i]
      BY <1>2, <2>2, <2>4 DEF Adds
    <3>2. \A j \in 1..i : lines[j] # Junk
      BY <2>1, <2>2, <2>3, <3>1
    <3>3. Ordered(lines, i, c)
      BY <3>1, <3>2 DEF InOrder
    <3>4. QED
      BY <2>3, <3>1, <3>3 DEF Ordered
  <2>5. CASE i = Len(lines')
    <3>1. lines'[i] = r
      BY <1>2, <2>1, <2>2, <2>5 DEF Adds
    <3>2. Opens(lines'[i], c) => ~\E j \in 1..(i-1) : Opens(lines'[j], c)
      BY <1>2, <2>3, <3>1 DEF Follows
    <3>3. ASSUME Closes(r, c) PROVE \E j \in 1..(i-1) : Opens(lines'[j], c)
      <4>1. PICK j \in 1..synced : Opens(lines[j], c) \/ lines[j] = Junk
        BY <1>2, <3>3 DEF Follows, Kept
      <4>2. synced \in Nat /\ synced <= Len(lines')
        BY <2>2 DEF Grows, FileTypes, TypeOK
      <4>3. j \in 1..i /\ lines'[j] = lines[j]
        BY <2>5, <4>1, <4>2 DEF Grows
      <4>4. Opens(lines'[j], c)
        BY <2>1, <4>1, <4>3
      <4>5. j # i
        BY <3>1, <3>3, <4>4 DEF Opens, Closes
      <4>6. QED
        BY <2>2, <4>3, <4>4, <4>5
    <3>4. Closes(lines'[i], c) => ~\E j \in 1..(i-1) : Closes(lines'[j], c)
      BY <1>2, <2>3, <3>1 DEF Follows
    <3>5. QED
      BY <3>1, <3>2, <3>3, <3>4 DEF Ordered
  <2>6. QED
    BY <2>4, <2>5
<1>3. QED
  BY <1>1, <1>2 DEF Grows

\* Every line of the file is an old one, the record, or spoilt.
LEMMA GrownLines ==
  ASSUME TypeOK, NEW r, Grows(r), NEW i \in DOMAIN lines'
  PROVE  (i \in DOMAIN lines /\ lines'[i] = lines[i]) \/ (lines' # lines /\ lines'[i] \in {r, Junk})
<1>1. DOMAIN lines' = 1..Len(lines') /\ Len(lines') \in Nat
  BY LenProperties DEF Grows, FileTypes
<1>2. QED
  BY <1>1 DEF Grows, Adds
\* What the calls know of the journal stays true when c moves to the state s.
LEMMA CallGrows ==
  ASSUME TypeOK, FileInv, CallInv, NEW c \in Attempts, NEW r \in Record, r.id = c, Grows(r),
         NEW s \in States \ {"new"}, call' = [call EXCEPT ![c] = s], billed' = billed,
         s # "over" => Kept(c)',
         s = "reserved" => billed[c] = 0 /\ r.event = "reserve"
                           /\ \A i \in DOMAIN lines : ~Closes(lines[i], c),
         r.event # "reserve" => billed[c] <= r.amount
  PROVE  CallInv'
<1>1. SUFFICES ASSUME NEW d \in Attempts
      PROVE  /\ Live(d)' => Kept(d)'
             /\ call'[d] \in {"new", "reserved"} => billed[d] = 0
             /\ \A i \in DOMAIN lines' : Closes(lines'[i], d) =>
                  call'[d] \notin {"new", "reserved"} /\ billed[d] <= lines'[i].amount
  BY DEF CallInv
<1>2. call'[d] = IF d = c THEN s ELSE call[d]
  BY DEF TypeOK
<1>3. Live(d)' <=> call'[d] \in {"reserved", "valid", "invalid"}
  BY DEF Live
<1>4. Live(d)' => Kept(d)'
  <2>1. CASE d = c
    BY <1>2, <1>3, <2>1
  <2>2. CASE d # c
    <3>1. Live(d)' => Live(d)
      BY <1>2, <1>3, <2>2 DEF Live
    <3>2. Live(d) => Kept(d)
      BY DEF CallInv
    <3>3. QED
      BY <3>1, <3>2, KeptStep
  <2>3. QED
    BY <2>1, <2>2
<1>6. call'[d] \in {"new", "reserved"} => billed[d] = 0
  BY <1>2 DEF CallInv
<1>7. ASSUME NEW i \in DOMAIN lines', Closes(lines'[i], d)
      PROVE  call'[d] \notin {"new", "reserved"} /\ billed[d] <= lines'[i].amount
  <2>1. (i \in DOMAIN lines /\ lines'[i] = lines[i]) \/ lines'[i] \in {r, Junk}
    BY GrownLines
  <2>2. CASE i \in DOMAIN lines /\ lines'[i] = lines[i]
    BY <1>2, <1>7, <2>2 DEF CallInv
  <2>3. CASE lines'[i] = r
    BY <1>2, <1>7, <2>3 DEF Closes
  <2>4. QED
    BY <1>7, <2>1, <2>2, <2>3, JunkFacts
<1>8. QED
  BY <1>4, <1>6, <1>7

\* So does what the calls and the remembered attributes say of one another.
LEMMA LiveGrows ==
  ASSUME TypeOK, OrderInv, InOrder', NEW c \in Attempts, NEW r \in Record, r.id = c, Grows(r),
         NEW s \in States \ {"new"}, call' = [call EXCEPT ![c] = s],
         identity' = "none" => identity = "none",
         s # "over" => Live(c) \/ identity' = "match",
         \A d \in Attempts : Live(d)' /\ identity' = "match" =>
           \A i \in DOMAIN lines : ~Closes(lines[i], d),
         s # "over" /\ identity' = "match" => lines' = lines \/ ~Closes(r, c)
  PROVE  OrderInv'
<1>1. SUFFICES ASSUME NEW d \in Attempts
      PROVE  /\ \A i \in DOMAIN lines' : Opens(lines'[i], d) => call'[d] # "new"
             /\ Live(d)' => identity' # "none"
             /\ Live(d)' /\ identity' = "match" => \A i \in DOMAIN lines' : ~Closes(lines'[i], d)
  BY DEF OrderInv, InOrder
<1>2. call'[d] = IF d = c THEN s ELSE call[d]
  BY DEF TypeOK
<1>3. Live(d)' <=> call'[d] \in {"reserved", "valid", "invalid"}
  BY DEF Live
<1>4. ASSUME NEW i \in DOMAIN lines', Opens(lines'[i], d) PROVE call'[d] # "new"
  <2>1. (i \in DOMAIN lines /\ lines'[i] = lines[i]) \/ lines'[i] \in {r, Junk}
    BY GrownLines
  <2>2. CASE i \in DOMAIN lines /\ lines'[i] = lines[i]
    BY <1>2, <1>4, <2>2 DEF OrderInv
  <2>3. CASE lines'[i] = r
    BY <1>2, <1>4, <2>3 DEF Opens
  <2>4. QED
    BY <1>4, <2>1, <2>2, <2>3, JunkFacts
<1>5. Live(d)' => identity' # "none"
  <2>1. Live(d)' => Live(d) \/ (d = c /\ identity' = "match")
    BY <1>2, <1>3 DEF Live
  <2>2. Live(d) => identity # "none"
    BY DEF OrderInv
  <2>3. QED
    BY <2>1, <2>2
<1>6. ASSUME Live(d)', identity' = "match", NEW i \in DOMAIN lines' PROVE ~Closes(lines'[i], d)
  <2>1. (i \in DOMAIN lines /\ lines'[i] = lines[i]) \/ (lines' # lines /\ lines'[i] \in {r, Junk})
    BY GrownLines
  <2>2. CASE i \in DOMAIN lines /\ lines'[i] = lines[i]
    BY <1>6, <2>2
  <2>3. CASE lines' # lines /\ lines'[i] = r
    BY <1>2, <1>3, <1>6, <2>3 DEF Closes
  <2>4. QED
    BY <2>1, <2>2, <2>3, JunkFacts
<1>7. QED
  BY <1>4, <1>5, <1>6
-----------------------------------------------------------------------------
(* What a step does to the account *)

LiveSet == {c \in Attempts : Live(c)}

\* The calls that hold money are finitely many.
LEMMA LiveFinite == IsFiniteSet(LiveSet) /\ Cardinality(LiveSet) \in Nat
<1>1. IsFiniteSet(LiveSet)
  BY AttemptsAssumption, FS_Subset DEF LiveSet
<1>2. QED
  BY <1>1, FS_CardinalityType

\* What one more call adds to the ceilings.
LEMMA OneMore == ASSUME NEW n \in Nat PROVE Ceiling * (n + 1) = Ceiling * n + Ceiling
  BY AmountsAssumption

\* A call that starts adds itself to the live calls, one that ends leaves them,
\* and any other step of a call leaves the set as it is.
LEMMA LiveMoves ==
  ASSUME TypeOK, NEW c \in Attempts, NEW s \in States, call' = [call EXCEPT ![c] = s]
  PROVE  LET live == s \in {"reserved", "valid", "invalid"} IN
         /\ Live(c) <=> live => LiveSet' = LiveSet
         /\ ~Live(c) /\ live => Cardinality(LiveSet)' = Cardinality(LiveSet) + 1
         /\ Live(c) /\ ~live => /\ Cardinality(LiveSet)' + 1 = Cardinality(LiveSet)
                                /\ Cardinality(LiveSet)' \in Nat
<1> DEFINE live == s \in {"reserved", "valid", "invalid"}
<1>1. \A d \in Attempts : Live(d)' <=> IF d = c THEN live ELSE Live(d)
  BY DEF TypeOK, Live
<1>2. ASSUME Live(c) <=> live PROVE LiveSet' = LiveSet
  BY <1>1, <1>2 DEF LiveSet
<1>3. ASSUME ~Live(c), live PROVE Cardinality(LiveSet)' = Cardinality(LiveSet) + 1
  <2>1. LiveSet' = LiveSet \cup {c} /\ c \notin LiveSet
    BY <1>1, <1>3 DEF LiveSet
  <2>2. QED
    BY <2>1, LiveFinite, FS_AddElement
<1>4. ASSUME Live(c), ~live
      PROVE  Cardinality(LiveSet)' + 1 = Cardinality(LiveSet) /\ Cardinality(LiveSet)' \in Nat
  <2>1. LiveSet' = LiveSet \ {c} /\ c \in LiveSet
    BY <1>1, <1>4 DEF LiveSet
  <2>2. Cardinality(LiveSet)' = Cardinality(LiveSet) - 1 /\ IsFiniteSet(LiveSet')
    BY <2>1, LiveFinite, FS_RemoveElement
  <2>3. Cardinality(LiveSet') \in Nat
    BY <2>2, FS_CardinalityType
  <2>4. QED
    BY <2>2, <2>3, LiveFinite
<1>5. QED
  BY <1>2, <1>3, <1>4

\* The parts of AccountInv.
LEMMA AccountUnfolds ==
  AccountInv <=> /\ spent + reserved <= Cap
                 /\ Ceiling * Cardinality(LiveSet) <= reserved
                 /\ \A c \in Attempts : Live(c) => open
  BY DEF AccountInv, LiveSet

\* Without live calls an account within the cap is in order.
LEMMA AccountEmpty ==
  ASSUME spent' \in Nat, reserved' \in Nat, spent' + reserved' <= Cap,
         \A c \in Attempts : ~Live(c)'
  PROVE  AccountInv'
<1>1. LiveSet' = {}
  BY DEF LiveSet
<1>2. Cardinality(LiveSet') = 0
  BY <1>1, FS_EmptySet
<1>3. Ceiling * 0 = 0
  BY AmountsAssumption
<1>4. QED
  BY <1>2, <1>3, AccountUnfolds DEF LiveSet, AccountInv
-----------------------------------------------------------------------------
(* The steps of a call *)

\* The parts of TypeOK.
LEMMA TypeParts ==
  ASSUME FileTypes', open' \in BOOLEAN, spent' \in Nat, reserved' \in Nat,
         call' \in [Attempts -> States], billed' \in [Attempts -> 0..Ceiling],
         faults' \in 0..MaxFaults, crashes' \in 0..MaxCrashes
  PROVE  TypeOK'
  BY DEF TypeOK, FileTypes, Line

\* What the kinds of lines have.
LEMMA EntryFacts ==
  ASSUME NEW e \in {"reserve", "reconcile", "forfeit"}, NEW c \in Attempts, NEW n \in 0..Ceiling
  PROVE  /\ Entry(e, c, n) \in Record /\ Entry(e, c, n).id = c
         /\ Entry(e, c, n).event = e /\ Entry(e, c, n).amount = n
  BY DEF Entry, Record

\* What the invariant knows of a call before it moves.
LEMMA Knows ==
  ASSUME IInv, NEW c \in Attempts
  PROVE  /\ call[c] = "new" => \A i \in DOMAIN lines : ~Opens(lines[i], c) /\ ~Closes(lines[i], c)
         /\ call[c] \in {"new", "reserved"} => billed[c] = 0
         /\ Live(c) => Kept(c) /\ exists /\ open /\ identity # "none"
         /\ Live(c) /\ identity = "match" => \A i \in DOMAIN lines : ~Closes(lines[i], c)
<1>1. TypeOK /\ FileInv /\ CallInv /\ OrderInv /\ AccountInv
  BY DEF IInv
<1>2. Live(c) => Kept(c)
  BY <1>1 DEF CallInv
<1>3. Live(c) => exists
  BY <1>1, <1>2, KeptExists
<1>4. call[c] = "new" => \A i \in DOMAIN lines : ~Opens(lines[i], c) /\ ~Closes(lines[i], c)
  BY <1>1 DEF CallInv, OrderInv
<1>5. call[c] \in {"new", "reserved"} => billed[c] = 0
  BY <1>1 DEF CallInv
<1>6. (Live(c) => open /\ identity # "none")
      /\ (Live(c) /\ identity = "match" => \A i \in DOMAIN lines : ~Closes(lines[i], c))
  BY <1>1 DEF OrderInv, AccountInv
<1>7. QED
  BY <1>2, <1>3, <1>4, <1>5, <1>6

\* A reservation that is durable holds its ceiling; the call may begin.
LEMMA ReserveStep ==
  ASSUME IInv, NEW c \in Attempts, Reserve(c)
  PROVE  IInv'
<1> DEFINE r == Entry("reserve", c, Ceiling)
<1>1. TypeOK /\ FileInv /\ AccountInv /\ CallInv /\ OrderInv
  BY DEF IInv
<1>2. r \in Record /\ r.id = c /\ r.event = "reserve"
  BY EntryFacts, AmountsAssumption
<1>3. /\ open /\ call[c] = "new" /\ Affordable /\ AppendWorks(r)
      /\ reserved' = reserved + Ceiling /\ call' = [call EXCEPT ![c] = "reserved"]
      /\ open' = open /\ spent' = spent /\ billed' = billed
      /\ faults' = faults /\ crashes' = crashes
  BY DEF Reserve
<1>4. Grows(r) /\ Adds(r) /\ synced' = Len(lines') /\ identity' = "match"
  BY <1>1, <1>2, <1>3, WorksGrows
<1> HIDE DEF r
<1>5. ~Live(c) /\ "reserved" \in States \ {"new"}
  BY <1>3 DEF Live, States
<1>6. /\ \A i \in DOMAIN lines : ~Opens(lines[i], c) /\ ~Closes(lines[i], c)
      /\ billed[c] = 0
  BY <1>3, Knows
<1>7. spent \in Nat /\ reserved \in Nat /\ Ceiling \in Nat /\ Cap \in Nat
  BY <1>1, AmountsAssumption DEF TypeOK
<1>8. TypeOK'
  <2>1. FileTypes'
    BY <1>4 DEF Grows
  <2>2. call' \in [Attempts -> States]
    BY <1>1, <1>3, <1>5 DEF TypeOK
  <2>3. /\ open' \in BOOLEAN /\ spent' \in Nat /\ reserved' \in Nat
        /\ billed' \in [Attempts -> 0..Ceiling]
        /\ faults' \in 0..MaxFaults /\ crashes' \in 0..MaxCrashes
    BY <1>1, <1>3, <1>7 DEF TypeOK
  <2>4. QED
    BY <2>1, <2>2, <2>3, TypeParts
<1>9. FileInv'
  BY <1>4 DEF Grows
<1>10. AccountInv'
  <2>1. spent' + reserved' <= Cap
    BY <1>3, <1>7 DEF Affordable
  <2>2. Cardinality(LiveSet)' = Cardinality(LiveSet) + 1
    BY <1>1, <1>3, <1>5, LiveMoves
  <2>3. Ceiling * (Cardinality(LiveSet) + 1) = Ceiling * Cardinality(LiveSet) + Ceiling
    BY LiveFinite, OneMore
  <2>4. Ceiling * Cardinality(LiveSet) <= reserved
    BY <1>1, AccountUnfolds
  <2>5. Ceiling * Cardinality(LiveSet) \in Nat
    BY <1>7, LiveFinite
  <2>6. Ceiling * Cardinality(LiveSet)' <= reserved'
    BY <1>3, <1>7, <2>2, <2>3, <2>4, <2>5
  <2>7. \A d \in Attempts : Live(d)' => open'
    BY <1>3
  <2>8. QED
    BY <2>1, <2>6, <2>7 DEF AccountInv, LiveSet
<1>11. Kept(c)'
  <2>1. Len(lines') \in 1..Len(lines') /\ lines'[Len(lines')] \in {Junk, r}
    BY <1>4 DEF Adds
  <2>2. Opens(r, c)
    BY <1>2 DEF Opens
  <2>3. QED
    BY <1>4, <2>1, <2>2 DEF Kept, Junk
<1>12. CallInv'
  BY <1>1, <1>2, <1>3, <1>4, <1>5, <1>6, <1>11, CallGrows
<1>13. OrderInv'
  <2>1. Follows(r)
    BY <1>2, <1>6 DEF Follows, Opens, Closes
  <2>2. InOrder'
    BY <1>1, <1>2, <1>4, <2>1, OrderGrows DEF OrderInv, InOrder
  <2>3. ~Closes(r, c)
    BY <1>2 DEF Closes
  <2>4. ASSUME NEW d \in Attempts, Live(d)', NEW i \in DOMAIN lines PROVE ~Closes(lines[i], d)
    <3>1. CASE d = c
      BY <1>6, <3>1
    <3>2. CASE d # c
      <4>1. Live(d)
        BY <1>1, <1>3, <2>4, <3>2 DEF Live, TypeOK
      <4>2. identity # "stale" /\ identity \in {"none", "match", "stale"}
        BY <1>1, <1>3 DEF AppendWorks, Writable, TypeOK
      <4>3. QED
        BY <4>1, <4>2, Knows
    <3>3. QED
      BY <3>1, <3>2
  <2>5. QED
    BY <1>1, <1>2, <1>3, <1>4, <1>5, <2>2, <2>3, <2>4, LiveGrows
<1>14. QED
  BY <1>8, <1>9, <1>10, <1>12, <1>13 DEF IInv
\* A close record that is durable releases the reservation for what it charges.
LEMMA FinishStep ==
  ASSUME IInv, NEW c \in Attempts, call[c] \in {"valid", "invalid"},
         NEW e \in {"reconcile", "forfeit"}, NEW n \in 0..Ceiling, billed[c] <= n, Finish(c, e, n)
  PROVE  IInv'
<1> DEFINE r == Entry(e, c, n)
<1>1. TypeOK /\ FileInv /\ AccountInv /\ CallInv /\ OrderInv
  BY DEF IInv
<1>2. r \in Record /\ r.id = c /\ r.event # "reserve" /\ r.amount = n
  BY EntryFacts
<1>3. /\ AppendWorks(r)
      /\ reserved' = reserved - Ceiling /\ spent' = spent + n
      /\ call' = [call EXCEPT ![c] = "over"]
      /\ open' = open /\ billed' = billed /\ faults' = faults /\ crashes' = crashes
  BY DEF Finish
<1>4. /\ Grows(r) /\ Adds(r) /\ synced' = Len(lines') /\ identity' = "match"
      /\ identity # "stale"
  BY <1>1, <1>2, <1>3, WorksGrows
<1> HIDE DEF r
<1>5. Live(c) /\ "over" \in States \ {"new"} /\ "over" \in States
  BY DEF Live, States
<1>6. /\ \A i \in DOMAIN lines : ~Closes(lines[i], c)
      /\ Kept(c) /\ open
  <2>1. identity = "match"
    BY <1>1, <1>4, <1>5, Knows DEF TypeOK
  <2>2. QED
    BY <1>5, <2>1, Knows
<1>7. spent \in Nat /\ reserved \in Nat /\ Ceiling \in Nat /\ Cap \in Nat /\ n \in Nat
  BY <1>1, AmountsAssumption DEF TypeOK
<1>8. /\ Ceiling * Cardinality(LiveSet)' <= reserved'
      /\ reserved' \in Nat
  <2>1. Cardinality(LiveSet)' + 1 = Cardinality(LiveSet) /\ Cardinality(LiveSet)' \in Nat
    BY <1>1, <1>3, <1>5, LiveMoves
  <2>2. Ceiling * (Cardinality(LiveSet)' + 1) = Ceiling * Cardinality(LiveSet)' + Ceiling
    BY <2>1, OneMore
  <2>3. Ceiling * Cardinality(LiveSet) <= reserved
    BY <1>1, AccountUnfolds
  <2>4. Ceiling * Cardinality(LiveSet)' \in Nat
    BY <1>7, <2>1
  <2>5. Ceiling * Cardinality(LiveSet)' + Ceiling <= reserved
    BY <2>1, <2>2, <2>3
  <2>6. QED
    BY <1>3, <1>7, <2>4, <2>5
<1>9. TypeOK'
  <2>1. FileTypes'
    BY <1>4 DEF Grows
  <2>2. call' \in [Attempts -> States]
    BY <1>1, <1>3, <1>5 DEF TypeOK
  <2>3. /\ open' \in BOOLEAN /\ spent' \in Nat
        /\ billed' \in [Attempts -> 0..Ceiling]
        /\ faults' \in 0..MaxFaults /\ crashes' \in 0..MaxCrashes
    BY <1>1, <1>3, <1>7 DEF TypeOK
  <2>4. QED
    BY <1>8, <2>1, <2>2, <2>3, TypeParts
<1>10. FileInv'
  BY <1>4 DEF Grows
<1>11. AccountInv'
  <2>1. spent + reserved <= Cap
    BY <1>1 DEF AccountInv
  <2>2. spent' + reserved' <= Cap
    BY <1>3, <1>7, <2>1
  <2>3. \A d \in Attempts : Live(d)' => open'
    BY <1>3, <1>6
  <2>4. QED
    BY <1>8, <2>2, <2>3 DEF AccountInv, LiveSet
<1>12. CallInv'
  <2>1. r.event # "reserve" => billed[c] <= r.amount
    BY <1>2
  <2>2. QED
    BY <1>1, <1>2, <1>3, <1>4, <1>5, <2>1, CallGrows
<1>13. OrderInv'
  <2>1. Follows(r)
    BY <1>2, <1>6 DEF Follows, Opens, Closes
  <2>2. InOrder'
    BY <1>1, <1>2, <1>4, <2>1, OrderGrows DEF OrderInv, InOrder
  <2>3. ASSUME NEW d \in Attempts, Live(d)', NEW i \in DOMAIN lines PROVE ~Closes(lines[i], d)
    <3>1. Live(d)
      BY <1>1, <1>3, <2>3 DEF Live, TypeOK
    <3>2. identity = "match"
      BY <1>1, <1>4, <1>5, Knows DEF TypeOK
    <3>3. QED
      BY <3>1, <3>2, Knows
  <2>4. QED
    BY <1>1, <1>2, <1>3, <1>4, <1>5, <2>2, <2>3, LiveGrows
<1>14. QED
  BY <1>9, <1>10, <1>11, <1>12, <1>13 DEF IInv

\* An append that raises leaves the account as it is.  After a reservation the
\* call does not begin; after a close it keeps its reservation.
LEMMA FailsStep ==
  ASSUME IInv, NEW c \in Attempts, NEW s \in {"invalid", "over"}, s = "invalid" => Live(c),
         NEW r \in Record, r.id = c, AppendFails(r),
         r.event = "reserve" => call[c] = "new",
         r.event # "reserve" => call[c] \in {"valid", "invalid"} /\ billed[c] <= r.amount,
         call' = [call EXCEPT ![c] = s],
         UNCHANGED <<open, spent, reserved, billed, crashes>>
  PROVE  IInv'
<1>1. TypeOK /\ FileInv /\ AccountInv /\ CallInv /\ OrderInv
  BY DEF IInv
<1>3. /\ open' = open /\ spent' = spent /\ reserved' = reserved
      /\ billed' = billed /\ crashes' = crashes
  OBVIOUS
<1>4. /\ Grows(r) /\ faults' \in 0..MaxFaults
      /\ identity' = "none" => identity = "none"
      /\ exists /\ identity' = "match" => lines' = lines /\ identity = "match"
      /\ identity = "stale" => lines' = lines
  BY <1>1, FailsGrows
<1>5. s \in States \ {"new"} /\ s \in States /\ s # "reserved"
  BY DEF States
<1>7. spent \in Nat /\ reserved \in Nat /\ Ceiling \in Nat /\ Cap \in Nat
  BY <1>1, AmountsAssumption DEF TypeOK
<1>9. TypeOK'
  <2>1. FileTypes'
    BY <1>4 DEF Grows
  <2>2. call' \in [Attempts -> States]
    BY <1>1, <1>5 DEF TypeOK
  <2>3. /\ open' \in BOOLEAN /\ spent' \in Nat /\ reserved' \in Nat
        /\ billed' \in [Attempts -> 0..Ceiling]
        /\ faults' \in 0..MaxFaults /\ crashes' \in 0..MaxCrashes
    BY <1>1, <1>3, <1>4, <1>7 DEF TypeOK
  <2>4. QED
    BY <2>1, <2>2, <2>3, TypeParts
<1>10. FileInv'
  BY <1>4 DEF Grows
<1>11. AccountInv'
  <2>1. spent + reserved <= Cap /\ \A d \in Attempts : Live(d) => open
    BY <1>1 DEF AccountInv
  <2>2. Ceiling * Cardinality(LiveSet) <= reserved
    BY <1>1, AccountUnfolds
  <2>3. Ceiling * Cardinality(LiveSet)' <= reserved'
    <3>1. CASE Live(c) <=> s = "invalid"
      <4>1. LiveSet' = LiveSet
        BY <1>1, <1>5, <3>1, LiveMoves
      <4>2. QED
        BY <1>3, <2>2, <4>1
    <3>2. CASE Live(c) /\ s = "over"
      <4>1. Cardinality(LiveSet)' + 1 = Cardinality(LiveSet) /\ Cardinality(LiveSet)' \in Nat
        BY <1>1, <1>5, <3>2, LiveMoves
      <4>2. Ceiling * (Cardinality(LiveSet)' + 1) = Ceiling * Cardinality(LiveSet)' + Ceiling
        BY <4>1, OneMore
      <4>3. Ceiling * Cardinality(LiveSet)' \in Nat
        BY <1>7, <4>1
      <4>4. Ceiling * Cardinality(LiveSet)' + Ceiling <= reserved
        BY <2>2, <4>1, <4>2
      <4>5. QED
        BY <1>3, <1>7, <4>3, <4>4
    <3>3. QED
      BY <3>1, <3>2
  <2>4. \A d \in Attempts : Live(d)' => Live(d)
    BY <1>1 DEF TypeOK, Live
  <2>5. QED
    BY <1>3, <2>1, <2>3, <2>4 DEF AccountInv, LiveSet
<1>12. CallInv'
  <2>1. s # "over" => Kept(c)'
    <3>1. Live(c) => Kept(c)
      BY Knows
    <3>2. QED
      BY <1>1, <1>4, <3>1, KeptStep
  <2>2. r.event # "reserve" => billed[c] <= r.amount
    OBVIOUS
  <2>3. QED
    BY <1>1, <1>3, <1>4, <1>5, <2>1, <2>2, CallGrows
<1>13. OrderInv'
  <2>1. ASSUME lines' # lines PROVE Follows(r)
    <3>1. identity # "stale" /\ identity \in {"none", "match", "stale"}
      BY <1>1, <1>4, <2>1 DEF TypeOK
    <3>2. CASE r.event = "reserve"
      <4>1. \A i \in DOMAIN lines : ~Opens(lines[i], c)
        BY <3>2, Knows
      <4>2. QED
        BY <3>2, <4>1 DEF Follows, Opens, Closes
    <3>3. CASE r.event # "reserve"
      <4>1. Live(c)
        BY <3>3 DEF Live
      <4>2. Kept(c) /\ \A i \in DOMAIN lines : ~Closes(lines[i], c)
        BY <3>1, <4>1, Knows
      <4>3. QED
        BY <3>3, <4>2 DEF Follows, Opens, Closes
    <3>4. QED
      BY <3>2, <3>3
  <2>2. InOrder'
    BY <1>1, <1>4, <2>1, OrderGrows DEF OrderInv, InOrder
  <2>3. ASSUME NEW d \in Attempts, Live(d)', identity' = "match"
        PROVE  lines' = lines /\ \A i \in DOMAIN lines : ~Closes(lines[i], d)
    <3>1. Live(d)
      BY <1>1, <2>3 DEF Live, TypeOK
    <3>2. exists
      BY <3>1, Knows
    <3>3. lines' = lines /\ identity = "match"
      BY <1>4, <2>3, <3>2
    <3>4. QED
      BY <3>1, <3>3, Knows
  <2>4. s # "over" => Live(c) /\ Live(c)'
    BY <1>1 DEF Live, TypeOK
  <2>5. s # "over" /\ identity' = "match" => lines' = lines
    BY <2>3, <2>4
  <2>6. QED
    BY <1>1, <1>4, <1>5, <2>2, <2>3, <2>4, <2>5, LiveGrows
<1>14. QED
  BY <1>9, <1>10, <1>11, <1>12, <1>13 DEF IInv
\* Whatever the provider charges is within the reservation, which is durable.
LEMMA ExecuteStep ==
  ASSUME IInv, NEW c \in Attempts, Execute(c)
  PROVE  IInv'
<1>1. TypeOK /\ FileInv /\ AccountInv /\ CallInv /\ OrderInv
  BY DEF IInv
<1>2. PICK n \in 0..Ceiling, s \in {"valid", "invalid"} :
        /\ call[c] = "reserved" /\ call' = [call EXCEPT ![c] = s]
        /\ billed' = [billed EXCEPT ![c] = n]
  BY DEF Execute
<1>3. /\ exists' = exists /\ lines' = lines /\ ended' = ended /\ synced' = synced
      /\ linked' = linked /\ lost' = lost /\ open' = open /\ identity' = identity
      /\ spent' = spent /\ reserved' = reserved /\ faults' = faults /\ crashes' = crashes
  BY DEF Execute, file, memory
<1>4. s \in States /\ Live(c)
  BY <1>2 DEF States, Live
<1>5. \A d \in Attempts : Live(d)' <=> Live(d)
  BY <1>1, <1>2 DEF Live, TypeOK
<1>6. TypeOK'
  <2>1. call' \in [Attempts -> States] /\ billed' \in [Attempts -> 0..Ceiling]
    BY <1>1, <1>2, <1>4 DEF TypeOK
  <2>2. FileTypes'
    BY <1>1, <1>3 DEF TypeOK, FileTypes, Line
  <2>3. /\ open' \in BOOLEAN /\ spent' \in Nat /\ reserved' \in Nat
        /\ faults' \in 0..MaxFaults /\ crashes' \in 0..MaxCrashes
    BY <1>1, <1>3 DEF TypeOK
  <2>4. QED
    BY <2>1, <2>2, <2>3, TypeParts
<1>7. FileInv'
  BY <1>1, <1>3 DEF FileInv
<1>8. AccountInv'
  <2>1. LiveSet' = LiveSet
    BY <1>5 DEF LiveSet
  <2>2. QED
    BY <1>1, <1>3, <1>5, <2>1 DEF AccountInv, LiveSet
<1>9. CallInv'
  <2>1. SUFFICES ASSUME NEW d \in Attempts
        PROVE  /\ Live(d)' => Kept(d)'
               /\ call'[d] \in {"new", "reserved"} => billed'[d] = 0
               /\ \A i \in DOMAIN lines' : Closes(lines'[i], d) =>
                    call'[d] \notin {"new", "reserved"} /\ billed'[d] <= lines'[i].amount
    BY DEF CallInv
  <2>2. Kept(d)' <=> Kept(d)
    BY <1>3 DEF Kept
  <2>3. CASE d = c
    <3>1. call'[d] = s /\ billed'[d] = n
      BY <1>1, <1>2, <2>3 DEF TypeOK
    <3>2. Kept(c) /\ \A i \in DOMAIN lines : ~Closes(lines[i], c)
      BY <1>1, <1>2, <1>4 DEF CallInv
    <3>3. QED
      BY <1>3, <2>2, <2>3, <3>1, <3>2
  <2>4. CASE d # c
    <3>1. call'[d] = call[d] /\ billed'[d] = billed[d]
      BY <1>1, <1>2, <2>4 DEF TypeOK
    <3>2. QED
      BY <1>1, <1>3, <1>5, <2>2, <3>1 DEF CallInv
  <2>5. QED
    BY <2>3, <2>4
<1>10. OrderInv'
  <2>1. \A d \in Attempts : call'[d] = "new" <=> call[d] = "new"
    BY <1>1, <1>2 DEF TypeOK
  <2>2. QED
    BY <1>1, <1>3, <1>5, <2>1 DEF OrderInv
<1>11. QED
  BY <1>6, <1>7, <1>8, <1>9, <1>10 DEF IInv

\* Only an account within the cap is restored, and no call is live before it is.
LEMMA OpenStep ==
  ASSUME IInv, Open
  PROVE  IInv'
<1>1. TypeOK /\ FileInv /\ AccountInv /\ CallInv /\ OrderInv
  BY DEF IInv
<1>2. /\ ~open /\ open' = TRUE /\ spent' = Restored(lines) /\ Restored(lines) \in 0..Cap
      /\ reserved' = 0 /\ identity' \in {"none", "match"}
      /\ exists' = exists /\ lines' = lines /\ ended' = ended /\ synced' = synced
      /\ linked' = linked /\ lost' = lost /\ call' = call /\ billed' = billed
      /\ faults' = faults /\ crashes' = crashes
  BY DEF Open, Restorable, file
<1>3. \A d \in Attempts : ~Live(d) /\ ~Live(d)'
  BY <1>1, <1>2 DEF AccountInv, Live
<1>4. TypeOK'
  BY <1>1, <1>2, AmountsAssumption DEF TypeOK
<1>5. FileInv'
  BY <1>1, <1>2 DEF FileInv
<1>6. AccountInv'
  <2>1. spent' \in Nat /\ reserved' \in Nat /\ spent' + reserved' <= Cap
    BY <1>2, AmountsAssumption
  <2>2. QED
    BY <1>3, <2>1, AccountEmpty
<1>7. CallInv'
  <2>1. \A d \in Attempts : Kept(d)' <=> Kept(d)
    BY <1>2 DEF Kept
  <2>2. QED
    BY <1>1, <1>2, <1>3, <2>1 DEF CallInv
<1>8. OrderInv'
  BY <1>1, <1>2, <1>3 DEF OrderInv
<1>9. QED
  BY <1>4, <1>5, <1>6, <1>7, <1>8 DEF IInv

\* The account and the calls after the process is gone.
LEMMA GoneFacts ==
  ASSUME TypeOK, Gone
  PROVE  /\ open' = FALSE /\ identity' = "none" /\ spent' = 0 /\ reserved' = 0
         /\ call' \in [Attempts -> States]
         /\ \A d \in Attempts : /\ ~Live(d)' /\ call'[d] # "reserved"
                                /\ call'[d] = "new" <=> call[d] = "new"
         /\ AccountInv'
<1>1. /\ open' = FALSE /\ identity' = "none" /\ spent' = 0 /\ reserved' = 0
      /\ call' = [c \in Attempts |-> IF call[c] = "new" THEN "new" ELSE "over"]
  BY DEF Gone
<1>2. \A d \in Attempts : call'[d] = IF call[d] = "new" THEN "new" ELSE "over"
  BY <1>1
<1>3. \A d \in Attempts : ~Live(d)'
  BY <1>2 DEF Live
<1>4. call' \in [Attempts -> States]
  BY <1>1 DEF States
<1>5. AccountInv'
  <2>1. spent' \in Nat /\ reserved' \in Nat /\ spent' + reserved' <= Cap
    BY <1>1, AmountsAssumption
  <2>2. QED
    BY <1>3, <2>1, AccountEmpty
<1>6. QED
  BY <1>1, <1>2, <1>3, <1>4, <1>5

\* The end of a process keeps the invariant.
LEMMA GoneStep ==
  ASSUME IInv, Gone, crashes' \in 0..MaxCrashes, UNCHANGED <<file, billed, faults>>
  PROVE  IInv'
<1>1. TypeOK /\ FileInv /\ AccountInv /\ CallInv /\ OrderInv
  BY DEF IInv
<1>2. /\ exists' = exists /\ lines' = lines /\ ended' = ended /\ synced' = synced
      /\ linked' = linked /\ lost' = lost /\ billed' = billed /\ faults' = faults
  BY DEF file
<1>3. /\ open' = FALSE /\ identity' = "none" /\ spent' = 0 /\ reserved' = 0
      /\ call' \in [Attempts -> States]
      /\ \A d \in Attempts : /\ ~Live(d)' /\ call'[d] # "reserved"
                             /\ call'[d] = "new" <=> call[d] = "new"
      /\ AccountInv'
  BY <1>1, GoneFacts
<1>4. TypeOK'
  BY <1>1, <1>2, <1>3 DEF TypeOK
<1>5. FileInv'
  BY <1>1, <1>2 DEF FileInv
<1>6. CallInv'
  <2>1. \A d \in Attempts : Kept(d)' <=> Kept(d)
    BY <1>2 DEF Kept
  <2>2. QED
    BY <1>1, <1>2, <1>3, <2>1 DEF CallInv
<1>7. OrderInv'
  BY <1>1, <1>2, <1>3 DEF OrderInv
<1>8. QED
  BY <1>3, <1>4, <1>5, <1>6, <1>7 DEF IInv
\* So does its death.
LEMMA CrashStep ==
  ASSUME IInv, Crash
  PROVE  IInv'
<1>1. crashes' \in 0..MaxCrashes
  BY BoundsAssumption DEF IInv, TypeOK, Crash
<1>2. QED
  BY <1>1, GoneStep DEF Crash
\* The file is cut behind line n, where a part of the next line may remain.
Cut(n) ==
  /\ lines' \in Seq(Line) /\ n \in 0..Len(lines) /\ Len(lines') >= n
  /\ \A i \in 1..n : lines'[i] = lines[i]
  /\ \A i \in DOMAIN lines' : lines'[i] # Junk => i \in DOMAIN lines /\ lines'[i] = lines[i]
  /\ lines = <<>> => lines' = <<>>
  /\ ended' = FALSE => Len(lines') > n

\* A loss of power cuts the journal at one line, whole or spoilt.
LEMMA HostCrashCuts ==
  ASSUME TypeOK, NEW n \in synced..Len(lines),
         \/ lines' = Upto(lines, n) /\ ended' = TRUE
         \/ /\ n < Len(lines) /\ ended' = FALSE
            /\ lines' \in {Upto(lines, n + 1), Append(Upto(lines, n), Junk)}
  PROVE  Cut(n)
<1>1. lines \in Seq(Line) /\ n \in 0..Len(lines) /\ Len(lines) \in Nat /\ n \in Nat
      /\ DOMAIN lines = 1..Len(lines)
  BY LenProperties DEF TypeOK, Line
<1>2. lines = <<>> => n = 0 /\ ~(n < Len(lines))
  BY <1>1
<1>3. CASE lines' = Upto(lines, n) /\ ended' = TRUE
  <2>1. /\ lines' \in Seq(Line) /\ Len(lines') = n /\ DOMAIN lines' = 1..n
        /\ \A i \in 1..n : lines'[i] = lines[i]
    BY <1>1, <1>3, UptoFacts
  <2>2. n = 0 => lines' = <<>>
    BY <2>1, EmptySeq
  <2>3. QED
    BY <1>1, <1>2, <1>3, <2>1, <2>2 DEF Cut
<1>4. CASE n < Len(lines) /\ ended' = FALSE /\ lines' = Upto(lines, n + 1)
  <2>1. n + 1 \in 0..Len(lines)
    BY <1>1, <1>4
  <2>2. /\ lines' \in Seq(Line) /\ Len(lines') = n + 1 /\ DOMAIN lines' = 1..(n + 1)
        /\ \A i \in 1..(n + 1) : lines'[i] = lines[i]
    BY <1>1, <1>4, <2>1, UptoFacts
  <2>3. QED
    BY <1>1, <1>2, <1>4, <2>2 DEF Cut
<1>5. CASE n < Len(lines) /\ ended' = FALSE /\ lines' = Append(Upto(lines, n), Junk)
  <2>1. /\ Upto(lines, n) \in Seq(Line) /\ Len(Upto(lines, n)) = n
        /\ \A i \in 1..n : Upto(lines, n)[i] = lines[i]
    BY <1>1, UptoFacts
  <2>2. Junk \in Line
    BY DEF Line
  <2>3. /\ lines' \in Seq(Line) /\ Len(lines') = n + 1 /\ DOMAIN lines' = 1..(n + 1)
        /\ lines'[n + 1] = Junk
        /\ \A i \in 1..n : lines'[i] = Upto(lines, n)[i]
    BY <1>5, <2>1, <2>2
  <2>4. QED
    BY <1>1, <1>2, <1>5, <2>1, <2>3 DEF Cut
<1>6. QED
  BY <1>3, <1>4, <1>5

\* A death of the host takes only lines that no fsync had covered; if it takes
\* the whole file, that is on record.
LEMMA HostCrashStep ==
  ASSUME IInv, HostCrash
  PROVE  IInv'
<1>1. TypeOK /\ FileInv /\ AccountInv /\ CallInv /\ OrderInv
  BY DEF IInv
<1>2. Gone /\ crashes < MaxCrashes /\ crashes' = crashes + 1 /\ billed' = billed /\ faults' = faults
  BY DEF HostCrash
<1>3. /\ open' = FALSE /\ identity' = "none" /\ spent' = 0 /\ reserved' = 0
      /\ call' \in [Attempts -> States] /\ crashes' \in 0..MaxCrashes
      /\ \A d \in Attempts : /\ ~Live(d)' /\ call'[d] # "reserved"
                             /\ call'[d] = "new" <=> call[d] = "new"
      /\ AccountInv'
  <2>1. crashes' \in 0..MaxCrashes
    BY <1>1, <1>2, BoundsAssumption DEF TypeOK
  <2>2. QED
    BY <1>1, <1>2, <2>1, GoneFacts
<1>4. /\ open' \in BOOLEAN /\ spent' \in Nat /\ reserved' \in Nat
      /\ billed' \in [Attempts -> 0..Ceiling] /\ faults' \in 0..MaxFaults
      /\ identity' \in {"none", "match", "stale"}
  BY <1>1, <1>2, <1>3 DEF TypeOK
<1>5. ASSUME NEW n \in synced..Len(lines), Cut(n), synced' = n, linked' = exists,
             exists' = exists, lost' = lost, ended' \in BOOLEAN
      PROVE  IInv'
  <2>1. synced \in Nat /\ n \in Nat /\ synced <= n /\ Len(lines') \in Nat
    BY <1>1, <1>5, LenProperties DEF TypeOK, Cut
  <2>2. TypeOK'
    <3>1. FileTypes'
      BY <1>1, <1>4, <1>5, <2>1 DEF TypeOK, FileTypes, Cut
    <3>2. QED
      BY <1>3, <1>4, <3>1, TypeParts
  <2>3. FileInv'
    BY <1>1, <1>5, <2>1 DEF FileInv, Cut
  <2>4. ASSUME NEW d, Kept(d) PROVE Kept(d)'
    <3>1. PICK i \in 1..synced : Opens(lines[i], d) \/ lines[i] = Junk
      BY <2>4 DEF Kept
    <3>2. i \in 1..n /\ lines'[i] = lines[i]
      BY <1>5, <2>1, <3>1 DEF Cut
    <3>3. QED
      BY <1>5, <3>1, <3>2 DEF Kept, Junk
  <2>5. CallInv'
    <3>1. SUFFICES ASSUME NEW d \in Attempts
          PROVE  /\ call'[d] \in {"new", "reserved"} => billed[d] = 0
                 /\ \A i \in DOMAIN lines' : Closes(lines'[i], d) =>
                      call'[d] \notin {"new", "reserved"} /\ billed[d] <= lines'[i].amount
      BY <1>2, <1>3 DEF CallInv
    <3>3. call'[d] \in {"new", "reserved"} => call[d] = "new"
      BY <1>3
    <3>4. ASSUME NEW i \in DOMAIN lines', Closes(lines'[i], d)
          PROVE  i \in DOMAIN lines /\ lines'[i] = lines[i]
      BY <1>5, <3>4, JunkFacts DEF Cut
    <3>5. QED
      BY <1>1, <3>3, <3>4 DEF CallInv
  <2>6. OrderInv'
    <3>1. SUFFICES InOrder' /\ \A d \in Attempts, i \in DOMAIN lines' :
                                 Opens(lines'[i], d) => call'[d] # "new"
      BY <1>3 DEF OrderInv, InOrder
    <3>2. ASSUME NEW d \in Attempts, NEW i \in DOMAIN lines', Opens(lines'[i], d)
          PROVE  call'[d] # "new"
      <4>1. i \in DOMAIN lines /\ lines'[i] = lines[i]
        BY <1>5, <3>2, JunkFacts DEF Cut
      <4>2. QED
        BY <1>1, <1>3, <3>2, <4>1 DEF OrderInv
    <3>3. ASSUME NEW i \in DOMAIN lines', NEW d \in Attempts, \A j \in 1..i : lines'[j] # Junk
          PROVE  Ordered(lines', i, d)
      <4>1. DOMAIN lines' = 1..Len(lines') /\ i \in 1..Len(lines')
        BY <1>5, LenProperties DEF Cut
      <4>2. \A j \in 1..i : j \in DOMAIN lines /\ lines'[j] = lines[j]
        BY <1>5, <2>1, <3>3, <4>1 DEF Cut
      <4>3. \A j \in 1..i : lines[j] # Junk
        BY <3>3, <4>2
      <4>4. i \in 1..i /\ \A j \in 1..(i - 1) : j \in 1..i
        BY <2>1, <4>1
      <4>5. Ordered(lines, i, d)
        BY <1>1, <4>2, <4>3, <4>4 DEF OrderInv
      <4>6. QED
        BY <4>2, <4>4, <4>5 DEF Ordered
    <3>4. QED
      BY <3>2, <3>3 DEF InOrder
  <2>7. QED
    BY <1>3, <2>2, <2>3, <2>5, <2>6 DEF IInv
<1>6. ASSUME exists' = FALSE, lines' = <<>>, ended' = TRUE, synced' = 0, lost' = TRUE,
             linked' = linked
      PROVE  IInv'
  <2>1. lines' \in Seq(Line) /\ Len(lines') = 0 /\ DOMAIN lines' = {}
    BY <1>6
  <2>2. FileTypes'
    <3>1. synced' \in 0..Len(lines')
      BY <1>6, <2>1
    <3>2. linked' \in BOOLEAN
      BY <1>1, <1>6 DEF TypeOK
    <3>3. QED
      BY <1>4, <1>6, <2>1, <3>1, <3>2 DEF FileTypes
  <2>3. TypeOK'
    BY <1>3, <1>4, <2>2, TypeParts
  <2>4. FileInv'
    BY <1>6 DEF FileInv
  <2>5. CallInv'
    BY <1>1, <1>2, <1>3, <1>6, <2>1 DEF CallInv
  <2>6. OrderInv'
    BY <1>3, <2>1 DEF OrderInv
  <2>7. QED
    BY <1>3, <2>3, <2>4, <2>5, <2>6 DEF IInv
<1>7. QED
  <2>1. CASE \E n \in synced..Len(lines) :
               /\ synced' = n
               /\ \/ lines' = Upto(lines, n) /\ ended' = TRUE
                  \/ /\ n < Len(lines) /\ ended' = FALSE
                     /\ lines' \in {Upto(lines, n + 1), Append(Upto(lines, n), Junk)}
               /\ linked' = exists
               /\ UNCHANGED <<exists, lost>>
    <3>1. PICK n \in synced..Len(lines) :
             /\ synced' = n
             /\ \/ lines' = Upto(lines, n) /\ ended' = TRUE
                \/ /\ n < Len(lines) /\ ended' = FALSE
                   /\ lines' \in {Upto(lines, n + 1), Append(Upto(lines, n), Junk)}
             /\ linked' = exists
             /\ UNCHANGED <<exists, lost>>
      BY <2>1
    <3>2. Cut(n)
      BY <1>1, <3>1, HostCrashCuts
    <3>3. ended' \in BOOLEAN /\ exists' = exists /\ lost' = lost
      BY <3>1
    <3>4. QED
      BY <1>5, <3>1, <3>2, <3>3
  <2>2. CASE /\ exists' = FALSE /\ lines' = <<>> /\ ended' = TRUE /\ synced' = 0
             /\ lost' = TRUE /\ linked' = linked
    BY <1>6, <2>2
  <2>3. QED
    BY <2>1, <2>2 DEF HostCrash
-----------------------------------------------------------------------------
(* The theorems *)

\* A step that changes nothing keeps the invariant.
LEMMA StutterStep == ASSUME IInv, UNCHANGED vars PROVE IInv'
<1>1. TypeOK /\ FileInv /\ AccountInv /\ CallInv /\ OrderInv
  BY DEF IInv
<1>2. /\ exists' = exists /\ lines' = lines /\ ended' = ended /\ synced' = synced
      /\ linked' = linked /\ lost' = lost /\ open' = open /\ identity' = identity
      /\ spent' = spent /\ reserved' = reserved /\ call' = call /\ billed' = billed
      /\ faults' = faults /\ crashes' = crashes
  BY DEF vars, file, memory
<1>3. TypeOK'
  BY <1>1, <1>2 DEF TypeOK
<1>4. FileInv' /\ AccountInv'
  BY <1>1, <1>2 DEF FileInv, AccountInv, Live
<1>5. CallInv'
  BY <1>1, <1>2 DEF CallInv, Live, Kept
<1>6. OrderInv'
  BY <1>1, <1>2 DEF OrderInv, Live
<1>7. QED
  BY <1>3, <1>4, <1>5, <1>6 DEF IInv

\* The invariant holds initially.
LEMMA InitIInv == Init => IInv
<1> SUFFICES ASSUME Init PROVE IInv
  OBVIOUS
<1>0. /\ exists = FALSE /\ lines = <<>> /\ ended = TRUE /\ synced = 0
      /\ linked = FALSE /\ lost = FALSE
      /\ open = FALSE /\ identity = "none" /\ spent = 0 /\ reserved = 0
      /\ call = [c \in Attempts |-> "new"] /\ billed = [c \in Attempts |-> 0]
      /\ faults = 0 /\ crashes = 0
  BY DEF Init
<1>1. \A c \in Attempts : call[c] = "new" /\ billed[c] = 0 /\ ~Live(c)
  BY <1>0 DEF Live
<1>2. lines \in Seq(Record \cup {Junk}) /\ Len(lines) = 0 /\ DOMAIN lines = {}
  BY <1>0
<1>3. call \in [Attempts -> States] /\ billed \in [Attempts -> 0..Ceiling]
  BY <1>0, AmountsAssumption DEF States
<1>4. TypeOK
  <2>1. synced \in 0..Len(lines)
    BY <1>0, <1>2
  <2>2. faults \in 0..MaxFaults /\ crashes \in 0..MaxCrashes
    BY <1>0, BoundsAssumption
  <2>3. QED
    BY <1>0, <1>2, <1>3, <2>1, <2>2 DEF TypeOK
<1>5. FileInv
  BY <1>0 DEF FileInv
<1>6. AccountInv
  <2>1. LiveSet = {}
    BY <1>1 DEF LiveSet
  <2>2. Cardinality(LiveSet) = 0 /\ Ceiling * 0 = 0
    BY <2>1, FS_EmptySet, AmountsAssumption
  <2>3. QED
    BY <1>0, <1>1, <2>2, AmountsAssumption, AccountUnfolds
<1>7. CallInv
  BY <1>1, <1>2 DEF CallInv
<1>8. OrderInv
  BY <1>1, <1>2 DEF OrderInv
<1>9. QED
  BY <1>4, <1>5, <1>6, <1>7, <1>8 DEF IInv

\* Every step of the ledger, of a call, or of the environment keeps the invariant.
LEMMA NextStep == IInv /\ [Next]_vars => IInv'
<1> SUFFICES ASSUME IInv, [Next]_vars PROVE IInv'
  OBVIOUS
<1>0. TypeOK
  BY DEF IInv
<1>1. CASE Open
  BY <1>1, OpenStep
<1>2. CASE Crash
  BY <1>2, CrashStep
<1>3. CASE HostCrash
  BY <1>3, HostCrashStep
<1>4. ASSUME NEW c \in Attempts, Reserve(c) PROVE IInv'
  BY <1>4, ReserveStep
<1>5. ASSUME NEW c \in Attempts, ReserveFails(c) PROVE IInv'
  <2> DEFINE r == Entry("reserve", c, Ceiling)
  <2>1. r \in Record /\ r.id = c /\ r.event = "reserve"
    BY EntryFacts, AmountsAssumption
  <2>2. /\ call[c] = "new" /\ AppendFails(r) /\ call' = [call EXCEPT ![c] = "over"]
        /\ UNCHANGED <<open, spent, reserved, billed, crashes>>
    BY <1>5 DEF ReserveFails
  <2> HIDE DEF r
  <2>3. QED
    BY <2>1, <2>2, FailsStep
<1>6. ASSUME NEW c \in Attempts, Execute(c) PROVE IInv'
  BY <1>6, ExecuteStep
<1>7. ASSUME NEW c \in Attempts, Reconcile(c) PROVE IInv'
  <2>1. call[c] \in {"valid", "invalid"} /\ Finish(c, "reconcile", billed[c])
    BY <1>7 DEF Reconcile
  <2>2. billed[c] \in 0..Ceiling /\ billed[c] <= billed[c]
    BY <1>0 DEF TypeOK
  <2>3. QED
    BY <2>1, <2>2, FinishStep
<1>8. ASSUME NEW c \in Attempts, Forfeit(c) PROVE IInv'
  <2>1. call[c] \in {"valid", "invalid"} /\ Finish(c, "forfeit", Ceiling)
    BY <1>8 DEF Forfeit
  <2>2. Ceiling \in 0..Ceiling /\ billed[c] <= Ceiling
    BY <1>0, AmountsAssumption DEF TypeOK
  <2>3. QED
    BY <2>1, <2>2, FinishStep
<1>9. ASSUME NEW c \in Attempts, ReconcileFails(c) PROVE IInv'
  <2> DEFINE r == Entry("reconcile", c, billed[c])
  <2>1. billed[c] \in 0..Ceiling /\ billed[c] <= billed[c]
    BY <1>0 DEF TypeOK
  <2>2. r \in Record /\ r.id = c /\ r.event # "reserve" /\ r.amount = billed[c]
    BY <2>1, EntryFacts
  <2>3. /\ call[c] = "valid" /\ AppendFails(r) /\ call' = [call EXCEPT ![c] = "invalid"]
        /\ UNCHANGED <<open, spent, reserved, billed, crashes>>
    BY <1>9 DEF ReconcileFails, FinishFails
  <2> HIDE DEF r
  <2>4. Live(c)
    BY <2>3 DEF Live
  <2>5. QED
    BY <2>1, <2>2, <2>3, <2>4, FailsStep
<1>10. ASSUME NEW c \in Attempts, ForfeitFails(c) PROVE IInv'
  <2> DEFINE r == Entry("forfeit", c, Ceiling)
  <2>1. Ceiling \in 0..Ceiling /\ billed[c] <= Ceiling
    BY <1>0, AmountsAssumption DEF TypeOK
  <2>2. r \in Record /\ r.id = c /\ r.event # "reserve" /\ r.amount = Ceiling
    BY <2>1, EntryFacts
  <2>3. /\ call[c] = "invalid" /\ AppendFails(r) /\ call' = [call EXCEPT ![c] = "over"]
        /\ UNCHANGED <<open, spent, reserved, billed, crashes>>
    BY <1>10 DEF ForfeitFails, FinishFails
  <2> HIDE DEF r
  <2>4. QED
    BY <2>1, <2>2, <2>3, FailsStep
<1>11. CASE UNCHANGED vars
  BY <1>11, StutterStep
<1>12. QED
  BY <1>1, <1>2, <1>3, <1>4, <1>5, <1>6, <1>7, <1>8, <1>9, <1>10, <1>11 DEF Next

\* The inductive invariant: the account covers every live call, and what a call
\* may owe is in the durable part of the journal before the call begins.
THEOREM Invariance == Spec => []IInv
  BY InitIInv, NextStep, PTL DEF Spec

\* Every variable has its type; no reservation is ever released twice.
THEOREM TypeCorrect == Spec => []TypeOK
<1>1. IInv => TypeOK
  BY DEF IInv
<1>2. QED
  BY <1>1, Invariance, PTL

\* A ledger never writes a journal that its own replay refuses, whatever fails
\* and whoever dies: no attempt is reserved twice, or closed twice, or closed first.
THEOREM JournalOrder == Spec => []JournalLegal
<1>1. IInv => JournalLegal
  BY DEF IInv, TypeOK, OrderInv, JournalLegal, Parses, Legal
<1>2. QED
  BY <1>1, Invariance, PTL

\* What has cost something stays reserved, unless the file is lost.
LEMMA KeptNext ==
  ASSUME IInv, Next, NEW c, Kept(c)
  PROVE  lost' \/ Kept(c)'
<1>1. TypeOK /\ FileInv
  BY DEF IInv
<1>2. ASSUME NEW r, Grows(r) PROVE lost' = lost /\ Kept(c)'
  BY <1>1, <1>2, KeptStep DEF Grows
<1>3. ASSUME lines' = lines, synced' = synced, lost' = lost PROVE lost' = lost /\ Kept(c)'
  BY <1>3 DEF Kept
<1>4. CASE Open \/ Crash \/ \E d \in Attempts : Execute(d)
  <2>1. lines' = lines /\ synced' = synced /\ lost' = lost
    BY <1>4 DEF Open, Crash, Execute, file
  <2>2. QED
    BY <1>3, <2>1
<1>5. CASE HostCrash
  <2>1. CASE \E n \in synced..Len(lines) :
               /\ synced' = n
               /\ \/ lines' = Upto(lines, n) /\ ended' = TRUE
                  \/ /\ n < Len(lines) /\ ended' = FALSE
                     /\ lines' \in {Upto(lines, n + 1), Append(Upto(lines, n), Junk)}
               /\ linked' = exists
               /\ UNCHANGED <<exists, lost>>
    <3>1. PICK n \in synced..Len(lines) :
             /\ synced' = n /\ lost' = lost
             /\ \/ lines' = Upto(lines, n) /\ ended' = TRUE
                \/ /\ n < Len(lines) /\ ended' = FALSE
                   /\ lines' \in {Upto(lines, n + 1), Append(Upto(lines, n), Junk)}
      BY <2>1
    <3>2. Cut(n)
      BY <1>1, <3>1, HostCrashCuts
    <3>3. PICK i \in 1..synced : Opens(lines[i], c) \/ lines[i] = Junk
      BY DEF Kept
    <3>4. synced \in Nat /\ n \in Nat /\ synced <= n
      BY <1>1, LenProperties DEF TypeOK
    <3>5. i \in 1..n /\ lines'[i] = lines[i]
      BY <3>2, <3>3, <3>4 DEF Cut
    <3>6. QED
      BY <3>1, <3>3, <3>5 DEF Kept, Junk
  <2>2. CASE lost' = TRUE
    BY <2>2
  <2>3. QED
    BY <1>5, <2>1, <2>2 DEF HostCrash
<1>6. ASSUME NEW d \in Attempts, Reserve(d) \/ ReserveFails(d) PROVE lost' = lost /\ Kept(c)'
  <2> DEFINE r == Entry("reserve", d, Ceiling)
  <2>1. r \in Record
    BY EntryFacts, AmountsAssumption
  <2>2. AppendWorks(r) \/ AppendFails(r)
    BY <1>6 DEF Reserve, ReserveFails
  <2> HIDE DEF r
  <2>3. QED
    BY <1>1, <1>2, <2>1, <2>2, WorksGrows, FailsGrows
<1>7. ASSUME NEW d \in Attempts, Reconcile(d) \/ ReconcileFails(d) PROVE lost' = lost /\ Kept(c)'
  <2> DEFINE r == Entry("reconcile", d, billed[d])
  <2>1. r \in Record
    <3>1. billed[d] \in 0..Ceiling
      BY <1>1 DEF TypeOK
    <3>2. QED
      BY <3>1, EntryFacts
  <2>2. AppendWorks(r) \/ AppendFails(r)
    BY <1>7 DEF Reconcile, ReconcileFails, Finish, FinishFails
  <2> HIDE DEF r
  <2>3. QED
    BY <1>1, <1>2, <2>1, <2>2, WorksGrows, FailsGrows
<1>8. ASSUME NEW d \in Attempts, Forfeit(d) \/ ForfeitFails(d) PROVE lost' = lost /\ Kept(c)'
  <2> DEFINE r == Entry("forfeit", d, Ceiling)
  <2>1. r \in Record
    BY EntryFacts, AmountsAssumption
  <2>2. AppendWorks(r) \/ AppendFails(r)
    BY <1>8 DEF Forfeit, ForfeitFails, Finish, FinishFails
  <2> HIDE DEF r
  <2>3. QED
    BY <1>1, <1>2, <2>1, <2>2, WorksGrows, FailsGrows
<1>9. QED
  BY <1>4, <1>5, <1>6, <1>7, <1>8 DEF Next

\* A lost file is remembered for ever.
LEMMA LostStays == ASSUME Next, lost PROVE lost'
  BY DEF Next, Open, Crash, HostCrash, Reserve, ReserveFails, Reconcile, ReconcileFails,
         Forfeit, ForfeitFails, Finish, FinishFails, Execute, AppendWorks, AppendFails,
         FailsBefore, FailsWriting, FailsSyncing, FailsLinking, file

\* The provider charges only for a call that runs.
LEMMA BilledNext ==
  ASSUME IInv, Next, billed' # billed
  PROVE  \E c \in Attempts : Live(c) /\ Execute(c) /\ \A d \in Attempts : d # c => billed'[d] = billed[d]
<1>1. PICK c \in Attempts : Execute(c)
  BY DEF Next, Open, Crash, HostCrash, Reserve, ReserveFails, Reconcile, ReconcileFails,
         Forfeit, ForfeitFails, Finish, FinishFails
<1>2. Live(c)
  BY <1>1 DEF Execute, Live
<1>3. \A d \in Attempts : d # c => billed'[d] = billed[d]
  BY <1>1 DEF Execute, IInv, TypeOK
<1>4. QED
  BY <1>1, <1>2, <1>3

\* Whatever has cost something stays reserved.
LEMMA BilledStep == IInv /\ BilledInv /\ [Next]_vars => BilledInv'
<1> SUFFICES ASSUME IInv, BilledInv, [Next]_vars, NEW c \in Attempts, billed'[c] > 0, ~lost'
             PROVE  Kept(c)'
  BY DEF BilledInv
<1>1. CASE UNCHANGED vars
  <2>1. lines' = lines /\ synced' = synced /\ lost' = lost /\ billed' = billed
    BY <1>1 DEF vars, file
  <2>2. QED
    BY <2>1 DEF BilledInv, Kept
<1>2. CASE Next
  <2>1. Kept(c) \/ lost
    <3>1. CASE billed'[c] = billed[c]
      BY <3>1 DEF BilledInv
    <3>2. CASE billed'[c] # billed[c]
      <4>1. Live(c)
        BY <1>2, <3>2, BilledNext
      <4>2. QED
        BY <4>1, Knows
    <3>3. QED
      BY <3>1, <3>2
  <2>2. lost => lost'
    BY <1>2, LostStays
  <2>3. QED
    BY <1>2, <2>1, <2>2, KeptNext
<1>3. QED
  BY <1>1, <1>2

\* The charge of a replay is a number.
LEMMA ChargeType ==
  ASSUME NEW s \in Seq(Line), NEW c
  PROVE  ChargeOf(s, c) \in 0..Ceiling
<1>1. CASE \E i \in DOMAIN s : Closes(s[i], c)
  <2> DEFINE i == CHOOSE i \in DOMAIN s : Closes(s[i], c)
  <2>1. i \in DOMAIN s /\ Closes(s[i], c) /\ ChargeOf(s, c) = s[i].amount
    BY <1>1 DEF ChargeOf
  <2> HIDE DEF i
  <2>2. s[i] \in Line /\ s[i] # Junk
    BY <2>1, JunkFacts
  <2>3. QED
    BY <2>1, <2>2 DEF Line, Record
<1>2. CASE ~\E i \in DOMAIN s : Closes(s[i], c)
  BY <1>2, AmountsAssumption DEF ChargeOf
<1>3. QED
  BY <1>1, <1>2

\* A replay of some lines charges a call at least what it has cost, if it has no
\* cost or is opened in them.
LEMMA OneCharged ==
  ASSUME IInv, NEW s \in Seq(Line), Len(s) <= Len(lines), \A i \in DOMAIN s : s[i] = lines[i],
         NEW c \in Attempts, billed[c] > 0 => \E i \in DOMAIN s : Opens(s[i], c)
  PROVE  billed[c] <= ChargeOf(s, c)
<1>1. TypeOK /\ CallInv /\ lines \in Seq(Line)
  BY DEF IInv, TypeOK, Line
<1>2. DOMAIN s = 1..Len(s) /\ DOMAIN lines = 1..Len(lines) /\ Len(s) \in Nat /\ Len(lines) \in Nat
  BY <1>1, LenProperties
<1>3. \A i \in DOMAIN s : i \in DOMAIN lines
  BY <1>2
<1>4. CASE \E i \in DOMAIN s : Closes(s[i], c)
  <2> DEFINE i == CHOOSE i \in DOMAIN s : Closes(s[i], c)
  <2>1. i \in DOMAIN s /\ Closes(s[i], c)
    BY <1>4
  <2>2. ChargeOf(s, c) = s[i].amount
    BY <1>4 DEF ChargeOf
  <2> HIDE DEF i
  <2>3. i \in DOMAIN lines /\ Closes(lines[i], c) /\ ChargeOf(s, c) = lines[i].amount
    BY <1>3, <2>1, <2>2
  <2>4. QED
    BY <1>1, <2>3 DEF CallInv
<1>5. CASE ~\E i \in DOMAIN s : Closes(s[i], c)
  <2>1. CASE billed[c] > 0
    <3>1. ChargeOf(s, c) = Ceiling
      BY <1>5, <2>1 DEF ChargeOf
    <3>2. QED
      BY <1>1, <3>1, AmountsAssumption DEF TypeOK
  <2>2. CASE ~(billed[c] > 0)
    <3>1. ChargeOf(s, c) \in 0..Ceiling
      BY ChargeType
    <3>2. QED
      BY <1>1, <2>2, <3>1, AmountsAssumption DEF TypeOK
  <2>3. QED
    BY <2>1, <2>2
<1>6. QED
  BY <1>4, <1>5

\* A replay of the lines up to any place that no fsync has passed charges
\* every call at least what it has cost.
LEMMA Charged ==
  ASSUME IInv, BilledInv, ~lost,
         NEW s \in Seq(Line), Parses(s), Len(s) >= synced, Len(s) <= Len(lines),
         \A i \in DOMAIN s : s[i] = lines[i]
  PROVE  \A c \in Attempts : billed[c] <= ChargeOf(s, c)
<1>1. synced \in 0..Len(lines) /\ Len(s) \in Nat /\ DOMAIN s = 1..Len(s) /\ lines \in Seq(Line)
  BY LenProperties DEF IInv, TypeOK, Line
<1>2. \A i \in 1..synced : i \in DOMAIN s
  BY <1>1, LenProperties
<1>3. ASSUME NEW c \in Attempts, billed[c] > 0 PROVE \E i \in DOMAIN s : Opens(s[i], c)
  <2>1. Kept(c)
    BY <1>3 DEF BilledInv
  <2>2. QED
    BY <1>2, <2>1 DEF Kept, Parses
<1>4. QED
  BY <1>3, OneCharged

\* Whatever has cost something is reserved, in every behaviour.
LEMMA BilledInvariance == Spec => []BilledInv
<1>1. Init => BilledInv
  BY DEF Init, BilledInv
<1>2. QED
  BY <1>1, BilledStep, Invariance, PTL DEF Spec

\* Whatever a call has cost is charged by every later replay, even if the host
\* dies at once.
THEOREM EveryBillIsCharged == Spec => []BillsAreCharged
<1>1. ASSUME IInv, BilledInv PROVE BillsAreCharged
  <2>1. lines \in Seq(Line) /\ synced \in 0..Len(lines) /\ Len(lines) \in Nat
    BY <1>1, LenProperties DEF IInv, TypeOK, Line
  <2>2. /\ Durable \in Seq(Line) /\ Len(Durable) = synced
        /\ \A i \in DOMAIN Durable : Durable[i] = lines[i]
    BY <2>1, UptoFacts DEF Durable
  <2>3. QED
    BY <1>1, <2>1, <2>2, Charged DEF BillsAreCharged
<1>2. QED
  BY <1>1, Invariance, BilledInvariance, PTL
-----------------------------------------------------------------------------
(* The account and the cap *)

\* What the calls are worth is a number each.
LEMMA HeldFacts ==
  ASSUME TypeOK
  PROVE  /\ billed \in [Attempts -> Nat] /\ Held \in [Attempts -> Nat]
         /\ \A c \in Attempts : Held[c] = IF Live(c) THEN Ceiling ELSE billed[c]
         /\ \A c \in Attempts : billed[c] <= Held[c] /\ Held[c] <= Ceiling
<1>1. \A c \in Attempts : billed[c] \in Nat /\ billed[c] <= Ceiling /\ Ceiling \in Nat
  BY AmountsAssumption DEF TypeOK
<1>2. billed \in [Attempts -> Nat]
  BY <1>1 DEF TypeOK
<1>3. \A c \in Attempts : Held[c] = IF Live(c) THEN Ceiling ELSE billed[c]
  BY DEF Held
<1>4. Held \in [Attempts -> Nat]
  BY <1>1 DEF Held
<1>5. QED
  BY <1>1, <1>2, <1>3, <1>4

\* And after a step.
LEMMA HeldFactsNext ==
  ASSUME TypeOK'
  PROVE  /\ billed' \in [Attempts -> Nat] /\ Held' \in [Attempts -> Nat]
         /\ \A c \in Attempts : Held'[c] = IF Live(c)' THEN Ceiling ELSE billed'[c]
         /\ \A c \in Attempts : billed'[c] <= Held'[c] /\ Held'[c] <= Ceiling
<1>1. \A c \in Attempts : billed'[c] \in Nat /\ billed'[c] <= Ceiling /\ Ceiling \in Nat
  BY AmountsAssumption DEF TypeOK
<1>2. billed' \in [Attempts -> Nat]
  BY <1>1 DEF TypeOK
<1>3. \A c \in Attempts : Held'[c] = IF Live(c)' THEN Ceiling ELSE billed'[c]
  BY DEF Held
<1>4. Held' \in [Attempts -> Nat]
  BY <1>1 DEF Held
<1>5. QED
  BY <1>1, <1>2, <1>3, <1>4

\* Bills within what is held, that within the account, that within the cap.
LEMMA WithinCap ==
  ASSUME NEW b \in Nat, NEW h \in Nat, NEW s \in Nat, NEW r \in Nat, NEW k \in Nat,
         b <= h, h <= s + r, s + r <= k
  PROVE  b <= k
  OBVIOUS

\* The account covers the bills of an open ledger, so they are within the cap.
LEMMA BudgetBy ==
  ASSUME IInv', BudgetInv, lost => lost', open' \/ billed' = billed,
         open' /\ ~lost' => Sum(Held') <= spent' + reserved'
  PROVE  BudgetInv'
<1>1. ASSUME ~lost' PROVE Sum(billed') <= Cap
  <2>1. CASE open'
    <3>1. TypeOK' /\ AccountInv'
      BY DEF IInv
    <3>2. billed' \in [Attempts -> Nat] /\ Held' \in [Attempts -> Nat] /\ \A c \in Attempts : billed'[c] <= Held'[c]
      BY <3>1, HeldFactsNext
    <3>3. Sum(billed') \in Nat /\ Sum(Held') \in Nat /\ Sum(billed') <= Sum(Held')
      BY <3>2, SumMonotone, AttemptsAssumption
    <3>4. spent' \in Nat /\ reserved' \in Nat
      BY <3>1 DEF TypeOK
    <3>10. spent' + reserved' <= Cap
      BY <3>1 DEF AccountInv
    <3>5. Sum(Held') <= spent' + reserved'
      BY <1>1, <2>1
    <3>6. QED
      BY <3>3, <3>4, <3>5, <3>10, AmountsAssumption, WithinCap
  <2>2. CASE ~open'
    <3>1. billed' = billed /\ ~lost
      BY <1>1, <2>2
    <3>2. QED
      BY <3>1 DEF BudgetInv, BudgetHolds
  <2>3. QED
    BY <2>1, <2>2
<1>2. QED
  BY <1>1 DEF BudgetInv, BudgetHolds

\* A step of call c changes what c is worth, and the account by as much at least.
LEMMA HeldMoves ==
  ASSUME TypeOK, TypeOK', NEW c \in Attempts,
         \A d \in Attempts : d # c => Held'[d] = Held[d],
         Sum(Held) <= spent + reserved,
         spent + reserved + Held'[c] <= spent' + reserved' + Held[c]
  PROVE  Sum(Held') <= spent' + reserved'
<1>1. Held \in [Attempts -> Nat] /\ Held' \in [Attempts -> Nat]
  BY HeldFacts, HeldFactsNext
<1>2. Sum(Held) \in Nat /\ Sum(Held') \in Nat /\ Sum(Held) + Held'[c] = Sum(Held') + Held[c]
  BY <1>1, SumChange, AttemptsAssumption
<1>3. spent \in Nat /\ reserved \in Nat /\ spent' \in Nat /\ reserved' \in Nat
  BY DEF TypeOK
<1>4. Held[c] \in Nat /\ Held'[c] \in Nat
  BY <1>1
<1>5. QED
  BY <1>2, <1>3, <1>4

\* What a call in the state s is worth.
LEMMA HeldCall ==
  ASSUME TypeOK, TypeOK', NEW c \in Attempts, NEW s \in States, call' = [call EXCEPT ![c] = s],
         \A d \in Attempts : d # c => billed'[d] = billed[d]
  PROVE  /\ \A d \in Attempts : d # c => Held'[d] = Held[d]
         /\ Held'[c] = IF s \in {"reserved", "valid", "invalid"} THEN Ceiling ELSE billed'[c]
<1>1. \A d \in Attempts : call'[d] = IF d = c THEN s ELSE call[d]
  BY DEF TypeOK
<1>2. \A d \in Attempts : Held'[d] = IF Live(d)' THEN Ceiling ELSE billed'[d]
  BY HeldFactsNext
<1>3. \A d \in Attempts : Held[d] = IF Live(d) THEN Ceiling ELSE billed[d]
  BY HeldFacts
<1>4. QED
  BY <1>1, <1>2, <1>3 DEF Live

\* A restored account covers all that was ever charged, if a replay does.
LEMMA OpenCovers ==
  ASSUME IInv, IInv', Open, \A c \in Attempts : billed[c] <= ChargeOf(lines, c)
  PROVE  Sum(Held') <= spent' + reserved'
<1>1. TypeOK /\ TypeOK' /\ AccountInv
  BY DEF IInv
<1>2. /\ ~open /\ Parses(lines) /\ spent' = Restored(lines) /\ reserved' = 0
      /\ call' = call /\ billed' = billed
  BY DEF Open, Restorable
<1>3. lines \in Seq(Line) /\ Len(lines) \in Nat /\ synced <= Len(lines)
  BY <1>1, LenProperties DEF TypeOK, Line
<1>5. \A c \in Attempts : Held'[c] = billed[c]
  BY <1>1, <1>2, HeldFactsNext DEF AccountInv, Live
<1> DEFINE charges == [c \in Attempts |-> ChargeOf(lines, c)]
<1>6. charges \in [Attempts -> Nat] /\ Held' \in [Attempts -> Nat]
  <2>1. \A c \in Attempts : ChargeOf(lines, c) \in Nat
    BY <1>3, ChargeType, AmountsAssumption
  <2>2. Held' \in [Attempts -> Nat]
    BY <1>1, HeldFactsNext
  <2>3. QED
    BY <2>1, <2>2
<1>7. \A c \in Attempts : Held'[c] <= charges[c]
  BY <1>5
<1>8. Restored(lines) = Sum(charges)
  BY DEF Restored
<1> HIDE DEF charges
<1>9. Sum(Held') <= Sum(charges) /\ Sum(charges) \in Nat
  BY <1>6, <1>7, SumMonotone, AttemptsAssumption
<1>10. QED
  BY <1>2, <1>8, <1>9

\* A call holds its ceiling from before it runs until its close record charges
\* what it has cost, or for ever.
LEMMA HeldNext ==
  ASSUME IInv, IInv', [Next]_vars, open, open', Sum(Held) <= spent + reserved
  PROVE  Sum(Held') <= spent' + reserved'
<1>0. TypeOK /\ TypeOK' /\ AccountInv
  BY DEF IInv
<1>1. spent \in Nat /\ reserved \in Nat /\ spent' \in Nat /\ reserved' \in Nat /\ Ceiling \in Nat
  BY <1>0, AmountsAssumption DEF TypeOK
<1>3. CASE UNCHANGED vars
  BY <1>3 DEF vars, memory, Held, Live
<1>4. ~Open /\ ~Crash /\ ~HostCrash
  BY DEF Open, Crash, HostCrash, Gone
<1>6. ASSUME NEW c \in Attempts, NEW s \in States, call' = [call EXCEPT ![c] = s],
             open' = open, \A d \in Attempts : d # c => billed'[d] = billed[d], open,
             LET worth == IF s \in {"reserved", "valid", "invalid"} THEN Ceiling ELSE billed'[c]
             IN  spent + reserved + worth <= spent' + reserved' + Held[c]
      PROVE  Sum(Held') <= spent' + reserved'
  <2>1. /\ \A d \in Attempts : d # c => Held'[d] = Held[d]
        /\ Held'[c] = IF s \in {"reserved", "valid", "invalid"} THEN Ceiling ELSE billed'[c]
    BY <1>0, <1>6, HeldCall
  <2>2. spent + reserved + Held'[c] <= spent' + reserved' + Held[c]
    BY <1>6, <2>1
  <2>3. QED
    BY <1>0, <2>1, <2>2, HeldMoves
<1>7. \A c \in Attempts : /\ Live(c) => open /\ Held[c] = Ceiling
                          /\ ~Live(c) => Held[c] = billed[c]
                          /\ billed[c] \in Nat /\ billed[c] <= Held[c] /\ Held[c] \in Nat
                          /\ call[c] \in {"new", "reserved"} => billed[c] = 0
  BY <1>0, HeldFacts, Knows DEF AccountInv
<1>8. ASSUME NEW c \in Attempts, Reserve(c) PROVE Sum(Held') <= spent' + reserved'
  <2>1. /\ open /\ open' = open /\ call[c] = "new" /\ call' = [call EXCEPT ![c] = "reserved"]
        /\ spent' = spent /\ reserved' = reserved + Ceiling /\ billed' = billed
    BY <1>8 DEF Reserve
  <2>2. Held[c] = 0 /\ "reserved" \in States
    BY <1>7, <2>1 DEF Live, States
  <2>3. spent + reserved + Ceiling <= spent' + reserved' + Held[c]
    BY <1>1, <2>1, <2>2
  <2>4. QED
    BY <1>6, <2>1, <2>2, <2>3
<1>9. ASSUME NEW c \in Attempts, ReserveFails(c) PROVE Sum(Held') <= spent' + reserved'
  <2>1. /\ open /\ open' = open /\ call[c] = "new" /\ call' = [call EXCEPT ![c] = "over"]
        /\ spent' = spent /\ reserved' = reserved /\ billed' = billed
    BY <1>9 DEF ReserveFails
  <2>2. Held[c] = billed[c] /\ "over" \in States
    BY <1>7, <2>1 DEF Live, States
  <2>3. spent + reserved + billed[c] <= spent' + reserved' + Held[c]
    BY <1>1, <1>7, <2>1, <2>2
  <2>4. QED
    BY <1>6, <2>1, <2>2, <2>3
<1>10. ASSUME NEW c \in Attempts, Execute(c) PROVE Sum(Held') <= spent' + reserved'
  <2>1. PICK s \in {"valid", "invalid"} :
          /\ call[c] = "reserved" /\ call' = [call EXCEPT ![c] = s]
          /\ open' = open /\ spent' = spent /\ reserved' = reserved
    BY <1>10 DEF Execute, memory
  <2>2. \A d \in Attempts : d # c => billed'[d] = billed[d]
    BY <1>0, <1>10 DEF Execute, TypeOK
  <2>3. Held[c] = Ceiling /\ s \in States /\ open
    BY <1>7, <2>1 DEF Live, States
  <2>4. spent + reserved + Ceiling <= spent' + reserved' + Held[c] /\ s \in {"reserved", "valid", "invalid"}
    BY <1>1, <2>1, <2>3
  <2>5. QED
    BY <1>6, <2>1, <2>2, <2>3, <2>4
<1>11. ASSUME NEW c \in Attempts, NEW e, NEW n \in 0..Ceiling, Live(c), Finish(c, e, n), billed[c] <= n
       PROVE  Sum(Held') <= spent' + reserved'
  <2>1. /\ open' = open /\ call' = [call EXCEPT ![c] = "over"]
        /\ spent' = spent + n /\ reserved' = reserved - Ceiling /\ billed' = billed
    BY <1>11 DEF Finish
  <2>2. Held[c] = Ceiling /\ "over" \in States /\ open
    BY <1>7, <1>11 DEF States
  <2>3. spent + reserved + billed[c] <= spent' + reserved' + Held[c]
    BY <1>1, <1>7, <1>11, <2>1, <2>2
  <2>4. QED
    BY <1>6, <2>1, <2>2, <2>3
<1>12. ASSUME NEW c \in Attempts, NEW e, NEW n, Live(c), NEW s \in {"invalid", "over"}, FinishFails(c, e, n, s)
       PROVE  Sum(Held') <= spent' + reserved'
  <2>1. /\ open' = open /\ call' = [call EXCEPT ![c] = s]
        /\ spent' = spent /\ reserved' = reserved /\ billed' = billed
    BY <1>12 DEF FinishFails
  <2>2. Held[c] = Ceiling /\ s \in States /\ open
    BY <1>7, <1>12 DEF States
  <2>3. spent + reserved + Ceiling <= spent' + reserved' + Held[c]
        /\ spent + reserved + billed[c] <= spent' + reserved' + Held[c]
    BY <1>1, <1>7, <2>1, <2>2
  <2>4. QED
    BY <1>6, <2>1, <2>2, <2>3
<1>13. ASSUME NEW c \in Attempts, Reconcile(c) \/ Forfeit(c) PROVE Sum(Held') <= spent' + reserved'
  <2>1. Live(c)
    BY <1>13 DEF Reconcile, Forfeit, Live
  <2>2. billed[c] \in 0..Ceiling /\ billed[c] <= billed[c] /\ Ceiling \in 0..Ceiling /\ billed[c] <= Ceiling
    <3>1. billed \in [Attempts -> 0..Ceiling]
      BY <1>0 DEF TypeOK
    <3>2. billed[c] \in 0..Ceiling
      BY <3>1
    <3>3. QED
      BY <1>1, <3>2
  <2>3. QED
    BY <1>11, <1>13, <2>1, <2>2 DEF Reconcile, Forfeit
<1>14. ASSUME NEW c \in Attempts, ReconcileFails(c) \/ ForfeitFails(c) PROVE Sum(Held') <= spent' + reserved'
  <2>1. Live(c)
    BY <1>14 DEF ReconcileFails, ForfeitFails, Live
  <2>2. QED
    BY <1>12, <1>14, <2>1 DEF ReconcileFails, ForfeitFails
<1>15. QED
  BY <1>3, <1>4, <1>8, <1>9, <1>10, <1>13, <1>14 DEF Next

\* The account of an open ledger covers every call, after every step.
LEMMA BudgetStep == IInv /\ BilledInv /\ BudgetInv /\ [Next]_vars => BudgetInv'
<1> SUFFICES ASSUME IInv, BilledInv, BudgetInv, [Next]_vars PROVE BudgetInv'
  OBVIOUS
<1>1. IInv' /\ TypeOK /\ AccountInv
  BY NextStep DEF IInv
<1>2. lost => lost'
  BY LostStays DEF vars, file
<1>3. CASE Open
  <2>1. ASSUME ~lost' PROVE Sum(Held') <= spent' + reserved'
    <3>1. lines \in Seq(Line) /\ Len(lines) \in Nat /\ synced <= Len(lines) /\ Parses(lines)
      BY <1>1, <1>3, LenProperties DEF TypeOK, Line, Open, Restorable
    <3>2. \A c \in Attempts : billed[c] <= ChargeOf(lines, c)
      BY <1>2, <2>1, <3>1, Charged
    <3>3. QED
      BY <1>1, <1>3, <3>2, OpenCovers
  <2>2. billed' = billed
    BY <1>3 DEF Open
  <2>3. QED
    BY <1>1, <1>2, <2>1, <2>2, BudgetBy
<1>4. CASE open /\ open'
  <2>1. ~lost' => Sum(Held') <= spent' + reserved'
    BY <1>1, <1>2, <1>4, HeldNext DEF BudgetInv
  <2>2. QED
    BY <1>1, <1>2, <1>4, <2>1, BudgetBy
<1>5. CASE ~Open /\ ~(open /\ open')
  <2>1. ~open'
    BY <1>5 DEF Next, Open, Crash, HostCrash, Gone, Reserve, ReserveFails, Execute, Reconcile, ReconcileFails,
                Forfeit, ForfeitFails, Finish, FinishFails, vars, memory
  <2>2. billed' = billed
    <3>1. SUFFICES ASSUME billed' # billed PROVE FALSE
      OBVIOUS
    <3>2. Next
      BY <3>1 DEF vars
    <3>3. PICK c \in Attempts : Live(c) /\ Execute(c)
      BY <3>1, <3>2, BilledNext
    <3>4. QED
      BY <1>1, <2>1, <3>3 DEF AccountInv, Execute, memory
  <2>3. QED
    BY <1>1, <1>2, <2>1, <2>2, BudgetBy
<1>6. QED
  BY <1>3, <1>4, <1>5

\* The provider never charges more than the cap of the run, whatever calls are
\* made at the same time, and whatever fails, dies and is restored.
THEOREM BudgetIsKept == Spec => []BudgetHolds
<1>1. Init => BudgetInv
  <2>1. SUFFICES ASSUME Init PROVE BudgetInv
    OBVIOUS
  <2>2. billed \in [Attempts -> Nat] /\ \A c \in Attempts : billed[c] = 0
    BY <2>1 DEF Init
  <2>3. Sum(billed) = 0
    BY <2>2, SumZero, AttemptsAssumption
  <2>4. ~open
    BY <2>1 DEF Init
  <2>5. QED
    BY <2>3, <2>4, AmountsAssumption DEF BudgetInv, BudgetHolds
<1>2. BudgetInv => BudgetHolds
  BY DEF BudgetInv
<1>3. QED
  BY <1>1, <1>2, BudgetStep, Invariance, BilledInvariance, PTL DEF Spec

-----------------------------------------------------------------------------
(* The collector.  First the steps of the ledger that a collector adds. *)

\* A change of the directory, or a fault, is none of the ledger.
LEMMA BesideStep ==
  ASSUME IInv, linked' \in BOOLEAN, faults' \in 0..MaxFaults,
         UNCHANGED <<exists, lines, ended, synced, lost, memory, call, billed, crashes>>
  PROVE  IInv'
<1>1. TypeOK /\ FileInv /\ AccountInv /\ CallInv /\ OrderInv
  BY DEF IInv
<1>2. /\ exists' = exists /\ lines' = lines /\ ended' = ended /\ synced' = synced
      /\ lost' = lost /\ open' = open /\ identity' = identity
      /\ spent' = spent /\ reserved' = reserved /\ call' = call /\ billed' = billed
      /\ crashes' = crashes
  BY DEF memory
<1>3. TypeOK'
  BY <1>1, <1>2 DEF TypeOK
<1>4. FileInv' /\ AccountInv'
  BY <1>1, <1>2 DEF FileInv, AccountInv, Live
<1>5. CallInv'
  BY <1>1, <1>2 DEF CallInv, Live, Kept
<1>6. OrderInv'
  BY <1>1, <1>2 DEF OrderInv, Live
<1>7. QED
  BY <1>3, <1>4, <1>5, <1>6 DEF IInv

\* A record for a call that is over, while no call is live, may be appended if
\* the journal is ready for it and the account stays within the cap.
LEMMA RestoreKeeps ==
  ASSUME IInv, \A d \in Attempts : ~Live(d), NEW c \in Attempts, call[c] = "over",
         NEW r \in Record, r.id = c, Grows(r), lines' = lines \/ Follows(r),
         identity' = "none" => identity = "none",
         r.event # "reserve" => billed[c] <= r.amount,
         spent' \in Nat, spent' + reserved <= Cap, faults' \in 0..MaxFaults,
         UNCHANGED <<open, reserved, call, billed, crashes>>
  PROVE  IInv'
<1>1. TypeOK /\ FileInv /\ AccountInv /\ CallInv /\ OrderInv
  BY DEF IInv
<1>2. call' = [call EXCEPT ![c] = "over"] /\ "over" \in States \ {"new"}
  BY <1>1 DEF TypeOK, States
<1>3. TypeOK'
  <2>1. FileTypes'
    BY DEF Grows
  <2>2. /\ open' \in BOOLEAN /\ reserved' \in Nat /\ call' \in [Attempts -> States]
        /\ billed' \in [Attempts -> 0..Ceiling] /\ crashes' \in 0..MaxCrashes
    BY <1>1 DEF TypeOK
  <2>3. QED
    BY <2>1, <2>2, TypeParts
<1>4. FileInv'
  BY DEF Grows
<1>5. \A d \in Attempts : ~Live(d)'
  BY DEF Live
<1>6. AccountInv'
  <2>1. reserved' = reserved /\ reserved' \in Nat
    BY <1>1 DEF TypeOK
  <2>2. QED
    BY <1>5, <2>1, AccountEmpty
<1>7. CallInv'
  BY <1>1, <1>2, CallGrows
<1>8. OrderInv'
  <2>1. InOrder'
    BY <1>1, OrderGrows DEF OrderInv, InOrder
  <2>2. QED
    BY <1>1, <1>2, <1>5, <2>1, LiveGrows
<1>9. QED
  BY <1>3, <1>4, <1>6, <1>7, <1>8 DEF IInv

-----------------------------------------------------------------------------
(* What every step leaves of calls that are over and lines that are durable *)

Onward ==
  /\ \A c \in Attempts : call[c] = "over" => call'[c] = "over" /\ billed'[c] = billed[c]
  /\ lost => lost'
  /\ ~lost' => \A i \in 1..synced : i \in 1..synced' /\ lines'[i] = lines[i]

\* An append leaves them.
LEMMA GrowsOnward ==
  ASSUME TypeOK, NEW r, Grows(r),
         \A c \in Attempts : call[c] = "over" => call'[c] = "over" /\ billed'[c] = billed[c]
  PROVE  Onward
<1>1. synced \in Nat /\ synced' \in Nat /\ synced <= synced'
  BY DEF TypeOK, Grows, FileTypes
<1>2. \A i \in 1..synced : i \in 1..synced'
  BY <1>1
<1>3. QED
  BY <1>2 DEF Onward, Grows

\* So does every step of the ledger.
LEMMA NextOnward ==
  ASSUME IInv, Next
  PROVE  Onward
<1>1. TypeOK /\ FileInv
  BY DEF IInv
<1>2. ASSUME NEW c \in Attempts, call[c] = "over" PROVE call'[c] = "over" /\ billed'[c] = billed[c]
  <2>1. billed'[c] = billed[c]
    <3>1. ~Live(c)
      BY <1>2 DEF Live
    <3>2. QED
      BY <3>1, BilledNext
  <2>2. CASE Crash \/ HostCrash
    BY <1>2, <2>1, <2>2 DEF Crash, HostCrash, Gone
  <2>3. CASE Open
    BY <1>2, <2>1, <2>3 DEF Open
  <2>4. ASSUME NEW d \in Attempts, NEW s, call' = [call EXCEPT ![d] = s], call[d] # "over"
        PROVE  call'[c] = "over"
    BY <1>1, <1>2, <2>4 DEF TypeOK
  <2>5. ASSUME NEW d \in Attempts, Execute(d) PROVE call'[c] = "over"
    BY <2>4, <2>5 DEF Execute
  <2>6. ASSUME NEW d \in Attempts, Reserve(d) \/ ReserveFails(d) PROVE call'[c] = "over"
    BY <2>4, <2>6 DEF Reserve, ReserveFails
  <2>7. ASSUME NEW d \in Attempts, Reconcile(d) \/ ReconcileFails(d) \/ Forfeit(d) \/ ForfeitFails(d)
        PROVE  call'[c] = "over"
    BY <2>4, <2>7 DEF Reconcile, ReconcileFails, Forfeit, ForfeitFails, Finish, FinishFails
  <2>8. QED
    BY <2>1, <2>2, <2>3, <2>5, <2>6, <2>7 DEF Next
<1>3. ASSUME NEW r \in Record, AppendWorks(r) \/ AppendFails(r) PROVE Onward
  BY <1>1, <1>2, <1>3, WorksGrows, FailsGrows, GrowsOnward
<1>4. CASE Open \/ Crash \/ \E d \in Attempts : Execute(d)
  <2>1. lines' = lines /\ synced' = synced /\ lost' = lost
    BY <1>4 DEF Open, Crash, Execute, file
  <2>2. QED
    BY <1>2, <2>1 DEF Onward
<1>5. CASE HostCrash
  <2>1. CASE \E n \in synced..Len(lines) :
               /\ synced' = n
               /\ \/ lines' = Upto(lines, n) /\ ended' = TRUE
                  \/ /\ n < Len(lines) /\ ended' = FALSE
                     /\ lines' \in {Upto(lines, n + 1), Append(Upto(lines, n), Junk)}
               /\ linked' = exists
               /\ UNCHANGED <<exists, lost>>
    <3>1. PICK n \in synced..Len(lines) :
             /\ synced' = n /\ lost' = lost
             /\ \/ lines' = Upto(lines, n) /\ ended' = TRUE
                \/ /\ n < Len(lines) /\ ended' = FALSE
                   /\ lines' \in {Upto(lines, n + 1), Append(Upto(lines, n), Junk)}
      BY <2>1
    <3>2. Cut(n)
      BY <1>1, <3>1, HostCrashCuts
    <3>3. synced \in Nat /\ n \in Nat /\ synced <= n
      BY <1>1, LenProperties DEF TypeOK
    <3>4. \A i \in 1..synced : i \in 1..n /\ lines'[i] = lines[i]
      BY <3>2, <3>3 DEF Cut
    <3>5. QED
      BY <1>2, <3>1, <3>4 DEF Onward
  <2>2. CASE lost' = TRUE
    BY <1>2, <2>2 DEF Onward
  <2>3. QED
    BY <1>5, <2>1, <2>2 DEF HostCrash
<1>6. ASSUME NEW d \in Attempts, Reserve(d) \/ ReserveFails(d) PROVE Onward
  <2>1. Entry("reserve", d, Ceiling) \in Record
    BY EntryFacts, AmountsAssumption
  <2>2. QED
    BY <1>3, <1>6, <2>1 DEF Reserve, ReserveFails
<1>7. ASSUME NEW d \in Attempts, Reconcile(d) \/ ReconcileFails(d) PROVE Onward
  <2>1. billed[d] \in 0..Ceiling
    BY <1>1 DEF TypeOK
  <2>2. Entry("reconcile", d, billed[d]) \in Record
    BY <2>1, EntryFacts
  <2>3. QED
    BY <1>3, <1>7, <2>2 DEF Reconcile, ReconcileFails, Finish, FinishFails
<1>8. ASSUME NEW d \in Attempts, Forfeit(d) \/ ForfeitFails(d) PROVE Onward
  <2>1. Entry("forfeit", d, Ceiling) \in Record
    BY EntryFacts, AmountsAssumption
  <2>2. QED
    BY <1>3, <1>8, <2>1 DEF Forfeit, ForfeitFails, Finish, FinishFails
<1>9. QED
  BY <1>4, <1>5, <1>6, <1>7, <1>8 DEF Next

\* A record that is durable stays so, and a ruined journal stays ruined.
LEMMA OnwardJournal ==
  ASSUME Onward, ~lost', NEW c \in Attempts, call[c] = "over"
  PROVE  /\ Journaled(c) => Journaled(c)'
         /\ Ruined => Ruined'
  BY DEF Onward, Journaled, Ruined, Entry, Junk

-----------------------------------------------------------------------------
(* Tables of finished trials *)

\* A finished trial has an attempt.
LEMMA HaveFacts ==
  ASSUME NEW f, f \in [Trials -> Attempts \cup {NoAttempt}], NEW t \in Have(f)
  PROVE  t \in Trials /\ f[t] \in Attempts /\ f[t] # NoAttempt
  BY DEF Have

\* The least of some trials is one of them.
LEMMA MinFacts ==
  ASSUME NEW T, T \subseteq Trials, T # {}
  PROVE  Min(T) \in T
<1>1. T \subseteq Nat
  BY DEF Trials
<1>2. \E n \in T : \A m \in T : n <= m
  BY <1>1, Least
<1>3. QED
  BY <1>2 DEF Min

\* The tables stay as they are while calls end and begin.
LEMMA FilesStay ==
  ASSUME FilesInv, Onward, UNCHANGED <<ckpt, kept, trials>>, open' => open
  PROVE  FilesInv'
<1>1. ASSUME NEW f, Finished(f), NEW t \in Have(f) PROVE call'[f[t]] = "over"
  BY <1>1 DEF Finished, Have, Onward
<1>2. /\ Finished(ckpt) /\ Finished(kept) /\ Finished(trials)
      /\ Keeps(ckpt, kept) /\ (open => Keeps(trials, ckpt))
  BY DEF FilesInv
<1>3. ckpt' = ckpt /\ kept' = kept /\ trials' = trials
  OBVIOUS
<1>4. Finished(ckpt)' /\ Finished(kept)' /\ Finished(trials)'
  BY <1>1, <1>2, <1>3 DEF Finished
<1>5. Keeps(ckpt, kept)' /\ (open' => Keeps(trials, ckpt)')
  BY <1>2, <1>3 DEF Keeps
<1>6. QED
  BY <1>4, <1>5 DEF FilesInv

\* So do the records they need.
LEMMA CoveredStays ==
  ASSUME NEW f, Finished(f), Covered(f), Onward, ~lost', carried' = carried
  PROVE  \A t \in Have(f) : f[t] \notin carried' =>
           \E i \in 1..synced' : lines'[i] = Entry("reconcile", f[t], billed'[f[t]])
<1>1. SUFFICES ASSUME NEW t \in Have(f), f[t] \notin carried
      PROVE  \E i \in 1..synced' : lines'[i] = Entry("reconcile", f[t], billed'[f[t]])
  OBVIOUS
<1>2. f[t] \in Attempts /\ call[f[t]] = "over"
  BY HaveFacts DEF Finished
<1>3. Journaled(f[t])
  BY <1>1 DEF Covered
<1>4. QED
  BY <1>2, <1>3 DEF Journaled, Onward

\* The records of the tables stay too.
LEMMA JournalStays ==
  ASSUME FilesInv, JournalInv, Onward, UNCHANGED <<ckpt, kept, trials, carried>>
  PROVE  JournalInv'
<1>1. SUFFICES ASSUME ~lost' PROVE Covered(ckpt)' /\ Covered(kept)' /\ Covered(trials)'
  BY DEF JournalInv
<1>2. /\ Finished(ckpt) /\ Finished(kept) /\ Finished(trials)
      /\ Covered(ckpt) /\ Covered(kept) /\ Covered(trials)
  BY <1>1 DEF FilesInv, JournalInv, Onward
<1>3. ckpt' = ckpt /\ kept' = kept /\ trials' = trials /\ carried' = carried
  OBVIOUS
<1>4. Covered(ckpt)'
  BY <1>1, <1>2, <1>3, CoveredStays DEF Covered, Journaled
<1>5. Covered(kept)'
  BY <1>1, <1>2, <1>3, CoveredStays DEF Covered, Journaled
<1>6. Covered(trials)'
  BY <1>1, <1>2, <1>3, CoveredStays DEF Covered, Journaled
<1>7. QED
  BY <1>4, <1>5, <1>6

-----------------------------------------------------------------------------
(* The steps of a call *)

\* What the invariant says of a running collector that restores nothing.
LEMMA CallingFacts ==
  ASSUME CInv, Calling
  PROVE  /\ open /\ stage = "run" /\ todo = {}
         /\ IInv /\ FilesInv /\ StageInv /\ JournalInv
         /\ \A c \in Attempts : Live(c) => c = cur
  BY DEF CInv, Calling, Running, StageInv

\* While nothing is restored nothing is said of it.
LEMMA NothingToRestore == ASSUME todo' = {} PROVE RestoreInv'
  BY DEF RestoreInv

\* A step of the ledger after which the collector has failed.
LEMMA FailedStep ==
  ASSUME CInv, Calling, [Next]_vars, stage' = "failed", open' = open,
         UNCHANGED <<ckpt, kept, carried, trials, todo, cur>>,
         \A c \in Attempts : Live(c)' => Live(c)
  PROVE  CInv'
<1>1. IInv /\ FilesInv /\ StageInv /\ JournalInv /\ open /\ todo = {}
  BY CallingFacts
<1>2. IInv'
  BY <1>1, NextStep
<1>3. Onward
  <2>1. CASE UNCHANGED vars
    BY <2>1 DEF Onward, vars, file
  <2>2. CASE Next
    BY <1>1, <2>2, NextOnward
  <2>3. QED
    BY <2>1, <2>2
<1>4. FilesInv' /\ JournalInv'
  BY <1>1, <1>3, FilesStay, JournalStays
<1>5. StageInv'
  BY <1>1 DEF StageInv
<1>6. RestoreInv'
  BY <1>1, NothingToRestore
<1>7. QED
  BY <1>2, <1>4, <1>5, <1>6 DEF CInv

\* A call that is refused ends the run.
LEMMA BeginFailsStep ==
  ASSUME CInv, BeginFails
  PROVE  CInv'
<1>1. IInv /\ Calling
  BY DEF CInv, BeginFails
<1>2. [Next]_vars /\ open' = open
  BY DEF BeginFails, Next, ReserveFails, vars, memory
<1>3. ASSUME NEW c \in Attempts, Live(c)' PROVE Live(c)
  <2>1. CASE UNCHANGED vars
    BY <1>3, <2>1 DEF Live, vars
  <2>2. CASE \E d \in Attempts : ReserveFails(d)
    BY <1>1, <1>3, <2>2 DEF ReserveFails, Live, IInv, TypeOK
  <2>3. QED
    BY <2>1, <2>2 DEF BeginFails
<1>4. QED
  BY <1>1, <1>2, <1>3, FailedStep DEF BeginFails

\* So does a call that is forfeited.
LEMMA GiveUpStep ==
  ASSUME CInv, NEW c \in Attempts, GiveUp(c)
  PROVE  CInv'
<1>1. IInv /\ Calling
  BY DEF CInv, GiveUp
<1>2. Next /\ open' = open /\ call' = [call EXCEPT ![c] = "over"]
  BY DEF GiveUp, Next, Forfeit, ForfeitFails, Finish, FinishFails
<1>3. \A d \in Attempts : Live(d)' => Live(d)
  BY <1>1, <1>2 DEF Live, IInv, TypeOK
<1>4. QED
  BY <1>1, <1>2, <1>3, FailedStep DEF GiveUp

\* And a response that is rejected.
LEMMA RejectStep ==
  ASSUME CInv, Reject
  PROVE  CInv'
<1>1. Calling /\ UNCHANGED vars
  BY DEF Reject, Answered
<1>2. open' = open /\ \A d \in Attempts : Live(d)' => Live(d)
  BY <1>1 DEF vars, memory, Live
<1>3. QED
  BY <1>1, <1>2, FailedStep DEF Reject

\* A new attempt belongs to no trial.
LEMMA BeginStep ==
  ASSUME CInv, NEW c \in Attempts, Begin(c)
  PROVE  CInv'
<1>1. /\ IInv /\ FilesInv /\ StageInv /\ JournalInv /\ open /\ todo = {} /\ stage = "run"
      /\ cur = NoAttempt /\ Missing # {} /\ Reserve(c)
      /\ \A d \in Attempts : Live(d) => d = cur
  BY CallingFacts DEF Begin
<1>2. IInv' /\ Onward
  BY <1>1, NextStep, NextOnward DEF Next
<1>3. /\ open' = open /\ call[c] = "new" /\ call' = [call EXCEPT ![c] = "reserved"]
      /\ UNCHANGED <<ckpt, kept, carried, trials, todo, stage>> /\ cur' = c
  BY DEF Begin, Reserve
<1>4. FilesInv' /\ JournalInv'
  BY <1>1, <1>2, <1>3, FilesStay, JournalStays
<1>5. \A d \in Attempts : call'[d] = IF d = c THEN "reserved" ELSE call[d]
  BY <1>1, <1>3 DEF IInv, TypeOK
<1>6. \A d \in Attempts : Live(d)' => d = cur' /\ todo' = {}
  BY <1>1, <1>3, <1>5, CollectAssumption DEF Live
<1>7. \A t \in Have(trials) : trials[t] # c
  BY <1>1, <1>3 DEF FilesInv, Finished
<1>8. StageInv'
  <2>1. Missing' # {} /\ call'[c] = "reserved"
    BY <1>1, <1>3, <1>5 DEF Missing
  <2>2. QED
    BY <1>1, <1>3, <1>6, <1>7, <2>1 DEF StageInv
<1>9. RestoreInv'
  BY <1>1, <1>3, NothingToRestore
<1>10. QED
  BY <1>2, <1>4, <1>8, <1>9 DEF CInv

\* A reconciliation leaves its exact record, or a ruined journal.
LEMMA ReconcileLeaves ==
  ASSUME IInv, NEW c \in Attempts, Reconcile(c)
  PROVE  Journaled(c)' \/ Ruined'
<1> DEFINE r == Entry("reconcile", c, billed[c])
<1>1. TypeOK /\ FileInv
  BY DEF IInv
<1>2. r \in Record
  <2>1. billed[c] \in 0..Ceiling
    BY <1>1 DEF TypeOK
  <2>2. QED
    BY <2>1, EntryFacts
<1>3. AppendWorks(r) /\ billed' = billed
  BY DEF Reconcile, Finish
<1> HIDE DEF r
<1>4. Adds(r) /\ synced' = Len(lines')
  BY <1>1, <1>2, <1>3, WorksGrows
<1>5. Len(lines') \in 1..synced' /\ lines'[Len(lines')] \in {Junk, r}
  BY <1>4 DEF Adds
<1>6. QED
  BY <1>3, <1>5 DEF Journaled, Ruined, r, Junk

\* The current call runs, and is reconciled.
LEMMA ProceedStep ==
  ASSUME CInv, NEW c \in Attempts, Proceed(c)
  PROVE  CInv'
<1>1. /\ IInv /\ FilesInv /\ StageInv /\ JournalInv /\ open /\ todo = {} /\ stage = "run"
      /\ cur = c /\ (Execute(c) \/ Reconcile(c) \/ ReconcileFails(c))
      /\ \A d \in Attempts : Live(d) => d = cur
      /\ UNCHANGED <<ckpt, kept, carried, trials, todo, cur, stage>>
  BY CallingFacts DEF Proceed, collector
<1>2. IInv' /\ Onward
  BY <1>1, NextStep, NextOnward DEF Next
<1>3. open' = open
  BY <1>1 DEF Execute, Reconcile, ReconcileFails, Finish, FinishFails, memory
<1>4. FilesInv' /\ JournalInv'
  BY <1>1, <1>2, <1>3, FilesStay, JournalStays
<1>5. PICK s \in {"valid", "invalid", "over"} :
        call' = [call EXCEPT ![c] = s] /\ (s = "over" => Reconcile(c))
  BY <1>1 DEF Execute, Reconcile, ReconcileFails, Finish, FinishFails
<1>6. \A d \in Attempts : call'[d] = IF d = c THEN s ELSE call[d]
  BY <1>1, <1>5 DEF IInv, TypeOK
<1>7. call'[c] # "new" /\ (call'[c] = "over" => Journaled(c)' \/ Ruined')
  BY <1>1, <1>5, <1>6, ReconcileLeaves
<1>8. \A d \in Attempts : Live(d)' => d = cur' /\ todo' = {}
  BY <1>1, <1>6 DEF Live
<1>9. StageInv'
  <2>1. Missing # {} /\ \A t \in Have(trials) : trials[t] # c
    BY <1>1, CollectAssumption DEF StageInv
  <2>2. Missing' = Missing
    BY <1>1 DEF Missing
  <2>3. QED
    BY <1>1, <1>3, <1>7, <1>8, <2>1, <2>2 DEF StageInv, Journaled
<1>10. RestoreInv'
  BY <1>1, NothingToRestore
<1>11. QED
  BY <1>2, <1>4, <1>9, <1>10 DEF CInv

-----------------------------------------------------------------------------
(* The steps of a restoration *)

\* The account is restored from the checkpoint only into an empty journal.
LEMMA StartStep ==
  ASSUME CInv, Start
  PROVE  CInv'
<1>1. /\ IInv /\ FilesInv /\ StageInv /\ JournalInv
      /\ ~open /\ todo = {} /\ cur = NoAttempt /\ stage = "run"
  BY DEF CInv, StageInv, Start, Open
<1>2. /\ Open /\ trials' = ckpt /\ todo' = (IF lines = <<>> THEN Have(ckpt) ELSE {})
      /\ ckpt' = ckpt /\ kept' = kept /\ carried' = carried /\ cur' = cur /\ stage' = stage
      /\ lines' = lines /\ call' = call /\ billed' = billed /\ synced' = synced /\ lost' = lost
      /\ open' = TRUE
  BY DEF Start, Open, file
<1>3. IInv' /\ Onward
  BY <1>1, <1>2, NextStep, NextOnward DEF Next
<1>4. Finished(ckpt) /\ Finished(kept) /\ Keeps(ckpt, kept)
  BY <1>1 DEF FilesInv
<1>5. FilesInv'
  <2>1. Finished(ckpt)' /\ Finished(kept)' /\ Finished(trials)'
    BY <1>2, <1>4 DEF Finished
  <2>2. Keeps(ckpt, kept)' /\ Keeps(trials, ckpt)'
    BY <1>2, <1>4 DEF Keeps
  <2>3. QED
    BY <2>1, <2>2 DEF FilesInv
<1>6. JournalInv'
  <2>1. SUFFICES ASSUME ~lost' PROVE Covered(ckpt)' /\ Covered(kept)' /\ Covered(trials)'
    BY DEF JournalInv
  <2>2. Covered(ckpt) /\ Covered(kept)
    BY <1>1, <1>2, <2>1 DEF JournalInv
  <2>3. QED
    BY <1>2, <2>2 DEF Covered, Journaled
<1>7. \A c \in Attempts : ~Live(c)'
  BY <1>1, <1>2 DEF IInv, AccountInv, Live
<1>8. StageInv'
  <2>1. todo' \subseteq Trials
    BY <1>2 DEF Have
  <2>2. QED
    BY <1>1, <1>2, <1>7, <2>1 DEF StageInv
<1>9. RestoreInv'
  <2>1. SUFFICES ASSUME todo' # {} PROVE RestoreInv'
    BY DEF RestoreInv
  <2>2. todo' = Have(trials') /\ DOMAIN lines' = {}
    BY <1>2, <2>1
  <2>3. QED
    BY <1>1, <1>2, <2>2 DEF RestoreInv
<1>10. QED
  BY <1>3, <1>5, <1>6, <1>8, <1>9 DEF CInv

\* What the invariant says of a running collector that restores.
LEMMA RestoringFacts ==
  ASSUME CInv, Restoring
  PROVE  /\ IInv /\ FilesInv /\ StageInv /\ JournalInv /\ open /\ stage = "run"
         /\ todo \subseteq Have(trials) /\ Min(todo) \in todo
         /\ \A t \in todo : t \in Trials /\ trials[t] \in Attempts /\ trials[t] # NoAttempt
         /\ call[trials[Min(todo)]] = "over"
         /\ \A t \in todo : trials[t] = trials[Min(todo)] => t = Min(todo)
         /\ \A d \in Attempts : ~Live(d)
         /\ cur \in {NoAttempt, trials[Min(todo)]}
         /\ cur # NoAttempt => Kept(cur) /\ spent + billed[cur] + reserved <= Cap
         /\ \A t \in todo : \A i \in DOMAIN lines :
              /\ ~Closes(lines[i], trials[t])
              /\ trials[t] # cur => ~Opens(lines[i], trials[t])
<1>1. IInv /\ FilesInv /\ StageInv /\ JournalInv /\ RestoreInv /\ open /\ stage = "run" /\ todo # {}
  BY DEF CInv, Restoring, Running
<1>2. todo \subseteq Have(trials) /\ Have(trials) \subseteq Trials
  BY <1>1 DEF RestoreInv, Have
<1>3. Min(todo) \in todo
  BY <1>1, <1>2, MinFacts
<1>4. Finished(trials)
  BY <1>1 DEF FilesInv
<1>5. \A t \in todo : t \in Trials /\ trials[t] \in Attempts /\ trials[t] # NoAttempt
  BY <1>2, <1>4, HaveFacts DEF Finished
<1>6. /\ call[trials[Min(todo)]] = "over"
      /\ \A t \in todo : trials[t] = trials[Min(todo)] => t = Min(todo)
  BY <1>2, <1>3, <1>4 DEF Finished
<1>7. \A d \in Attempts : ~Live(d)
  BY <1>1 DEF StageInv
<1>8. /\ cur \in {NoAttempt, trials[Min(todo)]}
      /\ cur # NoAttempt => Kept(cur) /\ spent + billed[cur] + reserved <= Cap
      /\ \A t \in todo : \A i \in DOMAIN lines :
           /\ ~Closes(lines[i], trials[t])
           /\ trials[t] # cur => ~Opens(lines[i], trials[t])
  BY <1>1 DEF RestoreInv
<1>9. QED
  BY <1>1, <1>2, <1>3, <1>5, <1>6, <1>7, <1>8

\* While the account is restored the tables stay, and no call is live.
LEMMA RestoreStays ==
  ASSUME CInv, Restoring, Onward, todo' \subseteq todo, stage' \in {"run", "failed"},
         cur' \in Attempts \cup {NoAttempt},
         stage' = "run" => todo' # {} \/ cur' = NoAttempt,
         UNCHANGED <<open, call, billed, ckpt, kept, carried, trials>>
  PROVE  FilesInv' /\ StageInv' /\ JournalInv'
<1>1. /\ FilesInv /\ StageInv /\ JournalInv /\ open
      /\ \A d \in Attempts : ~Live(d)
  BY RestoringFacts
<1>2. FilesInv' /\ JournalInv'
  BY <1>1, FilesStay, JournalStays
<1>3. \A d \in Attempts : ~Live(d)'
  BY <1>1 DEF Live
<1>4. StageInv'
  BY <1>1, <1>3 DEF StageInv
<1>5. QED
  BY <1>2, <1>4

\* The attempt to be restored is opened.
LEMMA RestoreOpensStep ==
  ASSUME CInv, RestoreOpens
  PROVE  CInv'
<1>0. PICK c \in Attempts : c = trials[Min(todo)]
  BY RestoringFacts DEF RestoreOpens
<1> DEFINE r == Entry("reserve", c, Ceiling)
<1>1. /\ IInv /\ open /\ stage = "run"
      /\ todo \subseteq Have(trials) /\ Min(todo) \in todo /\ c # NoAttempt
      /\ call[c] = "over"
      /\ \A d \in Attempts : ~Live(d)
      /\ \A t \in todo : \A i \in DOMAIN lines :
           /\ ~Closes(lines[i], trials[t])
           /\ trials[t] # cur => ~Opens(lines[i], trials[t])
      /\ cur = NoAttempt
  BY <1>0, RestoringFacts DEF RestoreOpens
<1>2. /\ spent + billed[c] + reserved <= Cap /\ AppendWorks(r) /\ cur' = c /\ Restoring
      /\ UNCHANGED <<open, spent, reserved, call, billed, faults, crashes, ckpt, kept, carried, trials, todo, stage>>
  BY <1>0 DEF RestoreOpens
<1>3. r \in Record /\ r.id = c /\ r.event = "reserve" /\ Opens(r, c) /\ \A d : ~Closes(r, d)
  BY <1>1, EntryFacts, AmountsAssumption DEF Opens, Closes
<1>4. \A d \in Attempts : Opens(r, d) => d = c
  BY <1>3 DEF Opens
<1> HIDE DEF r
<1>5. TypeOK /\ FileInv /\ AccountInv
  BY <1>1 DEF IInv
<1>6. Grows(r) /\ Adds(r) /\ synced' = Len(lines') /\ identity' = "match"
  BY <1>2, <1>3, <1>5, WorksGrows
<1>7. Follows(r)
  <2>1. \A i \in DOMAIN lines : ~Opens(lines[i], c)
    BY <1>0, <1>1
  <2>2. QED
    BY <1>3, <1>4, <2>1 DEF Follows
<1>8. spent' \in Nat /\ spent' + reserved <= Cap /\ faults' \in 0..MaxFaults
  BY <1>2, <1>5 DEF TypeOK, AccountInv
<1>9. IInv'
  BY <1>1, <1>2, <1>3, <1>6, <1>7, <1>8, RestoreKeeps
<1>10. Onward
  BY <1>2, <1>5, <1>6, GrowsOnward
<1>11. FilesInv' /\ StageInv' /\ JournalInv'
  BY <1>1, <1>2, <1>10, RestoreStays
<1>12. Kept(c)'
  <2>1. Len(lines') \in 1..synced' /\ lines'[Len(lines')] \in {Junk, r}
    BY <1>6 DEF Adds
  <2>2. QED
    BY <1>2, <1>3, <2>1 DEF Kept, Junk
<1>13. RestoreInv'
  <2>1. ASSUME NEW t \in todo, NEW i \in DOMAIN lines'
        PROVE  ~Closes(lines'[i], trials[t]) /\ (trials[t] # c => ~Opens(lines'[i], trials[t]))
    <3>1. trials[t] \in Attempts /\ trials[t] # NoAttempt
      BY <1>2, <2>1, RestoringFacts
    <3>2. (i \in DOMAIN lines /\ lines'[i] = lines[i]) \/ lines'[i] \in {r, Junk}
      BY <1>5, <1>6, <2>1, GrownLines
    <3>3. CASE i \in DOMAIN lines /\ lines'[i] = lines[i]
      BY <1>1, <2>1, <3>1, <3>3
    <3>4. CASE lines'[i] = r
      BY <1>3, <1>4, <3>1, <3>4
    <3>5. CASE lines'[i] = Junk
      BY <3>5, JunkFacts
    <3>6. QED
      BY <3>2, <3>3, <3>4, <3>5
  <2>2. spent' + billed'[c] + reserved' <= Cap
    BY <1>2
  <2>3. /\ todo' = todo /\ trials' = trials /\ stage' = stage /\ cur' = c
    BY <1>2
  <2>4. todo' \subseteq Have(trials)' /\ cur' = trials'[Min(todo)']
    BY <1>0, <1>1, <2>3 DEF Have
  <2>5. QED
    BY <1>1, <1>12, <2>1, <2>2, <2>3, <2>4 DEF RestoreInv
<1>14. QED
  BY <1>9, <1>11, <1>13 DEF CInv

\* It is closed with its exact cost.
LEMMA RestoreClosesStep ==
  ASSUME CInv, RestoreCloses
  PROVE  CInv'
<1>0. PICK c \in Attempts : c = trials[Min(todo)]
  BY RestoringFacts DEF RestoreCloses
<1> DEFINE r == Entry("reconcile", c, billed[c])
<1>1. /\ IInv /\ open /\ stage = "run" /\ Min(todo) \in todo
      /\ todo \subseteq Have(trials) /\ c # NoAttempt /\ call[c] = "over" /\ cur = c
      /\ \A t \in todo : trials[t] = c => t = Min(todo)
      /\ \A d \in Attempts : ~Live(d)
      /\ Kept(c) /\ spent + billed[c] + reserved <= Cap
      /\ \A t \in todo : \A i \in DOMAIN lines :
           /\ ~Closes(lines[i], trials[t])
           /\ trials[t] # c => ~Opens(lines[i], trials[t])
  BY <1>0, RestoringFacts DEF RestoreCloses
<1>2. /\ AppendWorks(r) /\ spent' = spent + billed[c] /\ Restoring
      /\ todo' = todo \ {Min(todo)} /\ cur' = NoAttempt
      /\ UNCHANGED <<open, reserved, call, billed, faults, crashes, ckpt, kept, carried, trials, stage>>
  BY <1>1 DEF RestoreCloses
<1>3. TypeOK /\ FileInv /\ billed[c] \in 0..Ceiling
  BY <1>1 DEF IInv, TypeOK
<1>4. r \in Record /\ r.id = c /\ r.event = "reconcile" /\ r.amount = billed[c] /\ \A d : ~Opens(r, d)
  BY <1>3, EntryFacts DEF Opens
<1>5. \A d \in Attempts : Closes(r, d) => d = c
  BY <1>4 DEF Closes
<1> HIDE DEF r
<1>6. Grows(r) /\ identity' = "match"
  BY <1>2, <1>3, <1>4, WorksGrows
<1>7. Follows(r)
  <2>1. \A i \in DOMAIN lines : ~Closes(lines[i], c)
    BY <1>0, <1>1
  <2>2. QED
    BY <1>1, <1>4, <1>5, <2>1 DEF Follows
<1>8. spent' \in Nat /\ spent' + reserved <= Cap /\ faults' \in 0..MaxFaults
  BY <1>1, <1>2, <1>3 DEF TypeOK
<1>9. billed[c] <= r.amount
  BY <1>3, <1>4
<1>10. IInv'
  BY <1>1, <1>2, <1>4, <1>6, <1>7, <1>8, <1>9, RestoreKeeps
<1>11. Onward
  BY <1>2, <1>3, <1>6, GrowsOnward
<1>12. FilesInv' /\ StageInv' /\ JournalInv'
  BY <1>1, <1>2, <1>11, RestoreStays
<1>13. RestoreInv'
  <2>1. ASSUME NEW t \in todo, t # Min(todo), NEW i \in DOMAIN lines'
        PROVE  ~Closes(lines'[i], trials[t]) /\ ~Opens(lines'[i], trials[t])
    <3>1. trials[t] \in Attempts /\ trials[t] # c
      BY <1>0, <1>1, <1>2, <2>1, RestoringFacts
    <3>2. (i \in DOMAIN lines /\ lines'[i] = lines[i]) \/ lines'[i] \in {r, Junk}
      BY <1>3, <1>6, <2>1, GrownLines
    <3>3. CASE i \in DOMAIN lines /\ lines'[i] = lines[i]
      BY <1>1, <2>1, <3>1, <3>3
    <3>4. CASE lines'[i] = r
      BY <1>4, <1>5, <3>1, <3>4
    <3>5. CASE lines'[i] = Junk
      BY <3>5, JunkFacts
    <3>6. QED
      BY <3>2, <3>3, <3>4, <3>5
  <2>2. todo' \subseteq Have(trials)' /\ trials' = trials /\ todo' = todo \ {Min(todo)}
    BY <1>1, <1>2 DEF Have
  <2>3. QED
    BY <1>2, <2>1, <2>2 DEF RestoreInv
<1>14. QED
  BY <1>10, <1>12, <1>13 DEF CInv

\* A restoration that fails ends the run; what it wrote is in order.
LEMMA RestoreFailsStep ==
  ASSUME CInv, RestoreFails
  PROVE  CInv'
<1>0. PICK c \in Attempts : c = trials[Min(todo)]
  BY RestoringFacts DEF RestoreFails
<1>1. /\ IInv /\ open /\ Min(todo) \in todo /\ todo \subseteq Have(trials)
      /\ c # NoAttempt /\ call[c] = "over" /\ cur \in {NoAttempt, c}
      /\ \A d \in Attempts : ~Live(d)
      /\ cur # NoAttempt => Kept(c)
      /\ \A i \in DOMAIN lines :
           /\ ~Closes(lines[i], c)
           /\ cur = NoAttempt => ~Opens(lines[i], c)
  BY <1>0, RestoringFacts DEF RestoreFails
<1>2. /\ stage' = "failed" /\ Restoring
      /\ UNCHANGED <<open, spent, reserved, call, billed, crashes, ckpt, kept, carried, trials, todo, cur>>
  BY DEF RestoreFails
<1>3. TypeOK /\ FileInv /\ AccountInv /\ billed[c] \in 0..Ceiling
  BY <1>1 DEF IInv, TypeOK
<1>4. IInv' /\ Onward
  <2>1. ASSUME NEW r \in Record, r.id = c, AppendFails(r), Follows(r),
               r.event # "reserve" => billed[c] <= r.amount
        PROVE  IInv' /\ Onward
    <3>1. Grows(r) /\ faults' \in 0..MaxFaults /\ (identity' = "none" => identity = "none")
      BY <1>3, <2>1, FailsGrows
    <3>2. spent' \in Nat /\ spent' + reserved <= Cap
      BY <1>2, <1>3 DEF TypeOK, AccountInv
    <3>3. IInv'
      BY <1>1, <1>2, <2>1, <3>1, <3>2, RestoreKeeps
    <3>4. Onward
      BY <1>2, <1>3, <3>1, GrowsOnward
    <3>5. QED
      BY <3>3, <3>4
  <2>2. CASE UNCHANGED <<file, identity, faults>>
    <3>1. UNCHANGED vars
      BY <1>2, <2>2 DEF vars, memory
    <3>2. Onward
      BY <1>2, <2>2 DEF Onward, file
    <3>3. QED
      BY <1>1, <3>1, <3>2, StutterStep
  <2>3. CASE cur = NoAttempt /\ AppendFails(Entry("reserve", c, Ceiling))
    <3> DEFINE r == Entry("reserve", c, Ceiling)
    <3>1. r \in Record /\ r.id = c /\ r.event = "reserve"
      BY EntryFacts, AmountsAssumption
    <3>2. AppendFails(r)
      BY <2>3
    <3> HIDE DEF r
    <3>3. Follows(r)
      BY <1>1, <2>3, <3>1 DEF Follows, Opens, Closes
    <3>4. QED
      BY <2>1, <3>1, <3>2, <3>3
  <2>4. CASE cur # NoAttempt /\ AppendFails(Entry("reconcile", c, billed[c]))
    <3> DEFINE r == Entry("reconcile", c, billed[c])
    <3>1. r \in Record /\ r.id = c /\ r.event = "reconcile" /\ r.amount = billed[c]
      BY <1>3, EntryFacts
    <3>2. AppendFails(r)
      BY <2>4
    <3> HIDE DEF r
    <3>3. Follows(r)
      BY <1>1, <2>4, <3>1 DEF Follows, Opens, Closes
    <3>4. billed[c] <= r.amount
      BY <1>3, <3>1
    <3>5. QED
      BY <2>1, <3>1, <3>2, <3>3, <3>4
  <2>5. QED
    BY <1>0, <2>2, <2>3, <2>4 DEF RestoreFails
<1>5. FilesInv' /\ StageInv' /\ JournalInv'
  <2>1. cur' \in Attempts \cup {NoAttempt}
    BY <1>1, <1>2
  <2>2. QED
    BY <1>2, <1>4, <2>1, RestoreStays
<1>6. RestoreInv'
  BY <1>1, <1>2 DEF RestoreInv, Have
<1>7. QED
  BY <1>4, <1>5, <1>6 DEF CInv

-----------------------------------------------------------------------------
(* The steps of the checkpoint *)

\* A replacement by a table that has more, with its records, keeps the files in
\* agreement, whether the replacement works or not.
LEMMA ReplaceKeeps ==
  ASSUME FilesInv, JournalInv, open,
         NEW e, Finished(e), Keeps(e, trials), ~lost => Covered(e), trials' = e,
         \/ ckpt' = e /\ kept' = e
         \/ ckpt' \in {ckpt, e} /\ kept' = kept,
         UNCHANGED <<lines, synced, lost, open, call, billed, carried>>
  PROVE  FilesInv' /\ JournalInv'
<1>1. /\ Finished(ckpt) /\ Finished(kept) /\ Keeps(ckpt, kept) /\ Keeps(trials, ckpt)
  BY DEF FilesInv
<1>2. Keeps(e, ckpt)
  BY <1>1, CollectAssumption DEF Keeps, Have
<1>3. Keeps(e, kept)
  BY <1>1, <1>2, CollectAssumption DEF Keeps, Have
<1>4. Keeps(e, e)
  BY DEF Keeps
<1>5. FilesInv'
  <2>1. Finished(ckpt)' /\ Finished(kept)' /\ Finished(trials)'
    BY <1>1 DEF Finished
  <2>2. Keeps(ckpt', kept') /\ Keeps(trials', ckpt')
    BY <1>1, <1>2, <1>3, <1>4
  <2>3. QED
    BY <2>1, <2>2 DEF FilesInv, Keeps
<1>6. JournalInv'
  <2>1. SUFFICES ASSUME ~lost PROVE Covered(ckpt)' /\ Covered(kept)' /\ Covered(trials)'
    BY DEF JournalInv
  <2>2. Covered(ckpt) /\ Covered(kept) /\ Covered(e)
    BY <2>1 DEF JournalInv
  <2>3. QED
    BY <2>2 DEF Covered, Journaled
<1>7. QED
  BY <1>5, <1>6

\* A replacement is no step of the ledger but for the directory and the faults.
LEMMA ReplaceBeside ==
  ASSUME IInv, NEW e, Replaced(e) \/ ReplaceFails(e)
  PROVE  /\ IInv'
         /\ UNCHANGED <<exists, lines, ended, synced, lost, memory, call, billed, crashes>>
         /\ \/ ckpt' = e /\ kept' = e
            \/ ckpt' \in {ckpt, e} /\ kept' = kept
<1>1. UNCHANGED <<exists, lines, ended, synced, lost, memory, call, billed, crashes>>
  BY DEF Replaced, ReplaceFails, file
<1>2. linked' \in BOOLEAN /\ faults' \in 0..MaxFaults
  BY BoundsAssumption DEF Replaced, ReplaceFails, Fault, file, IInv, TypeOK
<1>3. QED
  BY <1>1, <1>2, BesideStep DEF Replaced, ReplaceFails

\* A journal that parses is not ruined.
LEMMA ParsesFacts == ASSUME TypeOK, Parses(lines) PROVE ~Ruined
<1>1. \A i \in 1..synced : i \in DOMAIN lines
  BY LenProperties DEF TypeOK
<1>2. QED
  BY <1>1 DEF Parses, Ruined

\* A trial is stored only once its exact record is durable.
LEMMA StoreStep ==
  ASSUME CInv, Store
  PROVE  CInv'
<1>1. /\ IInv /\ FilesInv /\ StageInv /\ JournalInv /\ open /\ todo = {} /\ stage = "run"
      /\ cur # NoAttempt /\ call[cur] = "over"
      /\ \A d \in Attempts : Live(d) => d = cur
  BY CallingFacts DEF Store, Answered
<1>2. PICK t0 : t0 = Min(Missing)
  OBVIOUS
<1>3. PICK e : e = [trials EXCEPT ![t0] = cur]
  OBVIOUS
<1>4. /\ Parses(lines) /\ trials' = e /\ UNCHANGED <<todo, carried>>
      /\ \/ Replaced(e) /\ cur' = NoAttempt /\ stage' = "run"
         \/ ReplaceFails(e) /\ cur' = cur /\ stage' = "failed"
  BY <1>2, <1>3 DEF Store
<1>5. /\ Missing # {} /\ cur \in Attempts
      /\ \A t \in Have(trials) : trials[t] # cur
      /\ Journaled(cur) \/ Ruined
  BY <1>1 DEF StageInv
<1>6. t0 \in Trials /\ t0 \notin Have(trials)
  <2>1. Missing \subseteq Trials
    BY DEF Missing
  <2>2. QED
    BY <1>2, <1>5, <2>1, MinFacts DEF Missing
<1>7. Finished(trials)
  BY <1>1 DEF FilesInv
<1>8. \A t \in Trials : e[t] = IF t = t0 THEN cur ELSE trials[t]
  BY <1>3, <1>7 DEF Finished
<1>9. Have(e) = Have(trials) \cup {t0}
  BY <1>1, <1>6, <1>8 DEF Have
<1>10. Finished(e)
  <2>1. e \in [Trials -> Attempts \cup {NoAttempt}]
    BY <1>3, <1>5, <1>6, <1>7 DEF Finished
  <2>2. \A t \in Have(e) : call[e[t]] = "over"
    BY <1>1, <1>7, <1>8, <1>9 DEF Finished, Have
  <2>3. \A t, u \in Have(e) : e[t] = e[u] => t = u
    BY <1>5, <1>6, <1>7, <1>8, <1>9 DEF Finished, Have
  <2>4. QED
    BY <2>1, <2>2, <2>3 DEF Finished
<1>11. Keeps(e, trials)
  BY <1>6, <1>8 DEF Keeps, Have
<1>12. ~lost => Covered(e)
  <2>1. Journaled(cur)
    BY <1>1, <1>4, <1>5, ParsesFacts DEF IInv
  <2>2. QED
    BY <1>1, <1>6, <1>8, <1>9, <2>1 DEF Covered, JournalInv, Have
<1>13. /\ IInv' /\ lines' = lines /\ synced' = synced /\ lost' = lost /\ open' = open
       /\ call' = call /\ billed' = billed
       /\ \/ ckpt' = e /\ kept' = e
          \/ ckpt' \in {ckpt, e} /\ kept' = kept
  BY <1>1, <1>4, ReplaceBeside DEF memory
<1>14. FilesInv' /\ JournalInv'
  BY <1>1, <1>4, <1>10, <1>11, <1>12, <1>13, ReplaceKeeps
<1>15. StageInv'
  <2>1. \A d \in Attempts : ~Live(d)'
    BY <1>1, <1>13 DEF Live
  <2>2. cur' \in Attempts \cup {NoAttempt} /\ (stage' = "failed" \/ (stage' = "run" /\ cur' = NoAttempt))
    BY <1>4, <1>5
  <2>3. todo' = {} /\ open' /\ carried' = carried /\ carried \subseteq Attempts
    BY <1>1, <1>4, <1>13 DEF StageInv
  <2>4. QED
    BY <2>1, <2>2, <2>3 DEF StageInv
<1>16. RestoreInv'
  BY <1>1, <1>4, NothingToRestore
<1>17. QED
  BY <1>13, <1>14, <1>15, <1>16 DEF CInv

\* The evidence is accepted when it is complete and bound to the journal.
LEMMA EvaluateStep ==
  ASSUME CInv, Evaluate
  PROVE  CInv'
<1>1. /\ IInv /\ FilesInv /\ StageInv /\ JournalInv /\ open /\ todo = {} /\ stage = "run"
      /\ cur = NoAttempt
      /\ \A d \in Attempts : Live(d) => d = cur
  BY CallingFacts DEF Evaluate
<1>2. PICK e : e = trials
  OBVIOUS
<1>3. /\ trials' = e /\ UNCHANGED <<todo, cur, carried>>
      /\ \/ Admissible /\ Replaced(e) /\ stage' = "done"
         \/ (Replaced(e) \/ ReplaceFails(e)) /\ stage' = "failed"
         \/ UNCHANGED <<vars, ckpt, kept>> /\ stage' = "failed"
  BY <1>2 DEF Evaluate
<1>4. /\ IInv' /\ lines' = lines /\ synced' = synced /\ lost' = lost /\ open' = open
      /\ call' = call /\ billed' = billed
      /\ \/ ckpt' = e /\ kept' = e
         \/ ckpt' \in {ckpt, e} /\ kept' = kept
  <2>1. CASE Replaced(e) \/ ReplaceFails(e)
    BY <1>1, <2>1, ReplaceBeside DEF memory
  <2>2. CASE UNCHANGED <<vars, ckpt, kept>>
    BY <1>1, <2>2, StutterStep DEF vars, file, memory
  <2>3. QED
    BY <1>3, <2>1, <2>2
<1>5. Finished(e) /\ Keeps(e, trials) /\ (~lost => Covered(e))
  BY <1>1, <1>2 DEF FilesInv, Keeps, JournalInv
<1>6. FilesInv' /\ JournalInv'
  BY <1>1, <1>3, <1>4, <1>5, ReplaceKeeps
<1>7. StageInv'
  <2>1. \A d \in Attempts : ~Live(d)'
    BY <1>1, <1>4, CollectAssumption DEF Live
  <2>2. todo' = {} /\ open' /\ carried' = carried /\ carried \subseteq Attempts /\ cur' = NoAttempt
        /\ stage' \in {"failed", "done"}
    BY <1>1, <1>3, <1>4 DEF StageInv
  <2>3. stage' = "done" => Have(ckpt') = Trials /\ Parses(lines') /\ Bound(lines, e) /\ ckpt' = e
    <3>1. SUFFICES ASSUME stage' = "done" PROVE Have(ckpt') = Trials /\ Parses(lines') /\ Bound(lines, e) /\ ckpt' = e
      OBVIOUS
    <3>2. Admissible /\ ckpt' = e
      BY <1>3, <3>1 DEF Replaced
    <3>3. Have(e) = Trials
      BY <1>2 DEF Evaluate, Missing, Have
    <3>4. QED
      BY <1>2, <1>4, <3>2, <3>3 DEF Admissible
  <2>4. stage' = "done" => Bound(lines, ckpt)'
    BY <1>4, <2>3 DEF Bound, Entry
  <2>5. QED
    BY <2>1, <2>2, <2>3, <2>4 DEF StageInv
<1>8. RestoreInv'
  BY <1>1, <1>3, NothingToRestore
<1>9. QED
  BY <1>4, <1>6, <1>7, <1>8 DEF CInv

-----------------------------------------------------------------------------
(* The end of a process and of the host *)

\* A collector that is gone leaves the files in agreement.
LEMMA GoneKeeps ==
  ASSUME CInv, IInv', Onward, Gone, Reset, carried' = carried,
         \/ ckpt' = ckpt /\ kept' = kept
         \/ ckpt' \in {ckpt, kept} /\ kept' = ckpt'
  PROVE  CInv'
<1>1. IInv /\ FilesInv /\ StageInv /\ JournalInv
  BY DEF CInv
<1>2. open' = FALSE /\ todo' = {} /\ cur' = NoAttempt /\ stage' = "run" /\ trials' = Nothing
  BY DEF Gone, Reset
<1>3. \A d \in Attempts : ~Live(d)'
  BY <1>1, GoneFacts DEF IInv
<1>4. ASSUME NEW f, Finished(f) PROVE \A t \in Have(f) : call'[f[t]] = "over"
  BY <1>4 DEF Finished, Have, Onward
<1>5. Finished(ckpt) /\ Finished(kept) /\ Keeps(ckpt, kept) /\ Keeps(kept, kept) /\ Keeps(ckpt, ckpt)
  BY <1>1 DEF FilesInv, Keeps
<1>6. Have(Nothing) = {} /\ Nothing \in [Trials -> Attempts \cup {NoAttempt}]
  BY DEF Have, Nothing
<1>7. FilesInv'
  <2>1. Finished(ckpt)' /\ Finished(kept)'
    BY <1>4, <1>5 DEF Finished
  <2>2. Finished(trials)'
    BY <1>2, <1>6 DEF Finished
  <2>3. Keeps(ckpt, kept)'
    BY <1>5 DEF Keeps
  <2>4. QED
    BY <1>2, <2>1, <2>2, <2>3 DEF FilesInv
<1>8. JournalInv'
  <2>1. SUFFICES ASSUME ~lost' PROVE Covered(ckpt)' /\ Covered(kept)' /\ Covered(trials)'
    BY DEF JournalInv
  <2>2. Covered(ckpt) /\ Covered(kept)
    BY <1>1, <2>1 DEF JournalInv, Onward
  <2>3. ASSUME NEW f, f \in {ckpt, kept}
        PROVE  \A t \in Have(f) : f[t] \notin carried' =>
                 \E i \in 1..synced' : lines'[i] = Entry("reconcile", f[t], billed'[f[t]])
    BY <1>5, <2>1, <2>2, <2>3, CoveredStays
  <2>4. ckpt' \in {ckpt, kept} /\ kept' \in {ckpt, kept}
    OBVIOUS
  <2>5. Covered(ckpt)' /\ Covered(kept)'
    BY <2>3, <2>4 DEF Covered, Journaled
  <2>6. Covered(trials)'
    BY <1>2, <1>6 DEF Covered
  <2>7. QED
    BY <2>5, <2>6
<1>9. StageInv'
  BY <1>1, <1>2, <1>3 DEF StageInv
<1>10. RestoreInv'
  BY <1>2, NothingToRestore
<1>11. QED
  BY <1>7, <1>8, <1>9, <1>10 DEF CInv

\* The collector returns, or dies.
LEMMA ExitStep ==
  ASSUME CInv, Exit \/ Die
  PROVE  CInv'
<1>1. /\ IInv /\ Gone /\ Reset /\ lines' = lines /\ synced' = synced /\ lost' = lost /\ billed' = billed
      /\ UNCHANGED <<ckpt, kept, carried>>
  BY DEF CInv, Exit, Die, Crash, file
<1>2. IInv'
  <2>1. CASE Exit
    <3>1. crashes' \in 0..MaxCrashes
      BY <1>1, <2>1 DEF Exit, IInv, TypeOK
    <3>2. QED
      BY <1>1, <2>1, <3>1, GoneStep DEF Exit
  <2>2. CASE Die
    BY <1>1, <2>2, CrashStep DEF Die
  <2>3. QED
    BY <2>1, <2>2
<1>3. Onward
  BY <1>1 DEF Onward, Gone
<1>4. QED
  BY <1>1, <1>2, <1>3, GoneKeeps

\* The host dies, and may undo a replacement that was not made durable.
LEMMA PowerLossStep ==
  ASSUME CInv, PowerLoss
  PROVE  CInv'
<1>1. /\ IInv /\ HostCrash /\ Gone /\ Reset /\ carried' = carried
      /\ ckpt' \in {ckpt, kept} /\ kept' = ckpt'
  BY DEF CInv, PowerLoss, HostCrash
<1>2. IInv' /\ Onward
  BY <1>1, HostCrashStep, NextOnward DEF Next
<1>3. QED
  BY <1>1, <1>2, GoneKeeps

-----------------------------------------------------------------------------
(* The invariant of the collector *)

\* Nothing happens.
LEMMA CollectStutters ==
  ASSUME CInv, UNCHANGED all
  PROVE  CInv'
<1>1. IInv /\ FilesInv /\ StageInv /\ RestoreInv /\ JournalInv /\ UNCHANGED vars
  BY DEF CInv, all
<1>2. IInv'
  BY <1>1, StutterStep
<1>3. /\ lines' = lines /\ synced' = synced /\ lost' = lost /\ open' = open
      /\ call' = call /\ billed' = billed /\ spent' = spent /\ reserved' = reserved
      /\ ckpt' = ckpt /\ kept' = kept /\ trials' = trials /\ todo' = todo /\ cur' = cur
      /\ stage' = stage /\ carried' = carried
  BY DEF all, vars, file, memory, collector
<1>4. FilesInv'
  BY <1>1, <1>3 DEF FilesInv, Finished, Keeps
<1>5. JournalInv'
  BY <1>1, <1>3 DEF JournalInv, Covered, Journaled
<1>6. StageInv'
  BY <1>1, <1>3 DEF StageInv, Live, Missing, Journaled, Ruined, Bound, Entry
<1>7. RestoreInv'
  BY <1>1, <1>3 DEF RestoreInv, Kept, Closes, Opens, Have
<1>8. QED
  BY <1>2, <1>4, <1>5, <1>6, <1>7 DEF CInv

\* Every step keeps the invariant.
LEMMA CollectStep == CInv /\ [CollectNext]_all => CInv'
<1> SUFFICES ASSUME CInv, [CollectNext]_all PROVE CInv'
  OBVIOUS
<1>1. CASE Start
  BY <1>1, StartStep
<1>2. CASE RestoreOpens
  BY <1>2, RestoreOpensStep
<1>3. CASE RestoreCloses
  BY <1>3, RestoreClosesStep
<1>4. CASE RestoreFails
  BY <1>4, RestoreFailsStep
<1>5. CASE BeginFails
  BY <1>5, BeginFailsStep
<1>6. CASE Reject
  BY <1>6, RejectStep
<1>7. CASE Store
  BY <1>7, StoreStep
<1>8. CASE Evaluate
  BY <1>8, EvaluateStep
<1>9. ASSUME NEW c \in Attempts, Begin(c) \/ Proceed(c) \/ GiveUp(c) PROVE CInv'
  BY <1>9, BeginStep, ProceedStep, GiveUpStep
<1>10. CASE Exit \/ Die
  BY <1>10, ExitStep
<1>11. CASE PowerLoss
  BY <1>11, PowerLossStep
<1>12. CASE UNCHANGED all
  BY <1>12, CollectStutters
<1>13. QED
  BY <1>1, <1>2, <1>3, <1>4, <1>5, <1>6, <1>7, <1>8, <1>9, <1>10, <1>11, <1>12 DEF CollectNext

\* A carried checkpoint is a table of its own, and there is no journal.
LEMMA CollectInitially == CollectInit => CInv
<1> SUFFICES ASSUME CollectInit PROVE CInv
  OBVIOUS
<1>1. PICK n \in CarriedCounts : \E who \in [1..n -> Attempts] : \E cost \in [1..n -> 1..Ceiling] :
        /\ IsInjective(who)
        /\ ckpt = [t \in Trials |-> IF t <= n THEN who[t] ELSE NoAttempt]
        /\ kept = ckpt /\ carried = Range(who)
        /\ trials = Nothing /\ todo = {} /\ cur = NoAttempt /\ stage = "run"
        /\ exists = FALSE /\ lines = <<>> /\ ended = TRUE /\ synced = 0
        /\ linked = FALSE /\ lost = FALSE
        /\ open = FALSE /\ identity = "none" /\ spent = 0 /\ reserved = 0
        /\ call = [c \in Attempts |-> IF c \in Range(who) THEN "over" ELSE "new"]
        /\ billed = [c \in Attempts |->
                       IF c \in Range(who) THEN cost[CHOOSE t \in 1..n : who[t] = c] ELSE 0]
        /\ faults = 0 /\ crashes = 0
  BY DEF CollectInit
<1>2. PICK who \in [1..n -> Attempts] : \E cost \in [1..n -> 1..Ceiling] :
        /\ IsInjective(who)
        /\ ckpt = [t \in Trials |-> IF t <= n THEN who[t] ELSE NoAttempt]
        /\ kept = ckpt /\ carried = Range(who)
        /\ trials = Nothing /\ todo = {} /\ cur = NoAttempt /\ stage = "run"
        /\ exists = FALSE /\ lines = <<>> /\ ended = TRUE /\ synced = 0
        /\ linked = FALSE /\ lost = FALSE
        /\ open = FALSE /\ identity = "none" /\ spent = 0 /\ reserved = 0
        /\ call = [c \in Attempts |-> IF c \in Range(who) THEN "over" ELSE "new"]
        /\ billed = [c \in Attempts |->
                       IF c \in Range(who) THEN cost[CHOOSE t \in 1..n : who[t] = c] ELSE 0]
        /\ faults = 0 /\ crashes = 0
  BY <1>1
<1>3. PICK cost \in [1..n -> 1..Ceiling] :
        /\ IsInjective(who)
        /\ ckpt = [t \in Trials |-> IF t <= n THEN who[t] ELSE NoAttempt]
        /\ kept = ckpt /\ carried = Range(who)
        /\ trials = Nothing /\ todo = {} /\ cur = NoAttempt /\ stage = "run"
        /\ exists = FALSE /\ lines = <<>> /\ ended = TRUE /\ synced = 0
        /\ linked = FALSE /\ lost = FALSE
        /\ open = FALSE /\ identity = "none" /\ spent = 0 /\ reserved = 0
        /\ call = [c \in Attempts |-> IF c \in Range(who) THEN "over" ELSE "new"]
        /\ billed = [c \in Attempts |->
                       IF c \in Range(who) THEN cost[CHOOSE t \in 1..n : who[t] = c] ELSE 0]
        /\ faults = 0 /\ crashes = 0
  BY <1>2
<1>4. n \in 0..NTrials /\ 1..n \subseteq Trials
  BY CollectAssumption DEF Trials
<1>5. Range(who) = {who[t] : t \in 1..n} /\ Range(who) \subseteq Attempts
  BY DEF Range
<1>6. \A t, u \in 1..n : who[t] = who[u] => t = u
  BY <1>3 DEF IsInjective
<1>7. billed \in [Attempts -> 0..Ceiling]
  <2>1. ASSUME NEW c \in Range(who) PROVE cost[CHOOSE t \in 1..n : who[t] = c] \in 0..Ceiling
    <3>1. (CHOOSE t \in 1..n : who[t] = c) \in 1..n
      BY <1>5, <2>1
    <3>2. cost[CHOOSE t \in 1..n : who[t] = c] \in 1..Ceiling
      BY <3>1
    <3>3. QED
      BY <3>2, AmountsAssumption
  <2>2. QED
    BY <1>3, <2>1, AmountsAssumption
<1>8. \A c \in Attempts : ~Live(c) /\ call[c] \in {"new", "over"} /\ (call[c] = "new" => billed[c] = 0)
  BY <1>3 DEF Live
<1>9. IInv
  <2>1. TypeOK
    <3>1. lines \in Seq(Record \cup {Junk}) /\ synced \in 0..Len(lines)
      BY <1>3
    <3>2. call \in [Attempts -> States]
      BY <1>3 DEF States
    <3>3. faults \in 0..MaxFaults /\ crashes \in 0..MaxCrashes
      BY <1>3, BoundsAssumption
    <3>4. QED
      BY <1>3, <1>7, <3>1, <3>2, <3>3 DEF TypeOK
  <2>2. FileInv /\ OrderInv
    BY <1>3, <1>8 DEF FileInv, OrderInv
  <2>3. CallInv
    BY <1>3, <1>8 DEF CallInv
  <2>4. AccountInv
    <3>1. LiveSet = {}
      BY <1>8 DEF LiveSet
    <3>2. Cardinality(LiveSet) = 0
      BY <3>1, FS_EmptySet
    <3>3. QED
      BY <1>3, <1>8, <3>2, AccountUnfolds, AmountsAssumption
  <2>5. QED
    BY <2>1, <2>2, <2>3, <2>4 DEF IInv
<1>10. Have(ckpt) = 1..n /\ \A t \in 1..n : ckpt[t] = who[t]
  <2>1. \A t \in Trials : ckpt[t] = IF t <= n THEN who[t] ELSE NoAttempt
    BY <1>3
  <2>2. \A t \in Trials : t \in 1..n <=> t <= n
    BY <1>4 DEF Trials
  <2>3. QED
    BY <1>4, <2>1, <2>2, CollectAssumption DEF Have
<1>11. Finished(ckpt)
  <2>1. ckpt \in [Trials -> Attempts \cup {NoAttempt}]
    <3>1. \A t \in Trials : t <= n => t \in 1..n
      BY <1>4 DEF Trials
    <3>2. QED
      BY <1>3, <3>1
  <2>2. \A t \in 1..n : ckpt[t] \in Range(who) /\ ckpt[t] \in Attempts
    BY <1>5, <1>10
  <2>3. \A t \in Have(ckpt) : call[ckpt[t]] = "over"
    BY <1>3, <1>10, <2>2
  <2>4. \A t, u \in Have(ckpt) : ckpt[t] = ckpt[u] => t = u
    BY <1>6, <1>10
  <2>5. QED
    BY <2>1, <2>3, <2>4 DEF Finished
<1>12. Have(trials) = {} /\ trials \in [Trials -> Attempts \cup {NoAttempt}]
  BY <1>3 DEF Have, Nothing
<1>13. FilesInv
  <2>1. kept = ckpt /\ ~open
    BY <1>3
  <2>2. Finished(trials)
    BY <1>12 DEF Finished
  <2>3. Keeps(ckpt, ckpt)
    BY DEF Keeps
  <2>4. QED
    BY <1>11, <2>1, <2>2, <2>3 DEF FilesInv
<1>14. StageInv
  BY <1>3, <1>5, <1>8 DEF StageInv
<1>15. RestoreInv
  BY <1>3 DEF RestoreInv
<1>16. JournalInv
  <2>1. \A t \in Have(ckpt) : ckpt[t] \in carried
    BY <1>3, <1>5, <1>10
  <2>2. QED
    BY <1>3, <1>12, <2>1 DEF JournalInv, Covered
<1>17. QED
  BY <1>9, <1>13, <1>14, <1>15, <1>16 DEF CInv

\* The invariant holds, so all that follows from it does.
THEOREM CollectInvariance == CollectSpec => []CInv
  BY CollectInitially, CollectStep, PTL DEF CollectSpec

\* An exact record that is durable is among the durable lines.
LEMMA JournaledDurable ==
  ASSUME TypeOK, NEW c, Journaled(c)
  PROVE  Entry("reconcile", c, billed[c]) \in Range(Durable)
<1>1. PICK i \in 1..synced : lines[i] = Entry("reconcile", c, billed[c])
  BY DEF Journaled
<1>2. /\ lines \in Seq(Line) /\ synced \in 0..Len(lines)
  BY DEF TypeOK, Line
<1>3. Len(Durable) = synced /\ Durable \in Seq(Line) /\ Durable[i] = lines[i]
  BY <1>1, <1>2, UptoFacts DEF Durable
<1>4. i \in DOMAIN Durable
  BY <1>1, <1>3
<1>5. QED
  BY <1>1, <1>3, <1>4 DEF Range

\* Checkpoint and journal agree after any crash: a trial in the checkpoint has an
\* exact close record that the host cannot lose.
THEOREM CheckpointAgrees == CollectSpec => []CheckpointIsJournaled
<1>1. ASSUME CInv PROVE CheckpointIsJournaled
  <2>1. SUFFICES ASSUME ~lost, NEW f \in {ckpt, kept}, NEW t \in Have(f), f[t] \notin carried
        PROVE  Entry("reconcile", f[t], billed[f[t]]) \in Range(Durable)
    BY DEF CheckpointIsJournaled
  <2>2. Journaled(f[t])
    BY <1>1, <2>1 DEF CInv, JournalInv, Covered
  <2>3. QED
    BY <1>1, <2>2, JournaledDurable DEF CInv, IInv
<1>2. QED
  BY <1>1, CollectInvariance, PTL

\* Accepted evidence is complete, bound to a journal that a replay accepts, and
\* every call in it has been paid for in a record that is durable.
THEOREM AcceptedEvidenceIsSettled == CollectSpec => []AcceptedIsSettled
<1>1. ASSUME CInv PROVE AcceptedIsSettled
  <2>1. SUFFICES ASSUME stage = "done" PROVE AcceptedIsSettled
    BY DEF AcceptedIsSettled
  <2>2. Have(ckpt) = Trials /\ Parses(lines) /\ Bound(lines, ckpt)
    BY <1>1, <2>1 DEF CInv, StageInv
  <2>3. Legal(lines)
    BY <1>1, <2>2 DEF CInv, IInv, TypeOK, OrderInv, Parses, Legal
  <2>4. ASSUME ~lost, NEW t \in Trials, ckpt[t] \notin carried
        PROVE  Entry("reconcile", ckpt[t], billed[ckpt[t]]) \in Range(Durable)
    <3>1. Journaled(ckpt[t])
      BY <1>1, <2>2, <2>4 DEF CInv, JournalInv, Covered
    <3>2. QED
      BY <1>1, <3>1, JournaledDurable DEF CInv, IInv
  <2>5. QED
    BY <2>2, <2>3, <2>4 DEF AcceptedIsSettled
<1>2. QED
  BY <1>1, CollectInvariance, PTL

\* What is durable in the checkpoint is kept by every step.
LEMMA KeptTrialsStay ==
  ASSUME CInv, [CollectNext]_all
  PROVE  \A t \in Have(kept) : kept'[t] = kept[t]
<1>1. FilesInv
  BY DEF CInv
<1>2. /\ Keeps(ckpt, kept) /\ Finished(trials) /\ (open => Keeps(trials, ckpt))
  BY <1>1 DEF FilesInv
<1>3. \A t \in Have(kept) : kept[t] # NoAttempt /\ t \in Trials
  BY DEF Have
<1>4. CASE kept' = kept \/ kept' \in {ckpt, kept}
  BY <1>2, <1>4 DEF Keeps
<1>5. CASE kept' = trials /\ open
  BY <1>2, <1>3, <1>5 DEF Keeps, Have
<1>6. CASE Store
  <2>1. /\ open /\ Missing # {}
        /\ kept' = kept \/ kept' = [trials EXCEPT ![Min(Missing)] = cur]
    BY <1>6, CallingFacts DEF Store, Answered, StageInv, Replaced, ReplaceFails
  <2>2. Min(Missing) \notin Have(trials)
    BY <2>1, MinFacts DEF Missing
  <2>3. ASSUME NEW t \in Have(kept) PROVE t # Min(Missing) /\ trials[t] = kept[t]
    BY <1>2, <1>3, <2>1, <2>2, <2>3 DEF Keeps, Have
  <2>4. QED
    BY <1>2, <1>3, <2>1, <2>3 DEF Finished
<1>7. CASE Evaluate
  BY <1>4, <1>5, <1>7 DEF Evaluate, Calling, Running, Replaced, ReplaceFails
<1>8. CASE PowerLoss
  BY <1>4, <1>8 DEF PowerLoss
<1>9. CASE UNCHANGED kept
  BY <1>4, <1>9
<1>10. QED
  BY <1>6, <1>7, <1>8, <1>9
     DEF CollectNext, Start, RestoreOpens, RestoreCloses, RestoreFails, BeginFails, Reject,
         Begin, Proceed, GiveUp, Exit, Die, all

\* A durable trial is never dropped or replaced, whatever fails.
THEOREM DurableTrialsStay == CollectSpec => TrialsKept
<1>1. CInv /\ [CollectNext]_all => [\A t \in Have(kept) : kept'[t] = kept[t]]_all
  BY KeptTrialsStay
<1>2. QED
  BY <1>1, CollectInvariance, PTL DEF CollectSpec, TrialsKept

\* The collector never writes a journal that its own replay refuses, be it by a
\* restoration that was broken off or by calls.
THEOREM CollectedJournalOrder == CollectSpec => []JournalLegal
<1>1. CInv => JournalLegal
  BY DEF CInv, IInv, TypeOK, OrderInv, JournalLegal, Parses, Legal
<1>2. QED
  BY <1>1, CollectInvariance, PTL

-----------------------------------------------------------------------------
(* What every step does to the ledger *)

\* A step of the collector is a step of the ledger, of a restoration, or of the
\* checkpoint, or the collector returns.
LEMMA StepKinds ==
  ASSUME [CollectNext]_all
  PROVE  \/ [Next]_vars
         \/ RestoreOpens \/ RestoreCloses \/ RestoreFails
         \/ Store \/ Evaluate
         \/ Exit
<1>1. CASE Start \/ Die \/ PowerLoss
  BY <1>1 DEF Start, Die, PowerLoss, Next
<1>2. CASE Reject \/ UNCHANGED all
  BY <1>2 DEF Reject, all
<1>3. CASE BeginFails
  BY <1>3 DEF BeginFails, Next
<1>4. ASSUME NEW c \in Attempts, Begin(c) \/ Proceed(c) \/ GiveUp(c) PROVE Next
  BY <1>4 DEF Begin, Proceed, GiveUp, Next
<1>5. QED
  BY <1>1, <1>2, <1>3, <1>4 DEF CollectNext

\* A restoration writes a record of the first trial it has still to restore.
LEMMA RestoreWrites ==
  ASSUME CInv, RestoreOpens \/ RestoreCloses \/ RestoreFails
  PROVE  /\ Restoring /\ lost' = lost
         /\ UNCHANGED <<open, reserved, call, billed, ckpt, kept, carried, trials>>
         /\ \/ UNCHANGED file
            \/ \E r \in Record : /\ r.id = trials[Min(todo)]
                                 /\ cur = NoAttempt => r.event = "reserve"
                                 /\ Grows(r)
                                 /\ AppendWorks(r) \/ AppendFails(r)
<1>0. PICK c \in Attempts : c = trials[Min(todo)]
  BY RestoringFacts DEF RestoreOpens, RestoreCloses, RestoreFails
<1>1. Restoring /\ UNCHANGED <<open, reserved, call, billed, ckpt, kept, carried, trials>>
  BY DEF RestoreOpens, RestoreCloses, RestoreFails
<1>2. TypeOK /\ FileInv /\ billed[c] \in 0..Ceiling /\ cur \in {NoAttempt, c}
  BY <1>0, <1>1, RestoringFacts DEF IInv, TypeOK
<1>3. /\ Entry("reserve", c, Ceiling) \in Record /\ Entry("reserve", c, Ceiling).id = c
      /\ Entry("reserve", c, Ceiling).event = "reserve"
  BY EntryFacts, AmountsAssumption
<1>4. Entry("reconcile", c, billed[c]) \in Record /\ Entry("reconcile", c, billed[c]).id = c
  BY <1>2, EntryFacts
<1>5. \/ UNCHANGED file
      \/ \E r \in Record : /\ r.id = c /\ (cur = NoAttempt => r.event = "reserve")
                           /\ AppendWorks(r) \/ AppendFails(r)
  <2>1. CASE RestoreOpens
    BY <1>0, <1>3, <2>1 DEF RestoreOpens
  <2>2. CASE RestoreCloses
    BY <1>2, <1>4, <2>2 DEF RestoreCloses
  <2>3. CASE RestoreFails
    BY <1>0, <1>3, <1>4, <2>3 DEF RestoreFails
  <2>4. QED
    BY <2>1, <2>2, <2>3
<1>6. \A r \in Record : AppendWorks(r) \/ AppendFails(r) => Grows(r)
  BY <1>2, WorksGrows, FailsGrows
<1>7. lost' = lost
  BY <1>5, <1>6 DEF Grows, file
<1>8. QED
  BY <1>0, <1>1, <1>5, <1>6, <1>7

\* Calls that are over and lines that are durable are left as they are, and the
\* provider charges only for a call that is live.
LEMMA CollectOnward ==
  ASSUME CInv, [CollectNext]_all
  PROVE  Onward /\ \A c \in Attempts : billed'[c] = billed[c] \/ Live(c)
<1>1. IInv /\ TypeOK
  BY DEF CInv, IInv
<1>2. ASSUME call' = call \/ Gone, billed' = billed, lost' = lost, UNCHANGED <<lines, synced>>
      PROVE  Onward
  BY <1>2 DEF Onward, Gone
<1>3. CASE UNCHANGED vars
  BY <1>2, <1>3 DEF vars, file
<1>4. CASE Next
  BY <1>1, <1>4, NextOnward, BilledNext
<1>5. CASE RestoreOpens \/ RestoreCloses \/ RestoreFails
  <2>1. CASE UNCHANGED file
    BY <1>2, <1>5, <2>1, RestoreWrites DEF file
  <2>2. CASE \E r \in Record : Grows(r)
    BY <1>1, <1>5, <2>2, RestoreWrites, GrowsOnward
  <2>3. QED
    BY <1>5, <2>1, <2>2, RestoreWrites
<1>6. CASE Store \/ Evaluate
  <2>1. lines' = lines /\ synced' = synced /\ lost' = lost /\ call' = call /\ billed' = billed
    BY <1>6 DEF Store, Evaluate, Replaced, ReplaceFails, file, vars
  <2>2. QED
    BY <1>2, <2>1
<1>7. CASE Exit
  BY <1>2, <1>7 DEF Exit, file
<1>8. QED
  BY <1>3, <1>4, <1>5, <1>6, <1>7, StepKinds

\* The first line of a journal stays, or is spoilt, unless the journal is lost.
LEMMA FirstLine ==
  ASSUME TypeOK, FileInv, NEW r, AppendWorks(r) \/ AppendFails(r)
  PROVE  /\ lines # <<>> => lines' # <<>> /\ lines'[1] \in {lines[1], Junk}
         /\ lines = <<>> /\ lines' # <<>> => lines'[1] \in {r, Junk}
<1>1. lines \in Seq(Line) /\ Len(lines) \in Nat /\ (~ended => lines # <<>>)
  BY LenProperties DEF TypeOK, FileInv, Line
<1>2. \/ lines' = lines
      \/ ended /\ lines' \in {Append(lines, r), Append(lines, Junk)}
      \/ ~ended /\ lines' = [lines EXCEPT ![Len(lines)] = Junk]
  BY DEF AppendWorks, AppendFails, FailsBefore, FailsWriting, FailsSyncing, FailsLinking, Written, file
<1>3. CASE ended /\ lines' \in {Append(lines, r), Append(lines, Junk)}
  <2>1. PICK l \in {r, Junk} : lines' = Append(lines, l)
    BY <1>3
  <2>2. DOMAIN lines' = 1..(Len(lines) + 1) /\ lines' # <<>>
    BY <1>1, <2>1
  <2>3. CASE lines = <<>>
    BY <2>1, <2>3
  <2>4. CASE lines # <<>>
    <3>1. Len(lines) >= 1 /\ 1 \in 1..Len(lines)
      BY <1>1, <2>4
    <3>2. QED
      BY <1>1, <2>1, <2>2, <2>4, <3>1
  <2>5. QED
    BY <2>3, <2>4
<1>4. CASE ~ended /\ lines' = [lines EXCEPT ![Len(lines)] = Junk]
  <2>1. Len(lines) >= 1 /\ DOMAIN lines = 1..Len(lines) /\ DOMAIN lines' = DOMAIN lines
    BY <1>1, <1>4
  <2>2. 1 \in DOMAIN lines /\ lines # <<>> /\ lines' # <<>>
    BY <1>1, <2>1
  <2>3. QED
    BY <1>4, <2>1, <2>2
<1>5. QED
  BY <1>2, <1>3, <1>4

\* So it is in every step of the ledger; and only an open ledger writes the first.
LEMMA NextFirst ==
  ASSUME IInv, [Next]_vars
  PROVE  /\ lines # <<>> /\ lines' # <<>> => lines'[1] \in {lines[1], Junk}
         /\ lines # <<>> /\ open /\ open' => lines' # <<>>
         /\ lines = <<>> /\ lines' # <<>> => open /\ open'
<1>1. TypeOK /\ FileInv /\ AccountInv
  BY DEF IInv
<1>2. CASE lines' = lines
  BY <1>2
<1>3. CASE HostCrash
  <2>1. ~open'
    BY <1>3 DEF HostCrash, Gone
  <2>2. CASE \E n \in synced..Len(lines) : Cut(n)
    <3>1. PICK n \in synced..Len(lines) : Cut(n)
      BY <2>2
    <3>2. lines' \in Seq(Line) /\ (lines' # <<>> => 1 \in DOMAIN lines')
      BY <3>1, LenProperties DEF Cut
    <3>3. QED
      BY <2>1, <3>1, <3>2 DEF Cut
  <2>3. CASE lines' = <<>>
    BY <2>1, <2>3
  <2>4. QED
    BY <1>1, <1>3, <2>2, <2>3, HostCrashCuts DEF HostCrash
<1>4. ASSUME NEW r, AppendWorks(r) \/ AppendFails(r), open, open'
      PROVE  /\ lines # <<>> /\ lines' # <<>> => lines'[1] \in {lines[1], Junk}
             /\ lines # <<>> /\ open /\ open' => lines' # <<>>
             /\ lines = <<>> /\ lines' # <<>> => open /\ open'
  BY <1>1, <1>4, FirstLine
<1>5. ASSUME NEW c \in Attempts, Live(c) PROVE open
  BY <1>1, <1>5 DEF AccountInv
<1>6. ASSUME NEW c \in Attempts, Reserve(c) \/ ReserveFails(c)
      PROVE  open /\ open' /\ \E r : AppendWorks(r) \/ AppendFails(r)
  BY <1>6 DEF Reserve, ReserveFails
<1>7. ASSUME NEW c \in Attempts, Reconcile(c) \/ ReconcileFails(c) \/ Forfeit(c) \/ ForfeitFails(c)
      PROVE  open /\ open' /\ \E r : AppendWorks(r) \/ AppendFails(r)
  <2>1. Live(c)
    BY <1>7 DEF Reconcile, ReconcileFails, Forfeit, ForfeitFails, Live
  <2>2. QED
    BY <1>5, <1>7, <2>1 DEF Reconcile, ReconcileFails, Forfeit, ForfeitFails, Finish, FinishFails
<1>8. CASE Open \/ Crash \/ (\E c \in Attempts : Execute(c)) \/ UNCHANGED vars
  BY <1>2, <1>8 DEF Open, Crash, Execute, file, vars
<1>9. QED
  BY <1>3, <1>4, <1>6, <1>7, <1>8 DEF Next

-----------------------------------------------------------------------------
(* The restored account, when the checkpoint has one carried trial at most *)

\* What was carried does not change.
LEMMA CarriedConstant == ASSUME [CollectNext]_all PROVE carried' = carried
  BY DEF CollectNext, Start, RestoreOpens, RestoreCloses, RestoreFails, BeginFails, Reject, Store, Evaluate,
         Begin, Proceed, GiveUp, Exit, Die, PowerLoss, all

\* The carried trial stays in the checkpoint.
LEMMA CarriedStep ==
  ASSUME CInv, CarriedInv, [CollectNext]_all
  PROVE  CarriedInv'
<1>1. carried' = carried /\ carried \subseteq Attempts
  BY CarriedConstant DEF CInv, StageInv
<1>2. ASSUME NEW c \in carried PROVE \E t \in Trials : kept'[t] = c
  <2>1. PICK t \in Trials : kept[t] = c
    BY DEF CarriedInv
  <2>2. t \in Have(kept)
    BY <1>1, <2>1, CollectAssumption DEF Have
  <2>3. QED
    BY <2>1, <2>2, KeptTrialsStay
<1>3. QED
  BY <1>1, <1>2 DEF CarriedInv

\* What has cost something stays reserved, unless it is carried.
LEMMA PaidStep ==
  ASSUME CInv, PaidInv, [CollectNext]_all
  PROVE  PaidInv'
<1>1. SUFFICES ASSUME NEW c \in Attempts, billed'[c] > 0, ~lost', c \notin carried PROVE Kept(c)'
  BY CarriedConstant DEF PaidInv
<1>2. Onward /\ (billed'[c] = billed[c] \/ Live(c))
  BY CollectOnward
<1>3. Kept(c)
  <2>1. CASE Live(c)
    BY <2>1 DEF CInv, IInv, CallInv
  <2>2. CASE billed'[c] = billed[c]
    BY <1>1, <1>2, <2>2 DEF PaidInv, Onward
  <2>3. QED
    BY <1>2, <2>1, <2>2
<1>4. QED
  BY <1>1, <1>2, <1>3 DEF Onward, Kept, Junk

\* Into an empty journal only the carried trial is restored.
LEMMA EmptyJournal ==
  ASSUME CInv, CarriedInv, DueInv, ~lost, Restoring, lines = <<>>
  PROVE  cur = NoAttempt /\ \A c \in carried : c = trials[Min(todo)]
<1>1. synced = 0
  BY DEF CInv, IInv, TypeOK
<1>2. \A c : ~Kept(c) /\ ~Journaled(c)
  BY <1>1 DEF Kept, Journaled
<1>3. /\ cur # NoAttempt => Kept(cur)
      /\ open /\ JournalInv /\ todo \subseteq Have(trials) /\ Min(todo) \in todo
  BY RestoringFacts
<1>4. trials[Min(todo)] \in carried
  BY <1>2, <1>3 DEF JournalInv, Covered
<1>5. QED
  BY <1>2, <1>3, <1>4 DEF CarriedInv

\* The carried trial stays the first of the journal.
LEMMA FirstStep ==
  ASSUME CInv, CarriedInv, FirstInv, DueInv, [CollectNext]_all
  PROVE  FirstInv'
<1>1. /\ IInv /\ TypeOK /\ FileInv /\ StageInv /\ carried' = carried
  BY CarriedConstant DEF CInv, IInv
<1>2. SUFFICES ASSUME ~lost', lines' # <<>>, NEW c \in carried
      PROVE  lines'[1] = Junk \/ Opens(lines'[1], c)
  BY <1>1 DEF FirstInv
<1>3. ~lost
  BY <1>2, CollectOnward DEF Onward
<1>4. CASE lines # <<>> /\ lines'[1] \in {lines[1], Junk}
  BY <1>3, <1>4 DEF FirstInv
<1>5. CASE RestoreOpens \/ RestoreCloses \/ RestoreFails
  <2>1. CASE UNCHANGED file
    BY <1>2, <1>4, <2>1 DEF file
  <2>2. CASE ~UNCHANGED file
    <3>1. PICK r \in Record : /\ r.id = trials[Min(todo)]
                              /\ cur = NoAttempt => r.event = "reserve"
                              /\ AppendWorks(r) \/ AppendFails(r)
      BY <1>5, <2>2, RestoreWrites
    <3>2. CASE lines # <<>>
      BY <1>1, <1>4, <3>1, <3>2, FirstLine
    <3>3. CASE lines = <<>>
      <4>1. cur = NoAttempt /\ c = trials[Min(todo)]
        BY <1>3, <1>5, <3>3, EmptyJournal, RestoreWrites
      <4>2. lines'[1] \in {r, Junk}
        BY <1>1, <1>2, <3>1, <3>3, FirstLine
      <4>3. QED
        BY <3>1, <4>1, <4>2 DEF Opens
    <3>4. QED
      BY <3>2, <3>3
  <2>3. QED
    BY <2>1, <2>2
<1>6. CASE Store \/ Evaluate \/ Exit
  <2>1. lines' = lines
    BY <1>6 DEF Store, Evaluate, Exit, Replaced, ReplaceFails, file, vars
  <2>2. QED
    BY <1>2, <1>4, <2>1
<1>7. CASE [Next]_vars /\ ~Restoring
  <2>1. CASE lines # <<>>
    BY <1>1, <1>2, <1>4, <1>7, <2>1, NextFirst
  <2>2. CASE lines = <<>>
    <3>1. open
      BY <1>1, <1>2, <1>7, <2>2, NextFirst
    <3>2. CASE todo = {}
      BY <1>3, <2>2, <3>1, <3>2 DEF DueInv, Pending
    <3>3. CASE todo # {}
      <4>1. stage # "run"
        BY <1>7, <3>1, <3>3 DEF Restoring, Running
      <4>2. lines' = lines \/ ~open'
        BY <3>1, <4>1 DEF CollectNext, Start, Open, RestoreOpens, RestoreCloses, RestoreFails, Restoring,
           BeginFails, Begin, Proceed, GiveUp, Reject, Store, Evaluate, Answered, Calling, Running,
           Exit, Die, Crash, PowerLoss, HostCrash, Gone, all, vars, file
      <4>3. QED
        BY <1>1, <1>2, <1>7, <2>2, <4>2, NextFirst
    <3>4. QED
      BY <3>2, <3>3
  <2>3. QED
    BY <2>1, <2>2
<1>8. CASE [Next]_vars /\ Restoring
  <2>1. lines' = lines \/ ~open' \/ RestoreOpens \/ RestoreCloses \/ RestoreFails
    BY <1>8 DEF CollectNext, Start, Open, Restoring,
       BeginFails, Begin, Proceed, GiveUp, Reject, Store, Evaluate, Answered, Calling, Running,
       Exit, Die, Crash, PowerLoss, HostCrash, Gone, all, vars, file
  <2>2. QED
    BY <1>1, <1>2, <1>4, <1>5, <1>8, <2>1, NextFirst
<1>9. QED
  BY <1>5, <1>6, <1>7, <1>8, StepKinds

\* What is due is a number each, and nothing for a trial that is to be restored.
LEMMA DueFacts ==
  ASSUME TypeOK
  PROVE  /\ Due \in [Attempts -> Nat]
         /\ \A c \in Attempts : Due[c] = IF c \in Pending THEN 0 ELSE Held[c]
         /\ todo = {} => Due = Held
<1>1. Held \in [Attempts -> Nat]
  BY HeldFacts
<1>2. \A c \in Attempts : Due[c] = IF c \in Pending THEN 0 ELSE Held[c]
  BY DEF Due
<1>3. Due \in [Attempts -> Nat]
  BY <1>1 DEF Due
<1>4. ASSUME todo = {} PROVE Due = Held
  BY <1>1, <1>4 DEF Due, Pending
<1>5. QED
  BY <1>2, <1>3, <1>4

\* And after a step.
LEMMA DueFactsNext ==
  ASSUME TypeOK'
  PROVE  /\ Due' \in [Attempts -> Nat]
         /\ \A c \in Attempts : Due'[c] = IF c \in Pending' THEN 0 ELSE Held'[c]
         /\ todo' = {} => Due' = Held'
<1>1. Held' \in [Attempts -> Nat]
  BY HeldFactsNext
<1>2. \A c \in Attempts : Due'[c] = IF c \in Pending' THEN 0 ELSE Held'[c]
  BY DEF Due
<1>3. Due' \in [Attempts -> Nat]
  BY <1>1 DEF Due
<1>4. ASSUME todo' = {} PROVE Due' = Held'
  BY <1>1, <1>4 DEF Due, Pending
<1>5. QED
  BY <1>2, <1>3, <1>4

\* A collector that starts has an account that covers all but what it restores.
LEMMA DueStart ==
  ASSUME CInv, CInv', CarriedInv, PaidInv, FirstInv, Start, ~lost
  PROVE  DueInv'
<1>1. /\ IInv /\ IInv' /\ TypeOK /\ TypeOK' /\ FilesInv /\ Open
  BY DEF CInv, IInv, Start
<1>2. /\ trials' = ckpt /\ todo' = (IF lines = <<>> THEN Have(ckpt) ELSE {})
      /\ lines' = lines /\ call' = call /\ billed' = billed /\ carried' = carried
      /\ ~open /\ Parses(lines)
  BY DEF Start, Open, Restorable, file
<1>3. \A c \in Attempts : ~Live(c)'
  BY <1>1, <1>2 DEF IInv, AccountInv, Live
<1>4. CASE lines = <<>>
  <2>1. Pending' = {ckpt[t] : t \in Have(ckpt)}
    BY <1>2, <1>4 DEF Pending
  <2>2. carried \subseteq Pending'
    <3>1. SUFFICES ASSUME NEW c \in carried PROVE \E t \in Have(ckpt) : ckpt[t] = c
      BY <2>1
    <3>2. PICK t \in Trials : kept[t] = c
      BY DEF CarriedInv
    <3>3. c # NoAttempt
      BY CollectAssumption DEF CInv, StageInv
    <3>4. t \in Have(kept) /\ t \in Have(ckpt) /\ ckpt[t] = c
      BY <1>1, <3>2, <3>3 DEF FilesInv, Keeps, Have
    <3>5. QED
      BY <3>4
  <2>3. \A c \in Attempts : Due'[c] = 0
    <3>1. SUFFICES ASSUME NEW c \in Attempts, c \notin Pending' PROVE Held'[c] = 0
      BY <1>1, DueFactsNext
    <3>2. synced = 0
      BY <1>1, <1>4 DEF TypeOK
    <3>3. ~(billed[c] > 0)
      BY <2>2, <3>1, <3>2 DEF PaidInv, Kept
    <3>4. billed'[c] = 0
      BY <1>1, <1>2, <3>3 DEF TypeOK
    <3>5. QED
      BY <1>1, <1>3, <3>4, HeldFactsNext
  <2>4. Sum(Due') = 0
    BY <1>1, <2>3, DueFactsNext, SumZero, AttemptsAssumption
  <2>5. spent' \in Nat /\ reserved' \in Nat
    BY <1>1 DEF TypeOK
  <2>6. Sum(Due') <= spent' + reserved'
    <3>1. \A m, n \in Nat : 0 <= m + n
      OBVIOUS
    <3>2. QED
      BY <2>4, <2>5, <3>1
  <2>7. QED
    BY <1>2, <2>2, <2>6 DEF DueInv
<1>5. CASE lines # <<>>
  <2>1. lines \in Seq(Line) /\ Len(lines) \in Nat /\ 1 \in DOMAIN lines
    BY <1>1, <1>5, LenProperties DEF TypeOK, Line
  <2>2. \A i \in 1..synced : i \in DOMAIN lines
    <3>1. synced \in 0..Len(lines) /\ DOMAIN lines = 1..Len(lines)
      BY <1>1, <2>1 DEF TypeOK
    <3>2. QED
      BY <2>1, <3>1
  <2>3. ASSUME NEW c \in Attempts, billed[c] > 0 PROVE \E i \in DOMAIN lines : Opens(lines[i], c)
    <3>1. CASE Kept(c)
      BY <1>2, <2>2, <3>1 DEF Kept, Parses
    <3>2. CASE c \in carried
      BY <1>2, <1>5, <2>1, <3>2 DEF FirstInv, Parses
    <3>3. QED
      BY <2>3, <3>1, <3>2 DEF PaidInv
  <2>4. \A c \in Attempts : billed[c] <= ChargeOf(lines, c)
    BY <1>1, <2>1, <2>3, OneCharged
  <2>5. Sum(Held') <= spent' + reserved'
    BY <1>1, <2>4, OpenCovers
  <2>6. Due' = Held'
    BY <1>1, <1>2, <1>5, DueFactsNext
  <2>7. Sum(Due') <= spent' + reserved'
    BY <2>5, <2>6
  <2>8. QED
    BY <1>2, <1>5, <2>7 DEF DueInv
<1>6. QED
  BY <1>4, <1>5

\* A step that leaves what is due and what is pending leaves the account.
LEMMA DueStays ==
  ASSUME DueInv, lost' = lost, open' = open, spent' = spent, reserved' = reserved,
         Due' = Due, Pending' = Pending, carried' = carried, lines' = <<>> => lines = <<>>
  PROVE  DueInv'
  BY DEF DueInv

\* A restored trial is due, and its cost is in the account.
LEMMA DueRestored ==
  ASSUME CInv, CInv', DueInv, RestoreCloses
  PROVE  DueInv'
<1>0. PICK c \in Attempts : c = trials[Min(todo)]
  BY RestoringFacts DEF RestoreCloses
<1>1. /\ TypeOK /\ TypeOK' /\ FileInv /\ open /\ Min(todo) \in todo /\ ~Live(c)
      /\ \A t \in todo : trials[t] = c => t = Min(todo)
      /\ cur = c
  BY <1>0, RestoringFacts DEF RestoreCloses, CInv, IInv
<1>2. /\ AppendWorks(Entry("reconcile", c, billed[c])) /\ spent' = spent + billed[c]
      /\ todo' = todo \ {Min(todo)}
      /\ open' = open /\ reserved' = reserved /\ call' = call /\ billed' = billed
      /\ carried' = carried /\ trials' = trials
  BY <1>1 DEF RestoreCloses
<1>3. billed[c] \in 0..Ceiling
  BY <1>1 DEF TypeOK
<1>4. Pending' = Pending \ {c} /\ c \in Pending
  BY <1>0, <1>1, <1>2 DEF Pending
<1>5. Held' = Held /\ Held[c] = billed[c]
  BY <1>1, <1>2, HeldFacts DEF Held, Live
<1>6. /\ \A d \in Attempts \ {c} : Due'[d] = Due[d]
      /\ Due'[c] = billed[c] /\ Due[c] = 0
  BY <1>1, <1>4, <1>5, DueFacts, DueFactsNext
<1>7. Due \in [Attempts -> Nat] /\ Due' \in [Attempts -> Nat]
  BY <1>1, DueFacts, DueFactsNext
<1>8. Sum(Due) \in Nat /\ Sum(Due') \in Nat /\ Sum(Due) + Due'[c] = Sum(Due') + Due[c]
  BY <1>6, <1>7, SumChange, AttemptsAssumption
<1>9. lines' # <<>> /\ lost' = lost
  <2>1. Entry("reconcile", c, billed[c]) \in Record
    BY <1>3, EntryFacts
  <2>2. Adds(Entry("reconcile", c, billed[c])) /\ Grows(Entry("reconcile", c, billed[c]))
    BY <1>1, <1>2, <2>1, WorksGrows
  <2>3. QED
    BY <2>2 DEF Adds, Grows
<1>10. SUFFICES ASSUME ~lost PROVE Sum(Due') <= spent' + reserved'
  BY <1>9 DEF DueInv
<1>11. Sum(Due) <= spent + reserved
  BY <1>1, <1>10 DEF DueInv
<1>12. spent \in Nat /\ reserved \in Nat /\ billed[c] \in Nat
  BY <1>1, <1>3 DEF TypeOK
<1>13. QED
  BY <1>2, <1>6, <1>8, <1>11, <1>12

\* The account covers all that is due, after every step.
LEMMA DueStep ==
  ASSUME CInv, CInv', CarriedInv, PaidInv, FirstInv, DueInv, [CollectNext]_all
  PROVE  DueInv'
<1>1. /\ IInv /\ IInv' /\ TypeOK /\ TypeOK' /\ FileInv /\ StageInv /\ carried' = carried
  BY CarriedConstant DEF CInv, IInv
<1>2. SUFFICES ASSUME ~lost', open' PROVE DueInv'
  BY DEF DueInv
<1>3. ~lost
  BY <1>2, CollectOnward DEF Onward
<1>4. CASE Start
  BY <1>3, <1>4, DueStart
<1>5. CASE RestoreCloses
  BY <1>5, DueRestored
<1>6. CASE RestoreOpens \/ RestoreFails
  <2>1. /\ Restoring /\ lost' = lost
        /\ UNCHANGED <<open, reserved, call, billed, ckpt, kept, carried, trials>>
        /\ UNCHANGED file \/ \E r : AppendWorks(r) \/ AppendFails(r)
    BY <1>6, RestoreWrites
  <2>2. spent' = spent /\ todo' = todo
    BY <1>6 DEF RestoreOpens, RestoreFails
  <2>3. Pending' = Pending /\ Held' = Held
    BY <2>1, <2>2 DEF Pending, Held, Live
  <2>4. Due' = Due
    BY <2>3 DEF Due
  <2>5. lines' = <<>> => lines = <<>>
    BY <1>1, <2>1, FirstLine DEF file
  <2>6. QED
    BY <2>1, <2>2, <2>3, <2>4, <2>5, DueStays
<1>7. CASE Store \/ Evaluate
  <2>1. /\ lines' = lines /\ lost' = lost /\ open' = open /\ spent' = spent /\ reserved' = reserved
        /\ call' = call /\ billed' = billed /\ todo = {} /\ todo' = {}
    BY <1>7 DEF Store, Evaluate, Answered, Calling, Replaced, ReplaceFails, file, memory, vars
  <2>2. Pending' = Pending /\ Held' = Held
    BY <2>1 DEF Pending, Held, Live
  <2>3. Due' = Due
    BY <2>2 DEF Due
  <2>4. QED
    BY <1>1, <2>1, <2>2, <2>3, DueStays
<1>8. CASE [Next]_vars /\ open /\ todo = {} /\ todo' = {}
  <2>1. Due = Held /\ Due' = Held'
    BY <1>1, <1>8, DueFacts, DueFactsNext
  <2>2. Sum(Held) <= spent + reserved /\ (lines = <<>> => carried \subseteq Pending)
    BY <1>3, <1>8, <2>1 DEF DueInv
  <2>3. Sum(Held') <= spent' + reserved'
    BY <1>1, <1>2, <1>8, <2>2, HeldNext
  <2>4. lines' = <<>> => lines = <<>>
    BY <1>1, <1>2, <1>8, NextFirst
  <2>5. Pending = {} /\ Pending' = {}
    BY <1>8 DEF Pending
  <2>6. Sum(Due') <= spent' + reserved'
    BY <2>1, <2>3
  <2>7. QED
    BY <1>1, <2>2, <2>4, <2>5, <2>6 DEF DueInv
<1>9. CASE UNCHANGED all
  <2>1. /\ lines' = lines /\ lost' = lost /\ open' = open /\ spent' = spent /\ reserved' = reserved
        /\ call' = call /\ billed' = billed /\ todo' = todo /\ trials' = trials
    BY <1>9 DEF all, vars, file, memory, collector
  <2>2. Pending' = Pending /\ Held' = Held
    BY <2>1 DEF Pending, Held, Live
  <2>3. Due' = Due
    BY <2>2 DEF Due
  <2>4. QED
    BY <1>1, <2>1, <2>2, <2>3, DueStays
<1>10. ASSUME BeginFails \/ Reject \/ \E c \in Attempts : Begin(c) \/ Proceed(c) \/ GiveUp(c)
       PROVE  [Next]_vars /\ open /\ todo = {} /\ todo' = {}
  BY <1>10 DEF BeginFails, Reject, Begin, Proceed, GiveUp, Answered, Calling, Running, Next, collector
<1>11. ASSUME Exit \/ Die \/ PowerLoss PROVE ~open'
  BY <1>11 DEF Exit, Die, PowerLoss, Crash, HostCrash, Gone
<1>12. QED
  BY <1>2, <1>4, <1>5, <1>6, <1>7, <1>8, <1>9, <1>10, <1>11 DEF CollectNext

\* So the invariant of the restored account holds after every step.
LEMMA CoverStep == CInv /\ CoverInv /\ [CollectNext]_all => CoverInv'
<1> SUFFICES ASSUME CInv, CoverInv, [CollectNext]_all PROVE CoverInv'
  OBVIOUS
<1>1. CarriedInv /\ PaidInv /\ FirstInv /\ DueInv
  BY DEF CoverInv
<1>2. CInv'
  BY CollectStep
<1>3. QED
  BY <1>1, <1>2, CarriedStep, PaidStep, FirstStep, DueStep DEF CoverInv

\* A checkpoint of one trial at most is carried.
LEMMA CoverInitially ==
  ASSUME CarriedCounts \subseteq {0, 1}
  PROVE  CollectInit => CoverInv
<1> SUFFICES ASSUME CollectInit PROVE CoverInv
  OBVIOUS
<1>1. lines = <<>> /\ ~open
  BY DEF CollectInit
<1>2. PICK n \in CarriedCounts : \E who \in [1..n -> Attempts] :
        /\ ckpt = [t \in Trials |-> IF t <= n THEN who[t] ELSE NoAttempt]
        /\ kept = ckpt /\ carried = Range(who)
        /\ \A c \in Attempts : c \notin Range(who) => billed[c] = 0
  BY DEF CollectInit
<1>3. PICK who \in [1..n -> Attempts] :
        /\ ckpt = [t \in Trials |-> IF t <= n THEN who[t] ELSE NoAttempt]
        /\ kept = ckpt /\ carried = Range(who)
        /\ \A c \in Attempts : c \notin Range(who) => billed[c] = 0
  BY <1>2
<1>4. n \in {0, 1} /\ n \in 0..NTrials /\ carried = {who[t] : t \in 1..n}
  BY <1>3, CollectAssumption DEF Range
<1>5. \A t \in 1..n : t = 1 /\ t \in Trials /\ kept[t] = who[t]
  BY <1>3, <1>4 DEF Trials
<1>6. CarriedInv
  BY <1>4, <1>5 DEF CarriedInv
<1>7. PaidInv
  BY <1>3 DEF PaidInv
<1>8. QED
  BY <1>1, <1>6, <1>7 DEF CoverInv, FirstInv, DueInv

\* Before another call is made the account covers all that was ever charged, be
\* it restored from the journal or from a checkpoint of one trial.  (For two
\* carried trials this is false: a restoration that is broken off after the first
\* leaves a journal, and the second is never restored.)
THEOREM AccountCovers ==
  ASSUME CarriedCounts \subseteq {0, 1}
  PROVE  CollectSpec => []ResumedAccountCovers
<1>1. CollectInit => CoverInv
  BY CoverInitially
<1>2. ASSUME CInv, CoverInv PROVE ResumedAccountCovers
  <2>1. SUFFICES ASSUME ~lost, open, todo = {} PROVE Sum(billed) <= spent + reserved
    BY DEF ResumedAccountCovers
  <2>2. TypeOK
    BY <1>2 DEF CInv, IInv
  <2>3. Due = Held
    BY <2>1, <2>2, DueFacts
  <2>4. Sum(Held) <= spent + reserved
    BY <1>2, <2>1, <2>3 DEF CoverInv, DueInv
  <2>5. Sum(billed) \in Nat /\ Sum(Held) \in Nat /\ Sum(billed) <= Sum(Held)
    BY <2>2, HeldFacts, SumMonotone, AttemptsAssumption
  <2>6. spent \in Nat /\ reserved \in Nat
    BY <2>2 DEF TypeOK
  <2>7. QED
    BY <2>4, <2>5, <2>6
<1>3. QED
  BY <1>1, <1>2, CoverStep, CollectInvariance, PTL DEF CollectSpec
=============================================================================
