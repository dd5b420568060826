---------------------------- MODULE People_proofs ---------------------------
(***************************************************************************)
(* Proofs about the records of people, which clones merge line by line, for   *)
(* any number of clones, persons, machines and records.                     *)
(***************************************************************************)
EXTENDS People, EnvFacts, NumberLemmas, FiniteSetTheorems, SequenceTheorems, TLAPS

-----------------------------------------------------------------------------
(* UnionMerge: what a merge keeps.                                           *)

WithLine(s, x) == IF x \in Range(s) THEN s ELSE Append(s, x)
MergedTo(ours, theirs, n) ==
    CHOOSE merged :
        merged = [i \in 0..n |-> IF i = 0 THEN ours ELSE WithLine(merged[i - 1], theirs[i])]

\* The lines of the other side are taken one after the other.
LEMMA MergingSteps ==
    ASSUME NEW ours, NEW theirs, NEW n \in Nat
    PROVE  MergedTo(ours, theirs, n)
             = [i \in 0..n |-> IF i = 0 THEN ours
                               ELSE WithLine(MergedTo(ours, theirs, n)[i - 1], theirs[i])]
<1> DEFINE Is(f, m) == f = [i \in 0..m |-> IF i = 0 THEN ours ELSE WithLine(f[i - 1], theirs[i])]
           T == {m \in Nat : ~ \E f : Is(f, m)}
<1>1. T = {}
  <2> SUFFICES ASSUME T # {} PROVE FALSE
    OBVIOUS
  <2>1. PICK m \in T : \A x \in T : m <= x
    BY LeastNumber
  <2>2. CASE m = 0
    <3> DEFINE f == [i \in 0..0 |-> ours]
    <3>1. Is(f, 0)
      OBVIOUS
    <3> QED
      BY <2>1, <2>2, <3>1
  <2>3. CASE m # 0
    <3>1. m - 1 \in Nat /\ ~ (m <= m - 1)
      BY <2>1, <2>3
    <3>2. PICK g : Is(g, m - 1)
      BY <2>1, <3>1
    <3> DEFINE f == [i \in 0..m |-> IF i = m THEN WithLine(g[m - 1], theirs[m]) ELSE g[i]]
    <3>3. \A i \in 0..m : f[i] = IF i = 0 THEN ours ELSE WithLine(f[i - 1], theirs[i])
      BY <2>1, <2>3, <3>2
    <3>4. Is(f, m)
      BY <3>3
    <3> QED
      BY <2>1, <3>4
  <2> QED
    BY <2>2, <2>3
<1>2. \E f : Is(f, n)
  BY <1>1
<1> QED
  BY <1>2 DEF MergedTo

\* The merge is the last of these steps.
LEMMA MergedIs ==
    ASSUME NEW ours, NEW theirs
    PROVE  Merged(ours, theirs) = MergedTo(ours, theirs, Len(theirs))[Len(theirs)]
BY DEF Merged, MergedTo, WithLine

(* m is a merge of ours and of the first k of theirs: ours come first, and    *)
(* what comes after them is new, and comes after what it came after.          *)
Merges(m, ours, theirs, k, S) ==
    /\ m \in Seq(S) /\ Len(ours) <= Len(m)
    /\ \A i \in 1..Len(ours) : m[i] = ours[i]
    /\ \A l \in 1..k : \E i \in 1..Len(m) : m[i] = theirs[l]
    /\ \A i \in 1..Len(m) : i > Len(ours) =>
          /\ \A n \in 1..Len(m) : n < i => m[n] # m[i]
          /\ \E j \in 1..k : /\ m[i] = theirs[j]
                             /\ \A l \in 1..(j - 1) : \E n \in 1..Len(m) : n < i /\ m[n] = theirs[l]

\* One more line keeps it a merge.
LEMMA OneMoreLine ==
    ASSUME NEW S, NEW ours \in Seq(S), NEW theirs \in Seq(S), NEW k \in Nat, k < Len(theirs),
           NEW m, Merges(m, ours, theirs, k, S)
    PROVE  Merges(WithLine(m, theirs[k + 1]), ours, theirs, k + 1, S)
<1> DEFINE x == theirs[k + 1]
<1>1. x \in S /\ k + 1 \in 1..Len(theirs) /\ m \in Seq(S)
  BY DEF Merges
<1>2. CASE x \in Range(m)
  <2>1. WithLine(m, x) = m
    BY <1>2 DEF WithLine
  <2>2. PICK i \in 1..Len(m) : m[i] = x
    BY <1>1, <1>2 DEF Range
  <2>3. ASSUME NEW l \in 1..(k + 1) PROVE \E n \in 1..Len(m) : m[n] = theirs[l]
    <3>1. CASE l = k + 1
      BY <2>2, <3>1
    <3>2. CASE l # k + 1
      <4>1. l \in 1..k
        BY <3>2
      <4> QED
        BY <4>1 DEF Merges
    <3> QED
      BY <3>1, <3>2
  <2> HIDE DEF x
  <2>4. ASSUME NEW n \in 1..Len(m), n > Len(ours)
        PROVE  /\ \A o \in 1..Len(m) : o < n => m[o] # m[n]
               /\ \E j \in 1..(k + 1) :
                     /\ m[n] = theirs[j]
                     /\ \A l \in 1..(j - 1) : \E o \in 1..Len(m) : o < n /\ m[o] = theirs[l]
    <3>1. PICK j \in 1..k : /\ m[n] = theirs[j]
                            /\ \A l \in 1..(j - 1) : \E o \in 1..Len(m) : o < n /\ m[o] = theirs[l]
      BY <2>4 DEF Merges
    <3>2. j \in 1..(k + 1)
      OBVIOUS
    <3>3. \A o \in 1..Len(m) : o < n => m[o] # m[n]
      BY <2>4 DEF Merges
    <3> QED
      BY <3>1, <3>2, <3>3
  <2>5. Merges(m, ours, theirs, k + 1, S)
    BY <2>3, <2>4 DEF Merges
  <2> QED
    BY <2>1, <2>5 DEF x
<1>3. CASE x \notin Range(m)
  <2> DEFINE w == Append(m, x)
  <2>1. WithLine(m, x) = w
    BY <1>3 DEF WithLine
  <2>2. /\ w \in Seq(S) /\ Len(w) = Len(m) + 1 /\ w[Len(m) + 1] = x
        /\ \A i \in 1..Len(m) : w[i] = m[i]
    BY <1>1
  <2>3. Len(ours) \in Nat /\ Len(m) \in Nat /\ Len(ours) <= Len(m)
    BY <1>1 DEF Merges
  <2> HIDE DEF w
  <2>4. \A i \in 1..Len(ours) : w[i] = ours[i]
    BY <2>2, <2>3 DEF Merges
  <2>5. \A l \in 1..(k + 1) : \E i \in 1..Len(w) : w[i] = theirs[l]
    <3> SUFFICES ASSUME NEW l \in 1..(k + 1) PROVE \E i \in 1..Len(w) : w[i] = theirs[l]
      OBVIOUS
    <3>1. CASE l = k + 1
      BY <2>2, <2>3, <3>1
    <3>2. CASE l # k + 1
      <4>1. PICK i \in 1..Len(m) : m[i] = theirs[l]
        BY <3>2 DEF Merges
      <4> QED
        BY <4>1, <2>2, <2>3
    <3> QED
      BY <3>1, <3>2
  <2>6. ASSUME NEW i \in 1..Len(w), i > Len(ours)
        PROVE  /\ \A n \in 1..Len(w) : n < i => w[n] # w[i]
               /\ \E j \in 1..(k + 1) :
                     /\ w[i] = theirs[j]
                     /\ \A l \in 1..(j - 1) : \E n \in 1..Len(w) : n < i /\ w[n] = theirs[l]
    <3>1. CASE i = Len(m) + 1
      <4>1. \A n \in 1..Len(m) : m[n] # x
        BY <1>1, <1>3 DEF Range
      <4>2. \A n \in 1..Len(w) : n < i => n \in 1..Len(m)
        BY <2>2, <2>3, <3>1
      <4>3. \A l \in 1..k : \E n \in 1..Len(m) : m[n] = theirs[l]
        BY DEF Merges
      <4>4. ASSUME NEW l \in 1..k PROVE \E n \in 1..Len(w) : n < i /\ w[n] = theirs[l]
        <5>1. PICK n \in 1..Len(m) : m[n] = theirs[l]
          BY <4>3
        <5>2. n \in 1..Len(w) /\ n < i /\ w[n] = m[n]
          BY <2>2, <2>3, <3>1
        <5> QED
          BY <5>1, <5>2
      <4>5. k + 1 \in 1..(k + 1) /\ (k + 1) - 1 = k
        OBVIOUS
      <4>6. w[i] = x
        BY <2>2, <3>1
      <4>7. \A n \in 1..Len(w) : n < i => w[n] # w[i]
        BY <2>2, <4>1, <4>2, <4>6
      <4>8. /\ w[i] = theirs[k + 1]
            /\ \A l \in 1..((k + 1) - 1) : \E n \in 1..Len(w) : n < i /\ w[n] = theirs[l]
        BY <4>4, <4>5, <4>6
      <4> QED
        BY <4>5, <4>7, <4>8
    <3>2. CASE i # Len(m) + 1
      <4>1. i \in 1..Len(m)
        BY <2>2, <2>3, <3>2
      <4>2. \A n \in 1..Len(w) : n < i => n \in 1..Len(m)
        BY <2>2, <2>3, <4>1
      <4>3. \A n \in 1..Len(m) : n < i => m[n] # m[i]
        BY <2>6, <4>1 DEF Merges
      <4>4. PICK j \in 1..k : /\ m[i] = theirs[j]
                              /\ \A l \in 1..(j - 1) : \E n \in 1..Len(m) : n < i /\ m[n] = theirs[l]
        BY <2>6, <4>1 DEF Merges
      <4>5. j \in 1..(k + 1) /\ \A n \in 1..Len(m) : n \in 1..Len(w)
        BY <2>2, <2>3
      <4> QED
        BY <2>2, <4>1, <4>2, <4>3, <4>4, <4>5
    <3> QED
      BY <3>1, <3>2
  <2>7. Len(ours) <= Len(w)
    BY <2>2, <2>3
  <2>8. Merges(w, ours, theirs, k + 1, S)
    BY <2>2, <2>4, <2>5, <2>6, <2>7 DEF Merges
  <2> QED
    BY <2>1, <2>8
<1> QED
  BY <1>2, <1>3

\* A merge keeps ours where they were, and all of theirs in their order.
LEMMA MergeKeepsLines ==
    ASSUME NEW S, NEW ours \in Seq(S), NEW theirs \in Seq(S)
    PROVE  Merges(Merged(ours, theirs), ours, theirs, Len(theirs), S)
<1> DEFINE N == Len(theirs)
           f == MergedTo(ours, theirs, N)
           T == {k \in Nat : k <= N /\ ~ Merges(f[k], ours, theirs, k, S)}
<1>1. N \in Nat
  OBVIOUS
<1>2. f = [i \in 0..N |-> IF i = 0 THEN ours ELSE WithLine(f[i - 1], theirs[i])]
  BY <1>1, MergingSteps
<1> HIDE DEF f
<1>3. T = {}
  <2> SUFFICES ASSUME T # {} PROVE FALSE
    OBVIOUS
  <2>1. PICK k \in T : \A j \in T : k <= j
    BY LeastNumber
  <2>2. f[0] = ours
    BY <1>1, <1>2
  <2>3. Merges(ours, ours, theirs, 0, S)
    BY DEF Merges
  <2>4. k # 0
    BY <2>1, <2>2, <2>3
  <2>5. k - 1 \in Nat /\ k - 1 < N /\ ~ (k <= k - 1) /\ (k - 1) + 1 = k /\ k \in 0..N
    BY <1>1, <2>1, <2>4
  <2>6. Merges(f[k - 1], ours, theirs, k - 1, S)
    BY <2>1, <2>5
  <2>7. f[k] = WithLine(f[k - 1], theirs[k])
    BY <1>2, <2>4, <2>5
  <2>8. Merges(f[k], ours, theirs, k, S)
    BY <2>5, <2>6, <2>7, OneMoreLine
  <2> QED
    BY <2>1, <2>8
<1>4. Merges(f[N], ours, theirs, N, S)
  BY <1>1, <1>3
<1> QED
  BY <1>4, MergedIs DEF f

-----------------------------------------------------------------------------
(***************************************************************************)
(* EnvFacts: a record that clears a fact comes after every record that its    *)
(* writer had seen, in each checkout that holds it.                          *)
(***************************************************************************)

Positive == Nat \ {0}
FactLines == [id : Positive, act : {"set", "delete", "clear"},
              machine : Machines \cup {AllMachines}, key : FactKeys \cup {NoFact},
              value : FactValues \cup {NoFact}, seen : SUBSET Nat]

FactTypes == lines \in [Checkouts -> Seq(FactLines)] /\ written \in Nat

(* Records are numbered as they are written: a number is one record's,        *)
(* wherever it is held, and a checkout holds it once.                        *)
NumbersOK ==
    /\ \A c \in Checkouts : \A i \in 1..Len(lines[c]) : lines[c][i].id <= written
    /\ \A c, d \in Checkouts : \A i \in 1..Len(lines[c]), j \in 1..Len(lines[d]) :
          lines[c][i].id = lines[d][j].id => lines[c][i] = lines[d][j]
    /\ \A c \in Checkouts : \A i, j \in 1..Len(lines[c]) :
          lines[c][i].id = lines[c][j].id => i = j

(* A checkout that holds a record holds before it what its writer had seen.   *)
SeenBefore(recs) ==
    \A i \in 1..Len(recs) : \A x \in recs[i].seen :
        \E j \in 1..Len(recs) : j < i /\ recs[j].id = x

FactsInv ==
    FactTypes /\ NumbersOK /\ \A c \in Checkouts : SeenBefore(lines[c])

\* A record is written at the end, with a new number (_append).
LEMMA WritingKeeps ==
    ASSUME FactsInv, NEW c \in Checkouts, NEW r \in FactLines, r.id = written + 1,
           r.seen = {lines[c][i].id : i \in 1..Len(lines[c])},
           lines' = [lines EXCEPT ![c] = Append(lines[c], r)], written' = written + 1
    PROVE  FactsInv'
<1>1. /\ lines \in [Checkouts -> Seq(FactLines)] /\ written \in Nat
      /\ lines[c] \in Seq(FactLines)
  BY DEF FactsInv, FactTypes
<1> DEFINE new == Append(lines[c], r)
           L == Len(lines[c])
<1>2. /\ new \in Seq(FactLines) /\ Len(new) = L + 1 /\ L \in Nat
      /\ new[L + 1] = r /\ \A i \in 1..L : new[i] = lines[c][i]
  BY <1>1
<1>3. lines'[c] = new /\ \A d \in Checkouts \ {c} : lines'[d] = lines[d]
  BY <1>1
<1> HIDE DEF new
<1>4. FactTypes'
  <2>1. lines' \in [Checkouts -> Seq(FactLines)]
    BY <1>1, <1>2 DEF new
  <2> QED
    BY <1>1, <2>1 DEF FactTypes
<1>5. ASSUME NEW d \in Checkouts, NEW i \in 1..Len(lines'[d])
      PROVE  \/ d = c /\ i = L + 1 /\ lines'[d][i] = r
             \/ i \in 1..Len(lines[d]) /\ lines'[d][i] = lines[d][i]
  <2>1. CASE d = c
    BY <1>2, <1>3, <2>1
  <2>2. CASE d # c
    BY <1>3, <2>2
  <2> QED
    BY <2>1, <2>2
<1>6. \A d \in Checkouts : \A i \in 1..Len(lines[d]) :
         lines[d][i].id <= written /\ lines[d][i].id \in Nat
  <2>1. \A d \in Checkouts : \A i \in 1..Len(lines[d]) : lines[d][i].id \in Nat
    <3>1. \A x \in FactLines : x.id \in Nat
      BY DEF FactLines, Positive
    <3> QED
      BY <1>1, <3>1
  <2> QED
    BY <2>1 DEF FactsInv, NumbersOK
<1>7. ~ (written + 1 <= written) /\ \A x \in Nat : x <= written => x <= written + 1 /\ x # written + 1
  BY <1>1
<1>8. NumbersOK'
  <2>1. ASSUME NEW d \in Checkouts, NEW i \in 1..Len(lines'[d])
        PROVE  lines'[d][i].id <= written'
    <3>1. CASE lines'[d][i] = r
      BY <1>1, <3>1
    <3>2. CASE i \in 1..Len(lines[d]) /\ lines'[d][i] = lines[d][i]
      BY <1>6, <1>7, <3>2
    <3> QED
      BY <1>5, <3>1, <3>2
  <2>2. ASSUME NEW d \in Checkouts, NEW e \in Checkouts,
               NEW i \in 1..Len(lines'[d]), NEW j \in 1..Len(lines'[e]),
               lines'[d][i].id = lines'[e][j].id
        PROVE  lines'[d][i] = lines'[e][j]
    <3>1. CASE lines'[d][i] = r
      <4>1. lines'[e][j] = r
        BY <1>5, <1>6, <1>7, <2>2, <3>1
      <4> QED
        BY <3>1, <4>1
    <3>2. CASE lines'[d][i] # r
      <4>1. i \in 1..Len(lines[d]) /\ lines'[d][i] = lines[d][i]
        BY <1>5, <3>2
      <4>2. j \in 1..Len(lines[e]) /\ lines'[e][j] = lines[e][j]
        BY <1>5, <1>6, <1>7, <2>2, <4>1
      <4> QED
        BY <2>2, <4>1, <4>2 DEF FactsInv, NumbersOK
    <3> QED
      BY <3>1, <3>2
  <2>3. ASSUME NEW d \in Checkouts, NEW i \in 1..Len(lines'[d]), NEW j \in 1..Len(lines'[d]),
               lines'[d][i].id = lines'[d][j].id
        PROVE  i = j
    <3>1. CASE d = c /\ i = L + 1 /\ lines'[d][i] = r
      <4>1. ~ (lines'[d][j].id <= written)
        BY <1>7, <2>3, <3>1
      <4> QED
        BY <1>5, <1>6, <3>1, <4>1
    <3>2. CASE i \in 1..Len(lines[d]) /\ lines'[d][i] = lines[d][i]
      <4>1. lines'[d][j].id # written + 1
        BY <1>6, <1>7, <2>3, <3>2
      <4>2. j \in 1..Len(lines[d]) /\ lines'[d][j] = lines[d][j]
        BY <1>5, <4>1
      <4> QED
        BY <2>3, <3>2, <4>2 DEF FactsInv, NumbersOK
    <3> QED
      BY <1>5, <3>1, <3>2
  <2> QED
    BY <2>1, <2>2, <2>3 DEF NumbersOK
<1>9. SeenBefore(new)
  <2> SUFFICES ASSUME NEW i \in 1..Len(new), NEW x \in new[i].seen
               PROVE  \E j \in 1..Len(new) : j < i /\ new[j].id = x
    BY DEF SeenBefore
  <2>1. CASE i = L + 1
    <3>1. PICK j \in 1..L : lines[c][j].id = x
      BY <1>2, <2>1
    <3> QED
      BY <1>2, <2>1, <3>1
  <2>2. CASE i # L + 1
    <3>1. i \in 1..L /\ new[i] = lines[c][i]
      BY <1>2, <2>2
    <3>2. PICK j \in 1..L : j < i /\ lines[c][j].id = x
      BY <3>1 DEF FactsInv, SeenBefore
    <3> QED
      BY <1>2, <3>2
  <2> QED
    BY <2>1, <2>2
<1>10. \A d \in Checkouts : SeenBefore(lines'[d])
  BY <1>3, <1>9 DEF FactsInv
<1> QED
  BY <1>4, <1>8, <1>10 DEF FactsInv

\* What one checkout pulls from another keeps what was seen before it
\* ("merge=union").
LEMMA PullingKeeps ==
    ASSUME FactsInv, NEW c \in Checkouts, NEW d \in Checkouts, PullFacts(c, d)
    PROVE  FactsInv'
<1>1. PICK o \in Checkouts, t \in Checkouts :
         lines' = [lines EXCEPT ![c] = Merged(lines[o], lines[t])]
  BY DEF PullFacts
<1> DEFINE ours == lines[o]
           theirs == lines[t]
           m == Merged(ours, theirs)
<1>2. /\ lines \in [Checkouts -> Seq(FactLines)] /\ written \in Nat /\ written' = written
      /\ ours \in Seq(FactLines) /\ theirs \in Seq(FactLines)
  BY DEF FactsInv, FactTypes, PullFacts
<1>3. Merges(m, ours, theirs, Len(theirs), FactLines)
  BY <1>2, MergeKeepsLines
<1>4. lines'[c] = m /\ \A e \in Checkouts \ {c} : lines'[e] = lines[e]
  BY <1>1, <1>2
<1> HIDE DEF m
<1>5. FactTypes'
  <2>1. m \in Seq(FactLines)
    BY <1>3 DEF Merges
  <2> QED
    BY <1>1, <1>2, <2>1 DEF FactTypes, m
<1>6. ASSUME NEW i \in 1..Len(m)
      PROVE  \E e \in Checkouts : \E j \in 1..Len(lines[e]) : m[i] = lines[e][j]
  <2>1. CASE i > Len(ours)
    BY <1>3, <2>1 DEF Merges
  <2>2. CASE ~ (i > Len(ours))
    <3>1. i \in 1..Len(ours)
      BY <1>2, <2>2
    <3> QED
      BY <1>3, <3>1 DEF Merges
  <2> QED
    BY <2>1, <2>2
<1>7. ASSUME NEW e \in Checkouts, NEW i \in 1..Len(lines'[e])
      PROVE  \E g \in Checkouts : \E j \in 1..Len(lines[g]) : lines'[e][i] = lines[g][j]
  BY <1>4, <1>6
<1>8. ASSUME NEW i \in 1..Len(m), NEW j \in 1..Len(m), m[i].id = m[j].id, i < j PROVE FALSE
  <2>1. m[i] = m[j]
    <3>1. PICK e \in Checkouts : \E n \in 1..Len(lines[e]) : m[i] = lines[e][n]
      BY <1>6
    <3>2. PICK g \in Checkouts : \E n \in 1..Len(lines[g]) : m[j] = lines[g][n]
      BY <1>6
    <3> QED
      BY <1>8, <3>1, <3>2 DEF FactsInv, NumbersOK
  <2>2. CASE j > Len(ours)
    BY <1>3, <1>8, <2>1, <2>2 DEF Merges
  <2>3. CASE ~ (j > Len(ours))
    <3>1. i \in 1..Len(ours) /\ j \in 1..Len(ours)
      BY <1>2, <1>8, <2>3
    <3>2. ours[i].id = ours[j].id
      BY <1>3, <1>8, <3>1 DEF Merges
    <3>3. i = j
      BY <3>1, <3>2 DEF FactsInv, NumbersOK
    <3> QED
      BY <1>8, <3>3
  <2> QED
    BY <2>2, <2>3
<1>9. NumbersOK'
  <2>1. \A e \in Checkouts : \A i \in 1..Len(lines'[e]) : lines'[e][i].id <= written'
    <3> SUFFICES ASSUME NEW e \in Checkouts, NEW i \in 1..Len(lines'[e])
                 PROVE  lines'[e][i].id <= written'
      OBVIOUS
    <3>1. PICK g \in Checkouts : \E j \in 1..Len(lines[g]) : lines'[e][i] = lines[g][j]
      BY <1>7
    <3> QED
      BY <1>2, <3>1 DEF FactsInv, NumbersOK
  <2>2. ASSUME NEW e \in Checkouts, NEW g \in Checkouts,
               NEW i \in 1..Len(lines'[e]), NEW j \in 1..Len(lines'[g]),
               lines'[e][i].id = lines'[g][j].id
        PROVE  lines'[e][i] = lines'[g][j]
    <3>1. PICK e1 \in Checkouts : \E n \in 1..Len(lines[e1]) : lines'[e][i] = lines[e1][n]
      BY <1>7
    <3>2. PICK g1 \in Checkouts : \E n \in 1..Len(lines[g1]) : lines'[g][j] = lines[g1][n]
      BY <1>7
    <3> QED
      BY <2>2, <3>1, <3>2 DEF FactsInv, NumbersOK
  <2>3. ASSUME NEW e \in Checkouts, NEW i \in 1..Len(lines'[e]), NEW j \in 1..Len(lines'[e]),
               lines'[e][i].id = lines'[e][j].id
        PROVE  i = j
    <3>1. CASE e = c
      <4>1. ~ (i < j) /\ ~ (j < i)
        BY <1>4, <1>8, <2>3, <3>1
      <4> QED
        BY <4>1
    <3>2. CASE e # c
      BY <1>4, <2>3, <3>2 DEF FactsInv, NumbersOK
    <3> QED
      BY <3>1, <3>2
  <2> QED
    BY <2>1, <2>2, <2>3 DEF NumbersOK
<1>10. SeenBefore(m)
  <2> SUFFICES ASSUME NEW i \in 1..Len(m), NEW x \in m[i].seen
               PROVE  \E j \in 1..Len(m) : j < i /\ m[j].id = x
    BY DEF SeenBefore
  <2>1. CASE i > Len(ours)
    <3>1. PICK j \in 1..Len(theirs) :
             /\ m[i] = theirs[j]
             /\ \A l \in 1..(j - 1) : \E n \in 1..Len(m) : n < i /\ m[n] = theirs[l]
      BY <1>3, <2>1 DEF Merges
    <3>2. PICK l \in 1..Len(theirs) : l < j /\ theirs[l].id = x
      BY <3>1 DEF FactsInv, SeenBefore
    <3>3. l \in 1..(j - 1)
      BY <3>2
    <3> QED
      BY <3>1, <3>2, <3>3
  <2>2. CASE ~ (i > Len(ours))
    <3>1. i \in 1..Len(ours) /\ m[i] = ours[i]
      BY <1>2, <1>3, <2>2 DEF Merges
    <3>2. PICK j \in 1..Len(ours) : j < i /\ ours[j].id = x
      BY <3>1 DEF FactsInv, SeenBefore
    <3>3. Len(ours) \in Nat /\ Len(m) \in Nat /\ Len(ours) <= Len(m) /\ m[j] = ours[j]
      BY <1>2, <1>3 DEF Merges
    <3> QED
      BY <3>2, <3>3
  <2> QED
    BY <2>1, <2>2
<1>11. \A e \in Checkouts : SeenBefore(lines'[e])
  BY <1>4, <1>10 DEF FactsInv
<1> QED
  BY <1>5, <1>9, <1>11 DEF FactsInv

-----------------------------------------------------------------------------
\* At first nothing is noted.
LEMMA InitFacts == FactsInit => FactsInv
<1> SUFFICES ASSUME FactsInit PROVE FactsInv
  OBVIOUS
<1>1. lines = [c \in Checkouts |-> <<>>] /\ written = 0 /\ \A c \in Checkouts : Len(lines[c]) = 0
  BY DEF FactsInit
<1>2. <<>> \in Seq(FactLines)
  OBVIOUS
<1>3. FactTypes
  BY <1>1, <1>2 DEF FactTypes
<1> QED
  BY <1>1, <1>3 DEF FactsInv, NumbersOK, SeenBefore

\* What is written is such a record.
LEMMA WriteFactKeeps ==
    ASSUME FactsInv, NEW c \in Checkouts, NEW act \in {"set", "delete", "clear"},
           NEW m \in Machines \cup {AllMachines}, NEW k \in FactKeys \cup {NoFact},
           NEW v \in FactValues \cup {NoFact}, WriteFact(c, act, m, k, v)
    PROVE  FactsInv'
<1> DEFINE recs == lines[c]
           r == [id |-> written + 1, act |-> act, machine |-> m, key |-> k, value |-> v,
                 seen |-> {recs[i].id : i \in DOMAIN recs}]
<1>1. lines \in [Checkouts -> Seq(FactLines)] /\ written \in Nat /\ recs \in Seq(FactLines)
  BY DEF FactsInv, FactTypes
<1>2. lines' = [lines EXCEPT ![c] = Append(recs, r)] /\ written' = written + 1
  BY DEF WriteFact
<1>3. r.seen = {recs[i].id : i \in 1..Len(recs)} /\ r.seen \subseteq Nat
  <2>1. \A x \in FactLines : x.id \in Nat
    BY DEF FactLines, Positive
  <2>2. DOMAIN recs = 1..Len(recs) /\ \A i \in DOMAIN recs : recs[i] \in FactLines
    BY <1>1
  <2> QED
    BY <2>1, <2>2
<1>4. r \in FactLines
  <2>1. written + 1 \in Positive
    BY <1>1 DEF Positive
  <2>2. r.seen \in SUBSET Nat
    BY <1>3
  <2> HIDE DEF recs
  <2> QED
    BY <2>1, <2>2 DEF FactLines
<1>5. r.id = written + 1
  OBVIOUS
<1> HIDE DEF r
<1> QED
  BY <1>2, <1>3, <1>4, <1>5, WritingKeeps

\* Every call and every pull keeps the invariant.
LEMMA NextFacts == FactsInv /\ [FactsNext]_factsVars => FactsInv'
<1> SUFFICES ASSUME FactsInv, [FactsNext]_factsVars PROVE FactsInv'
  OBVIOUS
<1>1. CASE UNCHANGED factsVars
  BY <1>1 DEF factsVars, FactsInv, FactTypes, NumbersOK, SeenBefore
<1>2. ASSUME NEW c \in Checkouts, NEW m \in Machines, NEW k \in FactKeys,
             DeleteFact(c, m, k) \/ \E v \in FactValues : SetFact(c, m, k, v)
      PROVE  FactsInv'
  BY <1>2, WriteFactKeeps DEF DeleteFact, SetFact
<1>3. ASSUME NEW c \in Checkouts, NEW m \in Machines \cup {AllMachines}, ClearFacts(c, m)
      PROVE  FactsInv'
  BY <1>3, WriteFactKeeps DEF ClearFacts
<1> QED
  BY <1>1, <1>2, <1>3, PullingKeeps DEF FactsNext

\* The record that shows is the last one about the fact.
LEMMA LastOneShows ==
    ASSUME NEW recs \in Seq(FactLines), NEW m, NEW k, NEW i \in 1..Len(recs),
           Clears(recs[i], m, k), NEW x \in Nat, x # 0, Fact(recs, m, k).id = x
    PROVE  \E j \in 1..Len(recs) : i <= j /\ recs[j].id = x
<1> DEFINE about == {j \in DOMAIN recs : Touches(recs[j], m, k)}
<1>1. about \subseteq Nat /\ IsFiniteSet(about) /\ about \subseteq 1..Len(recs)
  <2>1. about \subseteq 1..Len(recs) /\ Len(recs) \in Nat
    OBVIOUS
  <2> HIDE DEF about
  <2>2. IsFiniteSet(1..Len(recs)) /\ 1..Len(recs) \subseteq Nat
    BY <2>1, FS_Interval
  <2>3. IsFiniteSet(about)
    BY <2>1, <2>2, FS_Subset
  <2> QED
    BY <2>1, <2>2, <2>3
<1>2. i \in about
  BY DEF Touches
<1>3. Fact(recs, m, k).id = 0 \/ Fact(recs, m, k).id = recs[Max(about)].id
  BY DEF Fact
<1> HIDE DEF about
<1>4. Max(about) \in about /\ i <= Max(about)
  BY <1>1, <1>2, MaxIsLargest
<1> QED
  BY <1>1, <1>3, <1>4

(* A fact that was cleared or deleted anywhere shows in no checkout that has  *)
(* heard of it, in whatever order merges left the lines, until it is set      *)
(* again (clear_facts, _fold_entry).                                         *)
THEOREM ClearedStaysGone == FactsSpec => []ClearedIsGone
<1>1. FactsInv => ClearedIsGone
  <2> SUFFICES ASSUME FactsInv, NEW c \in Checkouts, NEW i \in 1..Len(lines[c]),
                      NEW m \in Machines, NEW k \in FactKeys, Clears(lines[c][i], m, k),
                      Fact(lines[c], m, k).id \in lines[c][i].seen
               PROVE  FALSE
    <3>1. \A c \in Checkouts : DOMAIN lines[c] = 1..Len(lines[c])
      BY DEF FactsInv, FactTypes
    <3> QED
      BY <3>1 DEF ClearedIsGone, Clears, Range
  <2> DEFINE recs == lines[c]
             x == Fact(recs, m, k).id
  <2>1. recs \in Seq(FactLines)
    BY DEF FactsInv, FactTypes
  <2>2. PICK j \in 1..Len(recs) : j < i /\ recs[j].id = x
    BY DEF FactsInv, SeenBefore
  <2>3. x \in Nat /\ x # 0
    <3>1. recs[j] \in FactLines
      BY <2>1
    <3>2. recs[j].id \in Nat /\ recs[j].id # 0
      BY <3>1 DEF FactLines, Positive
    <3> QED
      BY <2>2, <3>2
  <2> HIDE DEF x
  <2>4. PICK n \in 1..Len(recs) : i <= n /\ recs[n].id = x
    BY <2>1, <2>3, LastOneShows DEF x
  <2>5. j = n
    BY <2>2, <2>4 DEF FactsInv, NumbersOK
  <2> QED
    BY <2>2, <2>4, <2>5
<1> QED
  BY <1>1, InitFacts, NextFacts, PTL DEF FactsSpec

-----------------------------------------------------------------------------
(***************************************************************************)
(* People: what a profile's records show.                                    *)
(***************************************************************************)

Values == Roles \cup Persons \cup {Nobody, Nothing, OldRole}
Records == [field : Required \cup {"removed"},
            value : Values, at : Nat]

Of(recs, field) == {i \in DOMAIN recs : recs[i].field = field}
Newest(recs, field) == {i \in DOMAIN recs : recs[i].field = field /\ recs[i].at = Stamp(recs, field)}

\* Of some records of a file, one has the largest stamp.
LEMMA LargestStamp ==
    ASSUME NEW recs \in Seq(Records), NEW I \in SUBSET DOMAIN recs
    PROVE  LET largest == Max({0} \cup {recs[i].at : i \in I})
           IN  /\ largest \in Nat
               /\ largest = 0 \/ \E i \in I : largest = recs[i].at
               /\ \A i \in I : recs[i].at \in Nat /\ recs[i].at <= largest
<1> DEFINE T == {recs[i].at : i \in I}
           f == [i \in I |-> recs[i].at]
<1>1. DOMAIN recs = 1..Len(recs) /\ Len(recs) \in Nat /\ \A i \in DOMAIN recs : recs[i].at \in Nat
  <2>1. \A i \in DOMAIN recs : recs[i] \in Records
    OBVIOUS
  <2> QED
    BY <2>1 DEF Records
<1>2. IsFiniteSet(I)
  <2>1. IsFiniteSet(1..Len(recs)) /\ I \subseteq 1..Len(recs)
    BY <1>1, FS_Interval
  <2> QED
    BY <2>1, FS_Subset
<1>3. IsFiniteSet({0} \cup T)
  <2>1. f \in [I -> T] /\ \A t \in T : \E i \in I : f[i] = t
    OBVIOUS
  <2>2. f \in Surjection(I, T)
    BY <2>1 DEF Surjection
  <2>3. IsFiniteSet(T)
    BY <1>2, <2>2, FS_Surjection
  <2> QED
    BY <2>3, FS_Singleton, FS_Union
<1>4. {0} \cup T \subseteq Nat /\ \A i \in I : recs[i].at \in T
  BY <1>1
<1>5. Max({0} \cup T) \in {0} \cup T /\ \A t \in {0} \cup T : t <= Max({0} \cup T)
  <2> DEFINE U == {0} \cup T
  <2>1. IsFiniteSet(U) /\ U \subseteq Nat /\ U # {}
    BY <1>3, <1>4
  <2> HIDE DEF U
  <2>2. Max(U) \in U /\ \A t \in U : t <= Max(U)
    BY <2>1, MaxIsLargest
  <2> QED
    BY <2>2 DEF U
<1> QED
  BY <1>1, <1>4, <1>5

\* The stamp of a field is the largest of its records'.
LEMMA StampIsLargest ==
    ASSUME NEW recs \in Seq(Records), NEW field
    PROVE  /\ Stamp(recs, field) \in Nat
           /\ Stamp(recs, field) = 0 \/ \E i \in Of(recs, field) : Stamp(recs, field) = recs[i].at
           /\ \A i \in Of(recs, field) : recs[i].at <= Stamp(recs, field)
<1>1. Of(recs, field) \in SUBSET DOMAIN recs
  BY DEF Of
<1>2. Stamp(recs, field) = Max({0} \cup {recs[i].at : i \in Of(recs, field)})
  BY DEF Stamp, Of
<1> QED
  BY <1>1, <1>2, LargestStamp

\* A value that shows is of a record with the newest stamp.
LEMMA NewestShows ==
    ASSUME NEW recs \in Seq(Records), NEW field, Newest(recs, field) # {}
    PROVE  \E i \in Newest(recs, field) : Value(recs, field) = recs[i].value
<1>1. Newest(recs, field) \subseteq 1..Len(recs) /\ Len(recs) \in Nat
  BY DEF Newest
<1>2. IsFiniteSet(Newest(recs, field)) /\ Newest(recs, field) \subseteq Nat
  <2>1. IsFiniteSet(1..Len(recs)) /\ 1..Len(recs) \subseteq Nat
    BY <1>1, FS_Interval
  <2> QED
    BY <1>1, <2>1, FS_Subset
<1>3. Max(Newest(recs, field)) \in Newest(recs, field)
  BY <1>2, MaxIsLargest
<1>4. Value(recs, field) = recs[Max(Newest(recs, field))].value
  BY DEF Value, Newest
<1> QED
  BY <1>3, <1>4

\* A field without records has no value.
LEMMA NoneShows ==
    ASSUME NEW recs, NEW field, Newest(recs, field) = {}
    PROVE  Value(recs, field) = Nothing
BY DEF Value, Newest

\* The newest records of one field agree unless two of them are tied.
LEMMA NewestIsIt ==
    ASSUME NEW recs \in Seq(Records), NEW field, ~ Tied(recs), NEW i \in Newest(recs, field)
    PROVE  Value(recs, field) = recs[i].value
BY NewestShows DEF Newest, Tied

-----------------------------------------------------------------------------
\* Files with the same records give a field the same stamp.
LEMMA SameStamp ==
    ASSUME NEW recs \in Seq(Records), NEW others \in Seq(Records), ToSet(recs) = ToSet(others),
           NEW field
    PROVE  Stamp(recs, field) = Stamp(others, field)
<1>1. \A i \in DOMAIN recs : \E j \in DOMAIN others : recs[i] = others[j]
  BY DEF ToSet
<1>2. \A j \in DOMAIN others : \E i \in DOMAIN recs : recs[i] = others[j]
  BY DEF ToSet
<1>3. {recs[i].at : i \in Of(recs, field)} = {others[i].at : i \in Of(others, field)}
  BY <1>1, <1>2 DEF Of
<1> QED
  BY <1>3 DEF Stamp, Of

\* And, unless records of one field are tied, the same value.
LEMMA SameValue ==
    ASSUME NEW recs \in Seq(Records), NEW others \in Seq(Records), ToSet(recs) = ToSet(others),
           ~ Tied(recs), NEW field
    PROVE  Value(recs, field) = Value(others, field)
<1>1. Stamp(recs, field) = Stamp(others, field)
  BY SameStamp
<1>2. ASSUME NEW i \in Newest(recs, field) PROVE \E j \in Newest(others, field) : others[j] = recs[i]
  BY <1>1 DEF Newest, ToSet
<1>3. ASSUME NEW j \in Newest(others, field) PROVE \E i \in Newest(recs, field) : others[j] = recs[i]
  BY <1>1 DEF Newest, ToSet
<1>4. CASE Newest(others, field) = {}
  BY <1>2, <1>4, NoneShows
<1>5. CASE Newest(others, field) # {}
  <2>1. PICK j \in Newest(others, field) : Value(others, field) = others[j].value
    BY <1>5, NewestShows
  <2>2. PICK i \in Newest(recs, field) : others[j] = recs[i]
    BY <1>3
  <2> QED
    BY <2>1, <2>2, NewestIsIt
<1> QED
  BY <1>4, <1>5

-----------------------------------------------------------------------------
\* The fields of a call are written one after the other, each of them once.
LEMMA EachOnce ==
    ASSUME NEW D, IsFiniteSet(D)
    PROVE  /\ Cardinality(D) \in Nat
           /\ SetToSeq(D) \in [1..Cardinality(D) -> D]
           /\ \A i, j \in 1..Cardinality(D) : SetToSeq(D)[i] = SetToSeq(D)[j] => i = j
           /\ \A x \in D : \E i \in 1..Cardinality(D) : SetToSeq(D)[i] = x
<1> DEFINE N == Cardinality(D)
           s == SetToSeq(D)
<1>1. N \in Nat /\ ExistsBijection(1..N, D)
  BY FS_CardinalityType
<1>2. \E f \in [1..N -> D] : IsInjective(f)
  BY <1>1 DEF ExistsBijection, Bijection, Injection
<1>3. s \in [1..N -> D] /\ IsInjective(s)
  BY <1>2 DEF SetToSeq
<1>4. s \in Injection(1..N, D) /\ Cardinality(1..N) = N
  BY <1>1, <1>3, FS_Interval DEF Injection
<1>5. s \in Surjection(1..N, D)
  BY <1>4, FS_Injection
<1> HIDE DEF s
<1>6. DOMAIN s = 1..N
  BY <1>3
<1>7. \A i, j \in 1..N : s[i] = s[j] => i = j
  BY <1>3, <1>6 DEF IsInjective
<1>8. \A x \in D : \E i \in 1..N : s[i] = x
  BY <1>5 DEF Surjection
<1> QED
  BY <1>1, <1>3, <1>7, <1>8 DEF s

\* There are finitely many fields.
LEMMA FieldsAreFinite == ASSUME NEW D \in SUBSET Required PROVE IsFiniteSet(D)
<1>1. IsFiniteSet({"role"} \cup {"reports_to"})
  BY FS_Singleton, FS_AddElement
<1>2. D \subseteq {"role"} \cup {"reports_to"}
  BY DEF Required
<1> QED
  BY <1>1, <1>2, FS_Subset

(* recs with a record for each field of D, its value and its stamp             *)
Added(recs, D, val, at) ==
    recs \o [i \in 1..Cardinality(D) |->
               [field |-> SetToSeq(D)[i], value |-> val[SetToSeq(D)[i]], at |-> at[SetToSeq(D)[i]]]]

(* new is recs and, after them, one record for each field of D.               *)
Adds(new, recs, D, val, at) ==
    /\ new \in Seq(Records) /\ Len(recs) <= Len(new)
    /\ \A i \in 1..Len(recs) : new[i] = recs[i]
    /\ \A i \in 1..Len(new) : i \notin 1..Len(recs) =>
          \E f \in D : new[i] = [field |-> f, value |-> val[f], at |-> at[f]]
    /\ \A f \in D : \E i \in 1..Len(new) :
          i \notin 1..Len(recs) /\ new[i] = [field |-> f, value |-> val[f], at |-> at[f]]

\* That is what the calls add.
LEMMA AddingRecords ==
    ASSUME NEW recs \in Seq(Records), NEW D \in SUBSET Required,
           NEW val, \A f \in D : val[f] \in Values,
           NEW at, \A f \in D : at[f] \in Nat
    PROVE  Adds(Added(recs, D, val, at), recs, D, val, at)
<1> DEFINE N == Cardinality(D)
           R(f) == [field |-> f, value |-> val[f], at |-> at[f]]
           more == [i \in 1..N |-> R(SetToSeq(D)[i])]
           new == Added(recs, D, val, at)
<1>1. IsFiniteSet(D)
  BY FieldsAreFinite
<1>2. /\ N \in Nat /\ SetToSeq(D) \in [1..N -> D]
      /\ \A x \in D : \E i \in 1..N : SetToSeq(D)[i] = x
  BY <1>1, EachOnce
<1>3. \A f \in D : R(f) \in Records
  BY DEF Records
<1>4. more \in Seq(Records) /\ Len(more) = N
  <2>1. more \in [1..N -> Records]
    BY <1>2, <1>3
  <2> HIDE DEF more, N
  <2>2. more \in Seq(Records)
    BY <1>2, <2>1, SeqDef
  <2>3. DOMAIN more = 1..N /\ Len(more) \in Nat /\ DOMAIN more = 1..Len(more)
    BY <2>1, <2>2, LenProperties
  <2> QED
    BY <1>2, <2>2, <2>3
<1>5. new = recs \o more
  BY DEF Added
<1> HIDE DEF more, new
<1>6. /\ new \in Seq(Records) /\ Len(new) = Len(recs) + N
      /\ \A i \in 1..Len(recs) : new[i] = recs[i]
      /\ \A i \in 1..N : new[Len(recs) + i] = more[i]
  BY <1>2, <1>4, <1>5
<1>7. ASSUME NEW i \in 1..Len(new), i \notin 1..Len(recs)
      PROVE  \E f \in D : new[i] = R(f)
  <2>1. i - Len(recs) \in 1..N /\ Len(recs) + (i - Len(recs)) = i
    BY <1>2, <1>6, <1>7
  <2>2. new[i] = R(SetToSeq(D)[i - Len(recs)])
    BY <1>6, <2>1 DEF more
  <2> QED
    BY <1>2, <2>1, <2>2
<1>8. ASSUME NEW f \in D
      PROVE  \E i \in 1..Len(new) : i \notin 1..Len(recs) /\ new[i] = R(f)
  <2>1. PICK k \in 1..N : SetToSeq(D)[k] = f
    BY <1>2
  <2>2. Len(recs) + k \in 1..Len(new) /\ Len(recs) + k \notin 1..Len(recs)
    BY <1>2, <1>6
  <2>3. new[Len(recs) + k] = R(f)
    BY <1>6, <2>1 DEF more
  <2> QED
    BY <2>2, <2>3
<1> QED
  BY <1>2, <1>6, <1>7, <1>8 DEF new, Adds

\* A record with a newer stamp than all before shows.
LEMMA NewerShows ==
    ASSUME NEW recs \in Seq(Records), NEW D \in SUBSET Required, NEW val, NEW at, NEW new,
           Adds(new, recs, D, val, at), \A f \in D : at[f] \in Nat /\ at[f] > Stamp(recs, f)
    PROVE  /\ \A f \in D : Value(new, f) = val[f]
           /\ \A f : f \notin D => Value(new, f) = Value(recs, f)
<1> DEFINE R(f) == [field |-> f, value |-> val[f], at |-> at[f]]
<1>1. /\ new \in Seq(Records) /\ Len(recs) <= Len(new)
      /\ \A i \in 1..Len(recs) : new[i] = recs[i]
      /\ \A i \in 1..Len(new) : i \notin 1..Len(recs) => \E f \in D : new[i] = R(f)
      /\ \A f \in D : \E i \in 1..Len(new) : i \notin 1..Len(recs) /\ new[i] = R(f)
  BY DEF Adds
<1>2. /\ DOMAIN new = 1..Len(new) /\ DOMAIN recs = 1..Len(recs)
      /\ Len(new) \in Nat /\ Len(recs) \in Nat
  BY <1>1
<1>3. ASSUME NEW f \in D PROVE Value(new, f) = val[f]
  <2>1. \A i \in Of(recs, f) : recs[i].at <= Stamp(recs, f) /\ recs[i].at \in Nat
    <3>1. \A i \in 1..Len(recs) : recs[i] \in Records
      OBVIOUS
    <3> QED
      BY <1>2, <3>1, StampIsLargest DEF Of, Records
  <2>2. \A i \in Of(new, f) : new[i].at <= at[f] /\ (new[i].at = at[f] => new[i].value = val[f])
    <3> SUFFICES ASSUME NEW i \in Of(new, f)
                 PROVE  new[i].at <= at[f] /\ (new[i].at = at[f] => new[i].value = val[f])
      OBVIOUS
    <3>1. CASE i \in 1..Len(recs)
      <4>1. new[i] = recs[i] /\ i \in Of(recs, f)
        BY <1>1, <1>2, <3>1 DEF Of
      <4>2. Stamp(recs, f) \in Nat
        BY StampIsLargest
      <4> QED
        BY <2>1, <4>1, <4>2
    <3>2. CASE i \notin 1..Len(recs)
      BY <1>1, <1>2, <3>2 DEF Of
    <3> QED
      BY <3>1, <3>2
  <2>3. PICK k \in 1..Len(new) : new[k] = R(f)
    BY <1>1
  <2>4. k \in Of(new, f) /\ new[k].at = at[f]
    BY <1>2, <2>3 DEF Of
  <2>5. Stamp(new, f) = at[f]
    <3>1. /\ Stamp(new, f) \in Nat /\ at[f] <= Stamp(new, f)
          /\ Stamp(new, f) = 0 \/ \E i \in Of(new, f) : Stamp(new, f) = new[i].at
      BY <1>1, <2>4, StampIsLargest
    <3> QED
      BY <2>2, <3>1
  <2>6. k \in Newest(new, f) /\ \A i \in Newest(new, f) : new[i].value = val[f]
    BY <2>2, <2>4, <2>5 DEF Newest, Of
  <2> QED
    BY <1>1, <2>6, NewestShows
<1>4. ASSUME NEW f, f \notin D PROVE Value(new, f) = Value(recs, f)
  <2>1. Of(new, f) = Of(recs, f)
    <3>1. \A i \in 1..Len(new) : i \notin 1..Len(recs) => new[i].field # f
      <4> SUFFICES ASSUME NEW i \in 1..Len(new), i \notin 1..Len(recs) PROVE new[i].field # f
        OBVIOUS
      <4>1. PICK g \in D : new[i] = R(g)
        BY <1>1
      <4>2. new[i].field = g
        BY <4>1
      <4> QED
        BY <1>4, <4>2
    <3>2. \A i \in 1..Len(recs) : i \in 1..Len(new)
      BY <1>1, <1>2
    <3>3. \A i : i \in Of(new, f) <=> i \in Of(recs, f)
      <4>1. \A i : i \in Of(new, f) <=> i \in 1..Len(new) /\ new[i].field = f
        BY <1>2 DEF Of
      <4>2. \A i : i \in Of(recs, f) <=> i \in 1..Len(recs) /\ recs[i].field = f
        BY <1>2 DEF Of
      <4> QED
        BY <1>1, <3>1, <3>2, <4>1, <4>2
    <3> QED
      BY <3>3
  <2>2. \A i \in Of(recs, f) : new[i] = recs[i]
    BY <1>1, <1>2 DEF Of
  <2>3. {new[i].at : i \in Of(new, f)} = {recs[i].at : i \in Of(recs, f)}
    BY <2>1, <2>2
  <2>4. Stamp(new, f) = Stamp(recs, f)
    BY <2>3 DEF Stamp, Of
  <2>5. /\ Newest(new, f) = {i \in Of(new, f) : new[i].at = Stamp(new, f)}
        /\ Newest(recs, f) = {i \in Of(recs, f) : recs[i].at = Stamp(recs, f)}
    BY DEF Newest, Of
  <2>6. Newest(new, f) = Newest(recs, f) /\ \A i \in Newest(recs, f) : new[i] = recs[i]
    BY <2>1, <2>2, <2>4, <2>5
  <2>7. CASE Newest(recs, f) = {}
    BY <2>6, <2>7, NoneShows
  <2>8. CASE Newest(recs, f) # {}
    <3>1. IsFiniteSet(Newest(recs, f)) /\ Newest(recs, f) \subseteq Nat
      <4>1. IsFiniteSet(1..Len(recs)) /\ 1..Len(recs) \subseteq Nat
        BY <1>2, FS_Interval
      <4>2. Newest(recs, f) \subseteq 1..Len(recs)
        BY <1>2 DEF Newest
      <4> QED
        BY <4>1, <4>2, FS_Subset
    <3>2. Max(Newest(recs, f)) \in Newest(recs, f)
      BY <2>8, <3>1, MaxIsLargest
    <3>3. Value(recs, f) = recs[Max(Newest(recs, f))].value
      BY <2>8 DEF Value, Newest
    <3>4. Value(new, f) = new[Max(Newest(new, f))].value
      BY <2>6, <2>8 DEF Value, Newest
    <3> QED
      BY <2>6, <3>2, <3>3, <3>4
  <2> QED
    BY <2>7, <2>8
<1> QED
  BY <1>3, <1>4

-----------------------------------------------------------------------------
\* The stamp of a new record is past all of its field (_winning_at).
LEMMA PastTheRecordToBeat ==
    ASSUME NEW recs \in Seq(Records), NEW field, NEW time \in Nat
    PROVE  WinningAt(recs, field, time) \in Nat /\ WinningAt(recs, field, time) > Stamp(recs, field)
<1>1. Stamp(recs, field) \in Nat
  BY StampIsLargest
<1> QED
  BY <1>1 DEF WinningAt

Winning(recs, D, time) == [f \in D |-> WinningAt(recs, f, time)]

\* set_fields adds a record for each field that differs.
LEMMA SettingAdds ==
    ASSUME NEW recs \in Seq(Records), NEW values, DOMAIN values \subseteq Required,
           \A f \in DOMAIN values : values[f] \in Values, NEW time \in Nat
    PROVE  LET D == Differing(recs, values)
           IN  Adds(SetFields(recs, values, time), recs, D, values, Winning(recs, D, time))
<1> DEFINE D == Differing(recs, values)
           at == Winning(recs, D, time)
<1>1. D \in SUBSET Required /\ \A f \in D : f \in DOMAIN values /\ values[f] \in Values
  BY DEF Differing
<1>2. \A f \in D : at[f] = WinningAt(recs, f, time) /\ at[f] \in Nat
  BY PastTheRecordToBeat DEF Winning
<1>3. Adds(Added(recs, D, values, at), recs, D, values, at)
  BY <1>1, <1>2, AddingRecords
<1>4. Cardinality(D) \in Nat /\ SetToSeq(D) \in [1..Cardinality(D) -> D]
  BY <1>1, FieldsAreFinite, EachOnce
<1>5. [i \in 1..Cardinality(D) |-> LET f == SetToSeq(D)[i] IN Record(recs, f, values[f], time)]
        = [i \in 1..Cardinality(D) |-> [field |-> SetToSeq(D)[i], value |-> values[SetToSeq(D)[i]],
                                        at |-> at[SetToSeq(D)[i]]]]
  BY <1>2, <1>4 DEF Record
<1>6. SetFields(recs, values, time) = Added(recs, D, values, at)
  BY <1>5 DEF SetFields, Added
<1> QED
  BY <1>3, <1>6

\* So does unsetting, for each field.
LEMMA UnsettingAdds ==
    ASSUME NEW recs \in Seq(Records), NEW D \in SUBSET Required, NEW time \in Nat
    PROVE  Adds(Unset(recs, D, time), recs, D, [f \in D |-> Nothing], Winning(recs, D, time))
<1> DEFINE at == Winning(recs, D, time)
           none == [f \in D |-> Nothing]
<1>1. \A f \in D : at[f] = WinningAt(recs, f, time) /\ at[f] \in Nat
  BY PastTheRecordToBeat DEF Winning
<1>2. \A f \in D : none[f] = Nothing /\ none[f] \in Values
  BY DEF Values
<1>3. Adds(Added(recs, D, none, at), recs, D, none, at)
  BY <1>1, <1>2, AddingRecords
<1>4. Cardinality(D) \in Nat /\ SetToSeq(D) \in [1..Cardinality(D) -> D]
  BY FieldsAreFinite, EachOnce
<1>5. [i \in 1..Cardinality(D) |-> Record(recs, SetToSeq(D)[i], Nothing, time)]
        = [i \in 1..Cardinality(D) |-> [field |-> SetToSeq(D)[i], value |-> none[SetToSeq(D)[i]],
                                        at |-> at[SetToSeq(D)[i]]]]
  BY <1>1, <1>2, <1>4 DEF Record
<1>6. Unset(recs, D, time) = Added(recs, D, none, at)
  BY <1>5 DEF Unset, Added
<1> QED
  BY <1>3, <1>6

\* What set_fields wrote, and what it found right, shows.
LEMMA SettingShows ==
    ASSUME NEW recs \in Seq(Records), NEW values, DOMAIN values \subseteq Required,
           \A f \in DOMAIN values : values[f] \in Values, NEW time \in Nat
    PROVE  \A f \in DOMAIN values : Value(SetFields(recs, values, time), f) = values[f]
<1> DEFINE D == Differing(recs, values)
           at == Winning(recs, D, time)
           new == SetFields(recs, values, time)
<1>1. Adds(new, recs, D, values, at)
  BY SettingAdds
<1>2. \A f \in D : at[f] \in Nat /\ at[f] > Stamp(recs, f)
  BY PastTheRecordToBeat DEF Winning
<1>3. D \in SUBSET Required
  BY DEF Differing
<1>4. /\ \A f \in D : Value(new, f) = values[f]
      /\ \A f : f \notin D => Value(new, f) = Value(recs, f)
  <2> HIDE DEF D, at, new
  <2> QED
    BY <1>1, <1>2, <1>3, NewerShows
<1>5. \A f \in DOMAIN values : f \notin D => Value(recs, f) = values[f]
  BY DEF Differing
<1> HIDE DEF D, new
<1> QED
  BY <1>4, <1>5 DEF new

-----------------------------------------------------------------------------
(* A field that was unset is unset by a removal: the tombstone is newer.      *)
UnsetForGood(recs) ==
    \A i \in 1..Len(recs) : recs[i].field \in Required /\ recs[i].value = Nothing =>
        \E j \in 1..Len(recs) : recs[j].field = "removed" /\ recs[j].at > recs[i].at

\* Setting fields unsets none.
LEMMA AddingKeepsUnset ==
    ASSUME NEW recs \in Seq(Records), UnsetForGood(recs),
           NEW new, NEW D, NEW val, NEW at, Adds(new, recs, D, val, at), \A f \in D : val[f] # Nothing
    PROVE  UnsetForGood(new)
<1> SUFFICES ASSUME NEW i \in 1..Len(new), new[i].field \in Required, new[i].value = Nothing
             PROVE  \E j \in 1..Len(new) : new[j].field = "removed" /\ new[j].at > new[i].at
  BY DEF UnsetForGood
<1>1. i \in 1..Len(recs)
  <2>1. ASSUME i \notin 1..Len(recs) PROVE FALSE
    <3>1. PICK f \in D : new[i] = [field |-> f, value |-> val[f], at |-> at[f]]
      BY <2>1 DEF Adds
    <3>2. new[i].value = val[f]
      BY <3>1
    <3> QED
      BY <3>2
  <2> QED
    BY <2>1
<1>2. PICK j \in 1..Len(recs) : recs[j].field = "removed" /\ recs[j].at > recs[i].at
  BY <1>1 DEF UnsetForGood, Adds
<1>3. Len(new) \in Nat /\ Len(recs) \in Nat /\ Len(recs) <= Len(new)
  BY DEF Adds
<1> QED
  BY <1>1, <1>2, <1>3 DEF Adds

\* The tombstone is past every stamp of the person (mark_removed).
LEMMA MarkingIsForGood ==
    ASSUME NEW recs \in Seq(Records), NEW time \in Nat
    PROVE  Marked(recs, time) \in Seq(Records) /\ UnsetForGood(Marked(recs, time))
<1> DEFINE newest == Max({0} \cup {recs[i].at : i \in DOMAIN recs})
           r == [field |-> "removed", value |-> Nothing,
                 at |-> IF newest < time THEN time ELSE newest + 1]
           new == Append(recs, r)
<1>1. newest \in Nat /\ \A i \in DOMAIN recs : recs[i].at \in Nat /\ recs[i].at <= newest
  <2>1. DOMAIN recs \in SUBSET DOMAIN recs
    OBVIOUS
  <2> QED
    BY <2>1, LargestStamp
<1>2. Marked(recs, time) = new
  BY DEF Marked
<1> HIDE DEF newest
<1>3. r.at \in Nat /\ newest < r.at
  BY <1>1
<1>4. r \in Records
  BY <1>3 DEF Records, Values
<1>5. r.field = "removed"
  OBVIOUS
<1> HIDE DEF r
<1>6. /\ new \in Seq(Records) /\ Len(new) = Len(recs) + 1 /\ Len(recs) \in Nat
      /\ new[Len(recs) + 1] = r /\ \A i \in 1..Len(recs) : new[i] = recs[i]
  BY <1>4
<1> HIDE DEF new
<1>7. UnsetForGood(new)
  <2> SUFFICES ASSUME NEW i \in 1..Len(new), new[i].field \in Required
               PROVE  \E j \in 1..Len(new) : new[j].field = "removed" /\ new[j].at > new[i].at
    BY DEF UnsetForGood
  <2>1. new[i].field # "removed"
    BY DEF Required
  <2>2. i \in 1..Len(recs) /\ new[i] = recs[i]
    BY <1>5, <1>6, <2>1
  <2>3. recs[i].at \in Nat /\ recs[i].at <= newest
    BY <1>1, <2>2
  <2>4. Len(recs) + 1 \in 1..Len(new) /\ r.at > recs[i].at
    BY <1>1, <1>3, <1>6, <2>3
  <2> QED
    BY <1>5, <1>6, <2>2, <2>4
<1> QED
  BY <1>2, <1>6, <1>7

\* A merge brings the tombstones along with what they unset.
LEMMA MergingKeepsUnset ==
    ASSUME NEW ours \in Seq(Records), NEW theirs \in Seq(Records),
           UnsetForGood(ours), UnsetForGood(theirs)
    PROVE  UnsetForGood(Merged(ours, theirs))
<1> DEFINE m == Merged(ours, theirs)
<1>1. Merges(m, ours, theirs, Len(theirs), Records)
  BY MergeKeepsLines
<1> HIDE DEF m
<1>2. /\ Len(ours) \in Nat /\ Len(m) \in Nat /\ Len(ours) <= Len(m)
      /\ \A i \in 1..Len(ours) : i \in 1..Len(m) /\ m[i] = ours[i]
      /\ \A l \in 1..Len(theirs) : \E i \in 1..Len(m) : m[i] = theirs[l]
  BY <1>1 DEF Merges
<1> SUFFICES ASSUME NEW i \in 1..Len(m), m[i].field \in Required, m[i].value = Nothing
             PROVE  \E j \in 1..Len(m) : m[j].field = "removed" /\ m[j].at > m[i].at
  BY DEF UnsetForGood, m
<1>3. CASE i > Len(ours)
  <2>1. PICK l \in 1..Len(theirs) : m[i] = theirs[l]
    BY <1>1, <1>3 DEF Merges
  <2>2. PICK n \in 1..Len(theirs) : theirs[n].field = "removed" /\ theirs[n].at > theirs[l].at
    BY <2>1 DEF UnsetForGood
  <2> QED
    BY <1>2, <2>1, <2>2
<1>4. CASE ~ (i > Len(ours))
  <2>1. i \in 1..Len(ours)
    BY <1>2, <1>4
  <2>2. PICK n \in 1..Len(ours) : ours[n].field = "removed" /\ ours[n].at > ours[i].at
    BY <1>2, <2>1 DEF UnsetForGood
  <2> QED
    BY <1>2, <2>1, <2>2
<1> QED
  BY <1>3, <1>4

-----------------------------------------------------------------------------
PeopleTypes ==
    /\ files \in [Clones -> [Persons -> Seq(Records)]]
    /\ acts \in Nat /\ ahead \in [Clones -> Nat]

(* A call that says it wrote shows what it wrote, and nobody is unset without  *)
(* a newer tombstone but by a removal that stopped half way.                 *)
PeopleInv ==
    /\ PeopleTypes /\ WritesShow
    /\ \A c \in Clones, p \in Persons \ partly : UnsetForGood(files[c][p])

\* At first nobody has a profile.
LEMMA InitPeople == PeopleInit => PeopleInv
<1> SUFFICES ASSUME PeopleInit PROVE PeopleInv
  OBVIOUS
<1>1. /\ files = [c \in Clones |-> [p \in Persons |-> <<>>]]
      /\ \A c \in Clones, p \in Persons : Len(files[c][p]) = 0
      /\ acts = 0 /\ ahead \in [Clones -> Nat] /\ last.kind = "none"
  BY PeopleAssumption DEF PeopleInit, NoCall
<1>2. <<>> \in Seq(Records)
  OBVIOUS
<1>3. PeopleTypes
  BY <1>1, <1>2 DEF PeopleTypes
<1> QED
  BY <1>1, <1>3 DEF PeopleInv, WritesShow, UnsetForGood

\* The clocks give a time.
LEMMA TimeIsANumber == ASSUME PeopleInv, NEW c \in Clones PROVE Now(c) \in Nat /\ Now(c) + 1 \in Nat
<1>1. acts \in Nat /\ ahead[c] \in Nat
  BY DEF PeopleInv, PeopleTypes
<1> QED
  BY <1>1 DEF Now

\* A call changes one file, in one clone.
LEMMA CallKeeps ==
    ASSUME PeopleInv, NEW c \in Clones, NEW p \in Persons, NEW kind,
           NEW recs \in Seq(Records), NEW values, Call(kind, c, p, recs, values),
           partly \subseteq partly', UnsetForGood(recs) \/ p \in partly',
           kind \in {"register", "update"} => \A f \in DOMAIN values : Value(recs, f) = values[f]
    PROVE  PeopleInv'
<1>1. /\ files \in [Clones -> [Persons -> Seq(Records)]]
      /\ acts \in Nat /\ ahead \in [Clones -> Nat]
  BY DEF PeopleInv, PeopleTypes
<1>2. /\ files' = [files EXCEPT ![c][p] = recs] /\ acts' = acts + 1 /\ ahead' = ahead
      /\ last' = [kind |-> kind, clone |-> c, person |-> p, values |-> values]
  BY DEF Call
<1>3. /\ files'[c][p] = recs
      /\ \A d \in Clones, q \in Persons : d # c \/ q # p => files'[d][q] = files[d][q]
  BY <1>1, <1>2
<1>4. PeopleTypes'
  <2>1. files' \in [Clones -> [Persons -> Seq(Records)]]
    BY <1>1, <1>2
  <2> QED
    BY <1>1, <1>2, <2>1 DEF PeopleTypes
<1>5. WritesShow'
  <2>1. last'.kind = kind /\ last'.clone = c /\ last'.person = p /\ last'.values = values
    BY <1>2
  <2> QED
    BY <1>3, <2>1 DEF WritesShow
<1>6. ASSUME NEW d \in Clones, NEW q \in Persons \ partly' PROVE UnsetForGood(files'[d][q])
  <2>1. CASE d = c /\ q = p
    BY <1>3, <2>1
  <2>2. CASE d # c \/ q # p
    BY <1>3, <2>2 DEF PeopleInv
  <2> QED
    BY <2>1, <2>2
<1> QED
  BY <1>4, <1>5, <1>6 DEF PeopleInv, UnsetForGood

\* set_fields with values that say something.
LEMMA SettingKeeps ==
    ASSUME PeopleInv, NEW c \in Clones, NEW p \in Persons, NEW kind,
           NEW values, DOMAIN values \subseteq Required,
           \A f \in DOMAIN values : values[f] \in Roles \cup Persons \cup {Nobody, OldRole},
           Call(kind, c, p, SetFields(files[c][p], values, Now(c)), values), partly' = partly
    PROVE  PeopleInv'
<1> DEFINE recs == files[c][p]
           D == Differing(recs, values)
           new == SetFields(recs, values, Now(c))
<1>1. recs \in Seq(Records) /\ Now(c) \in Nat
  BY TimeIsANumber DEF PeopleInv, PeopleTypes
<1>2. \A f \in DOMAIN values : values[f] \in Values /\ values[f] # Nothing
  BY PeopleAssumption DEF Values, Nobody, Nothing
<1>3. Adds(new, recs, D, values, Winning(recs, D, Now(c)))
  BY <1>1, <1>2, SettingAdds
<1>4. new \in Seq(Records) /\ \A f \in D : values[f] # Nothing
  BY <1>2, <1>3 DEF Adds, Differing
<1>5. \A f \in DOMAIN values : Value(new, f) = values[f]
  BY <1>1, <1>2, SettingShows
<1>6. UnsetForGood(new) \/ p \in partly
  <2>1. CASE p \in Persons \ partly
    <3>1. UnsetForGood(recs)
      BY <2>1 DEF PeopleInv
    <3> HIDE DEF recs, D, new
    <3> QED
      BY <1>1, <1>3, <1>4, <3>1, AddingKeepsUnset
  <2> QED
    BY <2>1
<1> HIDE DEF new
<1> QED
  BY <1>4, <1>5, <1>6, CallKeeps DEF new

\* A manager who may be named is somebody or nobody.
LEMMA ManagersArePersons ==
    ASSUME NEW c, NEW p, NEW m \in Managers(c, p) PROVE m \in Persons \cup {Nobody}
BY DEF Managers

-----------------------------------------------------------------------------
\* Registering somebody (cognition_register_person).
LEMMA RegisterKeeps ==
    ASSUME PeopleInv, NEW c \in Clones, NEW p \in Persons, Register(c, p) PROVE PeopleInv'
<1>1. PICK role \in Roles, manager \in Managers(c, p) \cup {Nothing} :
         LET values == [f \in Required \ {g \in {"reports_to"} : manager = Nothing} |->
                          IF f = "role" THEN role ELSE manager]
         IN  Call("register", c, p, SetFields(files[c][p], values, Now(c)), values)
  BY DEF Register
<1> DEFINE values == [f \in Required \ {g \in {"reports_to"} : manager = Nothing} |->
                        IF f = "role" THEN role ELSE manager]
<1>2. DOMAIN values \subseteq Required
  OBVIOUS
<1>3. ASSUME NEW f \in DOMAIN values PROVE values[f] \in Roles \cup Persons \cup {Nobody, OldRole}
  <2>1. CASE f = "role"
    BY <1>3, <2>1
  <2>2. CASE f # "role"
    <3>1. f = "reports_to" /\ manager # Nothing
      BY <1>3, <2>2 DEF Required
    <3>2. manager \in Persons \cup {Nobody}
      BY <3>1, ManagersArePersons
    <3> QED
      BY <1>3, <2>2, <3>2
  <2> QED
    BY <2>1, <2>2
<1>4. partly' = partly
  BY DEF Register
<1>5. Call("register", c, p, SetFields(files[c][p], values, Now(c)), values)
  BY <1>1
<1> HIDE DEF values
<1> QED
  BY <1>2, <1>3, <1>4, <1>5, SettingKeeps

\* Changing one field (cognition_update_person).
LEMMA UpdateKeeps ==
    ASSUME PeopleInv, NEW c \in Clones, NEW p \in Persons, Update(c, p) PROVE PeopleInv'
<1>1. PICK f \in Required : \E v \in IF f = "role" THEN Roles ELSE Managers(c, p) :
         LET values == [g \in {f} |-> v]
         IN  Call("update", c, p, SetFields(files[c][p], values, Now(c)), values)
  BY DEF Update
<1>2. PICK v \in IF f = "role" THEN Roles ELSE Managers(c, p) :
         LET values == [g \in {f} |-> v]
         IN  Call("update", c, p, SetFields(files[c][p], values, Now(c)), values)
  BY <1>1
<1> DEFINE values == [g \in {f} |-> v]
<1>3. v \in Roles \cup Persons \cup {Nobody, OldRole}
  BY ManagersArePersons
<1>4. DOMAIN values \subseteq Required /\ \A g \in DOMAIN values : values[g] = v
  OBVIOUS
<1>5. partly' = partly
  BY DEF Update
<1>6. Call("update", c, p, SetFields(files[c][p], values, Now(c)), values)
  BY <1>2
<1> HIDE DEF values
<1> QED
  BY <1>3, <1>4, <1>5, <1>6, SettingKeeps

\* Writing down an older person node (migrate_person_nodes).
LEMMA MigrateKeeps ==
    ASSUME PeopleInv, NEW c \in Clones, NEW p \in Persons, Migrate(c, p) PROVE PeopleInv'
<1> DEFINE values == [f \in Required |-> IF f = "role" THEN OldRole ELSE Nobody]
<1>1. Call("migrate", c, p, SetFields(files[c][p], values, Now(c)), values) /\ partly' = partly
  BY DEF Migrate
<1>2. /\ DOMAIN values \subseteq Required
      /\ \A f \in DOMAIN values : values[f] \in Roles \cup Persons \cup {Nobody, OldRole}
  OBVIOUS
<1> HIDE DEF values
<1> QED
  BY <1>1, <1>2, SettingKeeps

\* Removing somebody: every field is unset, then the tombstone is written.
LEMMA RemovePersonKeeps ==
    ASSUME PeopleInv, NEW c \in Clones, NEW p \in Persons, RemovePerson(c, p) PROVE PeopleInv'
<1> DEFINE recs == files[c][p]
           unset == Unset(recs, Required, Now(c))
           new == Marked(unset, Now(c) + 1)
           values == [f \in Required |-> Nothing]
<1>1. recs \in Seq(Records) /\ Now(c) \in Nat /\ Now(c) + 1 \in Nat
  BY TimeIsANumber DEF PeopleInv, PeopleTypes
<1>2. unset \in Seq(Records)
  <2>1. Required \in SUBSET Required
    OBVIOUS
  <2> QED
    BY <1>1, <2>1, UnsettingAdds DEF Adds
<1>3. Call("remove", c, p, new, values) /\ partly' = partly
  BY DEF RemovePerson
<1> HIDE DEF unset, values
<1>4. new \in Seq(Records) /\ UnsetForGood(new)
  BY <1>1, <1>2, MarkingIsForGood
<1> HIDE DEF new
<1> QED
  BY <1>3, <1>4, CallKeeps

\* A removal that stops half way counts the person as partly removed.
LEMMA RemovePartlyKeeps ==
    ASSUME PeopleInv, NEW c \in Clones, NEW p \in Persons, RemovePartly(c, p) PROVE PeopleInv'
<1>1. PICK fields \in (SUBSET Required) \ {{}} :
         Call("partly", c, p, Unset(files[c][p], fields, Now(c)), <<>>)
  BY DEF RemovePartly
<1> DEFINE new == Unset(files[c][p], fields, Now(c))
<1>2. new \in Seq(Records)
  <2>1. files[c][p] \in Seq(Records) /\ Now(c) \in Nat
    BY TimeIsANumber DEF PeopleInv, PeopleTypes
  <2> QED
    BY <2>1, UnsettingAdds DEF Adds
<1>3. partly \subseteq partly' /\ p \in partly'
  BY DEF RemovePartly
<1> HIDE DEF new
<1> QED
  BY <1>1, <1>2, <1>3, CallKeeps DEF new

\* Merging the files of another clone.
LEMMA PullKeeps ==
    ASSUME PeopleInv, NEW c \in Clones, NEW d \in Clones, Pull(c, d) PROVE PeopleInv'
<1>1. PICK o \in Clones, t \in Clones :
         files' = [files EXCEPT ![c] = [p \in Persons |-> Merged(files[o][p], files[t][p])]]
  <2>1. files \in [Clones -> [Persons -> Seq(Records)]]
    BY DEF PeopleInv, PeopleTypes
  <2>2. CASE files' = [files EXCEPT ![c] = [p \in Persons |-> Merged(@[p], files[d][p])]]
    BY <2>1, <2>2
  <2>3. CASE files' = [files EXCEPT ![c] = [p \in Persons |-> Merged(files[d][p], @[p])]]
    BY <2>1, <2>3
  <2> QED
    BY <2>2, <2>3 DEF Pull
<1>2. /\ files \in [Clones -> [Persons -> Seq(Records)]] /\ acts \in Nat /\ ahead \in [Clones -> Nat]
      /\ acts' = acts /\ ahead' = ahead /\ partly' = partly
  BY DEF PeopleInv, PeopleTypes, Pull
<1>3. ASSUME NEW p \in Persons
      PROVE  /\ Merged(files[o][p], files[t][p]) \in Seq(Records)
             /\ p \notin partly => UnsetForGood(Merged(files[o][p], files[t][p]))
  <2>1. files[o][p] \in Seq(Records) /\ files[t][p] \in Seq(Records)
    BY <1>2
  <2>2. Merged(files[o][p], files[t][p]) \in Seq(Records)
    BY <2>1, MergeKeepsLines DEF Merges
  <2>3. p \notin partly => UnsetForGood(files[o][p]) /\ UnsetForGood(files[t][p])
    BY DEF PeopleInv
  <2> QED
    BY <2>1, <2>2, <2>3, MergingKeepsUnset
<1>4. /\ \A p \in Persons : files'[c][p] = Merged(files[o][p], files[t][p])
      /\ \A e \in Clones \ {c} : files'[e] = files[e]
  BY <1>1, <1>2
<1>5. PeopleTypes'
  <2>1. [p \in Persons |-> Merged(files[o][p], files[t][p])] \in [Persons -> Seq(Records)]
    BY <1>3
  <2>2. files' \in [Clones -> [Persons -> Seq(Records)]]
    BY <1>1, <1>2, <2>1
  <2> QED
    BY <1>2, <2>2 DEF PeopleTypes
<1>6. WritesShow'
  BY DEF Pull, NoCall, WritesShow
<1>7. ASSUME NEW e \in Clones, NEW p \in Persons \ partly PROVE UnsetForGood(files'[e][p])
  <2>1. CASE e = c
    BY <1>3, <1>4, <2>1
  <2>2. CASE e # c
    BY <1>4, <2>2 DEF PeopleInv
  <2> QED
    BY <2>1, <2>2
<1> QED
  BY <1>2, <1>5, <1>6, <1>7 DEF PeopleInv, UnsetForGood

\* Every call and every pull keeps the invariant.
LEMMA NextPeople == PeopleInv /\ [PeopleNext]_peopleVars => PeopleInv'
<1> SUFFICES ASSUME PeopleInv, [PeopleNext]_peopleVars PROVE PeopleInv'
  OBVIOUS
<1>1. CASE UNCHANGED peopleVars
  BY <1>1 DEF peopleVars, PeopleInv, PeopleTypes, WritesShow, UnsetForGood
<1>2. CASE PeopleNext
  BY <1>2, RegisterKeeps, UpdateKeeps, RemovePersonKeeps, RemovePartlyKeeps, MigrateKeeps, PullKeeps
     DEF PeopleNext
<1> QED
  BY <1>1, <1>2

-----------------------------------------------------------------------------
(* "making 'the most recent deliberate write wins' actually true"            *)
(* (_winning_at): whatever clocks wrote before, a call that says it wrote a   *)
(* field shows it in the answer.                                            *)
THEOREM WritesAlwaysShow == PeopleSpec => []WritesShow
<1>1. PeopleInv => WritesShow
  BY DEF PeopleInv
<1> QED
  BY <1>1, InitPeople, NextPeople, PTL DEF PeopleSpec

(* Clones that hold the same records show the same roster, in whatever order  *)
(* merges left them (fold_profile, Roster.load).                             *)
THEOREM SameRecordsAlwaysSameRoster == PeopleSpec => []SameRecordsSameRoster
<1>1. PeopleInv => SameRecordsSameRoster
  <2> SUFFICES ASSUME PeopleInv, NEW c \in Clones, NEW d \in Clones, NEW p \in Persons,
                      ToSet(files[c][p]) = ToSet(files[d][p]), ~ Tied(files[c][p])
               PROVE  Row(c, p) = Row(d, p)
    BY DEF SameRecordsSameRoster
  <2>1. files[c][p] \in Seq(Records) /\ files[d][p] \in Seq(Records)
    BY DEF PeopleInv, PeopleTypes
  <2>2. \A f : Stamp(files[c][p], f) = Stamp(files[d][p], f) /\ Value(files[c][p], f) = Value(files[d][p], f)
    BY <2>1, SameStamp, SameValue
  <2>3. HasProfile(files[c][p]) = HasProfile(files[d][p])
    BY <2>2 DEF HasProfile
  <2>4. IsRemoved(files[c][p]) = IsRemoved(files[d][p])
    BY <2>2 DEF IsRemoved, Tombstone
  <2>5. OnRoster(c, p) = OnRoster(d, p)
    BY <2>3, <2>4 DEF OnRoster
  <2> QED
    BY <2>2, <2>3, <2>5 DEF Row
<1> QED
  BY <1>1, InitPeople, NextPeople, PTL DEF PeopleSpec

(* Somebody who was removed is not on a roster again with half a profile:     *)
(* edits of clones that had not heard of the removal do not bring a person    *)
(* back (is_removed, mark_removed).                                          *)
THEOREM NobodyComesHalfBack == PeopleSpec => []NobodyHalfBack
<1>1. PeopleInv => NobodyHalfBack
  <2> SUFFICES ASSUME PeopleInv, NEW c \in Clones, NEW p \in Persons \ partly,
                      OnRoster(c, p), Tombstone(files[c][p]) # 0, NEW f \in Missing(files[c][p])
               PROVE  FALSE
    BY DEF NobodyHalfBack
  <2> DEFINE recs == files[c][p]
  <2>1. recs \in Seq(Records) /\ UnsetForGood(recs)
    BY DEF PeopleInv, PeopleTypes
  <2>2. f \in Required /\ Value(recs, f) = Nothing /\ Stamp(recs, f) > Tombstone(recs)
    <3>1. f \in Required /\ Value(recs, f) = Nothing /\ ~ (Stamp(recs, f) <= Tombstone(recs))
      BY DEF Missing, OnRoster, IsRemoved
    <3>2. Stamp(recs, f) \in Nat /\ Tombstone(recs) \in Nat
      BY <2>1, StampIsLargest DEF Tombstone
    <3> QED
      BY <3>1, <3>2
  <2> HIDE DEF recs
  <2>3. Stamp(recs, f) # 0 /\ Stamp(recs, f) \in Nat /\ Tombstone(recs) \in Nat
    BY <2>1, <2>2, StampIsLargest DEF Tombstone
  <2>4. Newest(recs, f) # {}
    BY <2>1, <2>3, StampIsLargest DEF Newest, Of
  <2>5. PICK i \in Newest(recs, f) : recs[i].value = Nothing
    BY <2>1, <2>2, <2>4, NewestShows
  <2>6. i \in 1..Len(recs) /\ recs[i].field = f /\ recs[i].at = Stamp(recs, f)
    BY <2>1 DEF Newest
  <2>7. PICK j \in 1..Len(recs) : recs[j].field = "removed" /\ recs[j].at > recs[i].at
    BY <2>1, <2>2, <2>5, <2>6 DEF UnsetForGood
  <2>8. j \in Of(recs, "removed") /\ recs[j].at \in Nat
    <3>1. recs[j] \in Records
      BY <2>1
    <3> QED
      BY <2>1, <2>7, <3>1 DEF Of, Records
  <2>9. recs[j].at <= Tombstone(recs)
    BY <2>1, <2>8, StampIsLargest DEF Tombstone
  <2> QED
    BY <2>2, <2>3, <2>6, <2>7, <2>8, <2>9
<1> QED
  BY <1>1, InitPeople, NextPeople, PTL DEF PeopleSpec

=============================================================================
