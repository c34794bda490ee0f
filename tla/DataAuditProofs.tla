-------------------------- MODULE DataAuditProofs --------------------------
(***************************************************************************)
(* Theorems about DataAudit, for every dataset, every set of rules,        *)
(* whatever the engine reads in a cell and whatever columns are not        *)
(* measured: what is in the report is what the tables hold.                *)
(***************************************************************************)
EXTENDS DataAudit, NatLemmas, FiniteSetTheorems, FunctionTheorems, SequenceTheorems, TLAPS

-----------------------------------------------------------------------------
(* Lists, and what they are made of.                                       *)

Elements(s, S) == \A i \in DOMAIN s : s[i] \in S

LEMMA SeqByElements ==
    ASSUME NEW s, NEW S, IsSeq(s), Elements(s, S)
    PROVE  s \in Seq(S)
<1> DEFINE n == Len(s)
<1>1. DOMAIN s = 1..n /\ n \in Nat /\ s = [k \in 1..n |-> s[k]]
  BY DEF IsSeq
<1> HIDE DEF n
<1>2. \A k \in 1..n : s[k] \in S
  BY <1>1 DEF Elements
<1>3. s \in [1..n -> S]
  BY <1>1, <1>2
<1> QED BY <1>1, <1>3, SeqDef

LEMMA SeqIsOf == ASSUME NEW s, IsSeq(s) PROVE s \in Seq(Range(s)) /\ DOMAIN s = 1..Len(s)
<1>1. Elements(s, Range(s))
  BY DEF Elements, Range
<1>2. s \in Seq(Range(s))
  BY <1>1, SeqByElements
<1> QED BY <1>2

LEMMA SeqIs == ASSUME NEW S, NEW s \in Seq(S) PROVE IsSeq(s) /\ Elements(s, S)
BY DEF IsSeq, Elements

\* What has a place for each number from 1 to n.
LEMMA SeqByDomain ==
    ASSUME NEW n \in Nat, NEW s, s = [k \in 1..n |-> s[k]]
    PROVE  IsSeq(s) /\ Len(s) = n /\ DOMAIN s = 1..n
<1>1. s \in [1..n -> Range(s)] /\ DOMAIN s = 1..n
  BY DEF Range
<1>2. s \in Seq(Range(s))
  BY <1>1, SeqDef
<1>3. DOMAIN s = 1..Len(s) /\ Len(s) \in Nat
  BY <1>2
<1>4. Len(s) = n
  BY <1>1, <1>3
<1> QED BY <1>2, <1>4, <1>1, SeqIs

LEMMA NothingIs == IsSeq(<<>>) /\ Range(<<>>) = {} /\ DOMAIN <<>> = {}
<1>1. <<>> \in Seq({})
  OBVIOUS
<1>2. DOMAIN <<>> = {}
  OBVIOUS
<1> QED BY <1>1, <1>2, SeqIs DEF Range

LEMMA Concatenated ==
    ASSUME NEW s, NEW t, IsSeq(s), IsSeq(t)
    PROVE  IsSeq(s \o t) /\ Range(s \o t) = Range(s) \union Range(t)
<1> DEFINE S == Range(s) \union Range(t)
<1>1. s \in Seq(S) /\ t \in Seq(S)
  <2>1. Elements(s, S) /\ Elements(t, S)
    BY DEF Elements, Range
  <2> HIDE DEF S
  <2> QED BY <2>1, SeqByElements
<1>2. s \o t \in Seq(S)
  BY <1>1
<1>3. IsSeq(s \o t)
  BY <1>2, SeqIs
<1>4. /\ DOMAIN s = 1..Len(s) /\ Len(s) \in Nat
      /\ DOMAIN t = 1..Len(t) /\ Len(t) \in Nat
      /\ DOMAIN (s \o t) = 1..(Len(s) + Len(t))
      /\ \A i \in 1..(Len(s) + Len(t)) : (s \o t)[i] = IF i <= Len(s) THEN s[i] ELSE t[i - Len(s)]
  <2> HIDE DEF S
  <2> QED BY <1>1, ConcatProperties
<1>5. ASSUME NEW x \in Range(s \o t) PROVE x \in S
  <2>1. PICK i \in 1..(Len(s) + Len(t)) : x = (s \o t)[i]
    BY <1>4 DEF Range
  <2>2. CASE i <= Len(s)
    BY <1>4, <2>1, <2>2 DEF Range
  <2>3. CASE ~(i <= Len(s))
    <3>1. i - Len(s) \in DOMAIN t
      BY <1>4, <2>3
    <3> QED BY <1>4, <2>1, <2>3, <3>1 DEF Range
  <2> QED BY <2>2, <2>3
<1>6. ASSUME NEW x \in Range(s) PROVE x \in Range(s \o t)
  <2>1. PICK i \in DOMAIN s : x = s[i]
    BY DEF Range
  <2>2. i \in 1..(Len(s) + Len(t)) /\ i <= Len(s)
    BY <1>4
  <2> QED BY <1>4, <2>1, <2>2 DEF Range
<1>7. ASSUME NEW x \in Range(t) PROVE x \in Range(s \o t)
  <2>1. PICK i \in DOMAIN t : x = t[i]
    BY DEF Range
  <2>2. i + Len(s) \in 1..(Len(s) + Len(t)) /\ ~(i + Len(s) <= Len(s)) /\ (i + Len(s)) - Len(s) = i
    BY <1>4
  <2> QED BY <1>4, <2>1, <2>2 DEF Range
<1> QED BY <1>3, <1>5, <1>6, <1>7

LEMMA EmptyIs == ASSUME NEW s, IsSeq(s), Range(s) = {} PROVE s = <<>>
<1>1. s \in Seq(Range(s)) /\ DOMAIN s = 1..Len(s) /\ Len(s) \in Nat
  BY SeqIsOf
<1>2. Len(s) = 0
  <2>1. SUFFICES ASSUME Len(s) # 0 PROVE FALSE
    OBVIOUS
  <2>2. 1 \in DOMAIN s
    BY <1>1, <2>1
  <2> QED BY <2>2 DEF Range
<1> QED BY <1>1, <1>2

\* The recursion of FlattenSeq has a solution, of one step for each of the lists.
LEMMA FlattenSteps ==
    ASSUME NEW S, NEW seqs \in Seq(Seq(S)), Len(seqs) # 0
    PROVE  \E g \in [0..Len(seqs) -> Seq(S)] :
              /\ g[0] = <<>>
              /\ \A n \in 1..Len(seqs) : g[n] = g[n - 1] \o seqs[n]
              /\ FlattenSeq(seqs) = g[Len(seqs)]
<1> DEFINE N == Len(seqs)
           E(g) == [i \in 1..N |-> IF i = 1 THEN seqs[i] ELSE g[i - 1] \o seqs[i]]
           F == [n \in 1..N |-> [s \in Seq(S) |-> s \o seqs[n]]]
<1>1. N \in Nat /\ N # 0 /\ \A n \in 1..N : seqs[n] \in Seq(S)
  OBVIOUS
<1>2. StepsWithin(F, N, Seq(S))
  BY <1>1 DEF StepsWithin
<1>3. <<>> \in Seq(S)
  OBVIOUS
<1>4. PICK g : MadeBy(g, F, N, Seq(S), <<>>)
  <2> HIDE DEF F, N
  <2> QED BY <1>1, <1>2, <1>3, StepByStep
<1>5. \A n \in 1..N : g[n] = g[n - 1] \o seqs[n] /\ n - 1 \in 0..N /\ n \in 0..N
  <2> SUFFICES ASSUME NEW n \in 1..N PROVE g[n] = g[n - 1] \o seqs[n] /\ n - 1 \in 0..N /\ n \in 0..N
    OBVIOUS
  <2>1. n - 1 \in 0..N /\ n \in 0..N
    BY <1>1
  <2>2. g[n - 1] \in Seq(S)
    BY <1>4, <2>1 DEF MadeBy
  <2>3. F[n][g[n - 1]] = g[n - 1] \o seqs[n]
    BY <2>2
  <2> QED BY <1>4, <2>1, <2>3 DEF MadeBy
<1>0. g[1] = seqs[1]
  <2>1. 1 \in 1..N /\ 1 - 1 = 0
    BY <1>1
  <2>2. g[1] = g[1 - 1] \o seqs[1]
    BY <1>5, <2>1
  <2>3. g[1 - 1] = <<>>
    BY <1>4, <2>1 DEF MadeBy
  <2>4. <<>> \o seqs[1] = seqs[1]
    BY <1>1, <2>1
  <2> QED BY <2>2, <2>3, <2>4
<1> DEFINE f == [i \in 1..N |-> g[i]]
<1>6. f = E(f)
  <2>1. ASSUME NEW i \in 1..N PROVE g[i] = IF i = 1 THEN seqs[i] ELSE f[i - 1] \o seqs[i]
    <3>1. CASE i = 1
      BY <1>0, <3>1
    <3>2. CASE i # 1
      <4>1. i - 1 \in 1..N
        BY <1>1, <3>2
      <4> QED BY <1>5, <3>2, <4>1
    <3> QED BY <3>1, <3>2
  <2> QED BY <2>1
<1> DEFINE h == CHOOSE flatten : flatten = E(flatten)
<1>7. h = E(h)
  <2> HIDE DEF f, E
  <2> QED BY <1>6
<1>8. FlattenSeq(seqs) = h[N]
  BY <1>1 DEF FlattenSeq
<1> HIDE DEF h
<1>9. \A n \in 1..N : h[n] = IF n = 1 THEN seqs[n] ELSE h[n - 1] \o seqs[n]
  <2>1. \A n \in 1..N : E(h)[n] = IF n = 1 THEN seqs[n] ELSE h[n - 1] \o seqs[n]
    OBVIOUS
  <2> HIDE DEF E
  <2> QED BY <1>7, <2>1
<1> DEFINE Good == {m \in 0..N : m = 0 \/ h[m] = g[m]}
<1>10. ASSUME NEW n \in 1..N, n - 1 \in Good PROVE n \in Good
  <2>1. CASE n = 1
    BY <1>0, <1>5, <1>9, <2>1
  <2>2. CASE n # 1
    <3>1. h[n - 1] = g[n - 1]
      BY <1>1, <1>10, <2>2
    <3> QED BY <1>5, <1>9, <2>2, <3>1
  <2> QED BY <2>1, <2>2
<1>11. 0 \in Good
  BY <1>1
<1> HIDE DEF N, E, Good
<1>12. \A n \in 0..N : n \in Good
  BY <1>1, <1>10, <1>11, UpTo
<1>13. h[N] = g[N]
  BY <1>1, <1>12 DEF Good
<1> QED BY <1>4, <1>5, <1>8, <1>13 DEF MadeBy, N

\* One list after the other: what is in one of them, and nothing else.
LEMMA Flattened ==
    ASSUME NEW seqs, IsSeq(seqs), \A k \in DOMAIN seqs : IsSeq(seqs[k])
    PROVE  /\ IsSeq(FlattenSeq(seqs))
           /\ Range(FlattenSeq(seqs)) = UNION {Range(seqs[k]) : k \in DOMAIN seqs}
<1> DEFINE S == UNION {Range(seqs[k]) : k \in DOMAIN seqs}
           N == Len(seqs)
<1>1. N \in Nat /\ DOMAIN seqs = 1..N
  BY SeqIsOf DEF IsSeq
<1>2. CASE N = 0
  <2>1. DOMAIN seqs = {}
    BY <1>1, <1>2
  <2>2. Range(seqs) = {}
    BY <2>1 DEF Range
  <2>3. seqs = <<>>
    BY <2>2, EmptyIs
  <2>4. FlattenSeq(seqs) = seqs
    BY <1>2 DEF FlattenSeq
  <2> QED BY <2>1, <2>3, <2>4, NothingIs
<1>3. CASE N # 0
  <2>1. \A k \in 1..N : IsSeq(seqs[k]) /\ seqs[k] \in Seq(S)
    <3> SUFFICES ASSUME NEW k \in 1..N PROVE seqs[k] \in Seq(S)
      BY <1>1
    <3>1. Elements(seqs[k], S)
      BY <1>1 DEF Elements, Range
    <3> HIDE DEF S, N
    <3> QED BY <1>1, <3>1, SeqByElements
  <2>2. seqs \in Seq(Seq(S))
    <3>1. Elements(seqs, Seq(S))
      BY <1>1, <2>1 DEF Elements
    <3> HIDE DEF S, N
    <3> QED BY <3>1, SeqByElements
  <2>3. PICK g \in [0..N -> Seq(S)] :
              /\ g[0] = <<>>
              /\ \A n \in 1..N : g[n] = g[n - 1] \o seqs[n]
              /\ FlattenSeq(seqs) = g[N]
    <3> HIDE DEF S
    <3> QED BY <1>3, <2>2, FlattenSteps
  <2> DEFINE Upto(n) == UNION {Range(seqs[k]) : k \in 1..n}
             Good == {n \in 0..N : IsSeq(g[n]) /\ Range(g[n]) = Upto(n)}
  <2>4. 0 \in Good
    BY <1>1, <2>3, NothingIs
  <2>5. ASSUME NEW n \in 1..N, n - 1 \in Good PROVE n \in Good
    <3>1. n \in 0..N /\ 1..n = (1..(n - 1)) \union {n}
      BY <1>1
    <3>2. IsSeq(g[n - 1]) /\ IsSeq(seqs[n])
      BY <2>1, <2>5
    <3>3. IsSeq(g[n - 1] \o seqs[n]) /\ Range(g[n - 1] \o seqs[n]) = Range(g[n - 1]) \union Range(seqs[n])
      BY <3>2, Concatenated
    <3>4. Upto(n) = Upto(n - 1) \union Range(seqs[n])
      BY <3>1
    <3>5. Range(g[n - 1]) = Upto(n - 1)
      BY <2>5
    <3> HIDE DEF Upto
    <3> QED BY <2>3, <3>1, <3>3, <3>4, <3>5
  <2>6. N \in Good
    <3> HIDE DEF Good, N
    <3>1. \A n \in 0..N : n \in Good
      BY <1>1, <2>4, <2>5, UpTo
    <3> QED BY <1>1, <3>1
  <2> QED BY <1>1, <2>3, <2>6
<1> QED BY <1>2, <1>3

LEMMA FlattenedEmpty ==
    ASSUME NEW seqs, IsSeq(seqs), \A k \in DOMAIN seqs : seqs[k] = <<>>
    PROVE  FlattenSeq(seqs) = <<>>
<1>1. \A k \in DOMAIN seqs : IsSeq(seqs[k]) /\ Range(seqs[k]) = {}
  BY NothingIs
<1>2. IsSeq(FlattenSeq(seqs)) /\ Range(FlattenSeq(seqs)) = {}
  BY <1>1, Flattened
<1> QED BY <1>2, EmptyIs

LEMMA WhenIs ==
    ASSUME NEW condition, NEW f
    PROVE  /\ IsSeq(When(condition, f))
           /\ \A g \in Range(When(condition, f)) : condition /\ g = f
           /\ condition => f \in Range(When(condition, f))
<1>1. IsSeq(<<f>>) /\ Range(<<f>>) = {f}
  <2>1. <<f>> \in Seq({f}) /\ DOMAIN <<f>> = 1..1 /\ <<f>>[1] = f
    OBVIOUS
  <2>2. Range(<<f>>) = {f}
    <3>1. \A x \in 1..1 : <<f>>[x] = f /\ x \in 1..1
      BY <2>1
    <3>2. 1 \in 1..1
      OBVIOUS
    <3> QED BY <2>1, <3>1, <3>2 DEF Range
  <2> QED BY <2>1, <2>2, SeqIs
<1> QED BY <1>1, NothingIs DEF When

-----------------------------------------------------------------------------
(* What finding.Set.AddAll makes of two lists.                             *)

LEMMA AddIn == ASSUME NEW S, NEW s \in Seq(S), NEW f \in S PROVE Add(s, f) \in Seq(S)
<1> DEFINE same == {i \in DOMAIN s : Key(s[i]) = Key(f)}
<1>1. CASE same = {}
  BY <1>1 DEF Add
<1>2. CASE same # {}
  <2> DEFINE t == [i \in DOMAIN s |->
                      IF i \in same /\ f.severity > s[i].severity THEN f ELSE s[i]]
  <2>1. t \in [1..Len(s) -> S]
    OBVIOUS
  <2>2. t \in Seq(S)
    BY <2>1, SeqDef
  <2>3. Add(s, f) = t
    BY <1>2 DEF Add
  <2> QED BY <2>2, <2>3
<1> QED BY <1>1, <1>2

LEMMA AddOnce ==
    ASSUME NEW s, NEW f
    PROVE  (CHOOSE after \in {Add(before, f) : before \in {s}} : TRUE) = Add(s, f)
<1>1. {Add(before, f) : before \in {s}} = {Add(s, f)}
  OBVIOUS
<1> QED BY <1>1

\* The recursion of AddAll has a solution, of one step for each finding added.
LEMMA AddAllSteps ==
    ASSUME NEW S, NEW items \in Seq(S), NEW fs \in Seq(S)
    PROVE  \E g \in [0..Len(fs) -> Seq(S)] :
              /\ g[0] = items
              /\ \A n \in 1..Len(fs) : g[n] = Add(g[n - 1], fs[n])
              /\ AddAll(items, fs) = g[Len(fs)]
<1> DEFINE N == Len(fs)
           E(g) == [n \in 0..N |->
                      IF n = 0 THEN items
                      ELSE CHOOSE after \in {Add(before, fs[n]) : before \in {g[n - 1]}} : TRUE]
           F == [n \in 1..N |-> [s \in Seq(S) |-> Add(s, fs[n])]]
<1>2. N \in Nat /\ \A n \in 1..N : fs[n] \in S
  OBVIOUS
<1>3. StepsWithin(F, N, Seq(S))
  BY AddIn, <1>2 DEF StepsWithin
<1>4. PICK g : MadeBy(g, F, N, Seq(S), items)
  <2> HIDE DEF F, N
  <2> QED BY <1>2, <1>3, StepByStep
<1>5. \A n \in 1..N : g[n] = Add(g[n - 1], fs[n])
  <2> SUFFICES ASSUME NEW n \in 1..N PROVE g[n] = Add(g[n - 1], fs[n])
    OBVIOUS
  <2>1. n - 1 \in 0..N
    BY <1>2
  <2>2. g[n - 1] \in Seq(S)
    BY <1>4, <2>1 DEF MadeBy
  <2>3. F[n][g[n - 1]] = Add(g[n - 1], fs[n])
    BY <2>2
  <2> QED BY <1>4, <2>3 DEF MadeBy
<1>6. g = E(g)
  <2>1. \A n \in 0..N : E(g)[n] = IF n = 0 THEN items ELSE Add(g[n - 1], fs[n])
    BY AddOnce
  <2>2. \A n \in 0..N : g[n] = E(g)[n]
    <3> HIDE DEF E
    <3> QED BY <1>2, <1>4, <1>5, <2>1 DEF MadeBy
  <2> QED BY <1>4, <2>2 DEF MadeBy
<1> DEFINE h == CHOOSE added : added = E(added)
<1>7. h = E(h)
  BY <1>6
<1>8. AddAll(items, fs) = h[N]
  BY DEF AddAll
<1> HIDE DEF h, E
<1>9. \A n \in 0..N : n \in {m \in 0..N : h[m] = g[m]}
  <2>1. \A n \in 0..N : h[n] = IF n = 0 THEN items ELSE Add(h[n - 1], fs[n])
    <3>1. \A n \in 0..N : E(h)[n] = IF n = 0 THEN items ELSE Add(h[n - 1], fs[n])
      BY AddOnce DEF E
    <3> QED BY <1>7, <3>1
  <2>2. 0 \in {m \in 0..N : h[m] = g[m]}
    BY <1>2, <1>4, <2>1 DEF MadeBy
  <2>3. ASSUME NEW n \in 1..N, n - 1 \in {m \in 0..N : h[m] = g[m]}
        PROVE  n \in {m \in 0..N : h[m] = g[m]}
    BY <1>2, <1>5, <2>1, <2>3
  <2> HIDE DEF N
  <2> QED BY <1>2, <2>2, <2>3, UpTo
<1> QED BY <1>2, <1>4, <1>5, <1>8, <1>9 DEF MadeBy

LEMMA AddAllIn == ASSUME NEW S, NEW items \in Seq(S), NEW fs \in Seq(S) PROVE AddAll(items, fs) \in Seq(S)
<1>1. Len(fs) \in 0..Len(fs)
  OBVIOUS
<1> QED BY <1>1, AddAllSteps

Keys(s) == {Key(s[i]) : i \in DOMAIN s}

LEMMA AddKeys == ASSUME NEW S, NEW s \in Seq(S), NEW f \in S PROVE Keys(Add(s, f)) = Keys(s) \union {Key(f)}
<1> DEFINE same == {i \in DOMAIN s : Key(s[i]) = Key(f)}
<1>1. CASE same = {}
  <2>1. Add(s, f) = Append(s, f)
    BY <1>1 DEF Add
  <2>2. /\ DOMAIN Append(s, f) = DOMAIN s \union {Len(s) + 1}
        /\ \A i \in DOMAIN s : Append(s, f)[i] = s[i]
        /\ Append(s, f)[Len(s) + 1] = f
    OBVIOUS
  <2> QED BY <2>1, <2>2 DEF Keys
<1>2. CASE same # {}
  <2> DEFINE t == [i \in DOMAIN s |->
                      IF i \in same /\ f.severity > s[i].severity THEN f ELSE s[i]]
  <2>1. Add(s, f) = t
    BY <1>2 DEF Add
  <2>2. DOMAIN t = DOMAIN s /\ \A i \in DOMAIN s : Key(t[i]) = Key(s[i])
    OBVIOUS
  <2>3. Key(f) \in Keys(s)
    BY <1>2 DEF Keys
  <2> HIDE DEF t
  <2> QED BY <2>1, <2>2, <2>3 DEF Keys
<1> QED BY <1>1, <1>2

\* What is added takes the place of nothing: no problem is lost, and none is made up.
LEMMA AddAllKeys ==
    ASSUME NEW S, NEW items \in Seq(S), NEW fs \in Seq(S)
    PROVE  Keys(AddAll(items, fs)) = Keys(items) \union Keys(fs)
<1>1. PICK g \in [0..Len(fs) -> Seq(S)] :
         /\ g[0] = items
         /\ \A n \in 1..Len(fs) : g[n] = Add(g[n - 1], fs[n])
         /\ AddAll(items, fs) = g[Len(fs)]
  BY AddAllSteps
<1> DEFINE N == Len(fs)
           Upto(n) == {Key(fs[j]) : j \in 1..n}
           Good == {n \in 0..N : Keys(g[n]) = Keys(items) \union Upto(n)}
<1>2. N \in Nat /\ DOMAIN fs = 1..N
  OBVIOUS
<1>3. 0 \in Good
  BY <1>1, <1>2
<1>4. ASSUME NEW n \in 1..N, n - 1 \in Good PROVE n \in Good
  <2>1. g[n - 1] \in Seq(S) /\ fs[n] \in S /\ n \in 0..N
    BY <1>1, <1>2
  <2>2. Keys(g[n]) = Keys(g[n - 1]) \union {Key(fs[n])}
    BY <1>1, <2>1, AddKeys
  <2>3. Upto(n) = Upto(n - 1) \union {Key(fs[n])}
    <3>1. 1..n = (1..(n - 1)) \union {n}
      BY <1>2
    <3> QED BY <3>1
  <2> QED BY <1>4, <2>1, <2>2, <2>3
<1>5. N \in Good
  <2> HIDE DEF Good, N
  <2>1. \A n \in 0..N : n \in Good
    BY <1>2, <1>3, <1>4, UpTo
  <2> QED BY <1>2, <2>1
<1> QED BY <1>1, <1>2, <1>5 DEF Keys

\* What is added together is of the one list or of the other.
LEMMA AddAllElements ==
    ASSUME NEW items, NEW fs, IsSeq(items), IsSeq(fs)
    PROVE  /\ IsSeq(AddAll(items, fs))
           /\ Range(AddAll(items, fs)) \subseteq Range(items) \union Range(fs)
           /\ \A f \in Range(items) \union Range(fs) :
                 \E g \in Range(AddAll(items, fs)) : Key(g) = Key(f)
<1> DEFINE S == Range(items) \union Range(fs)
<1>1. items \in Seq(S) /\ fs \in Seq(S)
  <2>1. Elements(items, S) /\ Elements(fs, S)
    BY DEF Elements, Range
  <2> HIDE DEF S
  <2> QED BY <2>1, SeqByElements
<1>2. AddAll(items, fs) \in Seq(S) /\ Keys(AddAll(items, fs)) = Keys(items) \union Keys(fs)
  <2> HIDE DEF S
  <2> QED BY <1>1, AddAllIn, AddAllKeys
<1>3. Range(AddAll(items, fs)) \subseteq S /\ IsSeq(AddAll(items, fs))
  <2> HIDE DEF S
  <2>1. IsSeq(AddAll(items, fs)) /\ Elements(AddAll(items, fs), S)
    BY <1>2, SeqIs
  <2> QED BY <2>1 DEF Elements, Range
<1>4. ASSUME NEW f \in S PROVE \E g \in Range(AddAll(items, fs)) : Key(g) = Key(f)
  <2>1. Key(f) \in Keys(items) \union Keys(fs)
    BY DEF Keys, Range
  <2> DEFINE after == AddAll(items, fs)
  <2>2. Key(f) \in Keys(after)
    BY <1>2, <2>1
  <2> HIDE DEF after
  <2>3. PICK i \in DOMAIN after : Key(f) = Key(after[i])
    BY <2>2 DEF Keys
  <2>4. \E g \in Range(after) : Key(g) = Key(f)
    BY <2>3 DEF Range
  <2> QED BY <2>4 DEF after
<1> QED BY <1>3, <1>4

-----------------------------------------------------------------------------
(* Counting.                                                               *)

\* Of what is finite and ordered one comes before all the others.
LEMMA FirstOf ==
    ASSUME NEW K, IsFiniteSet(K), K # {}, NEW R,
           \A a, b \in K : a # b => <<a, b>> \in R \/ <<b, a>> \in R,
           \A a \in K : <<a, a>> \notin R,
           \A a, b, c \in K : <<a, b>> \in R /\ <<b, c>> \in R => <<a, c>> \in R
    PROVE  \E a \in K : \A b \in K \ {a} : <<a, b>> \in R
<1> DEFINE After(a) == {b \in K : <<a, b>> \in R}
           Counts == {Cardinality(After(a)) : a \in K}
<1>1. \A a \in K : IsFiniteSet(After(a)) /\ Cardinality(After(a)) \in 0..Cardinality(K)
  <2> SUFFICES ASSUME NEW a \in K
               PROVE  IsFiniteSet(After(a)) /\ Cardinality(After(a)) \in 0..Cardinality(K)
    OBVIOUS
  <2>1. After(a) \in SUBSET K
    OBVIOUS
  <2> HIDE DEF After
  <2>2. IsFiniteSet(After(a)) /\ Cardinality(After(a)) <= Cardinality(K)
    BY <2>1, FS_Subset
  <2>3. Cardinality(After(a)) \in Nat /\ Cardinality(K) \in Nat
    BY <2>2, FS_CardinalityType
  <2> QED BY <2>2, <2>3
<1>2. Cardinality(K) \in Nat
  BY FS_CardinalityType
<1>3. PICK a \in K : \A b \in K : Cardinality(After(b)) <= Cardinality(After(a))
  <2> HIDE DEF After
  <2>1. Counts \subseteq 0..Cardinality(K) /\ Counts # {}
    BY <1>1
  <2>2. PICK x \in Counts : \A y \in Counts : y <= x
    <3> HIDE DEF Counts
    <3> QED BY <1>2, <2>1, GreatestUpTo
  <2> QED BY <2>2
<1>4. ASSUME NEW b \in K \ {a}, <<a, b>> \notin R PROVE FALSE
  <2>1. <<b, a>> \in R
    BY <1>4
  <2>2. After(a) \in SUBSET After(b) /\ a \in After(b) /\ a \notin After(a)
    BY <2>1
  <2>3. IsFiniteSet(After(b)) /\ Cardinality(After(b)) \in Nat /\ Cardinality(After(a)) \in Nat
    BY <1>1
  <2>4. Cardinality(After(b)) <= Cardinality(After(a))
    BY <1>3
  <2> HIDE DEF After
  <2>5. /\ Cardinality(After(a)) <= Cardinality(After(b))
        /\ Cardinality(After(a)) = Cardinality(After(b)) => After(b) = After(a)
    BY <2>2, <2>3, FS_Subset
  <2>6. Cardinality(After(a)) = Cardinality(After(b))
    BY <2>3, <2>4, <2>5
  <2> QED BY <2>2, <2>5, <2>6
<1> QED BY <1>4

LEMMA MaxOf ==
    ASSUME NEW S, S \subseteq Nat, IsFiniteSet(S), S # {}
    PROVE  Max(S) \in S /\ \A x \in S : x <= Max(S)
<1> DEFINE R == {p \in S \X S : p[1] > p[2]}
<1>1. \A a, b \in S : <<a, b>> \in R <=> a > b
  OBVIOUS
<1> HIDE DEF R
<1>2. /\ \A a, b \in S : a # b => <<a, b>> \in R \/ <<b, a>> \in R
      /\ \A a \in S : <<a, a>> \notin R
      /\ \A a, b, c \in S : <<a, b>> \in R /\ <<b, c>> \in R => <<a, c>> \in R
  <2>1. \A a, b, c \in S : (a # b => a > b \/ b > a) /\ ~(a > a) /\ (a > b /\ b > c => a > c)
    OBVIOUS
  <2>2. \A a, b \in S : a # b => <<a, b>> \in R \/ <<b, a>> \in R
    BY <1>1, <2>1
  <2>3. \A a \in S : <<a, a>> \notin R
    BY <1>1, <2>1
  <2>4. \A a, b, c \in S : <<a, b>> \in R /\ <<b, c>> \in R => <<a, c>> \in R
    BY <1>1, <2>1
  <2> QED BY <2>2, <2>3, <2>4
<1>3. PICK a \in S : \A b \in S \ {a} : <<a, b>> \in R
  BY <1>1, <1>2, FirstOf
<1>4. ASSUME NEW b \in S PROVE a >= b
  <2>1. a \in Nat /\ b \in Nat
    OBVIOUS
  <2>2. CASE a = b
    BY <2>1, <2>2
  <2>3. CASE a # b
    <3>1. <<a, b>> \in R
      BY <1>3, <2>3
    <3>2. a > b
      BY <1>1, <3>1
    <3> QED BY <2>1, <3>2
  <2> QED BY <2>2, <2>3
<1>5. Max(S) \in S /\ \A y \in S : Max(S) >= y
  BY <1>4 DEF Max
<1>6. ASSUME NEW x \in S PROVE x <= Max(S)
  <2>1. Max(S) \in Nat /\ x \in Nat /\ Max(S) >= x
    BY <1>5
  <2> HIDE DEF Max
  <2> QED BY <2>1
<1> QED BY <1>5, <1>6

\* The values a finite map has.
LEMMA RangeFinite ==
    ASSUME NEW f, f = [x \in DOMAIN f |-> f[x]], IsFiniteSet(DOMAIN f)
    PROVE  /\ IsFiniteSet(Range(f))
           /\ Cardinality(Range(f)) <= Cardinality(DOMAIN f)
           /\ (\A x, y \in DOMAIN f : f[x] = f[y] => x = y) => Cardinality(Range(f)) = Cardinality(DOMAIN f)
<1> DEFINE S == DOMAIN f
           T == Range(f)
<1>1. f \in [S -> T] /\ \A t \in T : \E x \in S : f[x] = t
  BY DEF Range
<1>2. f \in Surjection(S, T)
  <2> HIDE DEF S, T
  <2> QED BY <1>1 DEF Surjection
<1>3. (\A x, y \in S : f[x] = f[y] => x = y) => f \in Injection(S, T)
  <2> HIDE DEF S, T
  <2> QED BY <1>1 DEF Injection, IsInjective
<1> HIDE DEF T
<1> QED BY <1>2, <1>3, FS_Surjection DEF T

-----------------------------------------------------------------------------
(* What is read is a sequence of named columns and finitely many lines.    *)

SheetFits(s) == IsSeq(s.rows) /\ \A k \in DOMAIN s.rows : IsSeq(s.rows[k].cells)

LEMMA WidthNat == ASSUME NEW s, SheetFits(s) PROVE Width(s) \in Nat
<1> DEFINE lens == [i \in Buffered(s) |-> Len(s.rows[i].cells)]
           S == {0} \union Range(lens)
<1>1. DOMAIN s.rows = 1..Len(s.rows) /\ Len(s.rows) \in Nat
  BY SeqIsOf DEF SheetFits, IsSeq
<1>2. Buffered(s) \in SUBSET (1..Len(s.rows))
  BY <1>1 DEF Buffered
<1>3. IsFiniteSet(Buffered(s))
  <2>1. IsFiniteSet(1..Len(s.rows))
    BY <1>1, FS_Interval
  <2> QED BY <1>2, <2>1, FS_Subset
<1>4. \A i \in Buffered(s) : lens[i] \in Nat
  <2>1. \A i \in Buffered(s) : i \in DOMAIN s.rows
    BY <1>1, <1>2
  <2>2. \A i \in DOMAIN s.rows : Len(s.rows[i].cells) \in Nat
    BY DEF SheetFits, IsSeq
  <2> QED BY <2>1, <2>2
<1>5. DOMAIN lens = Buffered(s) /\ lens = [i \in DOMAIN lens |-> lens[i]]
  OBVIOUS
<1>6. S = {0} \union {Len(s.rows[i].cells) : i \in Buffered(s)}
  BY DEF Range
<1>7. Range(lens) \subseteq Nat
  BY <1>4, <1>5 DEF Range
<1> HIDE DEF lens
<1>8. IsFiniteSet(Range(lens))
  BY <1>3, <1>5, RangeFinite
<1>9. IsFiniteSet(S)
  BY <1>8, FS_Singleton, FS_Union
<1>10. S \subseteq Nat /\ S # {}
  BY <1>7
<1> HIDE DEF S
<1> QED BY <1>6, <1>9, <1>10, MaxOf DEF Width

LEMMA WrittenFits ==
    ASSUME NEW s, SheetFits(s)
    PROVE  IsSeq(Written(s).header) /\ IsFiniteSet(DOMAIN Written(s).body)
<1>1. CASE HeaderRows(s) = {}
  <2>1. Written(s) = NoTable
    BY <1>1 DEF Written
  <2>2. NoTable.header = <<>> /\ NoTable.body = <<>>
    BY DEF NoTable
  <2> QED BY <2>1, <2>2, NothingIs, FS_EmptySet
<1>2. CASE HeaderRows(s) # {}
  <2>1. Width(s) \in Nat
    BY WidthNat
  <2>2. \E header : /\ header = [i \in 1..Width(s) |-> header[i]]
                    /\ Written(s).header = header
    BY <1>2 DEF Written
  <2>3. IsSeq(Written(s).header)
    BY <2>1, <2>2, SeqByDomain
  <2>4. \E fits \in SUBSET (DOMAIN s.rows) : DOMAIN Written(s).body = fits
    BY <1>2 DEF Written
  <2>5. IsFiniteSet(DOMAIN s.rows)
    <3>1. DOMAIN s.rows = 1..Len(s.rows) /\ Len(s.rows) \in Nat
      BY SeqIsOf DEF SheetFits, IsSeq
    <3> QED BY <3>1, FS_Interval
  <2> QED BY <2>3, <2>4, <2>5, FS_Subset
<1> QED BY <1>1, <1>2

LEMMA NamesFit ==
    ASSUME NEW header, IsSeq(header)
    PROVE  /\ IsSeq(EngineNames(header)) /\ IsSeq(FromHeader(header))
           /\ \A original : IsSeq(ColumnsFor(header, original))
<1>1. DOMAIN header = 1..Len(header) /\ Len(header) \in Nat
  BY SeqIsOf DEF IsSeq
<1>2. \E e : e = [i \in 1..Len(header) |-> e[i]] /\ EngineNames(header) = e
  BY <1>1 DEF EngineNames
<1>3. \E e : e = [i \in 1..Len(header) |-> e[i]] /\ FromHeader(header) = e
  BY <1>1 DEF FromHeader
<1>4. \A original : \E e : e = [i \in 1..Len(header) |-> e[i]] /\ ColumnsFor(header, original) = e
  BY <1>1 DEF ColumnsFor
<1> QED BY <1>1, <1>2, <1>3, <1>4, SeqByDomain

-----------------------------------------------------------------------------
(* The plan, while the files are walked and the workbooks are decoded.     *)

\* A planned table has a file to be read from, or what a sheet was written to.
Readable(p, there) ==
    IF p.sheet = 0 THEN p.file \in DOMAIN files /\ files[p.file].kind = "csv"
    ELSE p.path \in there

PlanFits(s, there) == IsSeq(s) /\ \A k \in DOMAIN s : Readable(s[k], there)

WorkFits ==
    /\ walked \in Nat
    /\ DOMAIN worker = Workbooks
    /\ DOMAIN sheet = Workbooks
    /\ \A f \in Workbooks : f > walked => worker[f] = "idle"
    /\ \A f \in Workbooks : worker[f] \in {"waiting", "adding"} =>
          \A i \in SheetsOf(f) : Path(f, i) \in DOMAIN scratch

ScratchFits ==
    \A path \in DOMAIN scratch :
       IsSeq(scratch[path].header) /\ IsFiniteSet(DOMAIN scratch[path].body)

\* Who has read the plan is one who has a table to put into it; nobody has when it is done.
SeenFits ==
    /\ DOMAIN seen = Workbooks \union {Walk}
    /\ \A p \in DOMAIN seen : seen[p] # NotReading => PlanFits(seen[p][1], DOMAIN scratch)
    /\ \A f \in Workbooks : seen[f] # NotReading => worker[f] = "adding" /\ sheet[f] \in TablesIn(f)
    /\ seen[Walk] # NotReading => walked < Len(files) /\ files[walked + 1].kind = "csv"

PlanInv ==
    /\ files \in Datasets
    /\ WorkFits /\ ScratchFits /\ SeenFits
    /\ PlanFits(plan, DOMAIN scratch)
    /\ stage # "planning" => seen[Walk] = NotReading /\ \A f \in Workbooks : worker[f] = "done"

LEMMA FilesFit ==
    ASSUME files \in Datasets
    PROVE  /\ IsSeq(files) /\ DOMAIN files = 1..Len(files) /\ Len(files) \in Nat
           /\ Workbooks \subseteq DOMAIN files /\ Walk \notin Workbooks
           /\ \A f \in Workbooks : IsSeq(files[f].sheets)
           /\ \A f \in Workbooks : \A i \in SheetsOf(f) : SheetFits(files[f].sheets[i])
           /\ \A f \in DOMAIN files : files[f].kind = "csv" =>
                 /\ IsSeq(files[f].header) /\ IsSeq(files[f].sniffed)
                 /\ IsFiniteSet(DOMAIN files[f].rows)
<1>1. /\ IsSeq(files)
      /\ \A f \in DOMAIN files :
             IF files[f].kind = "csv"
             THEN /\ IsSeq(files[f].header) /\ IsSeq(files[f].sniffed)
                  /\ IsFiniteSet(DOMAIN files[f].rows)
             ELSE /\ IsSeq(files[f].sheets)
                  /\ \A i \in DOMAIN files[f].sheets : SheetFits(files[f].sheets[i])
  BY FilesAreRead DEF SheetFits
<1>2. DOMAIN files = 1..Len(files) /\ Len(files) \in Nat
  BY <1>1, SeqIsOf DEF IsSeq
<1>3. Workbooks \subseteq DOMAIN files /\ \A f \in Workbooks : files[f].kind # "csv"
  BY DEF Workbooks
<1>4. Walk \notin DOMAIN files
  BY <1>2 DEF Walk
<1>5. \A f : SheetsOf(f) \subseteq DOMAIN files[f].sheets
  BY DEF SheetsOf
<1> QED BY <1>1, <1>2, <1>3, <1>4, <1>5

LEMMA Unmoved ==
    ASSUME files' = files
    PROVE  /\ Workbooks' = Workbooks
           /\ \A f : SheetsOf(f)' = SheetsOf(f) /\ TablesIn(f)' = TablesIn(f)
           /\ \A f, i : Path(f, i)' = Path(f, i)
           /\ \A s, there : PlanFits(s, there)' = PlanFits(s, there)
<1>1. Workbooks' = Workbooks
  BY DEF Workbooks
<1>2. \A f : SheetsOf(f)' = SheetsOf(f)
  BY DEF SheetsOf
<1>3. \A f : TablesIn(f)' = TablesIn(f)
  BY <1>2 DEF TablesIn
<1>4. \A f, i : Path(f, i)' = Path(f, i)
  BY DEF Path
<1>5. \A p, there : Readable(p, there)' = Readable(p, there)
  BY DEF Readable
<1>6. \A s, there : PlanFits(s, there)' = PlanFits(s, there)
  BY <1>5 DEF PlanFits
<1> QED BY <1>1, <1>2, <1>3, <1>4, <1>6

\* What could be read can be read when more is there.
LEMMA PlanGrows ==
    ASSUME NEW s, NEW few, NEW more, few \subseteq more, PlanFits(s, few)
    PROVE  PlanFits(s, more)
BY DEF PlanFits, Readable

LEMMA PlanAppended ==
    ASSUME NEW s, NEW there, PlanFits(s, there), NEW p, Readable(p, there)
    PROVE  PlanFits(Append(s, p), there)
<1> DEFINE S == Range(s) \union {p}
<1>1. s \in Seq(S)
  <2>1. Elements(s, S)
    BY DEF Elements, Range
  <2> HIDE DEF S
  <2> QED BY <2>1, SeqByElements DEF PlanFits
<1>2. Append(s, p) \in Seq(S) /\ DOMAIN Append(s, p) = DOMAIN s \union {Len(s) + 1}
  BY <1>1
<1>3. \A k \in DOMAIN s : Append(s, p)[k] = s[k]
  BY <1>1
<1>4. Append(s, p)[Len(s) + 1] = p
  BY <1>1
<1>5. IsSeq(Append(s, p))
  BY <1>2, SeqIs
<1> HIDE DEF S
<1> QED BY <1>2, <1>3, <1>4, <1>5 DEF PlanFits

LEMMA PlanStart == Init => PlanInv
<1> SUFFICES ASSUME Init PROVE PlanInv
  OBVIOUS
<1> USE DEF Init, InitIngest
<1>1. PlanFits(plan, DOMAIN scratch)
  BY NothingIs DEF PlanFits
<1>2. WorkFits
  BY DEF WorkFits
<1>3. ScratchFits
  BY NothingIs DEF ScratchFits
<1>4. SeenFits
  BY DEF SeenFits, Walk
<1> QED BY <1>1, <1>2, <1>3, <1>4 DEF PlanInv

\* Who puts a table into the plan puts it into the plan that was read.
LEMMA Stored ==
    ASSUME PlanInv, NEW p \in DOMAIN seen, NEW table, Readable(table, DOMAIN scratch),
           StorePlan(p, table), UNCHANGED <<files, scratch>>
    PROVE  /\ PlanFits(plan, DOMAIN scratch)'
           /\ DOMAIN seen' = DOMAIN seen /\ seen'[p] = NotReading
           /\ \A q \in DOMAIN seen : q # p => seen'[q] = seen[q]
<1>1. PlanFits(seen[p][1], DOMAIN scratch)
  BY DEF StorePlan, PlanInv, SeenFits
<1>2. PlanFits(Append(seen[p][1], table), DOMAIN scratch)
  BY <1>1, PlanAppended
<1>3. plan' = Append(seen[p][1], table) /\ DOMAIN scratch' = DOMAIN scratch
  BY DEF StorePlan
<1>4. PlanFits(plan', DOMAIN scratch)
  BY <1>2, <1>3
<1>5. PlanFits(plan, DOMAIN scratch)'
  BY <1>3, <1>4, Unmoved DEF PlanFits, Readable
<1> QED BY <1>5 DEF StorePlan

LEMMA PlanWalk == PlanInv /\ (WalkCSVRead \/ WalkCSVStore \/ WalkWorkbook) => PlanInv'
<1> SUFFICES ASSUME PlanInv, WalkCSVRead \/ WalkCSVStore \/ WalkWorkbook PROVE PlanInv'
  OBVIOUS
<1> USE FilesFit, Unmoved
<1>0. files' = files /\ scratch' = scratch /\ files \in Datasets /\ stage' = stage
  BY DEF PlanInv, WalkCSVRead, WalkCSVStore, WalkWorkbook
<1>1. CASE WalkCSVRead
  <2>1. WorkFits'
    BY <1>0, <1>1 DEF WalkCSVRead, PlanInv, WorkFits
  <2>2. SeenFits'
    <3>1. Walk \in DOMAIN seen /\ seen' = [seen EXCEPT ![Walk] = <<plan>>]
      BY <1>1 DEF WalkCSVRead, ReadPlan, PlanInv, SeenFits
    <3>2. DOMAIN seen' = DOMAIN seen /\ seen'[Walk][1] = plan /\ \A p \in DOMAIN seen : p # Walk => seen'[p] = seen[p]
      BY <3>1
    <3>3. \A p \in DOMAIN seen : seen'[p] # NotReading => PlanFits(seen'[p][1], DOMAIN scratch)
      BY <3>2 DEF PlanInv, SeenFits
    <3>4. \A p \in DOMAIN seen : seen'[p] # NotReading => PlanFits(seen[p][1], DOMAIN scratch)'
      BY <1>0, <3>3 DEF PlanFits, Readable
    <3> QED BY <1>0, <1>1, <3>2, <3>4 DEF SeenFits, PlanInv, WalkCSVRead
  <2>3. PlanFits(plan, DOMAIN scratch)'
    BY <1>0, <1>1 DEF WalkCSVRead, PlanInv, PlanFits, Readable
  <2> QED BY <1>0, <1>1, <2>1, <2>2, <2>3 DEF PlanInv, ScratchFits, WalkCSVRead
<1>2. CASE WalkCSVStore
  <2> DEFINE table == [file |-> walked + 1, sheet |-> 0, path |-> <<files[walked + 1].rel, 0>>,
                       display |-> files[walked + 1].rel]
  <2>1. seen[Walk] # NotReading /\ Walk \in DOMAIN seen /\ walked \in Nat
    BY <1>2 DEF WalkCSVStore, StorePlan, PlanInv, SeenFits, WorkFits
  <2>2. walked + 1 \in DOMAIN files /\ files[walked + 1].kind = "csv"
    BY <1>0, <2>1 DEF PlanInv, SeenFits
  <2>3. Readable(table, DOMAIN scratch)
    BY <2>2 DEF Readable
  <2>4. StorePlan(Walk, table)
    BY <1>2 DEF WalkCSVStore
  <2> HIDE DEF table
  <2>5. /\ PlanFits(plan, DOMAIN scratch)'
        /\ DOMAIN seen' = DOMAIN seen /\ seen'[Walk] = NotReading
        /\ \A q \in DOMAIN seen : q # Walk => seen'[q] = seen[q]
    BY <1>0, <2>1, <2>3, <2>4, Stored
  <2>6. WorkFits'
    BY <1>0, <1>2 DEF WalkCSVStore, PlanInv, WorkFits
  <2>7. SeenFits'
    <3>1. \A p \in DOMAIN seen : seen'[p] # NotReading => PlanFits(seen'[p][1], DOMAIN scratch)
      BY <2>5 DEF PlanInv, SeenFits
    <3>2. \A p \in DOMAIN seen : seen'[p] # NotReading => PlanFits(seen[p][1], DOMAIN scratch)'
      BY <1>0, <3>1 DEF PlanFits, Readable
    <3> QED BY <1>0, <1>2, <2>5, <3>2 DEF SeenFits, PlanInv, WalkCSVStore
  <2> QED BY <1>0, <1>2, <2>5, <2>6, <2>7 DEF PlanInv, ScratchFits, WalkCSVStore
<1>3. CASE WalkWorkbook
  <2>1. /\ stage = "planning" /\ walked' = walked + 1 /\ walked \in Nat /\ seen' = seen /\ plan' = plan
        /\ worker' = [worker EXCEPT ![walked + 1] = "decoding"] /\ sheet' = sheet
    BY <1>3 DEF WalkWorkbook, PlanInv, WorkFits
  <2>2. walked + 1 \in Workbooks
    <3>1. walked + 1 \in DOMAIN files
      BY <1>0, <1>3, <2>1 DEF WalkWorkbook
    <3> QED BY <1>3, <3>1 DEF WalkWorkbook, Workbooks
  <2>3. worker[walked + 1] = "idle"
    BY <2>1, <2>2 DEF PlanInv, WorkFits
  <2>4. \A f \in Workbooks : f > walked + 1 => f > walked
    BY <1>0, <2>1
  <2>5. WorkFits'
    BY <1>0, <2>1, <2>2, <2>4 DEF PlanInv, WorkFits
  <2>6. SeenFits'
    <3>1. \A f \in Workbooks : seen[f] # NotReading => worker'[f] = "adding"
      BY <2>1, <2>3 DEF PlanInv, SeenFits, WorkFits
    <3>2. \A p \in DOMAIN seen : seen[p] # NotReading => PlanFits(seen[p][1], DOMAIN scratch)'
      BY <1>0, <2>1 DEF PlanInv, SeenFits, PlanFits, Readable
    <3>3. seen[Walk] = NotReading
      BY <1>0, <1>3, <2>1 DEF PlanInv, SeenFits, WalkWorkbook
    <3> QED BY <1>0, <2>1, <3>1, <3>2, <3>3 DEF SeenFits, PlanInv
  <2>7. PlanFits(plan, DOMAIN scratch)'
    BY <1>0, <2>1 DEF PlanInv, PlanFits, Readable
  <2> QED BY <1>0, <2>1, <2>5, <2>6, <2>7 DEF PlanInv, ScratchFits
<1> QED BY <1>1, <1>2, <1>3

LEMMA OverIs ==
    ASSUME NEW entries, NEW map
    PROVE  /\ DOMAIN Over(entries, map) = DOMAIN entries \union DOMAIN map
           /\ \A k \in DOMAIN entries : Over(entries, map)[k] = entries[k]
           /\ \A k \in DOMAIN map \ DOMAIN entries : Over(entries, map)[k] = map[k]
BY DEF Over

LEMMA PlanDecode == ASSUME PlanInv, NEW f \in Workbooks, Decode(f) PROVE PlanInv'
<1> USE Unmoved
<1>0. files' = files /\ files \in Datasets /\ worker[f] = "decoding" /\ stage' = stage
  BY DEF PlanInv, Decode
<1>1. seen' = seen /\ plan' = plan /\ walked' = walked /\ sheet' = sheet
  BY DEF Decode
<1>2. seen[f] = NotReading /\ ~(f > walked) /\ f \in DOMAIN worker
  BY <1>0 DEF PlanInv, SeenFits, WorkFits
<1>3. stage = "planning"
  BY <1>0 DEF PlanInv
<1>4. CASE files[f].readable /\ SheetsOf(f) # {}
  <2>1. scratch' = Over(Inspected(f), scratch) /\ worker' = [worker EXCEPT ![f] = "waiting"]
    BY <1>4 DEF Decode
  <2>2. DOMAIN Inspected(f) = {Path(f, i) : i \in SheetsOf(f)}
    BY DEF Inspected
  <2>3. DOMAIN scratch' = DOMAIN Inspected(f) \union DOMAIN scratch
    BY <2>1, OverIs
  <2>4. \A s : PlanFits(s, DOMAIN scratch) => PlanFits(s, DOMAIN scratch')
    BY <2>3, PlanGrows
  <2>5. WorkFits'
    <3>1. \A g \in Workbooks : worker'[g] \in {"waiting", "adding"} =>
             \A i \in SheetsOf(g) : Path(g, i) \in DOMAIN scratch'
      BY <1>2, <2>1, <2>2, <2>3 DEF PlanInv, WorkFits
    <3>2. DOMAIN worker' = Workbooks /\ \A g \in Workbooks : g > walked => worker'[g] = "idle"
      BY <1>2, <2>1 DEF PlanInv, WorkFits
    <3> QED BY <1>0, <1>1, <3>1, <3>2 DEF PlanInv, WorkFits
  <2>6. ScratchFits'
    <3>1. ASSUME NEW path \in DOMAIN Inspected(f)
          PROVE  IsSeq(Inspected(f)[path].header) /\ IsFiniteSet(DOMAIN Inspected(f)[path].body)
      <4>1. PICK i \in SheetsOf(f) : path = Path(f, i)
        BY <2>2
      <4>2. path[2] = i
        BY <4>1 DEF Path
      <4>3. Inspected(f)[path] = Written(files[f].sheets[i])
        BY <4>2 DEF Inspected
      <4>4. SheetFits(files[f].sheets[i])
        BY <1>0, FilesFit
      <4> QED BY <4>3, <4>4, WrittenFits
    <3>2. \A path \in DOMAIN scratch' :
             \/ path \in DOMAIN Inspected(f) /\ scratch'[path] = Inspected(f)[path]
             \/ path \in DOMAIN scratch /\ scratch'[path] = scratch[path]
      <4>1. /\ \A k \in DOMAIN Inspected(f) : Over(Inspected(f), scratch)[k] = Inspected(f)[k]
            /\ \A k \in DOMAIN scratch \ DOMAIN Inspected(f) : Over(Inspected(f), scratch)[k] = scratch[k]
        BY OverIs
      <4>2. /\ \A k \in DOMAIN Inspected(f) : scratch'[k] = Inspected(f)[k]
            /\ \A k \in DOMAIN scratch \ DOMAIN Inspected(f) : scratch'[k] = scratch[k]
        BY <2>1, <4>1
      <4> QED BY <2>3, <4>2
    <3>3. \A path \in DOMAIN scratch' :
             IsSeq(scratch'[path].header) /\ IsFiniteSet(DOMAIN scratch'[path].body)
      BY <3>1, <3>2 DEF PlanInv, ScratchFits
    <3> QED BY <3>3 DEF ScratchFits
  <2>7. SeenFits'
    <3>1. \A g \in Workbooks : seen[g] # NotReading => worker'[g] = "adding"
      BY <1>2, <2>1 DEF PlanInv, SeenFits, WorkFits
    <3>2. \A p \in DOMAIN seen : seen[p] # NotReading => PlanFits(seen[p][1], DOMAIN scratch')
      BY <2>4 DEF PlanInv, SeenFits
    <3>3. \A p \in DOMAIN seen : seen[p] # NotReading => PlanFits(seen[p][1], DOMAIN scratch)'
      BY <1>0, <1>1, <3>2 DEF PlanFits, Readable
    <3> QED BY <1>0, <1>1, <3>1, <3>3 DEF SeenFits, PlanInv
  <2>8. PlanFits(plan, DOMAIN scratch)'
    <3>1. PlanFits(plan, DOMAIN scratch')
      BY <2>4 DEF PlanInv
    <3> QED BY <1>0, <1>1, <3>1 DEF PlanFits, Readable
  <2> QED BY <1>0, <1>1, <1>3, <2>5, <2>6, <2>7, <2>8 DEF PlanInv
<1>5. CASE ~(files[f].readable /\ SheetsOf(f) # {})
  <2>1. scratch' = scratch /\ worker' = [worker EXCEPT ![f] = "done"]
    BY <1>5 DEF Decode
  <2>2. WorkFits'
    BY <1>0, <1>1, <1>2, <2>1 DEF PlanInv, WorkFits
  <2>3. SeenFits'
    <3>1. \A g \in Workbooks : seen[g] # NotReading => worker'[g] = "adding"
      BY <1>2, <2>1 DEF PlanInv, SeenFits, WorkFits
    <3>2. \A p \in DOMAIN seen : seen[p] # NotReading => PlanFits(seen[p][1], DOMAIN scratch)'
      BY <1>0, <1>1, <2>1 DEF PlanInv, SeenFits, PlanFits, Readable
    <3> QED BY <1>0, <1>1, <3>1, <3>2 DEF SeenFits, PlanInv
  <2>4. PlanFits(plan, DOMAIN scratch)'
    BY <1>0, <1>1, <2>1 DEF PlanInv, PlanFits, Readable
  <2> QED BY <1>0, <1>1, <1>3, <2>1, <2>2, <2>3, <2>4 DEF PlanInv, ScratchFits
<1> QED BY <1>4, <1>5

LEMMA PlanAdd ==
    ASSUME PlanInv, NEW f \in Workbooks, Lock(f) \/ AddRead(f) \/ AddStore(f) \/ Unlock(f)
    PROVE  PlanInv'
<1> USE Unmoved
<1>0. /\ files' = files /\ files \in Datasets /\ scratch' = scratch /\ stage' = stage /\ walked' = walked
      /\ walked \in Nat /\ DOMAIN worker = Workbooks /\ DOMAIN sheet = Workbooks
      /\ f \in DOMAIN seen /\ DOMAIN seen = Workbooks \union {Walk} /\ f # Walk
  BY FilesFit DEF PlanInv, WorkFits, SeenFits, Lock, AddRead, AddStore, Unlock
<1>1. CASE Lock(f)
  <2>1. /\ worker[f] = "waiting" /\ worker' = [worker EXCEPT ![f] = "adding"]
        /\ sheet' = sheet /\ seen' = seen /\ plan' = plan
    BY <1>1 DEF Lock
  <2>2. WorkFits'
    BY <1>0, <2>1 DEF PlanInv, WorkFits
  <2>3. SeenFits'
    BY <1>0, <2>1 DEF PlanInv, SeenFits, PlanFits, Readable
  <2>4. PlanFits(plan, DOMAIN scratch)'
    BY <1>0, <2>1 DEF PlanInv, PlanFits, Readable
  <2>5. stage = "planning"
    BY <2>1 DEF PlanInv
  <2> QED BY <1>0, <2>1, <2>2, <2>3, <2>4, <2>5 DEF PlanInv, ScratchFits
<1>2. CASE AddRead(f)
  <2>1. worker[f] = "adding" /\ worker' = worker /\ plan' = plan
    BY <1>2 DEF AddRead
  <2>2. stage = "planning"
    BY <2>1 DEF PlanInv
  <2>3. WorkFits'
    <3>1. DOMAIN sheet' = DOMAIN sheet
      BY <1>2 DEF AddRead, ReadPlan
    <3> QED BY <1>0, <2>1, <3>1 DEF PlanInv, WorkFits
  <2>4. PlanFits(plan, DOMAIN scratch)'
    BY <1>0, <2>1 DEF PlanInv, PlanFits, Readable
  <2>5. CASE sheet[f] \in TablesIn(f)
    <3>1. seen' = [seen EXCEPT ![f] = <<plan>>] /\ sheet' = sheet
      BY <1>2, <2>5 DEF AddRead, ReadPlan
    <3>2. DOMAIN seen' = DOMAIN seen /\ seen'[f][1] = plan /\ \A p \in DOMAIN seen : p # f => seen'[p] = seen[p]
      BY <1>0, <3>1
    <3>3. \A p \in DOMAIN seen : seen'[p] # NotReading => PlanFits(seen'[p][1], DOMAIN scratch)
      BY <3>2 DEF PlanInv, SeenFits
    <3>4. \A p \in DOMAIN seen : seen'[p] # NotReading => PlanFits(seen[p][1], DOMAIN scratch)'
      BY <1>0, <3>3 DEF PlanFits, Readable
    <3>5. SeenFits'
      BY <1>0, <2>1, <2>5, <3>1, <3>2, <3>4 DEF SeenFits, PlanInv
    <3> QED BY <1>0, <2>1, <2>2, <2>3, <2>4, <3>5 DEF PlanInv, ScratchFits
  <2>6. CASE sheet[f] \notin TablesIn(f)
    <3>1. seen' = seen /\ sheet' = [sheet EXCEPT ![f] = @ + 1]
      BY <1>2, <2>6 DEF AddRead
    <3>2. seen[f] = NotReading
      BY <2>6 DEF PlanInv, SeenFits
    <3>3. \A p \in DOMAIN seen : seen[p] # NotReading => PlanFits(seen[p][1], DOMAIN scratch)'
      BY <1>0, <3>1 DEF PlanInv, SeenFits, PlanFits, Readable
    <3>4. \A g \in Workbooks : seen[g] # NotReading => sheet'[g] = sheet[g]
      BY <1>0, <3>1, <3>2
    <3>5. SeenFits'
      BY <1>0, <2>1, <3>1, <3>3, <3>4 DEF SeenFits, PlanInv
    <3> QED BY <1>0, <2>1, <2>2, <2>3, <2>4, <3>5 DEF PlanInv, ScratchFits
  <2> QED BY <2>5, <2>6
<1>3. CASE AddStore(f)
  <2> DEFINE table == [file |-> f, sheet |-> sheet[f], path |-> Path(f, sheet[f]),
                       display |-> files[f].rel \o files[f].sheets[sheet[f]].name]
  <2>1. /\ seen[f] # NotReading /\ worker[f] = "adding" /\ sheet[f] \in TablesIn(f)
        /\ worker' = worker /\ sheet' = [sheet EXCEPT ![f] = @ + 1]
    BY <1>0, <1>3 DEF AddStore, StorePlan, PlanInv, SeenFits
  <2>2. sheet[f] \in SheetsOf(f) /\ sheet[f] # 0
    <3>1. TablesIn(f) \subseteq SheetsOf(f) /\ SheetsOf(f) \subseteq DOMAIN files[f].sheets
      BY DEF TablesIn, SheetsOf
    <3>2. DOMAIN files[f].sheets = 1..Len(files[f].sheets) /\ Len(files[f].sheets) \in Nat
      BY <1>0, FilesFit, SeqIsOf DEF IsSeq
    <3> QED BY <2>1, <3>1, <3>2
  <2>3. Readable(table, DOMAIN scratch)
    <3>1. Path(f, sheet[f]) \in DOMAIN scratch
      BY <2>1, <2>2 DEF PlanInv, WorkFits
    <3> QED BY <2>2, <3>1 DEF Readable
  <2>4. StorePlan(f, table)
    BY <1>3 DEF AddStore
  <2> HIDE DEF table
  <2>5. /\ PlanFits(plan, DOMAIN scratch)'
        /\ DOMAIN seen' = DOMAIN seen /\ seen'[f] = NotReading
        /\ \A q \in DOMAIN seen : q # f => seen'[q] = seen[q]
    BY <1>0, <2>3, <2>4, Stored
  <2>6. WorkFits'
    BY <1>0, <2>1 DEF PlanInv, WorkFits
  <2>7. SeenFits'
    <3>1. \A p \in DOMAIN seen : seen'[p] # NotReading => PlanFits(seen'[p][1], DOMAIN scratch)
      BY <2>5 DEF PlanInv, SeenFits
    <3>2. \A p \in DOMAIN seen : seen'[p] # NotReading => PlanFits(seen[p][1], DOMAIN scratch)'
      BY <1>0, <3>1 DEF PlanFits, Readable
    <3>3. \A g \in Workbooks : seen'[g] # NotReading => sheet'[g] = sheet[g] /\ seen[g] # NotReading
      BY <1>0, <2>1, <2>5
    <3> QED BY <1>0, <2>1, <2>5, <3>2, <3>3 DEF SeenFits, PlanInv
  <2>8. stage = "planning"
    BY <2>1 DEF PlanInv
  <2> QED BY <1>0, <2>5, <2>6, <2>7, <2>8 DEF PlanInv, ScratchFits
<1>4. CASE Unlock(f)
  <2>1. /\ worker[f] = "adding" /\ worker' = [worker EXCEPT ![f] = "done"]
        /\ sheet' = sheet /\ seen' = seen /\ plan' = plan /\ sheet[f] > Len(files[f].sheets)
    BY <1>4 DEF Unlock
  <2>2. seen[f] = NotReading
    <3>1. TablesIn(f) \subseteq DOMAIN files[f].sheets
      BY DEF TablesIn, SheetsOf
    <3>2. DOMAIN files[f].sheets = 1..Len(files[f].sheets) /\ Len(files[f].sheets) \in Nat
      BY <1>0, FilesFit, SeqIsOf DEF IsSeq
    <3> QED BY <2>1, <3>1, <3>2 DEF PlanInv, SeenFits
  <2>3. WorkFits'
    BY <1>0, <2>1 DEF PlanInv, WorkFits
  <2>4. SeenFits'
    BY <1>0, <2>1, <2>2 DEF PlanInv, SeenFits, PlanFits, Readable
  <2>5. PlanFits(plan, DOMAIN scratch)'
    BY <1>0, <2>1 DEF PlanInv, PlanFits, Readable
  <2>6. stage = "planning"
    BY <2>1 DEF PlanInv
  <2> QED BY <1>0, <2>1, <2>3, <2>4, <2>5, <2>6 DEF PlanInv, ScratchFits
<1> QED BY <1>1, <1>2, <1>3, <1>4

LEMMA PlanEnds == PlanInv /\ PlanDone => PlanInv'
<1> SUFFICES ASSUME PlanInv, PlanDone PROVE PlanInv'
  OBVIOUS
<1> USE Unmoved
<1>0. /\ files' = files /\ files \in Datasets /\ scratch' = scratch /\ walked' = walked
      /\ worker' = worker /\ sheet' = sheet /\ seen' = seen
      /\ seen[Walk] = NotReading /\ \A f \in Workbooks : worker[f] = "done"
  BY DEF PlanInv, PlanDone
<1>1. PICK p \in Orders([k \in DOMAIN plan |-> plan[k].display]) :
         plan' = AssignNames([k \in DOMAIN plan |-> plan[p[k]]])
  BY DEF PlanDone
<1>2. p \in [DOMAIN plan -> DOMAIN plan]
  BY Fun_BijectionProperties DEF Orders
<1> DEFINE planned == [k \in DOMAIN plan |-> plan[p[k]]]
           after == AssignNames(planned)
<1>3. /\ DOMAIN after = DOMAIN plan /\ after = [k \in DOMAIN plan |-> after[k]]
      /\ \A k \in DOMAIN plan : /\ after[k].file = plan[p[k]].file
                                /\ after[k].sheet = plan[p[k]].sheet
                                /\ after[k].path = plan[p[k]].path
  BY DEF AssignNames
<1> HIDE DEF after
<1>4. DOMAIN plan = 1..Len(plan) /\ Len(plan) \in Nat
  BY SeqIsOf DEF PlanInv, PlanFits, IsSeq
<1>5. IsSeq(after)
  BY <1>3, <1>4, SeqByDomain
<1>6. \A k \in DOMAIN plan : Readable(after[k], DOMAIN scratch)
  BY <1>2, <1>3 DEF PlanInv, PlanFits, Readable
<1>7. plan' = after
  BY <1>1 DEF after
<1>8. PlanFits(plan, DOMAIN scratch)'
  BY <1>0, <1>3, <1>5, <1>6, <1>7 DEF PlanFits, Readable
<1>9. WorkFits'
  BY <1>0 DEF PlanInv, WorkFits
<1>10. SeenFits'
  BY <1>0 DEF PlanInv, SeenFits, PlanFits, Readable
<1> QED BY <1>0, <1>8, <1>9, <1>10 DEF PlanInv, ScratchFits

\* Nothing else touches the plan: not the load, and not what comes after it.
LEMMA PlanKept ==
    ASSUME PlanInv, stage # "planning",
           UNCHANGED <<files, walked, worker, sheet, seen, plan, scratch>>
    PROVE  PlanInv'
<1>1. WorkFits' /\ ScratchFits' /\ SeenFits'
  BY Unmoved DEF PlanInv, WorkFits, ScratchFits, SeenFits, PlanFits, Readable
<1>2. PlanFits(plan, DOMAIN scratch)'
  BY Unmoved DEF PlanInv, PlanFits, Readable
<1> QED BY <1>1, <1>2, Unmoved DEF PlanInv

-----------------------------------------------------------------------------
(* The tables that are loaded.                                             *)

\* No other table has the name of this one.
Alone(n) == \A m \in DOMAIN tables : tables[m].name = tables[n].name => m = n

LoadInv ==
    /\ IsSeq(tables)
    /\ \A n \in DOMAIN tables :
          /\ {"name", "columns", "rowCount"} \subseteq DOMAIN tables[n]
          /\ IsSeq(tables[n].columns)
          /\ tables[n].rowCount \in Nat
          /\ tables[n].name \in DOMAIN engine
          /\ Alone(n) => tables[n].rowCount = Size(engine[tables[n].name])
    /\ \A name \in DOMAIN engine : IsFiniteSet(DOMAIN engine[name].rows)

LEMMA SourceFits ==
    ASSUME PlanInv, NEW p, Readable(p, DOMAIN scratch)
    PROVE  IsSeq(Source(p).columns) /\ IsFiniteSet(DOMAIN Source(p).rows)
<1>1. CASE p.sheet = 0
  <2>1. p.file \in DOMAIN files /\ files[p.file].kind = "csv"
    BY <1>1 DEF Readable
  <2>2. /\ IsSeq(files[p.file].header) /\ IsSeq(files[p.file].sniffed)
        /\ IsFiniteSet(DOMAIN files[p.file].rows)
    BY <2>1, FilesFit DEF PlanInv
  <2>3. /\ Source(p).columns = ColumnsFor(SniffedNames(files[p.file]), files[p.file].header)
        /\ Source(p).rows = files[p.file].rows
    BY <1>1 DEF Source
  <2>4. IsSeq(SniffedNames(files[p.file]))
    BY <2>2, NamesFit DEF SniffedNames
  <2> QED BY <2>2, <2>3, <2>4, NamesFit
<1>2. CASE p.sheet # 0
  <2>1. p.path \in DOMAIN scratch
    BY <1>2 DEF Readable
  <2>2. IsSeq(scratch[p.path].header) /\ IsFiniteSet(DOMAIN scratch[p.path].body)
    BY <2>1 DEF PlanInv, ScratchFits
  <2>3. /\ Source(p).columns = ColumnsFor(EngineNames(scratch[p.path].header),
                                          Written(files[p.file].sheets[p.sheet]).header)
        /\ Source(p).rows = scratch[p.path].body
    BY <1>2 DEF Source
  <2> QED BY <2>2, <2>3, NamesFit
<1> QED BY <1>1, <1>2

LEMMA SeqAppended ==
    ASSUME NEW s, IsSeq(s), NEW x
    PROVE  /\ IsSeq(Append(s, x)) /\ DOMAIN Append(s, x) = DOMAIN s \union {Len(s) + 1}
           /\ \A k \in DOMAIN s : k # Len(s) + 1 /\ Append(s, x)[k] = s[k]
           /\ Append(s, x)[Len(s) + 1] = x
<1> DEFINE S == Range(s) \union {x}
<1>1. s \in Seq(S)
  <2>1. Elements(s, S)
    BY DEF Elements, Range
  <2> HIDE DEF S
  <2> QED BY <2>1, SeqByElements
<1>2. Append(s, x) \in Seq(S) /\ DOMAIN Append(s, x) = DOMAIN s \union {Len(s) + 1}
  BY <1>1
<1>3. \A k \in DOMAIN s : k # Len(s) + 1 /\ Append(s, x)[k] = s[k]
  BY <1>1
<1>4. Append(s, x)[Len(s) + 1] = x
  BY <1>1
<1> QED BY <1>2, <1>3, <1>4, SeqIs

LEMMA LoadsOne == PlanInv /\ LoadInv /\ LoadOne => LoadInv'
<1> SUFFICES ASSUME PlanInv, LoadInv, LoadOne PROVE LoadInv'
  OBVIOUS
<1> DEFINE p == plan[Len(tables) + 1]
           s == Source(p)
           t == [name |-> p.name, display |-> p.display, columns |-> s.columns, rows |-> s.rows]
           e == [name |-> p.name, display |-> p.display, columns |-> s.columns,
                 rowCount |-> Size(t), rejects |-> 0, path |-> p.path,
                 notes |-> s.notes \union (IF Size(t) = 0 THEN {"ingest.no_rows"} ELSE {})]
<1>1. CASE ~(s.columns # <<>> /\ Distinct(s.columns))
  <2>1. tables' = tables /\ engine' = engine
    BY <1>1 DEF LoadOne, loadVars
  <2> QED BY <2>1 DEF LoadInv, Alone
<1>2. CASE s.columns # <<>> /\ Distinct(s.columns)
  <2>1. engine' = Over([name \in {p.name} |-> t], engine) /\ tables' = Append(tables, e)
    BY <1>2 DEF LoadOne
  <2>2. Readable(p, DOMAIN scratch)
    <3>1. DOMAIN plan = 1..Len(plan) /\ Len(plan) \in Nat /\ Len(tables) \in Nat
      BY SeqIsOf DEF PlanInv, PlanFits, LoadInv, IsSeq
    <3>2. Len(tables) + 1 \in DOMAIN plan
      BY <3>1 DEF LoadOne
    <3> QED BY <3>2 DEF PlanInv, PlanFits
  <2>3. IsSeq(s.columns) /\ IsFiniteSet(DOMAIN s.rows)
    BY <2>2, SourceFits
  <2>4. /\ t.rows = s.rows /\ e.columns = s.columns /\ e.name = p.name /\ e.rowCount = Size(t)
        /\ {"name", "columns", "rowCount"} \subseteq DOMAIN e
    OBVIOUS
  <2>9. Size(t) \in Nat
    <3>1. Size(t) = Cardinality(DOMAIN s.rows)
      BY DEF Size
    <3> HIDE DEF e, t, s, p
    <3> QED BY <2>3, <3>1, FS_CardinalityType
  <2> HIDE DEF e, t, s, p
  <2> DEFINE one == [name \in {p.name} |-> t]
  <2>5. /\ DOMAIN engine' = {p.name} \union DOMAIN engine
        /\ engine'[p.name] = t
        /\ \A name \in DOMAIN engine \ {p.name} : engine'[name] = engine[name]
    <3>1. DOMAIN one = {p.name} /\ one[p.name] = t /\ engine' = Over(one, engine)
      BY <2>1
    <3> HIDE DEF one
    <3>2. /\ DOMAIN Over(one, engine) = DOMAIN one \union DOMAIN engine
          /\ \A k \in DOMAIN one : Over(one, engine)[k] = one[k]
          /\ \A k \in DOMAIN engine \ DOMAIN one : Over(one, engine)[k] = engine[k]
      BY OverIs
    <3> QED BY <3>1, <3>2
  <2> HIDE DEF one
  <2> DEFINE new == Len(tables) + 1
  <2>6. /\ IsSeq(tables') /\ DOMAIN tables' = DOMAIN tables \union {new}
        /\ \A k \in DOMAIN tables : k # new /\ tables'[k] = tables[k]
        /\ tables'[new] = e
    BY <2>1, SeqAppended DEF LoadInv
  <2> HIDE DEF new
  <2>7. ASSUME NEW n \in DOMAIN tables'
        PROVE  /\ {"name", "columns", "rowCount"} \subseteq DOMAIN tables'[n]
               /\ IsSeq(tables'[n].columns)
               /\ tables'[n].rowCount \in Nat
               /\ tables'[n].name \in DOMAIN engine'
               /\ (\A m \in DOMAIN tables' : tables'[m].name = tables'[n].name => m = n)
                     => tables'[n].rowCount = Size(engine'[tables'[n].name])
    <3>1. CASE n = new
      BY <2>3, <2>4, <2>5, <2>6, <2>9, <3>1
    <3>2. CASE n # new
      <4>1. n \in DOMAIN tables /\ tables'[n] = tables[n]
        BY <2>6, <3>2
      <4>2. tables[n].name \in DOMAIN engine /\ tables[n].rowCount \in Nat /\ IsSeq(tables[n].columns)
           /\ {"name", "columns", "rowCount"} \subseteq DOMAIN tables[n]
        BY <4>1 DEF LoadInv
      <4>3. ASSUME \A m \in DOMAIN tables' : tables'[m].name = tables'[n].name => m = n
            PROVE  tables[n].rowCount = Size(engine'[tables[n].name])
        <5>1. tables[n].name # p.name
          BY <2>4, <2>6, <3>2, <4>1, <4>3
        <5>2. Alone(n)
          BY <2>6, <4>1, <4>3 DEF Alone
        <5>3. tables[n].rowCount = Size(engine[tables[n].name])
          BY <4>1, <5>2 DEF LoadInv
        <5> QED BY <2>5, <4>2, <5>1, <5>3
      <4> QED BY <2>5, <4>1, <4>2, <4>3
    <3> QED BY <3>1, <3>2
  <2>8. ASSUME NEW name \in DOMAIN engine' PROVE IsFiniteSet(DOMAIN engine'[name].rows)
    BY <2>3, <2>4, <2>5 DEF LoadInv
  <2> QED BY <2>6, <2>7, <2>8 DEF LoadInv, Alone
<1> QED BY <1>1, <1>2

LEMMA LoadsAttach == LoadInv /\ Attach => LoadInv'
<1> SUFFICES ASSUME LoadInv, Attach PROVE LoadInv'
  OBVIOUS
<1> DEFINE last(n) == \A m \in DOMAIN tables : tables[m].path = tables[n].path => m <= n
           of(n) == IF tables[n].path \in DOMAIN rejected /\ last(n) THEN rejected[tables[n].path] ELSE 0
           each == [n \in DOMAIN tables |->
                      [tables[n] EXCEPT !.rejects = of(n),
                                        !.notes = IF of(n) = 0 THEN @
                                                  ELSE @ \union {"ingest.rejected_rows"}]]
           names == [n \in DOMAIN tables |-> tables[n].name]
<1>1. PICK p \in Orders(names) : tables' = [n \in DOMAIN tables |-> each[p[n]]]
  BY DEF Attach
<1>2. /\ p \in [DOMAIN tables -> DOMAIN tables]
      /\ \A m \in DOMAIN tables : \E n \in DOMAIN tables : p[n] = m
      /\ \A m, n \in DOMAIN tables : p[m] = p[n] => m = n
  <2>1. p \in Bijection(DOMAIN tables, DOMAIN tables)
    <3>1. DOMAIN names = DOMAIN tables
      OBVIOUS
    <3> HIDE DEF names
    <3> QED BY <3>1 DEF Orders
  <2> QED BY <2>1, Fun_BijectionProperties
<1>3. \A n \in DOMAIN tables : /\ each[n].name = tables[n].name
                               /\ each[n].columns = tables[n].columns
                               /\ each[n].rowCount = tables[n].rowCount
                               /\ {"name", "columns", "rowCount"} \subseteq DOMAIN each[n]
  BY DEF LoadInv
<1> HIDE DEF each
<1>4. DOMAIN tables = 1..Len(tables) /\ Len(tables) \in Nat
  BY SeqIsOf DEF LoadInv, IsSeq
<1>5. engine' = engine /\ DOMAIN tables' = DOMAIN tables
  BY <1>1 DEF Attach
<1>6. IsSeq(tables')
  BY <1>1, <1>4, <1>5, SeqByDomain
<1>7. \A n \in DOMAIN tables : /\ tables'[n].name = tables[p[n]].name
                               /\ tables'[n].columns = tables[p[n]].columns
                               /\ tables'[n].rowCount = tables[p[n]].rowCount
                               /\ {"name", "columns", "rowCount"} \subseteq DOMAIN tables'[n]
                               /\ p[n] \in DOMAIN tables
  BY <1>1, <1>2, <1>3
<1>8. ASSUME NEW n \in DOMAIN tables,
             \A m \in DOMAIN tables : tables'[m].name = tables'[n].name => m = n
      PROVE  Alone(p[n])
  BY <1>2, <1>7, <1>8 DEF Alone
<1>9. \A n \in DOMAIN tables' :
          /\ {"name", "columns", "rowCount"} \subseteq DOMAIN tables'[n]
          /\ IsSeq(tables'[n].columns)
          /\ tables'[n].rowCount \in Nat
          /\ tables'[n].name \in DOMAIN engine'
          /\ (\A m \in DOMAIN tables' : tables'[m].name = tables'[n].name => m = n)
                => tables'[n].rowCount = Size(engine'[tables'[n].name])
  BY <1>5, <1>7, <1>8 DEF LoadInv
<1> QED BY <1>5, <1>6, <1>9 DEF LoadInv, Alone

\* What the load is to know of the plan, and what it has loaded.
IngestInv == PlanInv /\ LoadInv

LEMMA IngestInvariant == Spec => []IngestInv
<1>1. Init => IngestInv
  <2> SUFFICES ASSUME Init PROVE LoadInv
    BY PlanStart DEF IngestInv
  <2>1. tables = <<>> /\ engine = <<>>
    BY DEF Init, InitIngest
  <2> QED BY <2>1, NothingIs DEF LoadInv
<1>2. IngestInv /\ [Next]_vars => IngestInv'
  <2> SUFFICES ASSUME IngestInv, [Next]_vars PROVE IngestInv'
    OBVIOUS
  <2> USE DEF IngestInv
  <2>1. ASSUME tables' = tables, engine' = engine PROVE LoadInv'
    BY <2>1 DEF LoadInv, Alone
  <2>2. CASE WalkCSVRead \/ WalkCSVStore \/ WalkWorkbook
    BY <2>1, <2>2, PlanWalk DEF WalkCSVRead, WalkCSVStore, WalkWorkbook, loadVars
  <2>3. ASSUME NEW f \in Workbooks, Decode(f) \/ Lock(f) \/ AddRead(f) \/ AddStore(f) \/ Unlock(f)
        PROVE  IngestInv'
    BY <2>1, <2>3, PlanDecode, PlanAdd DEF Decode, Lock, AddRead, AddStore, Unlock, loadVars
  <2>4. CASE PlanDone
    BY <2>1, <2>4, PlanEnds DEF PlanDone, loadVars
  <2>5. CASE LoadOne
    BY <2>5, LoadsOne, PlanKept DEF LoadOne
  <2>6. CASE Attach
    BY <2>6, LoadsAttach, PlanKept DEF Attach
  <2>7. CASE ProfileData \/ CheckData \/ ApplyRules \/ ProposeRules \/ Verify
    BY <2>1, <2>7, PlanKept DEF ProfileData, CheckData, ApplyRules, ProposeRules, Verify, loadVars
  <2>8. CASE UNCHANGED vars
    <3>1. tables' = tables /\ engine' = engine
      BY <2>8 DEF vars, ingestVars
    <3>2. PlanInv'
      BY <2>8, Unmoved DEF vars, ingestVars, PlanInv, WorkFits, ScratchFits, SeenFits, PlanFits, Readable
    <3> QED BY <2>1, <3>1, <3>2
  <2> QED BY <2>2, <2>3, <2>4, <2>5, <2>6, <2>7, <2>8 DEF Next, IngestData, IngestStep
<1> QED BY <1>1, <1>2, PTL DEF Spec

-----------------------------------------------------------------------------
(* The pass, stage by stage.                                               *)

\* A rule that was proposed, and what was found of it.
FromIdea(p, r, env) ==
    /\ p.rule = Materialized(r, env)
    /\ p.fromData = r.current
    /\ p.brokenBy = BrokenToday(Materialized(r, env), env)
    /\ \E made : Proposable(r, BrokenToday(Materialized(r, env), env), rules.file, made, env)

PassInv ==
    /\ rules \in RuleSets
    /\ stage \in {"checks", "rules", "agent", "verify", "done"} =>
          \E failed : profile = Profile(engine, tables, failed)
    /\ stage = "rules" => found = RunChecks(Env)
    /\ stage \in {"agent", "verify", "done"} =>
          found = AddAll(RunChecks(Env), Evaluate(rules.file, Env))
    /\ stage = "done" =>
          LET stays == {k \in DOMAIN found : ~Dropped(found[k], Remeasured(found[k]))} IN
          reported = [k \in stays |-> Checked(found[k], Remeasured(found[k]))]
    /\ proposals # {} => stage \in {"verify", "done"}
    /\ \A p \in proposals : \E k \in DOMAIN rules.ideas : FromIdea(p, rules.ideas[k], Env)

LEMMA PassInvariant == Spec => []PassInv
<1>1. Init => PassInv
  BY DEF Init, InitIngest, PassInv
<1>2. PassInv /\ [Next]_vars => PassInv'
  <2> SUFFICES ASSUME PassInv, [Next]_vars PROVE PassInv'
    OBVIOUS
  <2>1. ASSUME tables' = tables, engine' = engine, profile' = profile
        PROVE  Env' = Env /\ \A f : Remeasured(f)' = Remeasured(f)
    BY <2>1 DEF Env, Remeasured
  <2>2. ASSUME UNCHANGED <<stage, tables, engine, rules, profile, found, proposals, reported>>
        PROVE  PassInv'
    BY <2>1, <2>2 DEF PassInv, FromIdea
  <2>3. CASE IngestData
    <3> UNCHANGED <<rules, profile, found, proposals, reported>>
      BY <2>3 DEF IngestData
    <3>1. CASE WalkCSVRead \/ WalkCSVStore \/ WalkWorkbook
      BY <2>2, <3>1 DEF WalkCSVRead, WalkCSVStore, WalkWorkbook, loadVars
    <3>2. ASSUME NEW f \in Workbooks, Decode(f) \/ Lock(f) \/ AddRead(f) \/ AddStore(f) \/ Unlock(f)
          PROVE  PassInv'
      BY <2>2, <3>2 DEF Decode, Lock, AddRead, AddStore, Unlock, loadVars
    <3>3. CASE PlanDone \/ LoadOne \/ Attach
      <4>1. stage \in {"planning", "loading"} /\ stage' \in {"loading", "failed", "profile"}
        BY <3>3 DEF PlanDone, LoadOne, Attach, loadVars
      <4>2. proposals = {}
        BY <4>1 DEF PassInv
      <4> QED BY <4>1, <4>2 DEF PassInv
    <3> QED BY <2>3, <3>1, <3>2, <3>3 DEF IngestData, IngestStep
  <2>4. CASE ProfileData
    <3>1. /\ stage = "profile" /\ stage' = "checks" /\ proposals' = proposals
          /\ rules' = rules /\ tables' = tables /\ engine' = engine
      BY <2>4 DEF ProfileData, loadVars
    <3>2. \E failed : profile' = Profile(engine, tables, failed)
      BY <2>4 DEF ProfileData
    <3>3. proposals = {}
      BY <3>1 DEF PassInv
    <3> QED BY <3>1, <3>2, <3>3 DEF PassInv
  <2>5. CASE CheckData
    <3>1. /\ stage = "checks" /\ stage' = "rules" /\ proposals' = proposals /\ found' = RunChecks(Env)
          /\ rules' = rules /\ tables' = tables /\ engine' = engine /\ profile' = profile
      BY <2>5 DEF CheckData, loadVars
    <3>2. proposals = {}
      BY <3>1 DEF PassInv
    <3> QED BY <2>1, <3>1, <3>2 DEF PassInv
  <2>6. CASE ApplyRules
    <3>1. /\ stage = "rules" /\ stage' = "agent" /\ proposals' = proposals
          /\ found' = AddAll(found, Evaluate(rules.file, Env))
          /\ rules' = rules /\ tables' = tables /\ engine' = engine /\ profile' = profile
      BY <2>6 DEF ApplyRules, loadVars
    <3>2. proposals = {} /\ found = RunChecks(Env)
      BY <3>1 DEF PassInv
    <3> QED BY <2>1, <3>1, <3>2 DEF PassInv
  <2>7. CASE ProposeRules
    <3>1. /\ stage = "agent" /\ stage' = "verify" /\ found' = found
          /\ rules' = rules /\ tables' = tables /\ engine' = engine /\ profile' = profile
      BY <2>7 DEF ProposeRules, loadVars
    <3>2. Env' = Env
      BY <2>1, <3>1
    <3>3. \A p \in proposals' : \E k \in DOMAIN rules.ideas : FromIdea(p, rules.ideas[k], Env)
      <4> SUFFICES ASSUME NEW p \in proposals'
                   PROVE  \E k \in DOMAIN rules.ideas : FromIdea(p, rules.ideas[k], Env)
        OBVIOUS
      <4>1. PICK k \in DOMAIN rules.ideas :
               /\ Proposable(rules.ideas[k], BrokenToday(Materialized(rules.ideas[k], Env), Env),
                             rules.file, {rules.ideas[j] : j \in 1..k - 1}, Env)
               /\ p = [rule |-> Materialized(rules.ideas[k], Env),
                       fromData |-> rules.ideas[k].current,
                       brokenBy |-> BrokenToday(Materialized(rules.ideas[k], Env), Env)]
        BY <2>7 DEF ProposeRules
      <4> QED BY <4>1 DEF FromIdea
    <3>4. \A p \in proposals' : \E k \in DOMAIN rules'.ideas : FromIdea(p, rules.ideas[k], Env)'
      BY <3>1, <3>2, <3>3 DEF FromIdea
    <3> QED BY <3>1, <3>2, <3>4 DEF PassInv
  <2>8. CASE Verify
    <3>1. /\ stage = "verify" /\ stage' = "done" /\ found' = found /\ proposals' = proposals
          /\ rules' = rules /\ tables' = tables /\ engine' = engine /\ profile' = profile
      BY <2>8 DEF Verify, loadVars
    <3>2. Env' = Env /\ \A f : Remeasured(f)' = Remeasured(f)
      BY <2>1, <3>1
    <3>3. reported' = [k \in {k \in DOMAIN found : ~Dropped(found[k], Remeasured(found[k]))} |->
                         Checked(found[k], Remeasured(found[k]))]
      BY <2>8 DEF Verify
    <3>4. \A p \in proposals' : \E k \in DOMAIN rules'.ideas : FromIdea(p, rules.ideas[k], Env)'
      BY <3>1, <3>2 DEF PassInv, FromIdea
    <3> QED BY <3>1, <3>2, <3>3, <3>4 DEF PassInv
  <2>9. CASE UNCHANGED vars
    BY <2>2, <2>9 DEF vars, ingestVars
  <2> QED BY <2>3, <2>4, <2>5, <2>6, <2>7, <2>8, <2>9 DEF Next
<1> QED BY <1>1, <1>2, PTL DEF Spec

-----------------------------------------------------------------------------
(* What the engine answers.                                                *)

LEMMA AnswerWhere ==
    ASSUME NEW env, NEW c, NEW where
    PROVE  Answer(env.engine, CountWhere(env, c, where))
             = CountIn(Column(env.engine[Where(env, c)[1]], Where(env, c)[2]), where)
<1> DEFINE q == CountWhere(env, c, where)
<1>1. /\ q.asks = "where" /\ q.table = Where(env, c)[1] /\ q.column = Where(env, c)[2]
      /\ q.where = where
  BY DEF CountWhere, Query, Where
<1> HIDE DEF q
<1>2. Answer(env.engine, q) = CountIn(Column(env.engine[q.table], q.column), q.where)
  BY <1>1 DEF Answer
<1> QED BY <1>1, <1>2 DEF q

-----------------------------------------------------------------------------
(* Rules whose values are read from the data.                              *)

EnvFits(env) == IsSeq(env.tables) /\ \A n \in DOMAIN env.tables : IsSeq(env.tables[n].columns)

\* The values a rule is given its own from that the two foldings read differently.
Odd(r, env) == {u \in Present(r, env) : r.ignoreCase /\ GoFolded[u] # Folded[u]}

\* What breaks w on the columns it targets compares as equal to an odd value of r.
BrokenByOddOnly(w, r, env) ==
    \A c \in Targets(w, env) :
       LET column == Column(env.engine[Where(env, c)[1]], Where(env, c)[2]) IN
       \A v \in Range(column) \intersect Breaking(w, column, <<>>) :
          \E u \in Odd(r, env) : Folded[u] = Folded[v]

\* No value a rule was given its own from breaks it, but those that compare as equal to an
\* odd one.
LEMMA HeldHold ==
    ASSUME NEW env, NEW r, NEW w, NEW c \in Targets(r, env),
           w.expect = "one_of", w.values = Held(r, env), w.ignoreCase = r.ignoreCase,
           NEW other
    PROVE  LET column == Column(env.engine[Where(env, c)[1]], Where(env, c)[2]) IN
           /\ \A v \in Range(column) \intersect Breaking(w, column, other) :
                 \E u \in Odd(r, env) : Folded[u] = Folded[v]
           /\ Odd(r, env) = {} => CountIn(column, Exempted(w, Breaking(w, column, other))) = 0
<1> DEFINE column == Column(env.engine[Where(env, c)[1]], Where(env, c)[2])
           breaking == {v \in NonBlank : Comparable(w, v) \notin Permitted(w)}
<1>1. Breaking(w, column, other) = breaking
  BY DEF Breaking
<1>2. Exempted(w, breaking) \subseteq breaking
  BY DEF Exempted
<1>3. \A v : Comparable(w, v) = Comparable(r, v)
  BY DEF Comparable
<1>4. ASSUME NEW v \in Range(column) \intersect breaking
      PROVE  \E u \in Odd(r, env) : Folded[u] = Folded[v]
  <2> DEFINE held == Present(r, env)
  <2>1. v \in held
    BY <1>4 DEF Present
  <2> DEFINE u == CHOOSE u \in held : Comparable(r, u) = Comparable(r, v)
  <2>2. u \in held /\ Comparable(r, u) = Comparable(r, v)
    <3> HIDE DEF column, held
    <3> QED BY <2>1
  <2>3. u \in w.values
    <3>1. w.values = {CHOOSE u1 \in held : Comparable(r, u1) = Comparable(r, v1) : v1 \in held}
      BY DEF Held
    <3> HIDE DEF held
    <3> QED BY <2>1, <3>1
  <2> HIDE DEF u, held, column
  <2>4. Comparable(r, v) \notin Permitted(w)
    BY <1>3, <1>4
  <2>5. CASE ~r.ignoreCase
    <3>1. u = v /\ u \in Permitted(w) /\ Comparable(r, v) = v
      BY <2>2, <2>3, <2>5 DEF Comparable, Permitted
    <3> QED BY <2>4, <3>1
  <2>6. CASE r.ignoreCase
    <3>1. Folded[u] = Folded[v] /\ GoFolded[u] \in Permitted(w) /\ Comparable(r, v) = Folded[v]
      BY <2>2, <2>3, <2>6 DEF Comparable, Permitted
    <3>2. u \in Odd(r, env)
      BY <2>2, <2>4, <2>6, <3>1 DEF Odd, held
    <3> QED BY <3>1, <3>2
  <2> QED BY <2>5, <2>6
<1>5. ASSUME Odd(r, env) = {} PROVE CountIn(column, Exempted(w, breaking)) = 0
  <2> HIDE DEF column, breaking
  <2>1. \A line \in DOMAIN column : column[line] \in Range(column)
    BY DEF Range
  <2>2. Lines(column, Exempted(w, breaking)) = {}
    BY <1>2, <1>4, <1>5, <2>1 DEF Lines
  <2> QED BY <2>2, FS_EmptySet DEF CountIn
<1> HIDE DEF column, breaking
<1> QED BY <1>1, <1>4, <1>5 DEF column

LEMMA ValuesHold ==
    ASSUME NEW env, EnvFits(env),
           NEW r, RuleFields \subseteq DOMAIN r, r.current, Usable(r), Materializes(r, env)
    PROVE  LET w == Materialized(r, env) IN
           /\ Usable(w) /\ ~w.current
           /\ Targets(w, env) = Targets(r, env) /\ w.ignoreCase = r.ignoreCase
           /\ BrokenByOddOnly(w, r, env)
           /\ Odd(r, env) = {} => EvaluateRule(w, env) = <<>>
<1> DEFINE w == Materialized(r, env)
<1>1. /\ w.id = r.id /\ w.table = r.table /\ w.column = r.column /\ w.expect = r.expect
      /\ w.values = Held(r, env) /\ w.ignoreCase = r.ignoreCase /\ w.current = FALSE
  BY DEF Materialized, RuleFields
<1>2. r.expect = "one_of" /\ w.expect = "one_of"
  BY <1>1 DEF Usable
<1>3. Held(r, env) # {}
  <2>1. Cardinality({}) = 0 /\ 0 \notin 1..MaxMaterializedValues
    BY FS_EmptySet DEF MaxMaterializedValues
  <2> QED BY <2>1 DEF Materializes
<1> HIDE DEF w
<1>4. Usable(w) /\ ~w.current
  BY <1>1, <1>2, <1>3 DEF Usable, Configured
<1>5. Targets(w, env) = Targets(r, env)
  <2>1. TablesOf(w, env) = TablesOf(r, env) /\ \A n : ColumnsNamed(w, env, n) = ColumnsNamed(r, env, n)
    BY <1>1 DEF TablesOf, ColumnsNamed
  <2> QED BY <1>1, <2>1 DEF Targets
<1>6. ASSUME Odd(r, env) = {}, NEW n, NEW i, <<n, i>> \in Targets(w, env)
      PROVE  EvaluateColumn(w, env, n, i) = <<>>
  <2> DEFINE at == Where(env, <<n, i>>)
             column == Column(env.engine[at[1]], at[2])
             where == Exempted(w, Breaking(w, column, Other(w, env)))
  <2>1. CountIn(column, where) = 0
    BY <1>1, <1>2, <1>5, <1>6, HeldHold
  <2>2. Answer(env.engine, CountWhere(env, <<n, i>>, where)) = CountIn(column, where)
    <3> HIDE DEF where
    <3> QED BY AnswerWhere
  <2>3. EvaluateColumn(w, env, n, i) = Violations(w, at, CountWhere(env, <<n, i>>, where), env)
    BY <1>2 DEF EvaluateColumn
  <2> HIDE DEF where, column, at
  <2>4. Violations(w, at, CountWhere(env, <<n, i>>, where), env) = <<>>
    BY <2>1, <2>2 DEF Violations, When
  <2> QED BY <2>3, <2>4
<1>7. ASSUME Odd(r, env) = {}, NEW n \in DOMAIN env.tables PROVE EvaluateTable(w, env, n) = <<>>
  <2> DEFINE parts == [i \in DOMAIN env.tables[n].columns |->
                         IF <<n, i>> \in Targets(w, env) THEN EvaluateColumn(w, env, n, i) ELSE <<>>]
  <2>1. EvaluateTable(w, env, n) = FlattenSeq(parts)
    BY <1>2 DEF EvaluateTable
  <2>2. /\ DOMAIN parts = DOMAIN env.tables[n].columns /\ parts = [i \in DOMAIN parts |-> parts[i]]
        /\ \A i \in DOMAIN parts : parts[i] = <<>>
    BY <1>6, <1>7
  <2>3. DOMAIN env.tables[n].columns = 1..Len(env.tables[n].columns) /\ Len(env.tables[n].columns) \in Nat
    BY SeqIsOf DEF EnvFits, IsSeq
  <2> HIDE DEF parts
  <2>4. IsSeq(parts)
    BY <2>2, <2>3, SeqByDomain
  <2> QED BY <2>1, <2>2, <2>4, FlattenedEmpty
<1>8. ASSUME Odd(r, env) = {} PROVE EvaluateRule(w, env) = <<>>
  <2> DEFINE parts == [n \in DOMAIN env.tables |-> EvaluateTable(w, env, n)]
  <2>1. EvaluateRule(w, env) = FlattenSeq(parts)
    BY <1>5 DEF EvaluateRule, Materializes
  <2>2. /\ DOMAIN parts = DOMAIN env.tables /\ parts = [n \in DOMAIN parts |-> parts[n]]
        /\ \A n \in DOMAIN parts : parts[n] = <<>>
    BY <1>7, <1>8
  <2>3. DOMAIN env.tables = 1..Len(env.tables) /\ Len(env.tables) \in Nat
    BY SeqIsOf DEF EnvFits, IsSeq
  <2> HIDE DEF parts
  <2>4. IsSeq(parts)
    BY <2>2, <2>3, SeqByDomain
  <2> QED BY <2>1, <2>2, <2>4, FlattenedEmpty
<1>9. ASSUME NEW c \in Targets(w, env),
             NEW v \in Range(Column(env.engine[Where(env, c)[1]], Where(env, c)[2]))
                         \intersect Breaking(w, Column(env.engine[Where(env, c)[1]],
                                                     Where(env, c)[2]), <<>>)
      PROVE  \E u \in Odd(r, env) : Folded[u] = Folded[v]
  BY <1>1, <1>2, <1>5, <1>9, HeldHold
<1>10. BrokenByOddOnly(w, r, env)
  BY <1>9 DEF BrokenByOddOnly
<1> QED BY <1>1, <1>4, <1>5, <1>8, <1>10 DEF w

LEMMA OneRule ==
    ASSUME NEW w, NEW env, Usable(w), ~w.current
    PROVE  /\ Loads(<<w>>)
           /\ EvaluateRule(w, env) = <<>> => Evaluate(<<w>>, env) = <<>> /\ BrokenToday(w, env) = 0
<1>1. DOMAIN <<w>> = 1..1 /\ <<w>>[1] = w /\ \A i \in 1..1 : i = 1
  OBVIOUS
<1> DEFINE file == <<w>>
<1>2. Loads(file)
  <2> HIDE DEF file
  <2>1. DOMAIN file = 1..1 /\ \A i \in DOMAIN file : i = 1 /\ file[i] = w
    BY <1>1 DEF file
  <2> QED BY <2>1 DEF Loads, Valid
<1>3. ASSUME EvaluateRule(w, env) = <<>> PROVE Evaluate(file, env) = <<>>
  <2> DEFINE parts == [k \in DOMAIN file |-> EvaluateRule(file[k], env)]
  <2>1. DOMAIN parts = 1..1 /\ parts = [k \in 1..1 |-> parts[k]] /\ \A k \in DOMAIN parts : parts[k] = <<>>
    BY <1>1, <1>3
  <2>2. Evaluate(file, env) = FlattenSeq(parts)
    BY DEF Evaluate
  <2> HIDE DEF parts
  <2>3. IsSeq(parts)
    BY <2>1, SeqByDomain
  <2> QED BY <2>1, <2>2, <2>3, FlattenedEmpty
<1>4. ASSUME EvaluateRule(w, env) = <<>> PROVE BrokenToday(w, env) = 0
  <2> DEFINE broken == {k \in DOMAIN EvaluateRule(w, env) : EvaluateRule(w, env)[k].rule = RuleCode[w.id]}
             counts == [k \in broken |-> EvaluateRule(w, env)[k].count]
  <2>1. BrokenToday(w, env) = Total(counts)
    BY DEF BrokenToday
  <2>2. DOMAIN counts = {}
    BY <1>4, NothingIs
  <2> HIDE DEF counts
  <2>3. UNION {{key} \X (1..counts[key]) : key \in DOMAIN counts} = {}
    BY <2>2
  <2> QED BY <2>1, <2>3, FS_EmptySet DEF Total
<1> QED BY <1>2, <1>3, <1>4

LEMMA LoadedFits == IngestInv => EnvFits(Env)
BY DEF IngestInv, LoadInv, EnvFits, Env

\* A rule that was given the values the data holds is one that loads, and that data does
\* not break it but where the two foldings part: what is proposed to the customer is true
\* of the tables it was read from.
THEOREM ProposedValuesAlwaysHoldToday == Spec => []ProposedValuesHoldToday
<1>1. IngestInv /\ PassInv => ProposedValuesHoldToday
  <2> SUFFICES ASSUME IngestInv, PassInv, NEW p \in proposals, p.fromData
               PROVE  LET odd == {u \in Present(p.rule, Env) :
                                    p.rule.ignoreCase /\ GoFolded[u] # Folded[u]}
                      IN  /\ Loads(<<p.rule>>)
                          /\ odd = {} => p.brokenBy = 0 /\ Evaluate(<<p.rule>>, Env) = <<>>
                          /\ \A c \in Targets(p.rule, Env) :
                                LET column == Column(engine[Where(Env, c)[1]], Where(Env, c)[2])
                                IN  \A v \in Range(column) \intersect Breaking(p.rule, column, <<>>) :
                                       \E u \in odd : Folded[u] = Folded[v]
    BY DEF ProposedValuesHoldToday
  <2>1. PICK k \in DOMAIN rules.ideas : FromIdea(p, rules.ideas[k], Env)
    BY DEF PassInv
  <2> DEFINE r == rules.ideas[k]
             w == Materialized(r, Env)
  <2>2. RuleFields \subseteq DOMAIN r
    BY RulesLoad DEF PassInv
  <2>3. r.current /\ p.rule = w /\ p.brokenBy = BrokenToday(w, Env)
    BY <2>1 DEF FromIdea
  <2>4. Usable(r) /\ Materializes(r, Env)
    <3>1. Valid(<<r>>) /\ (r.current => Materializes(r, Env))
      BY <2>1 DEF FromIdea, Proposable
    <3>2. DOMAIN <<r>> = 1..1 /\ <<r>>[1] = r /\ 1 \in 1..1
      OBVIOUS
    <3>3. Usable(r)
      BY <3>1, <3>2 DEF Valid
    <3> QED BY <2>3, <3>1, <3>3
  <2> HIDE DEF r
  <2>5. /\ Usable(w) /\ ~w.current
        /\ Targets(w, Env) = Targets(r, Env) /\ w.ignoreCase = r.ignoreCase
        /\ BrokenByOddOnly(w, r, Env)
        /\ Odd(r, Env) = {} => EvaluateRule(w, Env) = <<>>
    BY <2>2, <2>3, <2>4, LoadedFits, ValuesHold
  <2> HIDE DEF w
  <2>6. {u \in Present(p.rule, Env) : p.rule.ignoreCase /\ GoFolded[u] # Folded[u]} = Odd(r, Env)
    BY <2>3, <2>5 DEF Odd, Present
  <2>7. /\ Loads(<<w>>)
        /\ EvaluateRule(w, Env) = <<>> => Evaluate(<<w>>, Env) = <<>> /\ BrokenToday(w, Env) = 0
    BY <2>5, OneRule
  <2>8. ASSUME NEW c \in Targets(w, Env),
               NEW v \in Range(Column(engine[Where(Env, c)[1]], Where(Env, c)[2]))
                           \intersect Breaking(w, Column(engine[Where(Env, c)[1]], Where(Env, c)[2]), <<>>)
        PROVE  \E u \in Odd(r, Env) : Folded[u] = Folded[v]
    <3>1. Env.engine = engine
      BY DEF Env
    <3> QED BY <2>5, <2>8, <3>1 DEF BrokenByOddOnly
  <2> QED BY <2>3, <2>5, <2>6, <2>7, <2>8
<1> QED BY <1>1, IngestInvariant, PassInvariant, PTL

-----------------------------------------------------------------------------
(* The lines of a column, counted.                                         *)

LEMMA CountNat ==
    ASSUME NEW column, IsFiniteSet(DOMAIN column), NEW where
    PROVE  CountIn(column, where) \in Nat /\ IsFiniteSet(Lines(column, where))
<1>1. Lines(column, where) \in SUBSET DOMAIN column
  BY DEF Lines
<1>2. IsFiniteSet(Lines(column, where))
  BY <1>1, FS_Subset
<1> QED BY <1>2, FS_CardinalityType DEF CountIn

LEMMA CountMore ==
    ASSUME NEW column, IsFiniteSet(DOMAIN column), NEW few, NEW more, few \subseteq more
    PROVE  CountIn(column, few) <= CountIn(column, more)
<1>1. Lines(column, few) \in SUBSET Lines(column, more)
  BY DEF Lines
<1>2. IsFiniteSet(Lines(column, more))
  BY CountNat
<1> QED BY <1>1, <1>2, FS_Subset DEF CountIn

LEMMA CountApart ==
    ASSUME NEW column, IsFiniteSet(DOMAIN column), NEW a, NEW b, a \intersect b = {}
    PROVE  CountIn(column, a \union b) = CountIn(column, a) + CountIn(column, b)
<1>1. /\ Lines(column, a \union b) = Lines(column, a) \union Lines(column, b)
      /\ Lines(column, a) \intersect Lines(column, b) = {}
  BY DEF Lines
<1>2. /\ IsFiniteSet(Lines(column, a)) /\ IsFiniteSet(Lines(column, b))
      /\ CountIn(column, a) \in Nat /\ CountIn(column, b) \in Nat
  BY CountNat
<1>3. Cardinality(Lines(column, a) \union Lines(column, b))
        = Cardinality(Lines(column, a)) + Cardinality(Lines(column, b))
            - Cardinality(Lines(column, a) \intersect Lines(column, b))
  BY <1>2, FS_Union
<1>4. Cardinality(Lines(column, a) \intersect Lines(column, b)) = 0
  BY <1>1, FS_EmptySet
<1>5. \A x, y \in Nat : x + y - 0 = x + y
  OBVIOUS
<1>6. CountIn(column, a \union b) = CountIn(column, a) + CountIn(column, b) - 0
  BY <1>1, <1>3, <1>4 DEF CountIn
<1> QED BY <1>2, <1>5, <1>6

\* The same without the equality of a union: two parts of a whole.
LEMMA CountParts ==
    ASSUME NEW column, IsFiniteSet(DOMAIN column), NEW whole, NEW a, NEW b,
           whole = a \union b, a \intersect b = {}
    PROVE  /\ CountIn(column, whole) = CountIn(column, a) + CountIn(column, b)
           /\ CountIn(column, whole) \in Nat /\ CountIn(column, a) \in Nat /\ CountIn(column, b) \in Nat
BY CountApart, CountNat

\* The values that fold to one of some keys, and how many lines have those of each.
FoldedTo(where, fold, keys) == {v \in where : fold[v] \in keys}
CountOfEach(column, where, fold, keys) ==
    [key \in keys |-> CountIn(column, {v \in where : fold[v] = key})]

\* Groups that are counted one by one are counted together.
LEMMA CountGroups ==
    ASSUME NEW column, IsFiniteSet(DOMAIN column), NEW fold, NEW where, NEW keys
    PROVE  Total(CountOfEach(column, where, fold, keys)) = CountIn(column, FoldedTo(where, fold, keys))
<1> DEFINE counts == CountOfEach(column, where, fold, keys)
<1>0. counts = [key \in keys |-> CountIn(column, {v \in where : fold[v] = key})]
  BY DEF CountOfEach
<1> HIDE DEF counts
<1> DEFINE all == Lines(column, {v \in where : fold[v] \in keys})
           of(key) == Lines(column, {v \in where : fold[v] = key})
           pairs == UNION {{key} \X (1..counts[key]) : key \in DOMAIN counts}
           number(key) == CHOOSE g : g \in Bijection(of(key), 1..counts[key])
           at == [line \in all |-> <<fold[column[line]], number(fold[column[line]])[line]>>]
<1>1. \A line \in all : /\ fold[column[line]] \in keys
                        /\ line \in of(fold[column[line]])
                        /\ line \in DOMAIN column
  BY DEF Lines
<1>2. ASSUME NEW key \in keys PROVE number(key) \in Bijection(of(key), 1..counts[key])
  <2>1. IsFiniteSet(of(key)) /\ counts[key] = Cardinality(of(key))
    BY <1>0, CountNat DEF CountIn
  <2> HIDE DEF of
  <2>2. ExistsBijection(1..counts[key], of(key))
    BY <2>1, FS_CardinalityType
  <2>3. ExistsBijection(of(key), 1..counts[key])
    BY <2>2, Fun_ExistsBijSymmetric
  <2>4. \E g : g \in Bijection(of(key), 1..counts[key])
    BY <2>3 DEF ExistsBijection
  <2> QED BY <2>4
<1>3. ASSUME NEW key \in keys
      PROVE  /\ number(key) \in [of(key) -> 1..counts[key]]
             /\ \A a, b \in of(key) : number(key)[a] = number(key)[b] => a = b
             /\ \A k \in 1..counts[key] : \E a \in of(key) : number(key)[a] = k
  <2> HIDE DEF number, of
  <2> DEFINE S == of(key)
             T == 1..counts[key]
             g == number(key)
  <2>1. g \in Bijection(S, T)
    BY <1>2
  <2> HIDE DEF S, T, g
  <2>2. /\ g \in [S -> T]
        /\ \A a, b \in S : g[a] = g[b] => a = b
        /\ \A t \in T : \E x \in S : g[x] = t
    BY <2>1, Fun_BijectionProperties
  <2> QED BY <2>2 DEF S, T, g
<1>4. \A key \in keys : of(key) \subseteq all /\ \A line \in of(key) : fold[column[line]] = key
  BY DEF Lines
<1> HIDE DEF all, of, number
<1>5. DOMAIN counts = keys
  BY <1>0
<1>6. at \in [all -> pairs]
  <2> SUFFICES ASSUME NEW line \in all PROVE at[line] \in pairs
    OBVIOUS
  <2> DEFINE key == fold[column[line]]
  <2>1. key \in keys /\ line \in of(key)
    BY <1>1
  <2>2. number(key)[line] \in 1..counts[key]
    BY <1>3, <2>1
  <2> QED BY <1>5, <2>1, <2>2
<1>7. ASSUME NEW a \in all, NEW b \in all, at[a] = at[b] PROVE a = b
  <2> DEFINE key == fold[column[a]]
  <2>1. key = fold[column[b]] /\ number(key)[a] = number(key)[b]
    BY <1>7
  <2>2. key \in keys /\ a \in of(key) /\ b \in of(key)
    BY <1>1, <2>1
  <2> HIDE DEF key
  <2> QED BY <1>3, <2>1, <2>2
<1>8. ASSUME NEW q \in pairs PROVE \E a \in all : at[a] = q
  <2>1. PICK key \in keys : q \in {key} \X (1..counts[key])
    BY <1>5
  <2>2. PICK k \in 1..counts[key] : q = <<key, k>>
    BY <2>1
  <2>3. PICK a \in of(key) : number(key)[a] = k
    BY <1>3
  <2>4. a \in all /\ fold[column[a]] = key
    BY <1>4
  <2> QED BY <2>2, <2>3, <2>4
<1> HIDE DEF at, pairs
<1>9. at \in Bijection(all, pairs)
  BY <1>6, <1>7, <1>8, Fun_IsBij
<1>10. ExistsBijection(all, pairs)
  BY <1>9 DEF ExistsBijection
<1>11. IsFiniteSet(all)
  BY CountNat DEF all
<1>12. Cardinality(pairs) = Cardinality(all)
  BY <1>10, <1>11, FS_Bijection
<1> QED BY <1>12 DEF Total, CountIn, FoldedTo, pairs, all, counts

-----------------------------------------------------------------------------
(* What a check finds in the profile.                                      *)

Sound(env) ==
    /\ EnvFits(env)
    /\ \A n \in DOMAIN env.tables : env.tables[n].rowCount \in Nat /\ env.tables[n].name \in DOMAIN env.engine
    /\ \A name \in DOMAIN env.engine : IsFiniteSet(DOMAIN env.engine[name].rows)
    /\ \E failed : env.profile = Profile(env.engine, env.tables, failed)

\* The table and the column in the engine that a column of the load is.
TableAt(env, at) == env.engine[at[1]]
ColumnAt(env, at) == Column(env.engine[at[1]], at[2])

LEMMA ColumnIs ==
    ASSUME NEW t, NEW name
    PROVE  DOMAIN Column(t, name) = DOMAIN t.rows
             /\ Column(t, name) = [x \in DOMAIN t.rows |-> Column(t, name)[x]]
BY DEF Column

LEMMA PlaceIs ==
    ASSUME NEW env, Sound(env)
    PROVE  /\ DOMAIN env.profile = DOMAIN env.tables
           /\ \A n \in DOMAIN env.tables : /\ DOMAIN env.profile[n] = DOMAIN env.tables[n].columns
                                           /\ IsSeq(env.profile[n])
           /\ \A c \in ColumnsOf(env) :
                 /\ c = <<c[1], c[2]>>
                 /\ c[1] \in DOMAIN env.tables /\ c[2] \in DOMAIN env.tables[c[1]].columns
                 /\ Where(env, c) = <<env.tables[c[1]].name, env.tables[c[1]].columns[c[2]].name>>
                 /\ IsFiniteSet(DOMAIN TableAt(env, Where(env, c)).rows)
                 /\ IsFiniteSet(DOMAIN ColumnAt(env, Where(env, c)))
           /\ \A n \in DOMAIN env.tables : \A i \in DOMAIN env.tables[n].columns : <<n, i>> \in ColumnsOf(env)
<1>1. PICK failed : env.profile = Profile(env.engine, env.tables, failed)
  BY DEF Sound
<1>2. DOMAIN env.profile = DOMAIN env.tables
  BY <1>1 DEF Profile
<1>3. \A n \in DOMAIN env.tables :
         DOMAIN env.profile[n] = DOMAIN env.tables[n].columns
         /\ env.profile[n] = [i \in DOMAIN env.tables[n].columns |-> env.profile[n][i]]
  BY <1>1 DEF Profile
<1>4. \A n \in DOMAIN env.tables : IsSeq(env.profile[n])
  <2> TAKE n \in DOMAIN env.tables
  <2>1. DOMAIN env.tables[n].columns = 1..Len(env.tables[n].columns) /\ Len(env.tables[n].columns) \in Nat
    BY SeqIsOf DEF Sound, EnvFits, IsSeq
  <2> QED BY <1>3, <2>1, SeqByDomain
<1>5. ASSUME NEW c \in ColumnsOf(env)
      PROVE  /\ c = <<c[1], c[2]>>
             /\ c[1] \in DOMAIN env.tables /\ c[2] \in DOMAIN env.tables[c[1]].columns
             /\ Where(env, c) = <<env.tables[c[1]].name, env.tables[c[1]].columns[c[2]].name>>
             /\ IsFiniteSet(DOMAIN TableAt(env, Where(env, c)).rows)
             /\ IsFiniteSet(DOMAIN ColumnAt(env, Where(env, c)))
  <2>1. PICK n \in DOMAIN env.tables : c \in {<<n, i>> : i \in DOMAIN env.profile[n]}
    BY DEF ColumnsOf
  <2>2. PICK i \in DOMAIN env.tables[n].columns : c = <<n, i>>
    BY <1>3, <2>1
  <2>3. Where(env, c) = <<env.tables[c[1]].name, env.tables[c[1]].columns[c[2]].name>>
    BY DEF Where
  <2>4. TableAt(env, Where(env, c)) = env.engine[env.tables[n].name]
    BY <2>2, <2>3 DEF TableAt
  <2>5. IsFiniteSet(DOMAIN TableAt(env, Where(env, c)).rows)
    BY <2>4 DEF Sound
  <2>6. DOMAIN ColumnAt(env, Where(env, c)) = DOMAIN TableAt(env, Where(env, c)).rows
    BY ColumnIs DEF ColumnAt, TableAt
  <2> QED BY <2>2, <2>3, <2>5, <2>6
<1>6. \A n \in DOMAIN env.tables : \A i \in DOMAIN env.tables[n].columns : <<n, i>> \in ColumnsOf(env)
  <2> SUFFICES ASSUME NEW n \in DOMAIN env.tables, NEW i \in DOMAIN env.tables[n].columns
               PROVE  <<n, i>> \in ColumnsOf(env)
    OBVIOUS
  <2>1. <<n, i>> \in {<<n, j>> : j \in DOMAIN env.profile[n]}
    BY <1>3
  <2> QED BY <2>1 DEF ColumnsOf
<1> QED BY <1>2, <1>3, <1>4, <1>5, <1>6

RowCount(env, c) == env.tables[c[1]].rowCount

IsMeasured(env, c) ==
    /\ Of(env, c) = Measured(TableAt(env, Where(env, c)), Where(env, c)[2])
    /\ Size(TableAt(env, Where(env, c))) # 0
    /\ RowCount(env, c) # 0

\* A column is measured, is of a table without rows, or was not measured.
LEMMA ProfileIs ==
    ASSUME NEW env, Sound(env), NEW c \in ColumnsOf(env)
    PROVE  \/ IsMeasured(env, c)
           \/ RowCount(env, c) = 0 /\ Of(env, c) = Blank("empty", 0, TRUE)
           \/ Of(env, c) = Unprofiled(RowCount(env, c))
<1>1. PICK failed : env.profile = Profile(env.engine, env.tables, failed)
  BY DEF Sound
<1> DEFINE n == c[1]
           i == c[2]
           t == TableAt(env, Where(env, c))
           name == Where(env, c)[2]
<1>2. n \in DOMAIN env.tables /\ i \in DOMAIN env.tables[n].columns
  BY PlaceIs
<1>3. t = env.engine[env.tables[n].name] /\ name = env.tables[n].columns[i].name
  BY DEF TableAt, Where
<1> HIDE DEF t, name
<1>4. Of(env, c) = IF <<n, i>> \in failed THEN Unprofiled(env.tables[n].rowCount)
                   ELSE ProfileColumn(t, name, env.tables[n].rowCount)
  <2>1. env.profile[n] = [j \in DOMAIN env.tables[n].columns |->
            IF <<n, j>> \in failed THEN Unprofiled(env.tables[n].rowCount)
            ELSE ProfileColumn(env.engine[env.tables[n].name], env.tables[n].columns[j].name,
                               env.tables[n].rowCount)]
    BY <1>1, <1>2 DEF Profile
  <2> QED BY <1>2, <1>3, <2>1 DEF Of
<1>5. \/ ProfileColumn(t, name, env.tables[n].rowCount) = Blank("empty", 0, TRUE) /\ env.tables[n].rowCount = 0
      \/ ProfileColumn(t, name, env.tables[n].rowCount) = Unprofiled(env.tables[n].rowCount)
      \/ /\ ProfileColumn(t, name, env.tables[n].rowCount) = Measured(t, name)
         /\ env.tables[n].rowCount # 0 /\ Size(t) # 0
  BY DEF ProfileColumn
<1>6. \/ Of(env, c) = Blank("empty", 0, TRUE) /\ env.tables[n].rowCount = 0
      \/ Of(env, c) = Unprofiled(env.tables[n].rowCount)
      \/ Of(env, c) = Measured(t, name) /\ env.tables[n].rowCount # 0 /\ Size(t) # 0
  BY <1>4, <1>5
<1> QED BY <1>6 DEF IsMeasured, RowCount, t, name

LEMMA MeasuredIs ==
    ASSUME NEW t, NEW name
    PROVE  LET column == Column(t, name)
               m == Measured(t, name)
           IN  /\ m.measured
               /\ m.total = Size(t)
               /\ m.nulls = CountIn(column, {Null})
               /\ m.blanks = CountIn(column, Cells \ ({Null} \union NonBlank))
               /\ m.distinct = Cardinality(Range(column) \ {Null})
               /\ \E matched :
                     /\ m.inferred =
                            Infer(CountIn(column, NonBlank) - CountIn(column, NonBlank \intersect IsTextPlaceholder), matched)
                     /\ \A k \in Range(TestedKinds) :
                           matched[k] = CountIn(column, NonBlank \intersect Matches(k))
               /\ m.placeholders = Groups(column, Folded, IsTextPlaceholder \union IsNumberPlaceholder)
               /\ m.numeric = NumericDetail(column)
               /\ m.temporal = TemporalDetail(column)
<1> DEFINE column == Column(t, name)
           m == Measured(t, name)
<1>1. m.measured /\ m.total = Size(t)
  BY DEF Measured
<1>2. m.nulls = CountIn(column, {Null}) /\ m.blanks = CountIn(column, Cells \ ({Null} \union NonBlank))
  BY DEF Measured
<1>3. m.distinct = Cardinality(Range(column) \ {Null})
  BY DEF Measured
<1>4. m.placeholders = Groups(column, Folded, IsTextPlaceholder \union IsNumberPlaceholder)
      /\ m.numeric = NumericDetail(column) /\ m.temporal = TemporalDetail(column)
  BY DEF Measured
<1> DEFINE matched == [k \in Range(TestedKinds) |-> CountIn(column, NonBlank \intersect Matches(k))]
<1>5. m.inferred =
          Infer(CountIn(column, NonBlank) - CountIn(column, NonBlank \intersect IsTextPlaceholder), matched)
  BY DEF Measured
<1>6. \A k \in Range(TestedKinds) : matched[k] = CountIn(column, NonBlank \intersect Matches(k))
  OBVIOUS
<1> HIDE DEF m, matched
<1>7. \E x : /\ m.inferred =
                    Infer(CountIn(column, NonBlank) - CountIn(column, NonBlank \intersect IsTextPlaceholder), x)
             /\ \A k \in Range(TestedKinds) : x[k] = CountIn(column, NonBlank \intersect Matches(k))
  BY <1>5, <1>6
<1> QED BY <1>1, <1>2, <1>3, <1>4, <1>7 DEF m

-----------------------------------------------------------------------------
(* What a title claims, and what its query counts.                         *)

\* The number a title claims is what its query returns, and it is not nothing.
TitleHolds(env, f) ==
    /\ FindingFields \subseteq DOMAIN f
    /\ f.count = f.claimed
    /\ f.claimed \in Int /\ f.claimed > 0
    /\ Answer(env.engine, f.query) = f.claimed

LEMMA RaiseIs ==
    ASSUME NEW rule, NEW severity, NEW at, NEW count, NEW query
    PROVE  LET f == Raise(rule, severity, at, count, query)
           IN  /\ FindingFields \subseteq DOMAIN f
               /\ f.rule = rule /\ f.at = at /\ f.count = count /\ f.claimed = count /\ f.query = query
               /\ f.severity = severity
BY DEF Raise, FindingFields

LEMMA RaiseHolds ==
    ASSUME NEW env, NEW rule, NEW severity, NEW at, NEW count \in Int, count > 0, NEW query,
           Answer(env.engine, query) = count
    PROVE  TitleHolds(env, Raise(rule, severity, at, count, query))
BY RaiseIs DEF TitleHolds

LEMMA WhereHolds ==
    ASSUME NEW env, NEW c, NEW where
    PROVE  Answer(env.engine, CountWhere(env, c, where)) = CountIn(ColumnAt(env, Where(env, c)), where)
<1>1. Where(env, c)[1] = env.tables[c[1]].name /\ Where(env, c)[2] = env.tables[c[1]].columns[c[2]].name
  BY DEF Where
<1> QED BY <1>1, AnswerWhere DEF CountWhere, ColumnAt

\* What a word for "no value" or a magic number is, by its folded text.
LEMMA PlaceholderIs ==
    /\ \A v \in Cells \ {Null} : v \in IsTextPlaceholder \union IsNumberPlaceholder
                                   <=> Folded[v] \in TextPlaceholders \union NumberPlaceholders
    /\ IsTextPlaceholder \union IsNumberPlaceholder \subseteq NonBlank
    /\ NonBlank \subseteq Cells \ {Null}
    /\ Null \in Cells
BY CellFacts DEF IsTextPlaceholder, IsNumberPlaceholder, NonBlank, CellFacts

\* The gaps of a column: what was counted of each is counted by one query.
LEMMA GapsAre ==
    ASSUME NEW column, IsFiniteSet(DOMAIN column), NEW counted,
           counted \subseteq DOMAIN Groups(column, Folded, IsTextPlaceholder \union IsNumberPlaceholder)
    PROVE  LET groups == Groups(column, Folded, IsTextPlaceholder \union IsNumberPlaceholder)
               words == {v \in Cells \ {Null} : Folded[v] \in counted}
           IN  /\ Total([s \in counted |-> groups[s]]) = CountIn(column, words)
               /\ CountIn(column, {Null}) + CountIn(column, Cells \ ({Null} \union NonBlank))
                      = CountIn(column, Cells \ NonBlank)
               /\ CountIn(column, Cells \ NonBlank) + CountIn(column, words)
                    = CountIn(column, (Cells \ NonBlank) \union words)
               /\ CountIn(column, {Null}) \in Nat
               /\ CountIn(column, Cells \ ({Null} \union NonBlank)) \in Nat
               /\ CountIn(column, Cells \ NonBlank) \in Nat
               /\ CountIn(column, words) \in Nat
<1> DEFINE W == IsTextPlaceholder \union IsNumberPlaceholder
           groups == Groups(column, Folded, W)
           words == {v \in Cells \ {Null} : Folded[v] \in counted}
           counts == [s \in counted |-> groups[s]]
           blank == Cells \ ({Null} \union NonBlank)
<1>1. W \subseteq Cells \ {Null}
  BY PlaceholderIs
<1>2. DOMAIN groups = {Folded[v] : v \in W \intersect Range(column)}
      /\ \A s \in DOMAIN groups : groups[s] = CountIn(column, {v \in W : Folded[v] = s})
  BY DEF Groups
<1> HIDE DEF W, groups
<1>3. counts = CountOfEach(column, W, Folded, counted)
  BY <1>2 DEF groups, W, CountOfEach
<1>4. Total(counts) = CountIn(column, FoldedTo(W, Folded, counted))
  <2> HIDE DEF counts
  <2> QED BY <1>3, CountGroups
<1>5. FoldedTo(W, Folded, counted) = words
  <2>1. ASSUME NEW v \in words PROVE v \in W
    <3>1. PICK u \in W \intersect Range(column) : Folded[v] = Folded[u]
      BY <1>2 DEF groups, W
    <3> QED BY <1>1, <3>1, PlaceholderIs DEF W
  <2> QED BY <1>1, <2>1 DEF FoldedTo
<1>6. /\ Cells \ NonBlank = {Null} \union blank
      /\ {Null} \intersect blank = {}
      /\ (Cells \ NonBlank) \intersect words = {}
  <2>1. words \subseteq NonBlank
    BY <1>1, <1>5, PlaceholderIs DEF W, FoldedTo
  <2> QED BY <2>1, PlaceholderIs
<1>7. CountIn(column, Cells \ NonBlank) = CountIn(column, {Null}) + CountIn(column, blank)
  <2> HIDE DEF blank
  <2> QED BY <1>6, CountParts
<1>8. CountIn(column, (Cells \ NonBlank) \union words) = CountIn(column, Cells \ NonBlank) + CountIn(column, words)
  <2> HIDE DEF words
  <2> QED BY <1>6, CountApart
<1>9. /\ CountIn(column, {Null}) \in Nat /\ CountIn(column, blank) \in Nat
      /\ CountIn(column, Cells \ NonBlank) \in Nat /\ CountIn(column, words) \in Nat
  BY CountNat
<1> QED BY <1>4, <1>5, <1>7, <1>8, <1>9 DEF groups, W

LEMMA TotalNothing == Total(<<>>) = 0 /\ \A f : Total([s \in {} |-> f[s]]) = 0
<1>1. DOMAIN <<>> = {}
  OBVIOUS
<1>2. \A counts : DOMAIN counts = {} => Total(counts) = 0
  BY FS_EmptySet DEF Total
<1>3. \A f : DOMAIN [s \in {} |-> f[s]] = {}
  OBVIOUS
<1> QED BY <1>1, <1>2, <1>3

\* A column that is not measured reads like a clean one.
LEMMA UnmeasuredIs ==
    ASSUME NEW env, Sound(env), NEW c \in ColumnsOf(env), ~IsMeasured(env, c)
    PROVE  LET p == Of(env, c)
           IN  /\ p.nulls = 0 /\ p.blanks = 0 /\ p.distinct = 0 /\ p.placeholders = <<>>
               /\ p.total = 0 \/ ~p.measured
               /\ p.total = RowCount(env, c)
               /\ p.inferred.off = 0 /\ p.numeric.count = 0 /\ p.temporal.count = 0
               /\ p.measured => RowCount(env, c) = 0
<1>1. CASE RowCount(env, c) = 0 /\ Of(env, c) = Blank("empty", 0, TRUE)
  BY <1>1 DEF Blank
<1>2. CASE Of(env, c) = Unprofiled(RowCount(env, c))
  BY <1>2 DEF Blank, Unprofiled
<1> QED BY <1>1, <1>2, ProfileIs

\* The gaps a profile knows of, and the query that is to show them.
LEMMA MissingIs ==
    ASSUME NEW env, Sound(env), NEW c \in ColumnsOf(env), IsMeasured(env, c)
    PROVE  LET p == Of(env, c)
               counted == Counted(p)
               placeholders == Total([s \in counted |-> p.placeholders[s]])
               words == {v \in Cells \ {Null} : Folded[v] \in counted}
               column == ColumnAt(env, Where(env, c))
           IN  /\ placeholders = CountIn(column, words)
               /\ p.nulls + p.blanks + placeholders = CountIn(column, (Cells \ NonBlank) \union words)
               /\ p.nulls + p.blanks = CountIn(column, Cells \ NonBlank)
               /\ p.nulls \in Nat /\ p.blanks \in Nat /\ placeholders \in Nat
<1> DEFINE p == Of(env, c)
           counted == Counted(p)
           column == ColumnAt(env, Where(env, c))
           W == IsTextPlaceholder \union IsNumberPlaceholder
<1>1. IsFiniteSet(DOMAIN column)
  BY PlaceIs
<1>2. /\ p.nulls = CountIn(column, {Null})
      /\ p.blanks = CountIn(column, Cells \ ({Null} \union NonBlank))
      /\ p.placeholders = Groups(column, Folded, W)
  <2>1. p = Measured(TableAt(env, Where(env, c)), Where(env, c)[2])
    BY DEF IsMeasured
  <2> HIDE DEF p
  <2> DEFINE t == TableAt(env, Where(env, c))
             name == Where(env, c)[2]
  <2>2. column = Column(t, name)
    BY DEF ColumnAt, TableAt
  <2> HIDE DEF t, name, column, W
  <2>3. /\ Measured(t, name).nulls = CountIn(Column(t, name), {Null})
        /\ Measured(t, name).blanks = CountIn(Column(t, name), Cells \ ({Null} \union NonBlank))
        /\ Measured(t, name).placeholders =
               Groups(Column(t, name), Folded, IsTextPlaceholder \union IsNumberPlaceholder)
    BY MeasuredIs
  <2> QED BY <2>1, <2>2, <2>3 DEF t, name, W
<1>3. counted \subseteq DOMAIN p.placeholders
  BY DEF Counted
<1> HIDE DEF p, counted, column, W
<1>4. counted \subseteq DOMAIN Groups(column, Folded, W)
  BY <1>2, <1>3
<1>5. /\ Total([s \in counted |-> Groups(column, Folded, W)[s]])
             = CountIn(column, {v \in Cells \ {Null} : Folded[v] \in counted})
      /\ CountIn(column, {Null}) + CountIn(column, Cells \ ({Null} \union NonBlank))
             = CountIn(column, Cells \ NonBlank)
      /\ CountIn(column, Cells \ NonBlank) + CountIn(column, {v \in Cells \ {Null} : Folded[v] \in counted})
           = CountIn(column, (Cells \ NonBlank) \union {v \in Cells \ {Null} : Folded[v] \in counted})
      /\ CountIn(column, {Null}) \in Nat
      /\ CountIn(column, Cells \ ({Null} \union NonBlank)) \in Nat
      /\ CountIn(column, {v \in Cells \ {Null} : Folded[v] \in counted}) \in Nat
  BY <1>1, <1>4, GapsAre DEF W
<1>6. \A a, b, x, y, z : a + b = x /\ x + y = z => (a + b) + y = z
  OBVIOUS
<1> HIDE DEF p, counted, column, W
<1>7. Total([s \in counted |-> p.placeholders[s]])
          = CountIn(column, {v \in Cells \ {Null} : Folded[v] \in counted})
  BY <1>2, <1>5
<1> QED BY <1>2, <1>5, <1>6, <1>7 DEF p, counted, column

LEMMA MissingHolds ==
    ASSUME NEW env, Sound(env), NEW c \in ColumnsOf(env), NEW f \in Range(CheckMissingValues(env, c))
    PROVE  f.rule = "column.missing_values" /\ f.at = Where(env, c)
             /\ IsMeasured(env, c) /\ TitleHolds(env, f)
<1> DEFINE p == Of(env, c)
           counted == Counted(p)
           placeholders == Total([s \in counted |-> p.placeholders[s]])
           missing == p.nulls + p.blanks + placeholders
           half == 2 * missing >= p.total
           words == {v \in Cells \ {Null} : Folded[v] \in counted}
           query == CountWhere(env, c, (Cells \ NonBlank) \union words)
           severity == IF half THEN Warning ELSE Info
<1>1. /\ f = Raise("column.missing_values", severity, Where(env, c), missing, query)
      /\ missing > 0
  BY WhenIs DEF CheckMissingValues
<1>2. IsMeasured(env, c)
  <2>1. SUFFICES ASSUME p.nulls = 0, p.blanks = 0, p.placeholders = <<>> PROVE FALSE
    BY UnmeasuredIs
  <2>2. counted = {}
    BY <2>1, NothingIs DEF Counted
  <2>3. placeholders = 0
    BY <2>2, TotalNothing
  <2> QED BY <1>1, <2>1, <2>3
<1>3. missing = CountIn(ColumnAt(env, Where(env, c)), (Cells \ NonBlank) \union words) /\ missing \in Int
  <2> DEFINE column == ColumnAt(env, Where(env, c))
  <2>1. /\ Of(env, c).nulls + Of(env, c).blanks + Total([s \in Counted(Of(env, c)) |-> Of(env, c).placeholders[s]])
              = CountIn(ColumnAt(env, Where(env, c)), (Cells \ NonBlank)
                  \union {v \in Cells \ {Null} : Folded[v] \in Counted(Of(env, c))})
    BY <1>2, MissingIs
  <2>2. missing = CountIn(column, (Cells \ NonBlank) \union words)
    BY <2>1
  <2>3. IsFiniteSet(DOMAIN column)
    BY PlaceIs
  <2> HIDE DEF column, words, missing
  <2>4. CountIn(column, (Cells \ NonBlank) \union words) \in Nat
    BY <2>3, CountNat
  <2> QED BY <2>2, <2>4 DEF column
<1>4. Answer(env.engine, query) = missing
  BY <1>3, WhereHolds
<1> HIDE DEF missing, query, severity
<1> QED BY <1>1, <1>2, <1>3, <1>4, RaiseIs, RaiseHolds

LEMMA MeasuredOf ==
    ASSUME NEW env, Sound(env), NEW c \in ColumnsOf(env), IsMeasured(env, c)
    PROVE  LET p == Of(env, c)
               column == ColumnAt(env, Where(env, c))
           IN  /\ IsFiniteSet(DOMAIN column)
               /\ column = [line \in DOMAIN column |-> column[line]]
               /\ p.measured
               /\ p.total = Cardinality(DOMAIN column)
               /\ p.nulls = CountIn(column, {Null})
               /\ p.blanks = CountIn(column, Cells \ ({Null} \union NonBlank))
               /\ p.distinct = Cardinality(Range(column) \ {Null})
               /\ \E matched :
                     /\ p.inferred =
                            Infer(CountIn(column, NonBlank) - CountIn(column, NonBlank \intersect IsTextPlaceholder), matched)
                     /\ \A k \in Range(TestedKinds) :
                           matched[k] = CountIn(column, NonBlank \intersect Matches(k))
               /\ p.numeric = NumericDetail(column)
               /\ p.temporal = TemporalDetail(column)
<1> DEFINE p == Of(env, c)
           column == ColumnAt(env, Where(env, c))
           t == TableAt(env, Where(env, c))
           name == Where(env, c)[2]
<1>1. p = Measured(t, name)
  BY DEF IsMeasured
<1>2. column = Column(t, name)
  BY DEF ColumnAt, TableAt
<1>3. IsFiniteSet(DOMAIN column)
  BY PlaceIs
<1> HIDE DEF p, t, name, column
<1>4. DOMAIN column = DOMAIN t.rows /\ column = [line \in DOMAIN column |-> column[line]]
  <2>1. DOMAIN Column(t, name) = DOMAIN t.rows /\ Column(t, name) = [x \in DOMAIN t.rows |-> Column(t, name)[x]]
    BY ColumnIs
  <2> QED BY <1>2, <2>1
<1>5. /\ p.measured
      /\ p.total = Size(t)
      /\ p.nulls = CountIn(column, {Null})
      /\ p.blanks = CountIn(column, Cells \ ({Null} \union NonBlank))
      /\ p.distinct = Cardinality(Range(column) \ {Null})
      /\ p.numeric = NumericDetail(column)
      /\ p.temporal = TemporalDetail(column)
  BY <1>1, <1>2, MeasuredIs
<1>6. \E matched :
         /\ p.inferred =
                Infer(CountIn(column, NonBlank) - CountIn(column, NonBlank \intersect IsTextPlaceholder), matched)
         /\ \A k \in Range(TestedKinds) :
               matched[k] = CountIn(column, NonBlank \intersect Matches(k))
  BY <1>1, <1>2, MeasuredIs
<1> QED BY <1>3, <1>4, <1>5, <1>6 DEF p, column, Size

LEMMA ViolationHolds ==
    ASSUME NEW env, Sound(env), NEW c \in ColumnsOf(env), NEW f \in Range(CheckTypeViolations(env, c))
    PROVE  f.rule = "column.type_violation" /\ TitleHolds(env, f)
<1> DEFINE p == Of(env, c).inferred
           query == CountWhere(env, c, Misfits(p.kind))
           column == ColumnAt(env, Where(env, c))
<1>1. /\ f = Raise("column.type_violation", Error, Where(env, c), p.off, query)
      /\ p.off > 0 /\ p.kind \in Range(TestedKinds)
  BY WhenIs DEF CheckTypeViolations
<1>2. IsMeasured(env, c)
  BY <1>1, UnmeasuredIs
<1> DEFINE data == CountIn(column, NonBlank) - CountIn(column, NonBlank \intersect IsTextPlaceholder)
<1>3. PICK matched : /\ p = Infer(data, matched)
                     /\ \A k \in Range(TestedKinds) : matched[k] = CountIn(column, NonBlank \intersect Matches(k))
  <2> HIDE DEF data
  <2> QED BY <1>2, MeasuredOf DEF data
<1>4. IsFiniteSet(DOMAIN column)
  BY PlaceIs
<1> HIDE DEF p, data, column
<1>5. p.off = data - matched[p.kind]
  <2>1. data # 0
    BY <1>1, <1>3 DEF Infer
  <2>2. p.off = IF p.kind = "text" THEN 0 ELSE data - matched[p.kind]
    BY <1>3, <2>1 DEF Infer
  <2> QED BY <1>1, <2>2
<1>6. Matches(p.kind) \intersect IsTextPlaceholder = {}
  BY <1>1, CellFacts DEF CellFacts, Range
<1> DEFINE text == NonBlank \intersect IsTextPlaceholder
           fits == NonBlank \intersect Matches(p.kind)
           rest == Misfits(p.kind) \union fits
<1>7. NonBlank = text \union rest /\ text \intersect rest = {}
        /\ rest = Misfits(p.kind) \union fits /\ Misfits(p.kind) \intersect fits = {}
  BY <1>6 DEF Misfits
<1> HIDE DEF text, rest, fits
<1>8. CountIn(column, NonBlank) = CountIn(column, text) + CountIn(column, rest)
      /\ CountIn(column, text) \in Nat /\ CountIn(column, rest) \in Nat
  <2>1. CountIn(column, text \union rest) = CountIn(column, text) + CountIn(column, rest)
    BY <1>4, <1>7, CountApart
  <2>2. CountIn(column, text) \in Nat /\ CountIn(column, rest) \in Nat
    BY <1>4, CountNat
  <2>3. CountIn(column, NonBlank) = CountIn(column, text \union rest)
    BY <1>7
  <2> QED BY <2>1, <2>2, <2>3
<1>9. CountIn(column, rest) = CountIn(column, Misfits(p.kind)) + CountIn(column, fits)
      /\ CountIn(column, Misfits(p.kind)) \in Nat /\ CountIn(column, fits) \in Nat
  <2>1. CountIn(column, Misfits(p.kind) \union fits) = CountIn(column, Misfits(p.kind)) + CountIn(column, fits)
    BY <1>4, <1>7, CountApart
  <2>2. CountIn(column, Misfits(p.kind)) \in Nat /\ CountIn(column, fits) \in Nat
    BY <1>4, CountNat
  <2>3. CountIn(column, rest) = CountIn(column, Misfits(p.kind) \union fits)
    BY <1>7
  <2> QED BY <2>1, <2>2, <2>3
<1>10. p.off = CountIn(column, Misfits(p.kind)) /\ p.off \in Int
  <2>1. matched[p.kind] = CountIn(column, fits)
    BY <1>1, <1>3 DEF fits
  <2>2. data = CountIn(column, NonBlank) - CountIn(column, text)
    BY DEF data, text
  <2> QED BY <1>5, <1>8, <1>9, <2>1, <2>2
<1>11. Answer(env.engine, query) = p.off
  BY <1>10, WhereHolds DEF column
<1> HIDE DEF query
<1> QED BY <1>1, <1>10, <1>11, RaiseIs, RaiseHolds

LEMMA AmbiguousHolds ==
    ASSUME NEW env, Sound(env), NEW c \in ColumnsOf(env), NEW f \in Range(CheckAmbiguousDates(env, c))
    PROVE  f.rule = "column.ambiguous_dates" /\ TitleHolds(env, f)
<1> DEFINE d == Of(env, c).temporal
           where == NonBlank \intersect Ambiguous
           query == CountWhere(env, c, where)
           column == ColumnAt(env, Where(env, c))
<1>1. /\ f = Raise("column.ambiguous_dates", Error, Where(env, c), d.ambiguous, query)
      /\ d.count > 0 /\ d.ambiguous > 0
  BY WhenIs DEF CheckAmbiguousDates
<1>2. IsMeasured(env, c)
  BY <1>1, UnmeasuredIs
<1>3. d = TemporalDetail(column)
  BY <1>2, MeasuredOf
<1>4. d.ambiguous = CountIn(column, where)
  <2> HIDE DEF d, column
  <2> QED BY <1>3 DEF TemporalDetail
<1>5. IsFiniteSet(DOMAIN column)
  BY PlaceIs
<1> HIDE DEF d, column, where
<1>6. d.ambiguous \in Int
  BY <1>4, <1>5, CountNat
<1>7. Answer(env.engine, query) = d.ambiguous
  BY <1>4, WhereHolds DEF column
<1> HIDE DEF query
<1> QED BY <1>1, <1>6, <1>7, RaiseIs, RaiseHolds

LEMMA OutliersHold ==
    ASSUME NEW env, Sound(env), NEW c \in ColumnsOf(env), NEW f \in Range(CheckNumericOutliers(env, c))
    PROVE  f.rule = "column.numeric_outliers" /\ TitleHolds(env, f)
<1> DEFINE d == Of(env, c).numeric
           query == CountWhere(env, c, d.far)
           column == ColumnAt(env, Where(env, c))
<1>1. /\ f = Raise("column.numeric_outliers", Info, Where(env, c), d.outliers, query)
      /\ d.count > 0 /\ d.outliers > 0
  BY WhenIs DEF CheckNumericOutliers
<1>2. IsMeasured(env, c)
  BY <1>1, UnmeasuredIs
<1>3. d = NumericDetail(column)
  BY <1>2, MeasuredOf
<1>4. d.outliers = CountIn(column, d.far)
  <2> HIDE DEF d, column
  <2>1. d.outliers = CountIn(column, Far(column)) /\ d.far = Far(column)
    BY <1>3 DEF NumericDetail
  <2> QED BY <2>1
<1>5. IsFiniteSet(DOMAIN column)
  BY PlaceIs
<1> HIDE DEF d, column
<1>6. d.outliers \in Int
  BY <1>4, <1>5, CountNat
<1>7. Answer(env.engine, query) = d.outliers
  BY <1>4, WhereHolds DEF column
<1> HIDE DEF query
<1> QED BY <1>1, <1>6, <1>7, RaiseIs, RaiseHolds

LEMMA NegativesHold ==
    ASSUME NEW env, Sound(env), NEW c \in ColumnsOf(env),
               NEW f \in Range(CheckUnexpectedNegatives(env, c))
    PROVE  f.rule = "column.unexpected_negative" /\ TitleHolds(env, f)
<1> DEFINE d == Of(env, c).numeric
           where == {v \in DOMAIN Number : Number[v] < 0}
           query == CountWhere(env, c, where)
           column == ColumnAt(env, Where(env, c))
<1>1. /\ f = Raise("column.unexpected_negative", Warning, Where(env, c), d.negative, query)
      /\ d.count > 0 /\ d.negative > 0
  BY WhenIs DEF CheckUnexpectedNegatives
<1>2. IsMeasured(env, c)
  BY <1>1, UnmeasuredIs
<1>3. d = NumericDetail(column)
  BY <1>2, MeasuredOf
<1>4. DOMAIN Number \subseteq NonBlank
  <2>1. "decimal" \in Range(TestedKinds)
    <3>1. TestedKinds[2] = "decimal" /\ 2 \in DOMAIN TestedKinds
      BY DEF TestedKinds
    <3> QED BY <3>1 DEF Range
  <2> QED BY <2>1, CellFacts DEF CellFacts
<1>5. where = {v \in NonBlank \intersect DOMAIN Number : Number[v] < 0}
  BY <1>4
<1>6. d.negative = CountIn(column, where)
  <2> HIDE DEF d, column
  <2>1. d.negative = CountIn(column, {v \in NonBlank \intersect DOMAIN Number : Number[v] < 0})
    BY <1>3 DEF NumericDetail
  <2> QED BY <1>5, <2>1
<1>7. IsFiniteSet(DOMAIN column)
  BY PlaceIs
<1> HIDE DEF d, column, where
<1>8. d.negative \in Int
  BY <1>6, <1>7, CountNat
<1>9. Answer(env.engine, query) = d.negative
  BY <1>6, WhereHolds DEF column
<1> HIDE DEF query
<1> QED BY <1>1, <1>8, <1>9, RaiseIs, RaiseHolds

LEMMA DuplicatesHold ==
    ASSUME NEW env, Sound(env), NEW n \in DOMAIN env.tables, NEW f \in Range(CheckDuplicateRows(env, n))
    PROVE  f.rule = "table.duplicate_rows" /\ TitleHolds(env, f)
<1> DEFINE q == AllRows(env, n, "surplus rows")
           surplus == Answer(env.engine, q)
           t == env.engine[env.tables[n].name]
<1>1. /\ f = Raise("table.duplicate_rows", Error, At(env, n), surplus, q)
      /\ surplus > 0
  BY WhenIs DEF CheckDuplicateRows
<1>2. q.asks = "surplus rows" /\ q.table = env.tables[n].name
  BY DEF AllRows, Query
<1>3. surplus = Surplus(t.rows, Range(t.rows))
  <2> HIDE DEF q, t
  <2>1. Answer(env.engine, q) = Surplus(env.engine[q.table].rows, Range(env.engine[q.table].rows))
    BY <1>2 DEF Answer
  <2> QED BY <1>2, <2>1 DEF t
<1>4. IsFiniteSet(DOMAIN t.rows)
  BY DEF Sound
<1> HIDE DEF t
<1>5. CountIn(t.rows, Range(t.rows)) \in Nat
  BY <1>4, CountNat
<1>6. Cardinality(Range(t.rows) \intersect Range(t.rows)) \in Nat
  <2> DEFINE g == [x \in DOMAIN t.rows |-> t.rows[x]]
  <2>1. DOMAIN g = DOMAIN t.rows /\ g = [x \in DOMAIN g |-> g[x]] /\ Range(g) = Range(t.rows)
    BY DEF Range
  <2> HIDE DEF g
  <2>2. IsFiniteSet(Range(g))
    BY <1>4, <2>1, RangeFinite
  <2>3. Range(t.rows) \intersect Range(t.rows) = Range(g)
    BY <2>1
  <2> QED BY <2>2, <2>3, FS_CardinalityType
<1>7. surplus \in Int
  <2> HIDE DEF surplus
  <2> QED BY <1>3, <1>5, <1>6 DEF Surplus
<1> HIDE DEF q
<1>8. f.rule = "table.duplicate_rows"
  BY <1>1, RaiseIs
<1> QED BY <1>1, <1>7, <1>8, RaiseHolds

\* What counts the orphans of a column against another.
LEMMA AnswerOrphans ==
    ASSUME NEW env, NEW child, NEW parent
    PROVE  LET q == Against(Query("orphans", Where(env, child)[1], Where(env, child)[2], {}),
                            Where(env, parent)[1], Where(env, parent)[2])
               other == ColumnAt(env, Where(env, parent))
           IN  /\ q.table = Where(env, child)[1] /\ q.column = Where(env, child)[2]
               /\ q.table2 = Where(env, parent)[1] /\ q.column2 = Where(env, parent)[2]
               /\ Answer(env.engine, q) =
                     CountIn(ColumnAt(env, Where(env, child)),
                             {v \in NonBlank : Folded[v] \notin {Folded[u] : u \in NonBlank \intersect Range(other)}})
<1> DEFINE q == Against(Query("orphans", Where(env, child)[1], Where(env, child)[2], {}),
                            Where(env, parent)[1], Where(env, parent)[2])
<1>1. /\ q.asks = "orphans" /\ q.table = Where(env, child)[1] /\ q.column = Where(env, child)[2]
      /\ q.table2 = Where(env, parent)[1] /\ q.column2 = Where(env, parent)[2]
  BY DEF Against, Query
<1> HIDE DEF q
<1>2. Answer(env.engine, q) =
        CountIn(Column(env.engine[q.table], q.column),
                {v \in NonBlank : Folded[v] \notin
                    {Folded[u] : u \in NonBlank \intersect Range(Column(env.engine[q.table2], q.column2))}})
  BY <1>1 DEF Answer
<1>3. /\ Column(env.engine[q.table], q.column) = ColumnAt(env, Where(env, child))
      /\ Column(env.engine[q.table2], q.column2) = ColumnAt(env, Where(env, parent))
  BY <1>1 DEF ColumnAt
<1> QED BY <1>1, <1>2, <1>3 DEF q

\* A reference that is reported: of which two columns.
BestKey(env, child) ==
    CHOOSE a \in Referable(env, child) : \A b \in Referable(env, child) \ {a} : Better(env, child, a, b)

OrphanQuery(env, child, parent) ==
    Against(Query("orphans", Where(env, child)[1], Where(env, child)[2], {}),
            Where(env, parent)[1], Where(env, parent)[2])

LEMMA OrphansHold ==
    ASSUME NEW env, Sound(env), NEW c \in ColumnsOf(env), NEW f \in Range(Reference(env, c))
    PROVE  /\ f.rule = "reference.orphan_values" /\ TitleHolds(env, f)
           /\ f.query = OrphanQuery(env, c, BestKey(env, c))
           /\ Referable(env, c) # {}
<1> DEFINE q == OrphanQuery(env, c, BestKey(env, c))
           orphans == Answer(env.engine, q)
<1>1. Referable(env, c) # {}
  <2> SUFFICES ASSUME Referable(env, c) = {} PROVE FALSE
    OBVIOUS
  <2>1. Reference(env, c) = <<>>
    BY DEF Reference
  <2> QED BY <2>1, NothingIs
<1>2. f = Raise("reference.orphan_values", Error, Where(env, c), orphans, q) /\ orphans > 0
  BY <1>1, WhenIs DEF Reference, OrphanQuery, BestKey
<1>3. orphans \in Int
  <2> DEFINE column == ColumnAt(env, Where(env, c))
             where == {v \in NonBlank : Folded[v] \notin
                          {Folded[u] : u \in NonBlank \intersect Range(ColumnAt(env, Where(env, BestKey(env, c))))}}
  <2>1. IsFiniteSet(DOMAIN column)
    BY PlaceIs
  <2>2. orphans = CountIn(column, where)
    BY AnswerOrphans DEF OrphanQuery
  <2> HIDE DEF column, where
  <2> QED BY <2>1, <2>2, CountNat
<1> HIDE DEF q
<1>4. f.rule = "reference.orphan_values" /\ f.query = q
  BY <1>2, RaiseIs
<1> QED BY <1>1, <1>2, <1>3, <1>4, RaiseHolds DEF q

-----------------------------------------------------------------------------
(* Which check a finding is from, and that none of the others has its code. *)

\* What the checks that are watched report: where each of it is from.
FromCheck(env, f) ==
    /\ FindingFields \subseteq DOMAIN f
    /\ f.rule \in Titled => TitleHolds(env, f)
    /\ f.rule = "column.missing_values" =>
          \E c \in ColumnsOf(env) : f \in Range(CheckMissingValues(env, c))
    /\ f.rule = "reference.orphan_values" =>
          \E c \in ColumnsOf(env) : f \in Range(Reference(env, c))
    /\ f.rule = "key.duplicate_values" =>
          \E c \in CandidateKeys(env) : f \in Range(DuplicateKey(env, c))
    /\ f.rule = "table.no_candidate_key" =>
          \E n \in DOMAIN env.tables : f \in Range(CheckNoCandidateKey(env, n))

FromChecks(env, s) == IsSeq(s) /\ \A f \in Range(s) : FromCheck(env, f)

LEMMA NoneFromChecks == \A env : FromChecks(env, <<>>)
BY NothingIs DEF FromChecks

LEMMA Unwatched ==
    ASSUME NEW env, NEW f, f.rule \notin Titled \union OfAKey, FindingFields \subseteq DOMAIN f
    PROVE  FromCheck(env, f)
BY DEF FromCheck, Titled, OfAKey

\* A check of something else.
LEMMA Elsewhere ==
    ASSUME NEW env, NEW condition, NEW rule, NEW severity, NEW at, NEW count, NEW query,
           rule \notin Titled \union OfAKey
    PROVE  FromChecks(env, When(condition, Raise(rule, severity, at, count, query)))
<1> DEFINE r == Raise(rule, severity, at, count, query)
<1>1. r.rule = rule /\ FindingFields \subseteq DOMAIN r
  BY RaiseIs
<1> HIDE DEF r
<1>2. FromCheck(env, r)
  BY <1>1, Unwatched
<1>3. IsSeq(When(condition, r)) /\ \A f \in Range(When(condition, r)) : f = r
  BY WhenIs
<1>4. FromChecks(env, When(condition, r))
  BY <1>2, <1>3 DEF FromChecks
<1> QED BY <1>4 DEF r

\* One list after the other.
LEMMA FlattenedFrom ==
    ASSUME NEW env, NEW s, NEW n \in Nat, s = [k \in 1..n |-> s[k]],
           \A k \in 1..n : FromChecks(env, s[k])
    PROVE  /\ FromChecks(env, FlattenSeq(s))
           /\ \A k \in 1..n : Range(s[k]) \subseteq Range(FlattenSeq(s))
<1>1. IsSeq(s) /\ DOMAIN s = 1..n
  BY SeqByDomain
<1>2. /\ IsSeq(FlattenSeq(s))
      /\ Range(FlattenSeq(s)) = UNION {Range(s[k]) : k \in DOMAIN s}
  BY <1>1, Flattened DEF FromChecks
<1>3. \A f \in Range(FlattenSeq(s)) : FromCheck(env, f)
  BY <1>1, <1>2 DEF FromChecks
<1>4. \A k \in 1..n : Range(s[k]) \subseteq Range(FlattenSeq(s))
  BY <1>1, <1>2
<1> QED BY <1>2, <1>3, <1>4 DEF FromChecks

LEMMA TitledColumn ==
    ASSUME NEW env, Sound(env), NEW c \in ColumnsOf(env)
    PROVE  /\ FromChecks(env, CheckMissingValues(env, c))
           /\ FromChecks(env, CheckTypeViolations(env, c))
           /\ FromChecks(env, CheckAmbiguousDates(env, c))
           /\ FromChecks(env, CheckNumericOutliers(env, c))
           /\ FromChecks(env, CheckUnexpectedNegatives(env, c))
<1>1. FromChecks(env, CheckMissingValues(env, c))
  <2>1. IsSeq(CheckMissingValues(env, c))
    BY WhenIs DEF CheckMissingValues
  <2> QED BY <2>1, MissingHolds DEF FromChecks, FromCheck, TitleHolds
<1>2. FromChecks(env, CheckTypeViolations(env, c))
  <2>1. IsSeq(CheckTypeViolations(env, c))
    BY WhenIs DEF CheckTypeViolations
  <2> QED BY <2>1, ViolationHolds DEF FromChecks, FromCheck, TitleHolds
<1>3. FromChecks(env, CheckAmbiguousDates(env, c))
  <2>1. IsSeq(CheckAmbiguousDates(env, c))
    BY WhenIs DEF CheckAmbiguousDates
  <2> QED BY <2>1, AmbiguousHolds DEF FromChecks, FromCheck, TitleHolds
<1>4. FromChecks(env, CheckNumericOutliers(env, c))
  <2>1. IsSeq(CheckNumericOutliers(env, c))
    BY WhenIs DEF CheckNumericOutliers
  <2> QED BY <2>1, OutliersHold DEF FromChecks, FromCheck, TitleHolds
<1>5. FromChecks(env, CheckUnexpectedNegatives(env, c))
  <2>1. IsSeq(CheckUnexpectedNegatives(env, c))
    BY WhenIs DEF CheckUnexpectedNegatives
  <2> QED BY <2>1, NegativesHold DEF FromChecks, FromCheck, TitleHolds
<1> QED BY <1>1, <1>2, <1>3, <1>4, <1>5

LEMMA UntitledColumn ==
    ASSUME NEW env, NEW c
    PROVE  /\ FromChecks(env, CheckEmptyColumn(env, c))
           /\ FromChecks(env, CheckNearMissType(env, c))
           /\ FromChecks(env, CheckMixedDateFormats(env, c))
           /\ FromChecks(env, CheckImplausibleDates(env, c))
           /\ FromChecks(env, CheckFutureDates(env, c))
           /\ FromChecks(env, CheckWhitespacePadding(env, c))
           /\ FromChecks(env, CheckCaseVariants(env, c))
           /\ FromChecks(env, CheckConstantColumn(env, c))
           /\ FromChecks(env, CheckRenamedHeader(env, c))
<1>0. {"column.empty", "column.mostly_typed", "column.mixed_date_formats", "column.implausible_dates",
       "column.future_dates", "column.whitespace_padding", "column.case_variants", "column.constant",
       "column.duplicate_header"} \intersect (Titled \union OfAKey) = {}
  BY DEF Titled, OfAKey
<1>1. FromChecks(env, CheckEmptyColumn(env, c))
  BY <1>0, Elsewhere DEF CheckEmptyColumn
<1>2. FromChecks(env, CheckNearMissType(env, c))
  BY <1>0, Elsewhere DEF CheckNearMissType
<1>3. FromChecks(env, CheckMixedDateFormats(env, c))
  BY <1>0, Elsewhere DEF CheckMixedDateFormats
<1>4. FromChecks(env, CheckImplausibleDates(env, c))
  BY <1>0, Elsewhere DEF CheckImplausibleDates
<1>5. FromChecks(env, CheckFutureDates(env, c))
  BY <1>0, Elsewhere DEF CheckFutureDates
<1>6. FromChecks(env, CheckWhitespacePadding(env, c))
  BY <1>0, Elsewhere DEF CheckWhitespacePadding
<1>7. FromChecks(env, CheckCaseVariants(env, c))
  BY <1>0, Elsewhere DEF CheckCaseVariants
<1>8. FromChecks(env, CheckConstantColumn(env, c))
  BY <1>0, Elsewhere DEF CheckConstantColumn
<1>9. FromChecks(env, CheckRenamedHeader(env, c))
  BY <1>0, Elsewhere DEF CheckRenamedHeader
<1> QED BY <1>1, <1>2, <1>3, <1>4, <1>5, <1>6, <1>7, <1>8, <1>9

LEMMA ColumnFindings ==
    ASSUME NEW env, Sound(env), NEW c \in ColumnsOf(env)
    PROVE  /\ FromChecks(env, CheckColumn(env, c))
           /\ Of(env, c).measured => Range(CheckMissingValues(env, c)) \subseteq Range(CheckColumn(env, c))
<1>1. CASE ~Of(env, c).measured
  <2> DEFINE r == Raise("column.not_profiled", Warning, Where(env, c), 0, NoQuery)
  <2>1. "column.not_profiled" \notin Titled \union OfAKey
    BY DEF Titled, OfAKey
  <2>2. FromChecks(env, When(TRUE, r))
    BY <2>1, Elsewhere
  <2>3. CheckColumn(env, c) = When(TRUE, r)
    BY <1>1 DEF CheckColumn, When
  <2> QED BY <1>1, <2>2, <2>3
<1>2. CASE Of(env, c).measured
  <2> DEFINE s == <<CheckEmptyColumn(env, c), CheckMissingValues(env, c),
                      CheckTypeViolations(env, c), CheckNearMissType(env, c),
                      CheckMixedDateFormats(env, c), CheckAmbiguousDates(env, c),
                      CheckImplausibleDates(env, c), CheckFutureDates(env, c),
                      CheckWhitespacePadding(env, c), CheckCaseVariants(env, c),
                      CheckNumericOutliers(env, c), CheckUnexpectedNegatives(env, c),
                      CheckConstantColumn(env, c), CheckRenamedHeader(env, c)>>
  <2>1. s = [k \in 1..14 |-> s[k]]
    OBVIOUS
  <2>2. \A k \in 1..14 : FromChecks(env, s[k])
    <3>1. /\ FromChecks(env, s[1]) /\ FromChecks(env, s[2]) /\ FromChecks(env, s[3])
          /\ FromChecks(env, s[4]) /\ FromChecks(env, s[5]) /\ FromChecks(env, s[6])
          /\ FromChecks(env, s[7]) /\ FromChecks(env, s[8]) /\ FromChecks(env, s[9])
          /\ FromChecks(env, s[10]) /\ FromChecks(env, s[11]) /\ FromChecks(env, s[12])
          /\ FromChecks(env, s[13]) /\ FromChecks(env, s[14])
      BY TitledColumn, UntitledColumn
    <3> HIDE DEF s
    <3>2. \A k \in 1..14 : k = 1 \/ k = 2 \/ k = 3 \/ k = 4 \/ k = 5 \/ k = 6 \/ k = 7
                             \/ k = 8 \/ k = 9 \/ k = 10 \/ k = 11 \/ k = 12 \/ k = 13 \/ k = 14
      OBVIOUS
    <3> QED BY <3>1, <3>2
  <2>3. CheckColumn(env, c) = FlattenSeq(s)
    BY <1>2 DEF CheckColumn
  <2>4. s[2] = CheckMissingValues(env, c) /\ 2 \in 1..14 /\ 14 \in Nat
    OBVIOUS
  <2> HIDE DEF s
  <2> QED BY <2>1, <2>2, <2>3, <2>4, FlattenedFrom
<1> QED BY <1>1, <1>2

LEMMA NoteFindings ==
    ASSUME NEW env, NEW n
    PROVE  FromChecks(env, CheckStructure(env, n))
<1> DEFINE s == [k \in DOMAIN NoteCodes |->
        LET code == NoteCodes[k] IN
        When(code \in env.tables[n].notes,
             Raise(code, IF code \in DOMAIN NoteSeverity THEN NoteSeverity[code] ELSE Info,
                   At(env, n), 0, NoQuery))]
<1>1. DOMAIN NoteCodes = 1..22 /\ 22 \in Nat
  BY DEF NoteCodes
<1>2. \A k \in DOMAIN NoteCodes : NoteCodes[k] \notin Titled \union OfAKey
  BY DEF NoteCodes, Titled, OfAKey
<1>3. \A k \in 1..22 : FromChecks(env, s[k])
  <2> SUFFICES ASSUME NEW k \in 1..22 PROVE FromChecks(env, s[k])
    OBVIOUS
  <2> DEFINE code == NoteCodes[k]
  <2>1. s[k] = When(code \in env.tables[n].notes,
             Raise(code, IF code \in DOMAIN NoteSeverity THEN NoteSeverity[code] ELSE Info,
                   At(env, n), 0, NoQuery))
    BY <1>1
  <2>2. code \notin Titled \union OfAKey
    BY <1>1, <1>2
  <2> HIDE DEF s, code
  <2> QED BY <2>1, <2>2, Elsewhere
<1>4. s = [k \in 1..22 |-> s[k]]
  BY <1>1
<1>5. CheckStructure(env, n) = FlattenSeq(s)
  BY DEF CheckStructure
<1> HIDE DEF s
<1> QED BY <1>1, <1>3, <1>4, <1>5, FlattenedFrom

LEMMA ColumnsCounted ==
    ASSUME NEW env, Sound(env)
    PROVE  /\ DOMAIN env.tables = 1..Len(env.tables) /\ Len(env.tables) \in Nat
           /\ \A n \in DOMAIN env.tables : /\ DOMAIN env.profile[n] = 1..Len(env.profile[n])
                                           /\ Len(env.profile[n]) \in Nat
                                           /\ \A i \in DOMAIN env.profile[n] : <<n, i>> \in ColumnsOf(env)
<1>1. IsSeq(env.tables)
  BY DEF Sound, EnvFits
<1>2. DOMAIN env.tables = 1..Len(env.tables) /\ Len(env.tables) \in Nat
  BY <1>1, SeqIsOf DEF IsSeq
<1>3. ASSUME NEW n \in DOMAIN env.tables
      PROVE  /\ DOMAIN env.profile[n] = 1..Len(env.profile[n])
             /\ Len(env.profile[n]) \in Nat
             /\ \A i \in DOMAIN env.profile[n] : <<n, i>> \in ColumnsOf(env)
  <2>1. IsSeq(env.profile[n]) /\ DOMAIN env.profile[n] = DOMAIN env.tables[n].columns
    BY PlaceIs
  <2>2. DOMAIN env.profile[n] = 1..Len(env.profile[n]) /\ Len(env.profile[n]) \in Nat
    BY <2>1, SeqIsOf DEF IsSeq
  <2>3. \A i \in DOMAIN env.tables[n].columns : <<n, i>> \in ColumnsOf(env)
    BY PlaceIs
  <2> QED BY <2>1, <2>2, <2>3
<1> QED BY <1>2, <1>3

LEMMA TableFindings ==
    ASSUME NEW env, Sound(env), NEW n \in DOMAIN env.tables
    PROVE  /\ FromChecks(env, CheckTable(env, n))
           /\ \A i \in DOMAIN env.profile[n] :
                 Of(env, <<n, i>>).measured =>
                    Range(CheckMissingValues(env, <<n, i>>)) \subseteq Range(CheckTable(env, n))
<1> DEFINE each == [i \in DOMAIN env.profile[n] |-> CheckColumn(env, <<n, i>>)]
           s == <<CheckStructure(env, n), CheckEmptyTable(env, n), CheckUnreadableRows(env, n),
                 CheckNoCandidateKey(env, n), CheckDuplicateRows(env, n), FlattenSeq(each)>>
           w == Len(env.profile[n])
<1>1. DOMAIN env.profile[n] = 1..w /\ w \in Nat /\ \A i \in 1..w : <<n, i>> \in ColumnsOf(env)
  BY ColumnsCounted
<1> HIDE DEF w
<1>2. each = [i \in 1..w |-> each[i]] /\ \A i \in 1..w : each[i] = CheckColumn(env, <<n, i>>)
  BY <1>1
<1> HIDE DEF each
<1>3. \A i \in 1..w : FromChecks(env, each[i])
  BY <1>1, <1>2, ColumnFindings
<1>4. /\ FromChecks(env, FlattenSeq(each))
      /\ \A i \in 1..w : Range(each[i]) \subseteq Range(FlattenSeq(each))
  BY <1>1, <1>2, <1>3, FlattenedFrom
<1>5. FromChecks(env, CheckEmptyTable(env, n)) /\ FromChecks(env, CheckUnreadableRows(env, n))
  <2>1. {"table.empty", "table.unreadable_rows"} \intersect (Titled \union OfAKey) = {}
    BY DEF Titled, OfAKey
  <2>2. FromChecks(env, CheckEmptyTable(env, n))
    BY <2>1, Elsewhere DEF CheckEmptyTable
  <2>3. FromChecks(env, CheckUnreadableRows(env, n))
    BY <2>1, Elsewhere DEF CheckUnreadableRows
  <2> QED BY <2>2, <2>3
<1>6. FromChecks(env, CheckNoCandidateKey(env, n))
  <2>1. IsSeq(CheckNoCandidateKey(env, n))
    BY WhenIs DEF CheckNoCandidateKey
  <2>2. \A f \in Range(CheckNoCandidateKey(env, n)) :
           f.rule = "table.no_candidate_key" /\ FindingFields \subseteq DOMAIN f
    <3> DEFINE r == Raise("table.no_candidate_key", Info, At(env, n), 0, NoQuery)
    <3>1. \A f \in Range(CheckNoCandidateKey(env, n)) : f = r
      BY WhenIs DEF CheckNoCandidateKey
    <3>2. r.rule = "table.no_candidate_key" /\ FindingFields \subseteq DOMAIN r
      BY RaiseIs
    <3> QED BY <3>1, <3>2
  <2>3. "table.no_candidate_key" \notin Titled
    BY DEF Titled
  <2> QED BY <2>1, <2>2, <2>3 DEF FromChecks, FromCheck
<1>7. FromChecks(env, CheckDuplicateRows(env, n))
  <2>1. IsSeq(CheckDuplicateRows(env, n))
    BY WhenIs DEF CheckDuplicateRows
  <2> QED BY <2>1, DuplicatesHold DEF FromChecks, FromCheck, TitleHolds
<1>8. \A k \in 1..6 : FromChecks(env, s[k])
  <2>1. /\ FromChecks(env, s[1]) /\ FromChecks(env, s[2]) /\ FromChecks(env, s[3])
        /\ FromChecks(env, s[4]) /\ FromChecks(env, s[5]) /\ FromChecks(env, s[6])
    BY <1>4, <1>5, <1>6, <1>7, NoteFindings
  <2> HIDE DEF s
  <2>2. \A k \in 1..6 : k = 1 \/ k = 2 \/ k = 3 \/ k = 4 \/ k = 5 \/ k = 6
    OBVIOUS
  <2> QED BY <2>1, <2>2
<1>9. s = [k \in 1..6 |-> s[k]] /\ s[6] = FlattenSeq(each) /\ 6 \in 1..6 /\ 6 \in Nat
  OBVIOUS
<1>10. CheckTable(env, n) = FlattenSeq(s)
  BY DEF CheckTable, each
<1> HIDE DEF s
<1>11. /\ FromChecks(env, FlattenSeq(s))
       /\ \A k \in 1..6 : Range(s[k]) \subseteq Range(FlattenSeq(s))
  BY <1>8, <1>9, FlattenedFrom
<1>12. ASSUME NEW i \in 1..w, Of(env, <<n, i>>).measured
       PROVE  Range(CheckMissingValues(env, <<n, i>>)) \subseteq Range(CheckTable(env, n))
  <2>1. Range(CheckMissingValues(env, <<n, i>>)) \subseteq Range(each[i])
    BY <1>1, <1>2, <1>12, ColumnFindings
  <2>2. Range(each[i]) \subseteq Range(FlattenSeq(each))
    BY <1>4
  <2>3. Range(FlattenSeq(each)) \subseteq Range(FlattenSeq(s))
    BY <1>9, <1>11
  <2> QED BY <1>10, <2>1, <2>2, <2>3
<1> QED BY <1>1, <1>10, <1>11, <1>12

LEMMA SharedFindings ==
    ASSUME NEW env, NEW c
    PROVE  FromChecks(env, SharedDomain(env, c))
<1> DEFINE same == {b \in ColumnsOf(env) : IsCategory(env, b) /\ Where(env, b)[2] = Where(env, c)[2]}
           base == CHOOSE a \in same : \A b \in same : a[1] <= b[1]
           q == Against(Query("missing from", Where(env, c)[1], Where(env, c)[2], {}),
                     Where(env, base)[1], Where(env, base)[2])
           extra == Answer(env.engine, q)
<1>1. "domain.inconsistent_values" \notin Titled \union OfAKey
  BY DEF Titled, OfAKey
<1>2. SharedDomain(env, c) =
        IF c \notin same \/ c = base THEN <<>>
        ELSE When(extra > 0, Raise("domain.inconsistent_values", Warning, Where(env, c), extra, q))
  BY DEF SharedDomain
<1> HIDE DEF same, base, q, extra
<1>3. FromChecks(env, When(extra > 0, Raise("domain.inconsistent_values", Warning, Where(env, c), extra, q)))
  BY <1>1, Elsewhere
<1> QED BY <1>2, <1>3, NoneFromChecks

\* What is found of each column, in one list.
LEMMA EachColumn ==
    ASSUME NEW env, Sound(env), NEW g,
           DOMAIN g = DOMAIN env.tables, g = [n \in DOMAIN g |-> g[n]],
           \A n \in DOMAIN g : \E of :
              /\ of = [i \in DOMAIN env.profile[n] |-> of[i]]
              /\ g[n] = FlattenSeq(of)
              /\ \A i \in DOMAIN env.profile[n] : FromChecks(env, of[i])
    PROVE  FromChecks(env, FlattenSeq(g))
<1>1. DOMAIN g = 1..Len(env.tables) /\ Len(env.tables) \in Nat
  BY ColumnsCounted
<1>2. ASSUME NEW n \in DOMAIN g PROVE FromChecks(env, g[n])
  <2>1. PICK of : /\ of = [i \in DOMAIN env.profile[n] |-> of[i]]
                  /\ g[n] = FlattenSeq(of)
                  /\ \A i \in DOMAIN env.profile[n] : FromChecks(env, of[i])
    OBVIOUS
  <2>2. DOMAIN env.profile[n] = 1..Len(env.profile[n]) /\ Len(env.profile[n]) \in Nat
    BY ColumnsCounted
  <2> DEFINE w == Len(env.profile[n])
  <2>3. of = [i \in 1..w |-> of[i]] /\ w \in Nat /\ \A i \in 1..w : FromChecks(env, of[i])
    BY <2>1, <2>2
  <2> HIDE DEF w
  <2>4. FromChecks(env, FlattenSeq(of))
    BY <2>3, FlattenedFrom
  <2> QED BY <2>1, <2>4
<1> QED BY <1>1, <1>2, FlattenedFrom

LEMMA RelatedFindings ==
    ASSUME NEW env, Sound(env)
    PROVE  FromChecks(env, Relate(env))
<1>1. FromChecks(env, OfKeys(env))
  <2> DEFINE one(n, i) == IF <<n, i>> \in CandidateKeys(env) THEN DuplicateKey(env, <<n, i>>) ELSE <<>>
             of(n) == [i \in DOMAIN env.profile[n] |-> one(n, i)]
             g == [n \in DOMAIN env.tables |-> FlattenSeq(of(n))]
  <2>1. ASSUME NEW n, NEW i PROVE FromChecks(env, one(n, i))
    <3>1. CASE <<n, i>> \in CandidateKeys(env)
      <4>1. IsSeq(DuplicateKey(env, <<n, i>>))
        BY WhenIs DEF DuplicateKey
      <4>2. \A f \in Range(DuplicateKey(env, <<n, i>>)) :
               f.rule = "key.duplicate_values" /\ FindingFields \subseteq DOMAIN f
        <5> DEFINE p == Of(env, <<n, i>>)
                   q == Query("surplus", Where(env, <<n, i>>)[1], Where(env, <<n, i>>)[2], {})
                   r == Raise("key.duplicate_values", Error, Where(env, <<n, i>>), Filled(p) - p.distinct, q)
        <5>1. \A f \in Range(DuplicateKey(env, <<n, i>>)) : f = r
          BY WhenIs DEF DuplicateKey
        <5>2. r.rule = "key.duplicate_values" /\ FindingFields \subseteq DOMAIN r
          <6> HIDE DEF q, p
          <6> QED BY RaiseIs
        <5> QED BY <5>1, <5>2
      <4>3. "key.duplicate_values" \notin Titled
        BY DEF Titled
      <4> QED BY <3>1, <4>1, <4>2, <4>3 DEF FromChecks, FromCheck
    <3>2. CASE <<n, i>> \notin CandidateKeys(env)
      BY <3>2, NoneFromChecks
    <3> QED BY <3>1, <3>2
  <2>2. OfKeys(env) = FlattenSeq(g)
    BY DEF OfKeys
  <2> HIDE DEF one
  <2>3. \A n \in DOMAIN env.tables : /\ of(n) = [i \in DOMAIN env.profile[n] |-> of(n)[i]]
                                     /\ \A i \in DOMAIN env.profile[n] : FromChecks(env, of(n)[i])
    BY <2>1
  <2>4. DOMAIN g = DOMAIN env.tables /\ g = [n \in DOMAIN g |-> g[n]] /\ \A n \in DOMAIN g : g[n] = FlattenSeq(of(n))
    OBVIOUS
  <2> HIDE DEF g, of
  <2>5. FromChecks(env, FlattenSeq(g))
    BY <2>3, <2>4, EachColumn
  <2> QED BY <2>2, <2>5
<1>2. FromChecks(env, OfReferences(env))
  <2> DEFINE of(n) == [i \in DOMAIN env.profile[n] |-> Reference(env, <<n, i>>)]
             g == [n \in DOMAIN env.tables |-> FlattenSeq(of(n))]
  <2>1. ASSUME NEW c \in ColumnsOf(env) PROVE FromChecks(env, Reference(env, c))
    <3>1. IsSeq(Reference(env, c))
      BY WhenIs, NothingIs DEF Reference
    <3>2. \A f \in Range(Reference(env, c)) : f.rule = "reference.orphan_values" /\ TitleHolds(env, f)
      BY OrphansHold
    <3> QED BY <3>1, <3>2 DEF FromChecks, FromCheck, TitleHolds
  <2>2. OfReferences(env) = FlattenSeq(g)
    BY DEF OfReferences
  <2>3. \A n \in DOMAIN env.tables : /\ of(n) = [i \in DOMAIN env.profile[n] |-> of(n)[i]]
                                     /\ \A i \in DOMAIN env.profile[n] : FromChecks(env, of(n)[i])
    BY <2>1, ColumnsCounted
  <2>4. DOMAIN g = DOMAIN env.tables /\ g = [n \in DOMAIN g |-> g[n]] /\ \A n \in DOMAIN g : g[n] = FlattenSeq(of(n))
    OBVIOUS
  <2> HIDE DEF g, of
  <2>5. FromChecks(env, FlattenSeq(g))
    BY <2>3, <2>4, EachColumn
  <2> QED BY <2>2, <2>5
<1>3. FromChecks(env, OfDomains(env))
  <2> DEFINE of(n) == [i \in DOMAIN env.profile[n] |-> SharedDomain(env, <<n, i>>)]
             g == [n \in DOMAIN env.tables |-> FlattenSeq(of(n))]
  <2>2. OfDomains(env) = FlattenSeq(g)
    BY DEF OfDomains
  <2>3. \A n \in DOMAIN env.tables : /\ of(n) = [i \in DOMAIN env.profile[n] |-> of(n)[i]]
                                     /\ \A i \in DOMAIN env.profile[n] : FromChecks(env, of(n)[i])
    BY SharedFindings
  <2>4. DOMAIN g = DOMAIN env.tables /\ g = [n \in DOMAIN g |-> g[n]] /\ \A n \in DOMAIN g : g[n] = FlattenSeq(of(n))
    OBVIOUS
  <2> HIDE DEF g, of
  <2>5. FromChecks(env, FlattenSeq(g))
    BY <2>3, <2>4, EachColumn
  <2> QED BY <2>2, <2>5
<1>4. CASE CandidateKeys(env) = {}
  BY <1>4, NoneFromChecks DEF Relate
<1>5. CASE CandidateKeys(env) # {}
  <2> DEFINE s == <<OfKeys(env), OfReferences(env), OfDomains(env)>>
  <2>1. s = [k \in 1..3 |-> s[k]] /\ 3 \in Nat
    OBVIOUS
  <2>2. \A k \in 1..3 : FromChecks(env, s[k])
    <3>1. FromChecks(env, s[1]) /\ FromChecks(env, s[2]) /\ FromChecks(env, s[3])
      BY <1>1, <1>2, <1>3
    <3> HIDE DEF s
    <3>2. \A k \in 1..3 : k = 1 \/ k = 2 \/ k = 3
      OBVIOUS
    <3> QED BY <3>1, <3>2
  <2>3. Relate(env) = FlattenSeq(s)
    BY <1>5 DEF Relate
  <2> HIDE DEF s
  <2> QED BY <2>1, <2>2, <2>3, FlattenedFrom
<1> QED BY <1>4, <1>5

\* What a run of the checks found, and that a gap it saw is among it.
LEMMA CheckFindings ==
    ASSUME NEW env, Sound(env)
    PROVE  /\ FromChecks(env, RunChecks(env))
           /\ \A c \in ColumnsOf(env) : Of(env, c).measured =>
                 \A f \in Range(CheckMissingValues(env, c)) : \E g \in Range(RunChecks(env)) : Key(g) = Key(f)
<1> DEFINE each == [n \in DOMAIN env.tables |-> CheckTable(env, n)]
           s == <<FlattenSeq(each), Relate(env)>>
           w == Len(env.tables)
<1>1. DOMAIN env.tables = 1..w /\ w \in Nat
  BY ColumnsCounted
<1> HIDE DEF w
<1>2. each = [n \in 1..w |-> each[n]] /\ \A n \in 1..w : each[n] = CheckTable(env, n)
  BY <1>1
<1>3. RunChecks(env) = AddAll(<<>>, FlattenSeq(s))
  BY DEF RunChecks
<1> HIDE DEF each
<1>4. \A n \in 1..w : FromChecks(env, each[n])
  BY <1>1, <1>2, TableFindings
<1>5. /\ FromChecks(env, FlattenSeq(each))
      /\ \A n \in 1..w : Range(each[n]) \subseteq Range(FlattenSeq(each))
  BY <1>1, <1>2, <1>4, FlattenedFrom
<1>6. s = [k \in 1..2 |-> s[k]] /\ s[1] = FlattenSeq(each) /\ s[2] = Relate(env) /\ 2 \in Nat /\ 1 \in 1..2
      /\ \A k \in 1..2 : k = 1 \/ k = 2
  OBVIOUS
<1> HIDE DEF s
<1>7. \A k \in 1..2 : FromChecks(env, s[k])
  BY <1>5, <1>6, RelatedFindings
<1>8. /\ FromChecks(env, FlattenSeq(s))
      /\ \A k \in 1..2 : Range(s[k]) \subseteq Range(FlattenSeq(s))
  BY <1>6, <1>7, FlattenedFrom
<1>9. /\ IsSeq(RunChecks(env))
      /\ Range(RunChecks(env)) \subseteq Range(<<>>) \union Range(FlattenSeq(s))
      /\ \A f \in Range(<<>>) \union Range(FlattenSeq(s)) : \E g \in Range(RunChecks(env)) : Key(g) = Key(f)
  <2>1. IsSeq(<<>>) /\ IsSeq(FlattenSeq(s))
    BY <1>8, NothingIs DEF FromChecks
  <2> QED BY <1>3, <2>1, AddAllElements
<1>10. FromChecks(env, RunChecks(env))
  BY <1>8, <1>9, NothingIs DEF FromChecks
<1>11. ASSUME NEW c \in ColumnsOf(env), Of(env, c).measured, NEW f \in Range(CheckMissingValues(env, c))
       PROVE  \E g \in Range(RunChecks(env)) : Key(g) = Key(f)
  <2> DEFINE n == c[1]
             i == c[2]
  <2>1. c = <<n, i>> /\ n \in DOMAIN env.tables /\ i \in DOMAIN env.profile[n]
    BY PlaceIs
  <2> HIDE DEF n, i
  <2>2. f \in Range(CheckTable(env, n))
    BY <1>11, <2>1, TableFindings
  <2>3. f \in Range(FlattenSeq(s))
    BY <1>1, <1>2, <1>5, <1>6, <1>8, <2>1, <2>2
  <2> QED BY <1>9, <2>3
<1> QED BY <1>10, <1>11

-----------------------------------------------------------------------------
(* What the rules find is from none of the checks.                          *)

LEMMA RuleAt ==
    ASSUME NEW env, NEW r, NEW n, NEW i,
           RuleCode[r.id] \notin Titled \union OfAKey
    PROVE  FromChecks(env, EvaluateColumn(r, env, n, i)) /\ FromChecks(env, EvaluateRows(r, env, n))
<1>1. ASSUME NEW at PROVE FromChecks(env, <<Invalid(at)>>)
  <2>1. "rule.invalid" \notin Titled \union OfAKey
    BY DEF Titled, OfAKey
  <2>2. FromChecks(env, When(TRUE, Raise("rule.invalid", Warning, at, 0, NoQuery)))
    BY <2>1, Elsewhere
  <2> QED BY <2>2 DEF When, Invalid
<1>2. ASSUME NEW at, NEW q PROVE FromChecks(env, Violations(r, at, q, env))
  <2> DEFINE answer == Answer(env.engine, q)
             severity == IF r.severity = -1 THEN Error ELSE r.severity
  <2>1. Violations(r, at, q, env) = When(answer > 0, Raise(RuleCode[r.id], severity, at, answer, q))
    BY DEF Violations
  <2> HIDE DEF answer, severity
  <2> QED BY <2>1, Elsewhere
<1>3. FromChecks(env, EvaluateColumn(r, env, n, i))
  <2> DEFINE at == Where(env, <<n, i>>)
             column == Column(env.engine[at[1]], at[2])
             q == CountWhere(env, <<n, i>>, Exempted(r, Breaking(r, column, Other(r, env))))
  <2>1. EvaluateColumn(r, env, n, i) = IF r.expect = "references" /\ ~Pointed(r, env) THEN <<Invalid(at)>>
                                       ELSE Violations(r, at, q, env)
    BY DEF EvaluateColumn
  <2> HIDE DEF at, q
  <2> QED BY <1>1, <1>2, <2>1
<1>4. FromChecks(env, EvaluateRows(r, env, n))
  BY <1>1, <1>2 DEF EvaluateRows
<1> QED BY <1>3, <1>4

LEMMA RuleFindings ==
    ASSUME NEW env, EnvFits(env), NEW file, IsSeq(file),
           \A k \in DOMAIN file : RuleCode[file[k].id] \notin Titled \union OfAKey
    PROVE  FromChecks(env, Evaluate(file, env))
<1>1. ASSUME NEW k \in DOMAIN file, NEW n \in DOMAIN env.tables PROVE FromChecks(env, EvaluateTable(file[k], env, n))
  <2> DEFINE r == file[k]
             one(i) == IF <<n, i>> \in Targets(r, env) THEN EvaluateColumn(r, env, n, i) ELSE <<>>
             each == [i \in DOMAIN env.tables[n].columns |-> one(i)]
             w == Len(env.tables[n].columns)
  <2>1. FromChecks(env, IF <<n, 0>> \in Targets(r, env) THEN EvaluateRows(r, env, n) ELSE <<>>)
    BY RuleAt, NoneFromChecks
  <2>2. \A i : FromChecks(env, one(i))
    BY RuleAt, NoneFromChecks
  <2>3. DOMAIN env.tables[n].columns = 1..w /\ w \in Nat
    BY SeqIsOf DEF EnvFits, IsSeq
  <2>4. EvaluateTable(r, env, n) =
          IF r.expect = "sql"
          THEN IF <<n, 0>> \in Targets(r, env) THEN EvaluateRows(r, env, n) ELSE <<>>
          ELSE FlattenSeq(each)
    BY DEF EvaluateTable
  <2> HIDE DEF w, one, r
  <2>5. each = [i \in 1..w |-> each[i]] /\ \A i \in 1..w : FromChecks(env, each[i])
    BY <2>2, <2>3
  <2> HIDE DEF each
  <2>6. FromChecks(env, FlattenSeq(each))
    BY <2>3, <2>5, FlattenedFrom
  <2>7. FromChecks(env, EvaluateTable(r, env, n))
    BY <2>1, <2>4, <2>6
  <2> QED BY <2>7 DEF r
<1>2. ASSUME NEW k \in DOMAIN file PROVE FromChecks(env, EvaluateRule(file[k], env))
  <2> DEFINE r == file[k]
             each == [n \in DOMAIN env.tables |-> EvaluateTable(r, env, n)]
             w == Len(env.tables)
  <2>1. DOMAIN env.tables = 1..w /\ w \in Nat
    BY SeqIsOf DEF EnvFits, IsSeq
  <2>2. EvaluateRule(r, env) = IF Targets(r, env) = {}
                               THEN <<Raise("rule.never_applied", Warning, <<>>, 0, NoQuery)>>
                               ELSE FlattenSeq(each)
    BY DEF EvaluateRule
  <2>3. FromChecks(env, <<Raise("rule.never_applied", Warning, <<>>, 0, NoQuery)>>)
    <3>1. "rule.never_applied" \notin Titled \union OfAKey
      BY DEF Titled, OfAKey
    <3>2. FromChecks(env, When(TRUE, Raise("rule.never_applied", Warning, <<>>, 0, NoQuery)))
      BY <3>1, Elsewhere
    <3> QED BY <3>2 DEF When
  <2> HIDE DEF w
  <2>4. each = [n \in 1..w |-> each[n]] /\ \A n \in 1..w : FromChecks(env, each[n])
    BY <1>1, <2>1
  <2> HIDE DEF each
  <2>5. FromChecks(env, FlattenSeq(each))
    BY <2>1, <2>4, FlattenedFrom
  <2> QED BY <2>2, <2>3, <2>5
<1> DEFINE each == [k \in DOMAIN file |-> EvaluateRule(file[k], env)]
           w == Len(file)
<1>3. DOMAIN file = 1..w /\ w \in Nat
  BY SeqIsOf DEF IsSeq
<1>4. Evaluate(file, env) = FlattenSeq(each)
  BY DEF Evaluate
<1> HIDE DEF w
<1>5. each = [k \in 1..w |-> each[k]] /\ \A k \in 1..w : FromChecks(env, each[k])
  BY <1>2, <1>3
<1> HIDE DEF each
<1> QED BY <1>3, <1>4, <1>5, FlattenedFrom

-----------------------------------------------------------------------------
(* When the audit is done.                                                  *)

\* Everything in the set is from a check or a rule, and a gap a check saw is in it; and
\* what is reported is what of it stays.
FoundFits ==
    /\ Sound(Env)
    /\ FromChecks(Env, found)
    /\ \A c \in ColumnsOf(Env) : Of(Env, c).measured =>
          \A f \in Range(CheckMissingValues(Env, c)) : \E g \in Range(found) : Key(g) = Key(f)
    /\ LET stays == {k \in DOMAIN found : ~Dropped(found[k], Remeasured(found[k]))} IN
       reported = [k \in stays |-> Checked(found[k], Remeasured(found[k]))]

LEMMA AtTheEnd == IngestInv /\ PassInv /\ stage = "done" => FoundFits
<1> SUFFICES ASSUME IngestInv, PassInv, stage = "done" PROVE FoundFits
  OBVIOUS
<1>1. Env.tables = tables /\ Env.engine = engine /\ Env.profile = profile
  BY DEF Env
<1>2. Sound(Env)
  <2>1. EnvFits(Env)
    BY LoadedFits
  <2>2. \E failed : Env.profile = Profile(Env.engine, Env.tables, failed)
    BY <1>1 DEF PassInv
  <2> QED BY <1>1, <2>1, <2>2 DEF Sound, IngestInv, LoadInv
<1>3. found = AddAll(RunChecks(Env), Evaluate(rules.file, Env))
  BY DEF PassInv
<1>4. FromChecks(Env, Evaluate(rules.file, Env))
  <2>1. IsSeq(rules.file) /\ \A k \in DOMAIN rules.file : RuleCode[rules.file[k].id] \notin Titled \union OfAKey
    BY RulesLoad DEF PassInv, RulesLoad
  <2> QED BY <2>1, <1>2, RuleFindings DEF Sound
<1>5. /\ FromChecks(Env, RunChecks(Env))
      /\ \A c \in ColumnsOf(Env) : Of(Env, c).measured =>
            \A f \in Range(CheckMissingValues(Env, c)) : \E g \in Range(RunChecks(Env)) : Key(g) = Key(f)
  BY <1>2, CheckFindings
<1>6. /\ IsSeq(found)
      /\ Range(found) \subseteq Range(RunChecks(Env)) \union Range(Evaluate(rules.file, Env))
      /\ \A f \in Range(RunChecks(Env)) \union Range(Evaluate(rules.file, Env)) :
             \E g \in Range(found) : Key(g) = Key(f)
  BY <1>3, <1>4, <1>5, AddAllElements DEF FromChecks
<1>7. FromChecks(Env, found)
  BY <1>4, <1>5, <1>6 DEF FromChecks
<1>8. ASSUME NEW c \in ColumnsOf(Env), Of(Env, c).measured, NEW f \in Range(CheckMissingValues(Env, c))
      PROVE  \E g \in Range(found) : Key(g) = Key(f)
  <2>1. PICK h \in Range(RunChecks(Env)) : Key(h) = Key(f)
    BY <1>5, <1>8
  <2>2. PICK g \in Range(found) : Key(g) = Key(h)
    BY <1>6
  <2> QED BY <2>1, <2>2
<1>9. LET stays == {k \in DOMAIN found : ~Dropped(found[k], Remeasured(found[k]))} IN
      reported = [k \in stays |-> Checked(found[k], Remeasured(found[k]))]
  BY DEF PassInv
<1> QED BY <1>2, <1>7, <1>8, <1>9 DEF FoundFits

\* A finding whose title holds is reported with the number its title claims.
LEMMA TitledStays ==
    ASSUME FoundFits, NEW f \in Range(found), TitleHolds(Env, f)
    PROVE  \E g \in Range(reported) : Key(g) = Key(f) /\ g.rule = f.rule
             /\ g.at = f.at /\ g.count = f.claimed
<1> DEFINE got == Remeasured(f)
           stays == {k \in DOMAIN found : ~Dropped(found[k], Remeasured(found[k]))}
<1>1. PICK k \in DOMAIN found : found[k] = f
  BY DEF Range
<1>2. got = IF f.query = NoQuery THEN 0 ELSE f.claimed
  BY DEF Remeasured, TitleHolds, Env
<1>3. ~Dropped(f, got)
  BY <1>2 DEF Dropped, Unrunnable, TitleHolds
<1>4. Checked(f, got).rule = f.rule /\ Checked(f, got).at = f.at /\ Checked(f, got).count = f.claimed
  BY <1>2 DEF Checked, TitleHolds, FindingFields
<1>5. reported = [i \in stays |-> Checked(found[i], Remeasured(found[i]))]
  BY DEF FoundFits
<1>6. k \in stays /\ reported[k] = Checked(f, got)
  BY <1>1, <1>3, <1>5
<1>7. Checked(f, got) \in Range(reported)
  BY <1>5, <1>6 DEF Range
<1>8. Key(Checked(f, got)) = Key(f)
  BY <1>4 DEF Key
<1> QED BY <1>4, <1>7, <1>8

\* The number in the title of a finding is the number of rows the report shows for it.
THEOREM TitlesAlwaysHold == Spec => []TitlesHold
<1>1. IngestInv /\ PassInv => TitlesHold
  <2> SUFFICES ASSUME IngestInv, PassInv, stage = "done", NEW f \in Range(found), f.rule \in Titled
               PROVE  \E g \in Range(reported) : Key(g) = Key(f) /\ g.count = f.claimed
    BY DEF TitlesHold
  <2>1. FoundFits
    BY AtTheEnd
  <2>2. TitleHolds(Env, f)
    BY <2>1 DEF FoundFits, FromChecks, FromCheck
  <2> QED BY <2>1, <2>2, TitledStays
<1> QED BY <1>1, IngestInvariant, PassInvariant, PTL

-----------------------------------------------------------------------------
(* The gaps that are reported, in a table that has a name of its own: of two *)
(* with one name the engine has the later, and the load the rows of the first. *)

\* Every table of the load has a name of its own.
NamesApart == \A m, n \in DOMAIN tables : tables[m].name = tables[n].name => m = n

\* A column that was not passed over is measured when its table has lines.
LEMMA ThenMeasured ==
    ASSUME IngestInv, FoundFits, NamesApart, NEW c \in ColumnsOf(Env), Of(Env, c).measured,
           Size(TableAt(Env, Where(Env, c))) # 0
    PROVE  IsMeasured(Env, c)
<1>1. c[1] \in DOMAIN tables /\ Env.tables = tables /\ Env.engine = engine
  BY PlaceIs DEF FoundFits, Env
<1>2. Alone(c[1])
  BY <1>1 DEF NamesApart, Alone
<1>3. tables[c[1]].rowCount = Size(engine[tables[c[1]].name])
  BY <1>1, <1>2 DEF IngestInv, LoadInv
<1>4. TableAt(Env, Where(Env, c)) = engine[tables[c[1]].name] /\ RowCount(Env, c) = tables[c[1]].rowCount
  BY <1>1 DEF TableAt, Where, RowCount
<1> SUFFICES ASSUME ~IsMeasured(Env, c) PROVE FALSE
  OBVIOUS
<1>5. RowCount(Env, c) = 0
  BY UnmeasuredIs DEF FoundFits
<1> QED BY <1>3, <1>4, <1>5

LEMMA MissingClaims ==
    ASSUME NEW env, Sound(env), NEW c \in ColumnsOf(env), NEW f \in Range(CheckMissingValues(env, c))
    PROVE  LET p == Of(env, c) IN
           f.claimed = p.nulls + p.blanks + Total([s \in Counted(p) |-> p.placeholders[s]])
<1> DEFINE p == Of(env, c)
           placeholders == Total([s \in Counted(p) |-> p.placeholders[s]])
           missing == p.nulls + p.blanks + placeholders
           half == 2 * missing >= p.total
           words == {v \in Cells \ {Null} : Folded[v] \in Counted(p)}
           query == CountWhere(env, c, (Cells \ NonBlank) \union words)
           severity == IF half THEN Warning ELSE Info
           r == Raise("column.missing_values", severity, Where(env, c), missing, query)
<1>1. f = r
  BY WhenIs DEF CheckMissingValues
<1>2. r.claimed = missing
  <2> HIDE DEF missing, query, severity
  <2> QED BY RaiseIs
<1> QED BY <1>1, <1>2

\* Where a word for "no value" is among real values, a gap is reported.
LEMMA GapsFound ==
    ASSUME NEW env, Sound(env), NEW c \in ColumnsOf(env), IsMeasured(env, c),
           CountIn(ColumnAt(env, Where(env, c)), IsTextPlaceholder) > 0,
           CountIn(ColumnAt(env, Where(env, c)),
               NonBlank \ (IsTextPlaceholder \union IsNumberPlaceholder)) > 0
    PROVE  LET p == Of(env, c)
               column == ColumnAt(env, Where(env, c))
           IN  /\ p.nulls + p.blanks + Total([s \in Counted(p) |-> p.placeholders[s]])
                     >= CountIn(column, IsTextPlaceholder) + CountIn(column, Cells \ NonBlank)
               /\ \E f : f \in Range(CheckMissingValues(env, c))
<1> DEFINE p == Of(env, c)
           column == ColumnAt(env, Where(env, c))
           W == IsTextPlaceholder \union IsNumberPlaceholder
           counted == Counted(p)
           placeholders == Total([s \in counted |-> p.placeholders[s]])
           words == {v \in Cells \ {Null} : Folded[v] \in counted}
           gaps == (Cells \ NonBlank) \union words
           values == NonBlank \ W
           missing == p.nulls + p.blanks + placeholders
<1>1. IsFiniteSet(DOMAIN column) /\ p.total = Cardinality(DOMAIN column)
  BY MeasuredOf
<1>2. /\ placeholders = CountIn(column, words)
      /\ missing = CountIn(column, gaps)
      /\ p.nulls + p.blanks = CountIn(column, Cells \ NonBlank)
      /\ p.nulls \in Nat /\ p.blanks \in Nat /\ placeholders \in Nat
  BY MissingIs
<1>3. p.placeholders = Groups(column, Folded, W)
  <2> DEFINE t == TableAt(env, Where(env, c))
             name == Where(env, c)[2]
  <2>1. p = Measured(t, name) /\ column = Column(t, name)
    BY DEF IsMeasured, ColumnAt, TableAt
  <2> HIDE DEF p, t, name, column
  <2>2. Measured(t, name).placeholders =
            Groups(Column(t, name), Folded, IsTextPlaceholder \union IsNumberPlaceholder)
    BY MeasuredIs
  <2> QED BY <2>1, <2>2
<1>4. DOMAIN p.placeholders = {Folded[v] : v \in W \intersect Range(column)}
  <2> HIDE DEF p, column, W
  <2> QED BY <1>3 DEF Groups
<1>5. counted \subseteq {Folded[v] : v \in W}
        /\ \A s \in DOMAIN p.placeholders : s \notin NumberPlaceholders => s \in counted
  <2> HIDE DEF p, column, W
  <2> QED BY <1>4 DEF Counted
<1> HIDE DEF p, column, counted, placeholders
<1>6. CountIn(column, IsTextPlaceholder) <= CountIn(column, words)
  <2>1. ASSUME NEW line \in DOMAIN column, column[line] \in IsTextPlaceholder PROVE column[line] \in words
    <3> DEFINE v == column[line]
    <3>1. v \in W \intersect Range(column)
      BY <2>1 DEF Range
    <3>2. Folded[v] \in DOMAIN p.placeholders
      BY <1>4, <3>1
    <3>3. v \in Cells \ {Null} /\ Folded[v] \in TextPlaceholders
      BY <2>1 DEF IsTextPlaceholder
    <3>4. Folded[v] \notin NumberPlaceholders
      BY <3>3 DEF TextPlaceholders, NumberPlaceholders
    <3> QED BY <1>5, <3>2, <3>3, <3>4
  <2>2. Lines(column, IsTextPlaceholder) \in SUBSET Lines(column, words)
    BY <2>1 DEF Lines
  <2>3. IsFiniteSet(Lines(column, words))
    <3> HIDE DEF words
    <3> QED BY <1>1, CountNat
  <2> HIDE DEF words
  <2> QED BY <2>2, <2>3, FS_Subset DEF CountIn
<1>7. values \intersect gaps = {}
  <2>1. ASSUME NEW v \in words PROVE v \in W
    <3>1. PICK u \in W : Folded[v] = Folded[u]
      BY <1>5
    <3> QED BY <3>1, PlaceholderIs
  <2> QED BY <2>1, PlaceholderIs
<1>8. CountIn(column, values \union gaps) <= p.total
  <2>1. Lines(column, values \union gaps) \in SUBSET DOMAIN column
    BY DEF Lines
  <2> HIDE DEF values, gaps
  <2>2. Cardinality(Lines(column, values \union gaps)) <= Cardinality(DOMAIN column)
    BY <1>1, <2>1, FS_Subset
  <2> QED BY <1>1, <2>2 DEF CountIn
<1>9. CountIn(column, values \union gaps) = CountIn(column, values) + CountIn(column, gaps)
  <2> HIDE DEF values, gaps
  <2> QED BY <1>1, <1>7, CountApart
<1>10. CountIn(column, IsTextPlaceholder) \in Nat /\ CountIn(column, gaps) \in Nat /\ CountIn(column, values) \in Nat
       /\ CountIn(column, Cells \ NonBlank) \in Nat /\ p.total \in Nat
  <2> HIDE DEF values, gaps
  <2> QED BY <1>1, CountNat, FS_CardinalityType
<1>11. CountIn(column, IsTextPlaceholder) > 0 /\ CountIn(column, values) > 0
  BY DEF column
<1> HIDE DEF values, gaps, words, W
<1>12. placeholders > 0 /\ missing > 0 /\ missing # p.total
  BY <1>2, <1>6, <1>8, <1>9, <1>10, <1>11
<1>13. missing >= CountIn(column, IsTextPlaceholder) + CountIn(column, Cells \ NonBlank)
  BY <1>2, <1>6, <1>10
<1>14. \E f : f \in Range(CheckMissingValues(env, c))
  <2> DEFINE condition == /\ missing > 0
                          /\ missing # p.total
                          /\ 2 * missing >= p.total \/ placeholders > 0 \/ 20 * missing >= p.total
             r == Raise("column.missing_values", IF 2 * missing >= p.total THEN Warning ELSE Info,
                 Where(env, c), missing,
                        CountWhere(env, c, gaps))
  <2>1. CheckMissingValues(env, c) = When(condition, r)
    BY DEF CheckMissingValues, p, counted, placeholders, gaps, words
  <2>2. condition
    BY <1>12
  <2> HIDE DEF condition, r
  <2> QED BY <2>1, <2>2, WhenIs
<1> QED BY <1>13, <1>14 DEF p, column, counted, placeholders

\* The gaps of a column in which somebody typed a word for "no value" are in the report,
\* and no such word is left out, in whatever table has a name of its own.
THEOREM GapsAlwaysReported == Spec => [](NamesApart => GapsAreReported)
<1>1. IngestInv /\ PassInv /\ NamesApart => GapsAreReported
  <2> SUFFICES ASSUME IngestInv, PassInv, NamesApart, stage = "done", NEW c \in ColumnsOf(Env),
                      Of(Env, c).measured,
                      CountIn(ColumnAt(Env, Where(Env, c)), IsTextPlaceholder) > 0,
                      CountIn(ColumnAt(Env, Where(Env, c)),
                          NonBlank \ (IsTextPlaceholder \union IsNumberPlaceholder)) > 0
               PROVE  \E f \in Range(reported) :
                         /\ f.rule = "column.missing_values" /\ f.at = Where(Env, c)
                         /\ f.count >= CountIn(ColumnAt(Env, Where(Env, c)), IsTextPlaceholder)
                                         + CountIn(ColumnAt(Env, Where(Env, c)), Cells \ NonBlank)
    <3>1. \A c : ColumnAt(Env, Where(Env, c)) = Column(engine[Where(Env, c)[1]], Where(Env, c)[2])
      BY DEF ColumnAt, Env
    <3> QED BY <3>1 DEF GapsAreReported
  <2> DEFINE column == ColumnAt(Env, Where(Env, c))
             claim(a) == Of(Env, a).nulls + Of(Env, a).blanks
                           + Total([s \in Counted(Of(Env, a)) |-> Of(Env, a).placeholders[s]])
             gaps == CountIn(column, IsTextPlaceholder) + CountIn(column, Cells \ NonBlank)
  <2>1. FoundFits /\ Sound(Env)
    BY AtTheEnd DEF FoundFits
  <2>2. Size(TableAt(Env, Where(Env, c))) # 0
    <3> SUFFICES ASSUME Size(TableAt(Env, Where(Env, c))) = 0 PROVE FALSE
      OBVIOUS
    <3>1. IsFiniteSet(DOMAIN column) /\ IsFiniteSet(DOMAIN TableAt(Env, Where(Env, c)).rows)
      BY <2>1, PlaceIs
    <3>2. DOMAIN column = DOMAIN TableAt(Env, Where(Env, c)).rows
      BY ColumnIs DEF ColumnAt, TableAt
    <3>3. DOMAIN column = {}
      BY <3>1, <3>2, FS_EmptySet DEF Size
    <3> HIDE DEF column
    <3>4. Lines(column, IsTextPlaceholder) = {}
      BY <3>3 DEF Lines
    <3>5. CountIn(column, IsTextPlaceholder) = 0
      BY <3>4, FS_EmptySet DEF CountIn
    <3> QED BY <3>5 DEF column
  <2>3. IsMeasured(Env, c)
    BY <2>1, <2>2, ThenMeasured
  <2>4. claim(c) >= gaps /\ \E f : f \in Range(CheckMissingValues(Env, c))
    BY <2>1, <2>3, GapsFound
  <2>5. PICK f \in Range(CheckMissingValues(Env, c)) : TRUE
    BY <2>4
  <2>6. f.rule = "column.missing_values" /\ f.at = Where(Env, c)
    BY <2>1, MissingHolds
  <2>7. PICK h \in Range(found) : Key(h) = Key(f)
    BY <2>1 DEF FoundFits
  <2>8. h.rule = "column.missing_values" /\ h.at = Where(Env, c)
    BY <2>6, <2>7 DEF Key
  <2>9. PICK a \in ColumnsOf(Env) : h \in Range(CheckMissingValues(Env, a))
    BY <2>1, <2>8 DEF FoundFits, FromChecks, FromCheck
  <2>10. h.at = Where(Env, a) /\ IsMeasured(Env, a) /\ TitleHolds(Env, h)
    BY <2>1, <2>9, MissingHolds
  <2>11. Of(Env, a) = Of(Env, c)
    BY <2>3, <2>8, <2>10 DEF IsMeasured
  <2>12. h.claimed = claim(a)
    BY <2>1, <2>9, MissingClaims
  <2>13. claim(a) = claim(c)
    BY <2>11
  <2> HIDE DEF claim, gaps
  <2>14. PICK g \in Range(reported) : g.rule = h.rule /\ g.at = h.at /\ g.count = h.claimed
    BY <2>1, <2>10, TitledStays
  <2> QED BY <2>4, <2>8, <2>12, <2>13, <2>14 DEF gaps
<1> QED BY <1>1, IngestInvariant, PassInvariant, PTL

-----------------------------------------------------------------------------
(* The order of the keys a column may refer to has a first.                 *)

\* Of two shares, by what each is of the other's whole.
LEMMA Scaled == \A a, b, c \in Nat : c > 0 => (a > b <=> a * c > b * c) /\ (a >= b <=> a * c >= b * c)
<1> SUFFICES ASSUME NEW a \in Nat, NEW b \in Nat, NEW c \in Nat, c > 0
             PROVE  (a > b <=> a * c > b * c) /\ (a >= b <=> a * c >= b * c)
  OBVIOUS
<1>1. ASSUME NEW x \in Nat, NEW y \in Nat, x > y PROVE x * c > y * c
  <2>1. PICK d \in Nat : x = y + d /\ d > 0
    <3>1. x - y \in Nat /\ x = y + (x - y) /\ x - y > 0
      BY <1>1
    <3> QED BY <3>1
  <2>2. (y + d) * c = y * c + d * c
    OBVIOUS
  <2>3. d * c > 0
    BY <2>1
  <2>4. y * c \in Nat /\ d * c \in Nat
    OBVIOUS
  <2> QED BY <2>1, <2>2, <2>3, <2>4
<1>2. a * c \in Nat /\ b * c \in Nat
  OBVIOUS
<1>3. CASE a > b
  BY <1>1, <1>2, <1>3
<1>4. CASE b > a
  BY <1>1, <1>2, <1>4
<1>5. CASE a = b
  BY <1>2, <1>5
<1> QED BY <1>3, <1>4, <1>5

LEMMA Shares ==
    ASSUME NEW p \in Nat, NEW q \in Nat, NEW r \in Nat,
           NEW x \in Nat, NEW y \in Nat, NEW z \in Nat, x > 0, y > 0, z > 0,
           p * y >= q * x, q * z >= r * y
    PROVE  /\ p * z >= r * x
           /\ p * y > q * x \/ q * z > r * y => p * z > r * x
<1> DEFINE py == p * y
           qx == q * x
           qz == q * z
           ry == r * y
           pz == p * z
           rx == r * x
<1>1. py \in Nat /\ qx \in Nat /\ qz \in Nat /\ ry \in Nat /\ pz \in Nat /\ rx \in Nat
  OBVIOUS
<1>2. py * z = pz * y /\ qx * z = qz * x /\ ry * x = rx * y
  OBVIOUS
<1>3. py >= qx /\ qz >= ry
  OBVIOUS
<1> HIDE DEF py, qx, qz, ry, pz, rx
<1>4. py * z >= qx * z /\ qz * x >= ry * x
  BY <1>1, <1>3, Scaled
<1>5. py > qx => py * z > qx * z
  BY <1>1, Scaled
<1>6. qz > ry => qz * x > ry * x
  BY <1>1, Scaled
<1>7. pz * y >= rx * y /\ (py > qx \/ qz > ry => pz * y > rx * y)
  <2>1. pz * y \in Nat /\ rx * y \in Nat /\ qx * z \in Nat
    BY <1>1
  <2> DEFINE a == pz * y
             b == rx * y
             d == qx * z
  <2>2. a >= d /\ d >= b /\ (py > qx => a > d) /\ (qz > ry => d > b) /\ a \in Nat /\ b \in Nat /\ d \in Nat
    BY <1>2, <1>4, <1>5, <1>6, <2>1
  <2> HIDE DEF a, b, d
  <2>3. a >= b /\ (py > qx \/ qz > ry => a > b)
    BY <2>2
  <2> QED BY <2>3 DEF a, b
<1>8. pz >= rx /\ (pz * y > rx * y => pz > rx)
  BY <1>1, <1>7, Scaled
<1> QED BY <1>7, <1>8 DEF py, qx, qz, ry, pz, rx

\* The order of the keys a column may refer to: by name, by share, by place.
Sooner(named, part, whole, a, b) ==
    IF named[a] # named[b] THEN named[a]
    ELSE IF part[a] * whole[b] # part[b] * whole[a]
         THEN part[a] * whole[b] > part[b] * whole[a]
         ELSE Precedes(a, b)

InPlace(K, whole) == \A a \in K : whole[a] > 0 /\ a = <<a[1], a[2]>> /\ a[1] \in Nat /\ a[2] \in Nat

LEMMA SoonerIsAnOrder ==
    ASSUME NEW K, NEW named \in [K -> BOOLEAN], NEW part \in [K -> Nat], NEW whole \in [K -> Nat],
           InPlace(K, whole)
    PROVE  /\ \A a, b \in K : a # b => Sooner(named, part, whole, a, b) \/ Sooner(named, part, whole, b, a)
           /\ \A a \in K : ~Sooner(named, part, whole, a, a)
           /\ \A a, b, c \in K : Sooner(named, part, whole, a, b) /\ Sooner(named, part, whole, b, c)
                                    => Sooner(named, part, whole, a, c)
<1>1. \A a, b \in K : a # b => Precedes(a, b) \/ Precedes(b, a)
  BY DEF Precedes, InPlace
<1>2. \A a \in K : ~Precedes(a, a)
  BY DEF Precedes, InPlace
<1>3. \A a, b, c \in K : Precedes(a, b) /\ Precedes(b, c) => Precedes(a, c)
  BY DEF Precedes, InPlace
<1>4. ASSUME NEW a \in K, NEW b \in K, a # b
      PROVE  Sooner(named, part, whole, a, b) \/ Sooner(named, part, whole, b, a)
  <2> DEFINE x == part[a] * whole[b]
             y == part[b] * whole[a]
  <2>1. x \in Nat /\ y \in Nat /\ named[a] \in BOOLEAN /\ named[b] \in BOOLEAN
    OBVIOUS
  <2>2. (IF named[a] # named[b] THEN named[a] ELSE IF x # y THEN x > y ELSE Precedes(a, b))
           => Sooner(named, part, whole, a, b)
    BY DEF Sooner
  <2>3. (IF named[b] # named[a] THEN named[b] ELSE IF y # x THEN y > x ELSE Precedes(b, a))
           => Sooner(named, part, whole, b, a)
    BY DEF Sooner
  <2>4. x = y \/ x > y \/ y > x
    BY <2>1
  <2>5. Precedes(a, b) \/ Precedes(b, a)
    BY <1>1, <1>4
  <2> HIDE DEF x, y
  <2>6. CASE named[a] # named[b]
    BY <2>1, <2>2, <2>3, <2>6
  <2>7. CASE named[a] = named[b] /\ x = y
    BY <2>2, <2>3, <2>5, <2>7
  <2>8. CASE named[a] = named[b] /\ x # y
    BY <2>2, <2>3, <2>4, <2>8
  <2> QED BY <2>6, <2>7, <2>8
<1>5. \A a \in K : ~Sooner(named, part, whole, a, a)
  BY <1>2 DEF Sooner
<1>6. ASSUME NEW a \in K, NEW b \in K, NEW c \in K,
             Sooner(named, part, whole, a, b), Sooner(named, part, whole, b, c)
      PROVE  Sooner(named, part, whole, a, c)
  <2> DEFINE ab == part[a] * whole[b]
             ba == part[b] * whole[a]
             bc == part[b] * whole[c]
             cb == part[c] * whole[b]
             ac == part[a] * whole[c]
             ca == part[c] * whole[a]
  <2>1. /\ ab \in Nat /\ ba \in Nat /\ bc \in Nat /\ cb \in Nat /\ ac \in Nat /\ ca \in Nat
        /\ named[a] \in BOOLEAN /\ named[b] \in BOOLEAN /\ named[c] \in BOOLEAN
    OBVIOUS
  <2>2. IF named[a] # named[b] THEN named[a] ELSE IF ab # ba THEN ab > ba ELSE Precedes(a, b)
    BY <1>6 DEF Sooner
  <2>3. IF named[b] # named[c] THEN named[b] ELSE IF bc # cb THEN bc > cb ELSE Precedes(b, c)
    BY <1>6 DEF Sooner
  <2>4. ab >= ba /\ bc >= cb => ac >= ca /\ (ab > ba \/ bc > cb => ac > ca)
    <3>1. /\ part[a] \in Nat /\ part[b] \in Nat /\ part[c] \in Nat
          /\ whole[a] \in Nat /\ whole[b] \in Nat /\ whole[c] \in Nat
          /\ whole[a] > 0 /\ whole[b] > 0 /\ whole[c] > 0
      BY DEF InPlace
    <3> QED BY <3>1, Shares
  <2>5. (IF named[a] # named[c] THEN named[a] ELSE IF ac # ca THEN ac > ca ELSE Precedes(a, c))
          => Sooner(named, part, whole, a, c)
    BY DEF Sooner
  <2> HIDE DEF ab, ba, bc, cb, ac, ca
  <2>6. CASE named[a] # named[b] \/ named[b] # named[c]
    BY <2>1, <2>2, <2>3, <2>5, <2>6
  <2>7. CASE named[a] = named[b] /\ named[b] = named[c]
    <3>1. ab >= ba /\ bc >= cb
      BY <2>1, <2>2, <2>3, <2>7
    <3>2. ac >= ca /\ (ab > ba \/ bc > cb => ac > ca)
      BY <2>4, <3>1
    <3>3. CASE ab > ba \/ bc > cb
      BY <2>1, <2>5, <2>7, <3>2, <3>3
    <3>4. CASE ab = ba /\ bc = cb
      <4>1. Precedes(a, c)
        BY <1>3, <2>2, <2>3, <2>7, <3>4
      <4> QED BY <2>1, <2>5, <2>7, <3>2, <4>1
    <3>5. (ab > ba \/ bc > cb) \/ (ab = ba /\ bc = cb)
      <4>1. ab \in Nat /\ ba \in Nat /\ bc \in Nat /\ cb \in Nat
        BY <2>1
      <4> QED BY <3>1, <4>1
    <3> QED BY <3>3, <3>4, <3>5
  <2> QED BY <2>6, <2>7
<1> QED BY <1>4, <1>5, <1>6

-----------------------------------------------------------------------------
(* What the report says of keys and references, and what the tools say.     *)

LEMMA ColumnsFinite ==
    ASSUME NEW env, Sound(env)
    PROVE  IsFiniteSet(ColumnsOf(env)) /\ \A c \in ColumnsOf(env) : c[1] \in Nat /\ c[2] \in Nat
<1> DEFINE of(n) == {<<n, i>> : i \in DOMAIN env.profile[n]}
           w == Len(env.tables)
           sets == [n \in 1..w |-> of(n)]
<1>1. DOMAIN env.tables = 1..w /\ w \in Nat
  BY ColumnsCounted
<1>2. ASSUME NEW n \in 1..w PROVE IsFiniteSet(of(n))
  <2> DEFINE m == Len(env.profile[n])
             g == [i \in 1..m |-> <<n, i>>]
  <2>1. DOMAIN env.profile[n] = 1..m /\ m \in Nat
    BY <1>1, ColumnsCounted
  <2> HIDE DEF m
  <2>2. IsFiniteSet(1..m)
    BY <2>1, FS_Interval
  <2>3. g = [x \in DOMAIN g |-> g[x]] /\ DOMAIN g = 1..m /\ Range(g) = of(n)
    BY <2>1 DEF Range
  <2> HIDE DEF g, of
  <2> QED BY <2>2, <2>3, RangeFinite
<1>3. ColumnsOf(env) = UNION Range(sets)
  <2>1. ColumnsOf(env) = UNION {of(n) : n \in 1..w}
    BY <1>1 DEF ColumnsOf
  <2> HIDE DEF of, w
  <2>2. Range(sets) = {of(n) : n \in 1..w}
    BY DEF Range
  <2> HIDE DEF sets
  <2> QED BY <2>1, <2>2
<1>4. IsFiniteSet(Range(sets)) /\ \A S \in Range(sets) : IsFiniteSet(S)
  <2> HIDE DEF of, w
  <2>1. IsFiniteSet(1..w)
    BY <1>1, FS_Interval
  <2>2. sets = [x \in DOMAIN sets |-> sets[x]] /\ DOMAIN sets = 1..w
    OBVIOUS
  <2>3. \A S \in Range(sets) : IsFiniteSet(S)
    BY <1>2 DEF Range
  <2> HIDE DEF sets
  <2>4. IsFiniteSet(Range(sets))
    BY <2>1, <2>2, RangeFinite
  <2> QED BY <2>3, <2>4
<1>5. IsFiniteSet(ColumnsOf(env))
  <2> HIDE DEF sets
  <2> QED BY <1>3, <1>4, FS_UNION
<1>6. ASSUME NEW c \in ColumnsOf(env) PROVE c[1] \in Nat /\ c[2] \in Nat
  <2>1. c[1] \in DOMAIN env.tables /\ c[2] \in DOMAIN env.tables[c[1]].columns
    BY PlaceIs
  <2>2. DOMAIN env.profile[c[1]] = DOMAIN env.tables[c[1]].columns
    BY <2>1, PlaceIs
  <2>3. DOMAIN env.profile[c[1]] = 1..Len(env.profile[c[1]])
    BY <2>1, ColumnsCounted
  <2> HIDE DEF w
  <2> QED BY <1>1, <2>1, <2>2, <2>3
<1> QED BY <1>5, <1>6

\* A key is of a column that was measured.
LEMMA KeysMeasured ==
    ASSUME NEW env, Sound(env), NEW c \in CandidateKeys(env)
    PROVE  /\ c \in ColumnsOf(env) /\ IsMeasured(env, c)
           /\ Of(env, c).distinct \in Nat /\ Filled(Of(env, c)) \in Nat /\ Filled(Of(env, c)) > 0
<1> DEFINE p == Of(env, c)
           column == ColumnAt(env, Where(env, c))
<1>1. /\ c \in ColumnsOf(env) /\ Filled(p) > 0
      /\ 10 * p.distinct >= 9 * Filled(p) \/ 2 * p.distinct >= Filled(p)
  BY DEF CandidateKeys
<1>2. IsMeasured(env, c)
  <2> SUFFICES ASSUME ~IsMeasured(env, c) PROVE FALSE
    OBVIOUS
  <2>1. p.nulls = 0 /\ p.blanks = 0 /\ p.distinct = 0 /\ p.total = RowCount(env, c)
    BY <1>1, UnmeasuredIs
  <2>2. RowCount(env, c) \in Nat
    BY <1>1, PlaceIs DEF Sound, RowCount
  <2> HIDE DEF p
  <2> QED BY <1>1, <2>1, <2>2 DEF Filled
<1>3. /\ IsFiniteSet(DOMAIN column)
      /\ column = [line \in DOMAIN column |-> column[line]]
      /\ p.total = Cardinality(DOMAIN column)
      /\ p.nulls = CountIn(column, {Null})
      /\ p.blanks = CountIn(column, Cells \ ({Null} \union NonBlank))
      /\ p.distinct = Cardinality(Range(column) \ {Null})
  BY <1>1, <1>2, MeasuredOf
<1> HIDE DEF p, column
<1>4. p.total \in Nat /\ p.nulls \in Nat /\ p.blanks \in Nat
  BY <1>3, CountNat, FS_CardinalityType
<1>5. p.distinct \in Nat
  <2>1. IsFiniteSet(Range(column))
    BY <1>3, RangeFinite
  <2>2. IsFiniteSet(Range(column) \ {Null})
    <3>1. Range(column) \ {Null} \in SUBSET Range(column)
      OBVIOUS
    <3> QED BY <2>1, <3>1, FS_Subset
  <2> QED BY <1>3, <2>2, FS_CardinalityType
<1>6. Filled(p) \in Nat
  BY <1>1, <1>4 DEF Filled
<1> QED BY <1>1, <1>2, <1>5, <1>6 DEF p

LEMMA NamedIs == ASSUME NEW env, NEW a, NEW b PROVE Named(env, a, b) \in BOOLEAN
BY DEF Named, NamedFor

\* There is a best of the keys a column may refer to.
LEMMA BestIs ==
    ASSUME NEW env, Sound(env), NEW child, Referable(env, child) # {}
    PROVE  BestKey(env, child) \in Referable(env, child)
<1> DEFINE K == Referable(env, child)
           named == [a \in K |-> Named(env, child, a)]
           part == [a \in K |-> Of(env, a).distinct]
           whole == [a \in K |-> Filled(Of(env, a))]
           R == {pair \in K \X K : Sooner(named, part, whole, pair[1], pair[2])}
<1>1. \A a \in K : a \in CandidateKeys(env) /\ a \in ColumnsOf(env)
  BY KeysMeasured DEF Referable
<1>2. \A a \in K : part[a] \in Nat /\ whole[a] \in Nat /\ whole[a] > 0
  BY <1>1, KeysMeasured
<1>3. named \in [K -> BOOLEAN]
  BY NamedIs
<1>4. part \in [K -> Nat] /\ whole \in [K -> Nat]
  BY <1>2
<1>5. \A a, b \in K : Sooner(named, part, whole, a, b) <=> Better(env, child, a, b)
  BY DEF Sooner, Better
<1>6. K # {}
  OBVIOUS
<1>7. BestKey(env, child) = CHOOSE a \in K : \A b \in K \ {a} : Better(env, child, a, b)
  BY DEF BestKey
<1> HIDE DEF K, named, part, whole
<1>8. InPlace(K, whole)
  <2>1. \A a \in K : a = <<a[1], a[2]>>
    BY <1>1, PlaceIs
  <2>2. \A a \in K : a[1] \in Nat /\ a[2] \in Nat
    BY <1>1, ColumnsFinite
  <2> QED BY <1>2, <2>1, <2>2 DEF InPlace
<1>9. IsFiniteSet(K)
  <2>1. K \in SUBSET ColumnsOf(env)
    BY <1>1
  <2> QED BY <2>1, ColumnsFinite, FS_Subset
<1>10. \A a, b \in K : <<a, b>> \in R <=> Sooner(named, part, whole, a, b)
  OBVIOUS
<1> HIDE DEF R
<1>11. /\ \A a, b \in K : a # b => <<a, b>> \in R \/ <<b, a>> \in R
       /\ \A a \in K : <<a, a>> \notin R
       /\ \A a, b, c \in K : <<a, b>> \in R /\ <<b, c>> \in R => <<a, c>> \in R
  <2>1. /\ \A a, b \in K : a # b => Sooner(named, part, whole, a, b) \/ Sooner(named, part, whole, b, a)
        /\ \A a \in K : ~Sooner(named, part, whole, a, a)
        /\ \A a, b, c \in K : Sooner(named, part, whole, a, b) /\ Sooner(named, part, whole, b, c)
                                 => Sooner(named, part, whole, a, c)
    BY <1>3, <1>4, <1>8, SoonerIsAnOrder
  <2> QED BY <1>10, <2>1
<1>12. \E a \in K : \A b \in K \ {a} : <<a, b>> \in R
  BY <1>6, <1>9, <1>11, FirstOf
<1>13. \E a \in K : \A b \in K \ {a} : Better(env, child, a, b)
  BY <1>5, <1>10, <1>12
<1> QED BY <1>7, <1>13 DEF K

\* What the tools count of orphans is no less than what the report does.
LEMMA ToolsCountMore ==
    ASSUME NEW env, Sound(env), NEW child \in ColumnsOf(env), NEW parent
    PROVE  ReferenceCheck(env, child, parent).orphans >= Answer(env.engine, OrphanQuery(env, child, parent))
<1> DEFINE column == ColumnAt(env, Where(env, child))
           other == ColumnAt(env, Where(env, parent))
           few == {v \in NonBlank : Folded[v] \notin {Folded[u] : u \in NonBlank \intersect Range(other)}}
           more == {v \in NonBlank : Trimmed[v] \notin {Trimmed[u] : u \in NonBlank \intersect Range(other)}}
<1>1. ReferenceCheck(env, child, parent).orphans = CountIn(column, more)
  BY DEF ReferenceCheck, ColumnAt
<1>2. Answer(env.engine, OrphanQuery(env, child, parent)) = CountIn(column, few)
  BY AnswerOrphans DEF OrphanQuery
<1>3. few \subseteq more
  <2> HIDE DEF other
  <2> QED BY CellFacts DEF CellFacts
<1>4. IsFiniteSet(DOMAIN column)
  BY PlaceIs
<1> HIDE DEF column, few, more
<1>5. CountIn(column, few) <= CountIn(column, more) /\ CountIn(column, few) \in Nat /\ CountIn(column, more) \in Nat
  BY <1>3, <1>4, CountMore, CountNat
<1> QED BY <1>1, <1>2, <1>5

\* What is reported was found, and says of it what it said.
LEMMA ReportedIs ==
    ASSUME FoundFits, NEW g \in Range(reported)
    PROVE  \E f \in Range(found) : /\ FromCheck(Env, f)
                                   /\ g.rule = f.rule /\ g.at = f.at /\ g.query = f.query
                                   /\ TitleHolds(Env, f) => g.count = f.claimed
<1> DEFINE stays == {k \in DOMAIN found : ~Dropped(found[k], Remeasured(found[k]))}
<1>1. reported = [k \in stays |-> Checked(found[k], Remeasured(found[k]))]
  BY DEF FoundFits
<1>2. PICK k \in DOMAIN found : g = Checked(found[k], Remeasured(found[k]))
  BY <1>1 DEF Range
<1> DEFINE f == found[k]
<1>3. f \in Range(found)
  BY DEF Range
<1>4. FromCheck(Env, f)
  BY <1>3 DEF FoundFits, FromChecks
<1>5. FindingFields \subseteq DOMAIN f
  BY <1>4 DEF FromCheck
<1> HIDE DEF f
<1>6. g = Checked(f, Remeasured(f))
  BY <1>2 DEF f
<1>7. g.rule = f.rule /\ g.at = f.at /\ g.query = f.query
  BY <1>5, <1>6 DEF Checked, FindingFields
<1>8. ASSUME TitleHolds(Env, f) PROVE g.count = f.claimed
  <2>1. Remeasured(f) = IF f.query = NoQuery THEN 0 ELSE f.claimed
    BY <1>8 DEF Remeasured, TitleHolds, Env
  <2> QED BY <1>5, <1>6, <1>8, <2>1 DEF Checked, FindingFields, TitleHolds
<1> QED BY <1>3, <1>4, <1>7, <1>8

\* A column that is a key to the tools has as many values as lines, all of them with content.
LEMMA KeyToTheTools ==
    ASSUME NEW env, Sound(env), NEW c \in ColumnsOf(env), IsMeasured(env, c),
           KeyCheck(env, c[1], {Where(env, c)[2]}).isKey
    PROVE  Filled(Of(env, c)) = Of(env, c).distinct /\ Unique(Of(env, c)) /\ Of(env, c).distinct \in Nat
<1> DEFINE t == TableAt(env, Where(env, c))
           name == Where(env, c)[2]
           column == ColumnAt(env, Where(env, c))
           p == Of(env, c)
           parts == Parts(t, {name})
<1>1. t = env.engine[env.tables[c[1]].name] /\ column = Column(t, name)
  BY DEF TableAt, ColumnAt, Where
<1>2. /\ Sharing(parts) = {}
      /\ {line \in DOMAIN parts : \E x \in {name} : parts[line][x] \notin NonBlank} = {}
  <2>1. KeyCheck(env, c[1], {name}).isKey
    OBVIOUS
  <2>2. Parts(env.engine[env.tables[c[1]].name], {name}) = parts
    BY <1>1
  <2> HIDE DEF parts, name, t
  <2> QED BY <2>1, <2>2 DEF KeyCheck
<1>3. /\ IsFiniteSet(DOMAIN column)
      /\ column = [line \in DOMAIN column |-> column[line]]
      /\ p.total = Cardinality(DOMAIN column)
      /\ p.nulls = CountIn(column, {Null})
      /\ p.blanks = CountIn(column, Cells \ ({Null} \union NonBlank))
      /\ p.distinct = Cardinality(Range(column) \ {Null})
  BY MeasuredOf
<1>4. Size(t) # 0
  BY DEF IsMeasured
<1> HIDE DEF t, name, p
<1>5. DOMAIN column = DOMAIN t.rows
  <2>1. DOMAIN Column(t, name) = DOMAIN t.rows
    BY ColumnIs
  <2> HIDE DEF column
  <2> QED BY <1>1, <2>1
<1> HIDE DEF column
<1>6. DOMAIN parts = DOMAIN column /\ \A line \in DOMAIN column : parts[line] = [x \in {name} |-> Column(t, x)[line]]
  BY <1>5 DEF Parts
<1>7. \A line \in DOMAIN column : parts[line] = [x \in {name} |-> column[line]] /\ parts[line][name] = column[line]
  <2> SUFFICES ASSUME NEW line \in DOMAIN column
               PROVE  parts[line] = [x \in {name} |-> column[line]] /\ parts[line][name] = column[line]
    OBVIOUS
  <2>1. parts[line] = [x \in {name} |-> Column(t, x)[line]]
    BY <1>6
  <2>2. \A x \in {name} : Column(t, x)[line] = column[line]
    BY <1>1
  <2> HIDE DEF parts
  <2>3. parts[line] = [x \in {name} |-> column[line]]
    BY <2>1, <2>2
  <2> QED BY <2>3
<1> HIDE DEF parts
<1>8. \A line \in DOMAIN column : column[line] \in NonBlank
  BY <1>2, <1>6, <1>7
<1>9. \A x, y \in DOMAIN column : column[x] = column[y] => x = y
  <2> SUFFICES ASSUME NEW x \in DOMAIN column, NEW y \in DOMAIN column, column[x] = column[y], x # y PROVE FALSE
    OBVIOUS
  <2>1. parts[x] = parts[y]
    BY <1>7
  <2>2. x \in Sharing(parts)
    BY <1>6, <2>1 DEF Sharing
  <2> QED BY <1>2, <2>2
<1>10. Cardinality(Range(column)) = Cardinality(DOMAIN column)
  BY <1>3, <1>9, RangeFinite
<1>11. Range(column) \ {Null} = Range(column)
  <2>1. Null \notin NonBlank
    BY DEF NonBlank
  <2> QED BY <1>8, <2>1 DEF Range
<1>12. p.nulls = 0 /\ p.blanks = 0
  <2>1. Lines(column, {Null}) = {} /\ Lines(column, Cells \ ({Null} \union NonBlank)) = {}
    <3>1. Null \notin NonBlank
      BY DEF NonBlank
    <3> QED BY <1>8, <3>1 DEF Lines
  <2> QED BY <1>3, <2>1, FS_EmptySet DEF CountIn
<1>13. p.distinct = p.total /\ p.total \in Nat /\ p.total > 0
  <2>1. Cardinality(DOMAIN column) \in Nat
    BY <1>3, FS_CardinalityType
  <2>2. Cardinality(DOMAIN column) # 0
    BY <1>4, <1>5 DEF Size
  <2> QED BY <1>3, <1>10, <1>11, <2>1, <2>2
<1> QED BY <1>12, <1>13 DEF Filled, Unique, p

\* The report and the tools read one table: a key to the model is a key in the report, and
\* a reference the report says is broken is broken to the model in as many rows.
THEOREM ToolsAlwaysAgree == Spec => [](NamesApart => ToolsAgree)
<1>1. IngestInv /\ PassInv /\ NamesApart => ToolsAgree
  <2> SUFFICES ASSUME IngestInv, PassInv, NamesApart, stage = "done" PROVE ToolsAgree
    BY DEF ToolsAgree
  <2>1. FoundFits /\ Sound(Env) /\ Env.tables = tables
    BY AtTheEnd DEF FoundFits, Env
  <2>2. ASSUME NEW c \in ColumnsOf(Env), Of(Env, c).measured, KeyCheck(Env, c[1], {Where(Env, c)[2]}).isKey
        PROVE  ~KnownAt(reported, Where(Env, c), {"key.duplicate_values"})
    <3> SUFFICES ASSUME NEW g \in Range(reported), g.at = Where(Env, c), g.rule = "key.duplicate_values" PROVE FALSE
      BY DEF KnownAt
    <3>1. PICK f \in Range(found) : FromCheck(Env, f) /\ g.rule = f.rule /\ g.at = f.at
      BY <2>1, ReportedIs
    <3>2. PICK a \in CandidateKeys(Env) : f \in Range(DuplicateKey(Env, a))
      BY <3>1 DEF FromCheck
    <3>3. Of(Env, a).distinct < Filled(Of(Env, a)) /\ f.at = Where(Env, a)
      <4> DEFINE p == Of(Env, a)
                 q == Query("surplus", Where(Env, a)[1], Where(Env, a)[2], {})
                 r == Raise("key.duplicate_values", Error, Where(Env, a), Filled(p) - p.distinct, q)
      <4>1. f = r /\ p.distinct < Filled(p)
        BY <3>2, WhenIs DEF DuplicateKey
      <4>2. r.at = Where(Env, a)
        <5> HIDE DEF p, q
        <5> QED BY RaiseIs
      <4> QED BY <4>1, <4>2
    <3>4. a \in ColumnsOf(Env) /\ IsMeasured(Env, a)
      BY <2>1, KeysMeasured
    <3>5. Where(Env, a) = Where(Env, c)
      BY <3>1, <3>3
    <3>6. Size(TableAt(Env, Where(Env, c))) # 0
      BY <3>4, <3>5 DEF IsMeasured
    <3>7. IsMeasured(Env, c)
      BY <2>1, <2>2, <3>6, ThenMeasured
    <3>8. Of(Env, a) = Of(Env, c)
      BY <3>4, <3>5, <3>7 DEF IsMeasured
    <3>9. Filled(Of(Env, c)) = Of(Env, c).distinct /\ Of(Env, c).distinct \in Nat
      BY <2>1, <2>2, <3>7, KeyToTheTools
    <3> QED BY <3>3, <3>8, <3>9
  <2>3. ASSUME NEW c \in ColumnsOf(Env), Of(Env, c).measured, KeyCheck(Env, c[1], {Where(Env, c)[2]}).isKey
        PROVE  ~KnownAt(reported, At(Env, c[1]), {"table.no_candidate_key"})
    <3> SUFFICES ASSUME NEW g \in Range(reported), g.at = At(Env, c[1]), g.rule = "table.no_candidate_key" PROVE FALSE
      BY DEF KnownAt
    <3>1. PICK f \in Range(found) : FromCheck(Env, f) /\ g.rule = f.rule /\ g.at = f.at
      BY <2>1, ReportedIs
    <3>2. PICK n \in DOMAIN Env.tables : f \in Range(CheckNoCandidateKey(Env, n))
      BY <3>1 DEF FromCheck
    <3>3. /\ f.at = At(Env, n)
          /\ Env.tables[n].rowCount >= 2
          /\ \A i \in DOMAIN Env.profile[n] : ~Unique(Env.profile[n][i])
      <4> DEFINE r == Raise("table.no_candidate_key", Info, At(Env, n), 0, NoQuery)
      <4>1. /\ f = r
            /\ Env.tables[n].rowCount >= 2
            /\ \A i \in DOMAIN Env.profile[n] : ~Unique(Env.profile[n][i])
        BY <3>2, WhenIs DEF CheckNoCandidateKey
      <4>2. r.at = At(Env, n)
        BY RaiseIs
      <4> QED BY <4>1, <4>2
    <3>4. c[1] \in DOMAIN tables /\ c[2] \in DOMAIN Env.profile[c[1]]
      BY <2>1, PlaceIs
    <3>5. n = c[1]
      <4>1. tables[n].name = tables[c[1]].name
        <5>1. At(Env, n) = At(Env, c[1])
          BY <3>1, <3>3
        <5> QED BY <2>1, <5>1 DEF At
      <4> QED BY <2>1, <3>2, <3>4, <4>1 DEF NamesApart
    <3>6. IsMeasured(Env, c)
      <4> SUFFICES ASSUME ~IsMeasured(Env, c) PROVE FALSE
        OBVIOUS
      <4>1. RowCount(Env, c) = 0
        BY <2>1, <2>3, UnmeasuredIs
      <4> QED BY <3>3, <3>5, <4>1 DEF RowCount
    <3>7. Unique(Of(Env, c))
      BY <2>1, <2>3, <3>6, KeyToTheTools
    <3> QED BY <3>3, <3>4, <3>5, <3>7 DEF Of
  <2>4. ASSUME NEW g \in Range(reported), g.rule = "reference.orphan_values"
        PROVE  \E child \in Lookup(Env, g.query.table, g.query.column),
                  parent \in Lookup(Env, g.query.table2, g.query.column2) :
                     ReferenceCheck(Env, child, parent).orphans >= g.count
    <3>1. PICK f \in Range(found) : /\ FromCheck(Env, f)
                                    /\ g.rule = f.rule /\ g.query = f.query
                                    /\ TitleHolds(Env, f) => g.count = f.claimed
      BY <2>1, ReportedIs
    <3>2. PICK child \in ColumnsOf(Env) : f \in Range(Reference(Env, child))
      BY <2>4, <3>1 DEF FromCheck
    <3> DEFINE parent == BestKey(Env, child)
    <3>3. TitleHolds(Env, f) /\ f.query = OrphanQuery(Env, child, parent) /\ Referable(Env, child) # {}
      BY <2>1, <3>2, OrphansHold
    <3>4. parent \in ColumnsOf(Env)
      <4>1. parent \in CandidateKeys(Env)
        BY <2>1, <3>3, BestIs DEF Referable
      <4> QED BY <2>1, <4>1, KeysMeasured
    <3> HIDE DEF parent
    <3>5. ReferenceCheck(Env, child, parent).orphans >= Answer(Env.engine, OrphanQuery(Env, child, parent))
      BY <2>1, ToolsCountMore
    <3>6. Answer(Env.engine, OrphanQuery(Env, child, parent)) = g.count
      BY <3>1, <3>3 DEF TitleHolds
    <3>7. /\ g.query.table = Where(Env, child)[1] /\ g.query.column = Where(Env, child)[2]
          /\ g.query.table2 = Where(Env, parent)[1] /\ g.query.column2 = Where(Env, parent)[2]
      <4>1. \A a, b : LET q == OrphanQuery(Env, a, b)
                      IN  /\ q.table = Where(Env, a)[1] /\ q.column = Where(Env, a)[2]
                          /\ q.table2 = Where(Env, b)[1] /\ q.column2 = Where(Env, b)[2]
        BY DEF OrphanQuery, Against, Query
      <4>2. g.query = OrphanQuery(Env, child, parent)
        BY <3>1, <3>3 DEF parent
      <4> QED BY <4>1, <4>2
    <3>8. child \in Lookup(Env, g.query.table, g.query.column)
            /\ parent \in Lookup(Env, g.query.table2, g.query.column2)
      BY <3>4, <3>7 DEF Lookup, Where
    <3> QED BY <3>5, <3>6, <3>8
  <2> QED BY <2>2, <2>3, <2>4 DEF ToolsAgree
<1> QED BY <1>1, IngestInvariant, PassInvariant, PTL
=============================================================================
