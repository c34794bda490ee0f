--------------------------- MODULE EvaluationProofs ---------------------------
(***************************************************************************)
(* What a scorecard says and what its gate decides, for every manifest,    *)
(* whatever the audits find in the data and the models record, and however *)
(* many of them fail or are interrupted.  The argument: each target in     *)
(* turn leaves what was credited before it as it was and takes what nobody *)
(* had, since no two have one id; and what a model records is by no rule   *)
(* that a manifest names, so the checks score the same in every audit.     *)
(***************************************************************************)
EXTENDS Evaluation, NatLemmas, FiniteSetTheorems, SequenceTheorems, TLAPS

-----------------------------------------------------------------------------
(* Sequences.                                                              *)

LEMMA SeqOfItsRange == ASSUME NEW s, IsSeq(s) PROVE s \in Seq(Range(s))
<1> DEFINE n == Len(s)
<1>1. DOMAIN s = 1..n /\ n \in Nat /\ s = [k \in 1..n |-> s[k]]
  BY DEF IsSeq
<1> HIDE DEF n
<1>2. s \in [1..n -> Range(s)]
  BY <1>1 DEF Range
<1> QED BY <1>1, <1>2, SeqDef

LEMMA SeqIs == ASSUME NEW S, NEW s \in Seq(S) PROVE IsSeq(s)
BY DEF IsSeq

LEMMA SeqDomain == ASSUME NEW s, IsSeq(s) PROVE Len(s) \in Nat /\ DOMAIN s = 1..Len(s)
BY DEF IsSeq

LEMMA Appended ==
    ASSUME NEW s, IsSeq(s), NEW x
    PROVE  /\ IsSeq(Append(s, x))
           /\ DOMAIN Append(s, x) = DOMAIN s \union {Len(s) + 1}
           /\ Append(s, x)[Len(s) + 1] = x
           /\ \A i \in DOMAIN s : i # Len(s) + 1 /\ Append(s, x)[i] = s[i]
<1> DEFINE S == Range(s) \union {x}
<1>1. s \in Seq(S) /\ x \in S
  <2>1. s \in Seq(Range(s))
    BY SeqOfItsRange
  <2> QED BY <2>1
<1> HIDE DEF S
<1>2. Append(s, x) \in Seq(S)
  BY <1>1
<1>3. IsSeq(Append(s, x))
  BY <1>2, SeqIs
<1>4. /\ DOMAIN Append(s, x) = DOMAIN s \union {Len(s) + 1}
      /\ Append(s, x)[Len(s) + 1] = x
      /\ \A i \in DOMAIN s : i # Len(s) + 1 /\ Append(s, x)[i] = s[i]
  BY <1>1
<1> QED BY <1>3, <1>4

LEMMA Joined ==
    ASSUME NEW s, NEW t, IsSeq(s), IsSeq(t)
    PROVE  IsSeq(s \o t) /\ Range(s \o t) = Range(s) \union Range(t)
<1> DEFINE S == Range(s) \union Range(t)
<1>1. s \in Seq(S) /\ t \in Seq(S)
  <2>1. s \in Seq(Range(s)) /\ t \in Seq(Range(t))
    BY SeqOfItsRange
  <2> QED BY <2>1
<1>2. IsSeq(s \o t)
  <2>1. s \o t \in Seq(S)
    <3> HIDE DEF S
    <3> QED BY <1>1
  <2> QED BY <2>1, SeqIs
<1>3. Range(s \o t) = Range(s) \union Range(t)
  <2> HIDE DEF S
  <2>1. /\ Len(s) \in Nat /\ Len(t) \in Nat
        /\ DOMAIN s = 1..Len(s) /\ DOMAIN t = 1..Len(t)
        /\ DOMAIN (s \o t) = 1..(Len(s) + Len(t))
        /\ \A i \in 1..(Len(s) + Len(t)) :
              (s \o t)[i] = IF i <= Len(s) THEN s[i] ELSE t[i - Len(s)]
    BY <1>1
  <2>2. ASSUME NEW i \in DOMAIN (s \o t) PROVE (s \o t)[i] \in Range(s) \union Range(t)
    <3>1. i <= Len(s) => i \in DOMAIN s
      BY <2>1
    <3>2. ~(i <= Len(s)) => i - Len(s) \in DOMAIN t
      BY <2>1
    <3> QED BY <2>1, <3>1, <3>2 DEF Range
  <2>3. ASSUME NEW i \in DOMAIN s PROVE s[i] \in Range(s \o t)
    <3>1. i \in DOMAIN (s \o t) /\ (s \o t)[i] = s[i]
      BY <2>1
    <3> QED BY <3>1 DEF Range
  <2>4. ASSUME NEW i \in DOMAIN t PROVE t[i] \in Range(s \o t)
    <3>1. /\ i + Len(s) \in DOMAIN (s \o t) /\ ~(i + Len(s) <= Len(s))
          /\ (i + Len(s)) - Len(s) = i
      BY <2>1
    <3>2. (s \o t)[i + Len(s)] = t[i]
      BY <2>1, <3>1
    <3> QED BY <3>1, <3>2 DEF Range
  <2> QED BY <2>2, <2>3, <2>4 DEF Range
<1> QED BY <1>2, <1>3

\* Of some places in a sequence, one is the first.
LEMMA FirstPlace ==
    ASSUME NEW s, IsSeq(s), NEW hits, hits \subseteq DOMAIN s, hits # {}
    PROVE  Min(hits) \in hits
<1>1. hits \subseteq Nat
  BY SeqDomain
<1>2. \E x \in hits : \A y \in hits : x <= y
  BY <1>1, LeastNat
<1> QED BY <1>2 DEF Min

\* What an interrupted verification keeps is a list too.
LEMMA KeptIsSeq == ASSUME NEW found, IsSeq(found), NEW k PROVE IsSeq(Kept(found, k))
<1> DEFINE N == Len(found)
           S == Range(found)
           E(g) == [n \in 0..N |->
                      IF n = 0 THEN <<>>
                      ELSE IF n > k /\ found[n].queried THEN g[n - 1]
                      ELSE Append(g[n - 1], found[n])]
           F == [n \in 1..N |-> [s \in Seq(S) |-> IF n > k /\ found[n].queried THEN s
                                                  ELSE Append(s, found[n])]]
<1>1. N \in Nat /\ \A n \in 1..N : found[n] \in S
  BY SeqDomain DEF Range
<1>2. <<>> \in Seq(S)
  OBVIOUS
<1>3. StepsWithin(F, N, Seq(S))
  <2> HIDE DEF S
  <2>1. ASSUME NEW n \in 1..N
        PROVE  [s \in Seq(S) |-> IF n > k /\ found[n].queried THEN s ELSE Append(s, found[n])]
                  \in [Seq(S) -> Seq(S)]
    <3>1. found[n] \in S
      BY <1>1
    <3>2. \A s \in Seq(S) : Append(s, found[n]) \in Seq(S)
      BY <3>1
    <3> QED BY <3>2
  <2> HIDE DEF N
  <2> QED BY <2>1 DEF StepsWithin
<1>4. PICK g : MadeBy(g, F, N, Seq(S), <<>>)
  <2> HIDE DEF F, N, S
  <2> QED BY <1>1, <1>2, <1>3, StepByStep
<1>5. \A n \in 1..N : g[n] = IF n > k /\ found[n].queried THEN g[n - 1]
                             ELSE Append(g[n - 1], found[n])
  <2> SUFFICES ASSUME NEW n \in 1..N
               PROVE  g[n] = IF n > k /\ found[n].queried THEN g[n - 1]
                             ELSE Append(g[n - 1], found[n])
    OBVIOUS
  <2>1. n - 1 \in 0..N
    BY <1>1
  <2>2. g[n - 1] \in Seq(S)
    BY <1>4, <2>1 DEF MadeBy
  <2>3. g[n] = F[n][g[n - 1]]
    <3> HIDE DEF F
    <3> QED BY <1>4 DEF MadeBy
  <2> QED BY <2>2, <2>3
<1>6. g = E(g)
  <2>1. \A n \in 0..N : g[n] = E(g)[n]
    <3>1. g[0] = <<>>
      BY <1>4 DEF MadeBy
    <3> HIDE DEF F
    <3> QED BY <1>1, <1>5, <3>1
  <2>2. g \in [0..N -> Seq(S)]
    <3> HIDE DEF F, N, S
    <3> QED BY <1>4 DEF MadeBy
  <2> QED BY <2>1, <2>2
<1> DEFINE h == CHOOSE kept : kept = E(kept)
<1>7. h = E(h)
  BY <1>6
<1>8. Kept(found, k) = h[N]
  BY DEF Kept
<1> HIDE DEF h
<1>9. \A n \in 0..N : n \in {m \in 0..N : h[m] \in Seq(S)}
  <2>1. \A n \in 0..N : h[n] = IF n = 0 THEN <<>>
                               ELSE IF n > k /\ found[n].queried THEN h[n - 1]
                               ELSE Append(h[n - 1], found[n])
    BY <1>7
  <2> HIDE DEF S, E
  <2>2. 0 \in {m \in 0..N : h[m] \in Seq(S)}
    <3>1. 0 \in 0..N
      BY <1>1
    <3> QED BY <1>2, <2>1, <3>1
  <2>3. ASSUME NEW n \in 1..N, n - 1 \in {m \in 0..N : h[m] \in Seq(S)}
        PROVE  n \in {m \in 0..N : h[m] \in Seq(S)}
    <3>1. n \in 0..N /\ n # 0 /\ h[n - 1] \in Seq(S) /\ found[n] \in S
      BY <1>1, <2>3
    <3>2. Append(h[n - 1], found[n]) \in Seq(S)
      BY <3>1
    <3> QED BY <2>1, <3>1, <3>2
  <2> HIDE DEF N
  <2> QED BY <1>1, <2>2, <2>3, UpTo
<1>10. h[N] \in Seq(S)
  BY <1>1, <1>9
<1> QED
  <2> HIDE DEF N, S
  <2> QED BY <1>8, <1>10, SeqIs

-----------------------------------------------------------------------------
(* Who is credited with what.                                              *)

Agents(found) == {i \in DOMAIN found : found[i].origin = "agent"}

\* Who may be credited with which finding.
Tables(m, found) ==
    UNION {[D -> DOMAIN found] : D \in SUBSET Ids(Range(m.defects))}

Hits(found, c, d) ==
    {i \in DOMAIN found \ Range(c) : found[i].origin = "agent" /\ MatchesTarget(found[i], d)}

\* "e" is what "c" becomes when d has had its turn.
AfterTurn(found, c, d, e) ==
    \/ Hits(found, c, d) = {} /\ e = c
    \/ /\ DOMAIN e = DOMAIN c \union {d.id}
       /\ e[d.id] \in Hits(found, c, d)
       /\ \A id \in DOMAIN c : id # d.id => e[id] = c[id]

\* Crediting one target adds at most itself, with a finding that nobody had.
LEMMA CreditOne ==
    ASSUME NEW m, NEW found, IsSeq(found), NEW c \in Tables(m, found),
           NEW d \in Range(m.defects)
    PROVE  /\ Credit(found, c, d) \in Tables(m, found)
           /\ AfterTurn(found, c, d, Credit(found, c, d))
<1> DEFINE hits == Hits(found, c, d)
           e == [id \in DOMAIN c \union {d.id} |-> IF id = d.id THEN Min(hits) ELSE c[id]]
<1>1. PICK D \in SUBSET Ids(Range(m.defects)) : c \in [D -> DOMAIN found]
  BY DEF Tables
<1>2. Credit(found, c, d) = IF hits = {} THEN c ELSE e
  BY DEF Credit, Credited, Hits
<1>3. CASE hits = {}
  BY <1>2, <1>3 DEF AfterTurn
<1>4. CASE hits # {}
  <2>1. Min(hits) \in hits /\ hits \subseteq DOMAIN found
    <3>1. hits \subseteq DOMAIN found
      BY DEF Hits
    <3> HIDE DEF hits
    <3> QED BY <1>4, <3>1, FirstPlace
  <2>2. d.id \in Ids(Range(m.defects))
    BY DEF Ids
  <2> HIDE DEF hits
  <2>3. e \in [D \union {d.id} -> DOMAIN found]
    BY <1>1, <2>1
  <2>4. e \in Tables(m, found)
    <3>1. D \union {d.id} \in SUBSET Ids(Range(m.defects))
      BY <2>2
    <3> HIDE DEF e
    <3> QED BY <2>3, <3>1 DEF Tables
  <2>5. /\ DOMAIN e = DOMAIN c \union {d.id}
        /\ e[d.id] \in hits
        /\ \A id \in DOMAIN c : id # d.id => e[id] = c[id]
    BY <2>1
  <2> HIDE DEF e
  <2> QED BY <1>2, <1>4, <2>4, <2>5 DEF hits, AfterTurn
<1> QED BY <1>3, <1>4

LEMMA CreditOnce ==
    ASSUME NEW c, NEW found, NEW d
    PROVE  (CHOOSE after \in {Credit(found, before, d) : before \in {c}} : TRUE)
              = Credit(found, c, d)
<1>1. {Credit(found, before, d) : before \in {c}} = {Credit(found, c, d)}
  OBVIOUS
<1> QED BY <1>1

\* The recursion of Credits has a solution, of one step for each defect.
LEMMA CreditsSteps ==
    ASSUME NEW m, NEW found, IsSeq(found), IsSeq(m.defects)
    PROVE  \E g \in [0..Len(m.defects) -> Tables(m, found)] :
              /\ g[0] = <<>>
              /\ \A n \in 1..Len(m.defects) : g[n] = Credit(found, g[n - 1], m.defects[n])
              /\ Credits(m, found) = g[Len(m.defects)]
<1> DEFINE N == Len(m.defects)
           T == Tables(m, found)
           E(g) == [n \in 0..N |->
                      IF n = 0 THEN <<>>
                      ELSE CHOOSE after \in
                              {Credit(found, before, m.defects[n]) : before \in {g[n - 1]}} : TRUE]
           F == [n \in 1..N |-> [c \in T |-> Credit(found, c, m.defects[n])]]
<1>1. N \in Nat /\ \A n \in 1..N : m.defects[n] \in Range(m.defects)
  BY SeqDomain DEF Range
<1>2. <<>> \in T
  <2>1. <<>> \in [{} -> DOMAIN found] /\ {} \in SUBSET Ids(Range(m.defects))
    OBVIOUS
  <2> QED BY <2>1 DEF Tables
<1>3. StepsWithin(F, N, T)
  BY <1>1, CreditOne DEF StepsWithin
<1>4. PICK g : MadeBy(g, F, N, T, <<>>)
  <2> HIDE DEF F, N, T
  <2> QED BY <1>1, <1>2, <1>3, StepByStep
<1>5. \A n \in 1..N : g[n] = Credit(found, g[n - 1], m.defects[n])
  <2> SUFFICES ASSUME NEW n \in 1..N PROVE g[n] = Credit(found, g[n - 1], m.defects[n])
    OBVIOUS
  <2>1. n - 1 \in 0..N
    BY <1>1
  <2>2. g[n - 1] \in T
    BY <1>4, <2>1 DEF MadeBy
  <2>3. F[n][g[n - 1]] = Credit(found, g[n - 1], m.defects[n])
    BY <2>2
  <2> QED BY <1>4, <2>3 DEF MadeBy
<1>6. g = E(g)
  <2>1. \A n \in 0..N : E(g)[n] = IF n = 0 THEN <<>> ELSE Credit(found, g[n - 1], m.defects[n])
    BY CreditOnce
  <2>2. \A n \in 0..N : g[n] = E(g)[n]
    <3> HIDE DEF E
    <3> QED BY <1>1, <1>4, <1>5, <2>1 DEF MadeBy
  <2> QED BY <1>4, <2>2 DEF MadeBy
<1> DEFINE h == CHOOSE credits : credits = E(credits)
<1>7. h = E(h)
  BY <1>6
<1>8. Credits(m, found) = h[N]
  BY DEF Credits
<1> HIDE DEF h, E
<1>9. \A n \in 0..N : n \in {k \in 0..N : h[k] = g[k]}
  <2>1. \A n \in 0..N : h[n] = IF n = 0 THEN <<>> ELSE Credit(found, h[n - 1], m.defects[n])
    <3>1. \A n \in 0..N : E(h)[n] = IF n = 0 THEN <<>> ELSE Credit(found, h[n - 1], m.defects[n])
      BY CreditOnce DEF E
    <3> QED BY <1>7, <3>1
  <2>2. 0 \in {k \in 0..N : h[k] = g[k]}
    BY <1>1, <1>4, <2>1 DEF MadeBy
  <2>3. ASSUME NEW n \in 1..N, n - 1 \in {k \in 0..N : h[k] = g[k]}
        PROVE  n \in {k \in 0..N : h[k] = g[k]}
    BY <1>1, <1>5, <2>1, <2>3
  <2> HIDE DEF N
  <2> QED BY <1>1, <2>2, <2>3, UpTo
<1> QED BY <1>1, <1>4, <1>5, <1>8, <1>9 DEF MadeBy

\* After n defects: no finding is credited twice, what was credited measures its target,
\* and a target that was not is measured by no finding that is left.
NoneTwice(c) == \A a, b \in DOMAIN c : c[a] = c[b] => a = b

Fair(found, c, d) ==
    /\ d.id \in DOMAIN c => MatchesTarget(found[c[d.id]], d)
    /\ d.id \notin DOMAIN c => \A k \in Agents(found) \ Range(c) : ~MatchesTarget(found[k], d)

CreditedUpTo(m, found, c, n) ==
    /\ \A id \in DOMAIN c : c[id] \in Agents(found)
    /\ NoneTwice(c)
    /\ DOMAIN c \subseteq {m.defects[j].id : j \in 1..n}
    /\ \A j \in 1..n : Fair(found, c, m.defects[j])

Distinct(m) == \A i, j \in DOMAIN m.defects : m.defects[i].id = m.defects[j].id => i = j

LEMMA ValidDistinct == ASSUME NEW m, IsSeq(m.defects), Valid(m) PROVE Distinct(m)
<1> DEFINE f == [i \in DOMAIN m.defects |-> m.defects[i].id]
           T == Ids(Range(m.defects))
<1>1. DOMAIN m.defects = 1..Len(m.defects) /\ Len(m.defects) \in Nat
  BY SeqDomain
<1>2. IsFiniteSet(DOMAIN m.defects) /\ Cardinality(DOMAIN m.defects) = Len(m.defects)
  BY <1>1, FS_Interval
<1>3. f \in Surjection(DOMAIN m.defects, T)
  BY DEF Surjection, Ids, Range
<1>4. Cardinality(T) = Len(m.defects)
  BY DEF Valid
<1>5. f \in Injection(DOMAIN m.defects, T)
  <2> HIDE DEF f, T
  <2> QED BY <1>2, <1>3, <1>4, FS_SurjSameCardinalityImpliesInj
<1> QED BY <1>5 DEF Injection, IsInjective, Distinct

LEMMA CreditKeeps ==
    ASSUME NEW m, NEW found, IsSeq(found), IsSeq(m.defects), Distinct(m),
           NEW n \in 1..Len(m.defects), NEW c \in Tables(m, found),
           CreditedUpTo(m, found, c, n - 1)
    PROVE  CreditedUpTo(m, found, Credit(found, c, m.defects[n]), n)
<1> DEFINE d == m.defects[n]
           e == Credit(found, c, d)
<1>1. /\ Len(m.defects) \in Nat /\ DOMAIN m.defects = 1..Len(m.defects)
      /\ d \in Range(m.defects)
  BY SeqDomain DEF Range
<1>2. \A j \in 1..n : j = n \/ j \in 1..(n - 1)
  BY <1>1
<1>3. (1..(n - 1)) \subseteq 1..n /\ n \in 1..n
  BY <1>1
<1>4. \A j \in 1..(n - 1) : m.defects[j].id # d.id
  <2>1. ASSUME NEW j \in 1..(n - 1) PROVE m.defects[j].id # d.id
    <3>1. j \in DOMAIN m.defects /\ n \in DOMAIN m.defects /\ j # n
      BY <1>1
    <3> QED BY <3>1 DEF Distinct
  <2> QED BY <2>1
<1>5. d.id \notin DOMAIN c
  BY <1>4 DEF CreditedUpTo
<1>6. AfterTurn(found, c, d, e)
  BY <1>1, CreditOne
<1> HIDE DEF e
<1>7. CASE Hits(found, c, d) = {} /\ e = c
  <2>1. Fair(found, e, d)
    BY <1>5, <1>7 DEF Fair, Hits, Agents
  <2>2. \A j \in 1..n : Fair(found, e, m.defects[j])
    BY <1>2, <1>7, <2>1 DEF CreditedUpTo
  <2>3. DOMAIN e \subseteq {m.defects[j].id : j \in 1..n}
    BY <1>3, <1>7 DEF CreditedUpTo
  <2> QED BY <1>7, <2>2, <2>3 DEF CreditedUpTo, e
<1>8. CASE /\ DOMAIN e = DOMAIN c \union {d.id}
           /\ e[d.id] \in Hits(found, c, d)
           /\ \A id \in DOMAIN c : id # d.id => e[id] = c[id]
  <2>1. /\ e[d.id] \in Agents(found) /\ e[d.id] \notin Range(c)
        /\ MatchesTarget(found[e[d.id]], d)
    BY <1>8 DEF Hits, Agents
  <2>2. \A id \in DOMAIN c : e[id] = c[id] /\ e[id] # e[d.id]
    BY <1>5, <1>8, <2>1 DEF Range
  <2>3. \A id \in DOMAIN e : e[id] \in Agents(found)
    BY <1>8, <2>1, <2>2 DEF CreditedUpTo
  <2>4. NoneTwice(e)
    BY <1>8, <2>2 DEF CreditedUpTo, NoneTwice
  <2>5. DOMAIN e \subseteq {m.defects[j].id : j \in 1..n}
    BY <1>3, <1>8 DEF CreditedUpTo
  <2>6. Range(c) \subseteq Range(e)
    BY <1>8, <2>2 DEF Range
  <2>7. ASSUME NEW j \in 1..n PROVE Fair(found, e, m.defects[j])
    <3>1. CASE j = n
      BY <1>8, <2>1, <3>1 DEF Fair
    <3>2. CASE j # n
      <4>1. /\ Fair(found, c, m.defects[j]) /\ m.defects[j].id # d.id
        BY <1>2, <1>4, <3>2 DEF CreditedUpTo
      <4>2. m.defects[j].id \in DOMAIN e <=> m.defects[j].id \in DOMAIN c
        BY <1>8, <4>1
      <4> QED BY <2>2, <2>6, <4>1, <4>2 DEF Fair
    <3> QED BY <3>1, <3>2
  <2> QED BY <2>3, <2>4, <2>5, <2>7 DEF CreditedUpTo, e
<1> QED BY <1>6, <1>7, <1>8 DEF AfterTurn

LEMMA CreditsTable ==
    ASSUME NEW m, NEW found, IsSeq(found), IsSeq(m.defects)
    PROVE  Credits(m, found) = [id \in DOMAIN Credits(m, found) |-> Credits(m, found)[id]]
<1> DEFINE c == Credits(m, found)
<1>1. Len(m.defects) \in 0..Len(m.defects)
  BY SeqDomain
<1>2. c \in Tables(m, found)
  BY <1>1, CreditsSteps
<1>3. PICK D : c \in [D -> DOMAIN found]
  BY <1>2 DEF Tables
<1> HIDE DEF c
<1>4. c = [id \in DOMAIN c |-> c[id]]
  BY <1>3
<1> QED BY <1>4 DEF c

\* Who ends up credited, when all the targets have been gone through.
LEMMA CreditsFair ==
    ASSUME NEW m, NEW found, IsSeq(found), IsSeq(m.defects), Distinct(m)
    PROVE  CreditedUpTo(m, found, Credits(m, found), Len(m.defects))
<1> DEFINE N == Len(m.defects)
<1>1. PICK g \in [0..N -> Tables(m, found)] :
         /\ g[0] = <<>>
         /\ \A n \in 1..N : g[n] = Credit(found, g[n - 1], m.defects[n])
         /\ Credits(m, found) = g[N]
  BY CreditsSteps
<1> DEFINE Good == {n \in 0..N : CreditedUpTo(m, found, g[n], n)}
<1>2. N \in Nat
  BY SeqDomain
<1>3. 0 \in Good
  <2>1. 0 \in 0..N /\ 1..0 = {}
    BY <1>2
  <2>2. CreditedUpTo(m, found, <<>>, 0)
    BY <2>1 DEF CreditedUpTo, NoneTwice
  <2> QED BY <1>1, <2>1, <2>2
<1>4. ASSUME NEW n \in 1..N, n - 1 \in Good PROVE n \in Good
  <2>1. n - 1 \in 0..N /\ n \in 0..N
    BY <1>2
  <2>2. g[n - 1] \in Tables(m, found) /\ CreditedUpTo(m, found, g[n - 1], n - 1)
    BY <1>1, <1>4, <2>1
  <2>3. CreditedUpTo(m, found, g[n], n)
    BY <1>1, <2>2, CreditKeeps
  <2> QED BY <2>1, <2>3
<1>5. N \in Good
  <2> HIDE DEF Good, N
  <2>1. \A n \in 0..N : n \in Good
    BY <1>2, <1>3, <1>4, UpTo
  <2> QED BY <1>2, <2>1
<1> QED BY <1>1, <1>5

-----------------------------------------------------------------------------
(* One audit's score.                                                        *)

Earned(m, r) ==
    /\ r.detected \union r.missed = Ids(Targets(m))
    /\ Cardinality(r.detected) + Cardinality(DOMAIN r.unclassified) = Cardinality(AgentFindings(r))
    /\ \A d \in Targets(m) :
          /\ d.id \in r.detected => \E k \in AgentFindings(r) : MatchesTarget(r.from[k], d)
          /\ d.id \in r.missed =>
                \A k \in DOMAIN r.unclassified : ~MatchesTarget(r.from[k], d)

LEMMA ScoreIsEarned ==
    ASSUME NEW m, IsSeq(m.defects), Valid(m), NEW found, IsSeq(found), NEW stopped
    PROVE  Earned(m, ScoreRun(m, found, stopped))
<1> DEFINE r == ScoreRun(m, found, stopped)
           c == Credits(m, found)
           rest == {i \in DOMAIN found \ Range(c) : found[i].origin = "agent"}
           N == Len(m.defects)
<1>1. /\ r.from = found /\ r.detected = DOMAIN c
      /\ r.missed = Ids(Targets(m)) \ DOMAIN c
      /\ r.unclassified = [i \in rest |-> Claim(m, found[i])]
  BY DEF ScoreRun
<1>2. AgentFindings(r) = Agents(found) /\ DOMAIN r.unclassified = rest
  BY <1>1 DEF AgentFindings, Agents
<1>3. CreditedUpTo(m, found, c, N)
  BY ValidDistinct, CreditsFair
<1>4. DOMAIN m.defects = 1..N
  BY SeqDomain
<1> HIDE DEF r, c, N
<1>5. /\ Range(c) \subseteq Agents(found)
      /\ rest = Agents(found) \ Range(c)
  BY <1>3 DEF CreditedUpTo, Range, Agents
<1> HIDE DEF rest
<1>6. IsFiniteSet(Agents(found))
  <2>1. IsFiniteSet(DOMAIN found)
    BY SeqDomain, FS_Interval
  <2> QED BY <2>1, FS_Subset DEF Agents
<1>7. IsFiniteSet(Range(c))
  BY <1>5, <1>6, FS_Subset
<1>8. Cardinality(DOMAIN c) = Cardinality(Range(c))
  <2>1. c = [id \in DOMAIN c |-> c[id]]
    BY CreditsTable DEF c
  <2>2. c \in Injection(DOMAIN c, Range(c)) /\ c \in Surjection(DOMAIN c, Range(c))
    BY <1>3, <2>1 DEF CreditedUpTo, NoneTwice, Injection, Surjection, IsInjective, Range
  <2> QED BY <1>7, <2>2, FS_Injection
<1>9. Cardinality(DOMAIN c) + Cardinality(rest) = Cardinality(Agents(found))
  <2>1. Cardinality(rest)
           = Cardinality(Agents(found)) - Cardinality(Agents(found) \intersect Range(c))
    BY <1>5, <1>6, FS_Difference
  <2>2. Agents(found) \intersect Range(c) = Range(c)
    BY <1>5
  <2>3. Cardinality(Range(c)) \in Nat /\ Cardinality(Agents(found)) \in Nat
    BY <1>6, <1>7, FS_CardinalityType
  <2>4. Cardinality(rest) = Cardinality(Agents(found)) - Cardinality(Range(c))
    BY <2>1, <2>2
  <2>5. \A a, b \in Nat : b + (a - b) = a
    OBVIOUS
  <2> QED BY <1>8, <2>3, <2>4, <2>5
<1>10. \A d \in Targets(m) : \E j \in 1..N : d = m.defects[j]
  BY <1>4 DEF Targets, Range
<1>11. DOMAIN c \subseteq Ids(Targets(m))
  <2>1. ASSUME NEW id \in DOMAIN c PROVE id \in Ids(Targets(m))
    <3>1. PICK j \in 1..N : id = m.defects[j].id
      BY <1>3 DEF CreditedUpTo
    <3>2. MatchesTarget(found[c[id]], m.defects[j])
      BY <1>3, <3>1 DEF CreditedUpTo, Fair
    <3>3. m.defects[j] \in Targets(m)
      BY <1>4, <3>2 DEF MatchesTarget, Targets, Range
    <3> QED BY <3>1, <3>3 DEF Ids
  <2> QED BY <2>1
<1>12. ASSUME NEW d \in Targets(m)
       PROVE  /\ d.id \in DOMAIN c => \E k \in Agents(found) : MatchesTarget(found[k], d)
              /\ d.id \notin DOMAIN c => \A k \in rest : ~MatchesTarget(found[k], d)
  <2>1. Fair(found, c, d)
    BY <1>3, <1>10 DEF CreditedUpTo
  <2>2. d.id \in DOMAIN c => c[d.id] \in Agents(found)
    BY <1>3 DEF CreditedUpTo
  <2> QED BY <1>5, <2>1, <2>2 DEF Fair
<1> QED BY <1>1, <1>2, <1>9, <1>11, <1>12 DEF Earned, r

-----------------------------------------------------------------------------
(* The invariant: every audit that did not fail was scored from a list of    *)
(* findings, and one that nobody interrupted from all there was to find; and *)
(* the exit code is the gate's.                                              *)

IsScore(r) ==
    \E found, stopped :
       /\ IsSeq(found) /\ r = ScoreRun(manifest, found, stopped)
       /\ canceled \/ \E reply \in Replies : found = Found(reply)

Decided == stage = "over" /\ ~canceled /\ Audited # {} => exit = Gate(runs, manifest, options)

ScoresInv ==
    /\ manifest \in Manifests /\ pass \in Passes /\ options \in Options
    /\ stage = "loading" => runs = <<>>
    /\ stage = "auditing" \/ runs # <<>> => Valid(manifest)
    /\ IsSeq(runs)
    /\ \A i \in Audited : IsScore(runs[i])
    /\ Decided

LEMMA ScoresInit == Init => ScoresInv
<1> SUFFICES ASSUME Init PROVE ScoresInv
  OBVIOUS
<1>1. runs = <<>> /\ Audited = {} /\ IsSeq(runs)
  BY DEF Init, Audited, IsSeq
<1> QED BY <1>1 DEF Init, ScoresInv, Decided

\* What is found in an audit that is not interrupted is a list.
LEMMA FoundIsSeq ==
    ASSUME ScoresInv, NEW reply \in Replies
    PROVE  IsSeq(Found(reply))
BY EvaluationAssumption, Joined DEF ScoresInv, Found

\* One more audit is recorded.
LEMMA RecordKeeps ==
    ASSUME ScoresInv, Auditing, NEW r, Record(r),
           canceled => canceled', ~r.err => IsScore(r)'
    PROVE  ScoresInv'
<1> DEFINE n == Len(runs) + 1
<1>1. /\ IsSeq(runs') /\ DOMAIN runs' = DOMAIN runs \union {n}
      /\ runs'[n] = r /\ \A i \in DOMAIN runs : runs'[i] = runs[i]
  BY Appended DEF ScoresInv, Record
<1>2. /\ UNCHANGED <<manifest, pass, options, stage, exit>>
      /\ stage = "auditing" /\ Valid(manifest)
  BY DEF Record, Auditing, ScoresInv
<1>3. ASSUME NEW x, IsScore(x) PROVE IsScore(x)'
  <2>1. PICK found, stopped :
           /\ IsSeq(found) /\ x = ScoreRun(manifest, found, stopped)
           /\ canceled \/ \E reply \in Replies : found = Found(reply)
    BY <1>3 DEF IsScore
  <2>2. ScoreRun(manifest', found, stopped) = ScoreRun(manifest, found, stopped)
    BY <1>2
  <2>3. \A reply \in Replies : Found(reply)' = Found(reply)
    BY <1>2 DEF Found
  <2> QED BY <2>1, <2>2, <2>3 DEF IsScore
<1>4. ASSUME NEW i \in Audited' PROVE IsScore(runs[i])'
  <2>1. PICK x : x = runs[i]'
    OBVIOUS
  <2>2. CASE i = n
    <3>1. x = r /\ ~r.err
      BY <1>1, <2>1, <2>2 DEF Audited
    <3>2. IsScore(x)'
      BY <3>1
    <3> QED BY <2>1, <3>2 DEF IsScore
  <2>3. CASE i \in DOMAIN runs
    <3>1. x = runs[i] /\ i \in Audited
      BY <1>1, <2>1, <2>3 DEF Audited
    <3>2. IsScore(x)
      BY <3>1 DEF ScoresInv
    <3>3. IsScore(x)'
      BY <1>3, <3>2
    <3> QED BY <2>1, <3>3 DEF IsScore
  <2> QED BY <1>1, <2>2, <2>3 DEF Audited
<1> QED BY <1>1, <1>2, <1>4 DEF ScoresInv, Decided

LEMMA SameRuns ==
    ASSUME ScoresInv, UNCHANGED <<manifest, pass, options, canceled, runs>>
    PROVE  IsSeq(runs)' /\ \A i \in Audited' : IsScore(runs[i])'
<1>1. IsSeq(runs)'
  BY DEF ScoresInv
<1>2. ASSUME NEW i \in Audited' PROVE IsScore(runs[i])'
  <2>1. i \in Audited
    BY DEF Audited
  <2>2. IsScore(runs[i])
    BY <2>1 DEF ScoresInv
  <2> QED BY <2>2 DEF IsScore, Found
<1> QED BY <1>1, <1>2

LEMMA ScoresNext == ASSUME ScoresInv, [Next]_vars PROVE ScoresInv'
<1>1. CASE Load
  <2>1. /\ UNCHANGED <<manifest, pass, options, canceled, runs>>
        /\ runs = <<>> /\ stage' # "loading"
        /\ stage' = "auditing" => Valid(manifest)
    BY <1>1 DEF Load, ScoresInv
  <2>2. Audited = {} /\ Audited' = {}
    BY <2>1 DEF Audited
  <2>3. IsSeq(runs)'
    BY <2>1 DEF ScoresInv
  <2> QED BY <2>1, <2>2, <2>3 DEF ScoresInv, Decided
<1>2. ASSUME NEW reply \in Replies, NEW stopped, EvalOnce(reply, stopped) PROVE ScoresInv'
  <2> DEFINE r == ScoreRun(manifest, Found(reply), stopped)
  <2>1. PICK found : found = Found(reply)
    OBVIOUS
  <2>2. IsSeq(found)
    BY <2>1, FoundIsSeq
  <2>3. /\ Auditing /\ Record(r) /\ UNCHANGED <<canceled, manifest, options, pass>>
    BY <1>2 DEF EvalOnce, Record
  <2>4. Found(reply)' = found
    BY <2>1, <2>3 DEF Found
  <2>5. PICK x : x = r
    OBVIOUS
  <2>6. IsScore(x)'
    BY <2>1, <2>2, <2>3, <2>4, <2>5 DEF IsScore
  <2> HIDE DEF r
  <2> QED BY <2>3, <2>5, <2>6, RecordKeeps
<1>3. CASE EvalFails
  BY <1>3, RecordKeeps DEF EvalFails, FailedRun
<1>4. ASSUME NEW reply \in Replies, EvalCanceled(reply) PROVE ScoresInv'
  <2>1. Auditing /\ canceled'
    BY <1>4 DEF EvalCanceled
  <2>2. CASE Record(FailedRun)
    BY <2>1, <2>2, RecordKeeps DEF FailedRun
  <2>3. ASSUME NEW k, NEW stopped, Record(ScoreRun(manifest, Kept(Found(reply), k), stopped))
        PROVE  ScoresInv'
    <3>1. PICK found : found = Kept(Found(reply), k)
      OBVIOUS
    <3>2. IsSeq(found)
      BY <3>1, FoundIsSeq, KeptIsSeq
    <3>3. PICK x : x = ScoreRun(manifest, found, stopped)
      OBVIOUS
    <3>4. IsScore(x)'
      BY <2>1, <2>3, <3>1, <3>2, <3>3 DEF IsScore, Record
    <3> QED BY <2>1, <2>3, <3>1, <3>3, <3>4, RecordKeeps
  <2> QED BY <1>4, <2>2, <2>3 DEF EvalCanceled
<1>5. CASE Interrupted
  <2>1. /\ UNCHANGED <<manifest, pass, options, canceled, runs>> /\ canceled
        /\ stage = "auditing" /\ stage' = "over"
    BY <1>5 DEF Interrupted
  <2> QED BY <2>1, SameRuns DEF ScoresInv, Decided
<1>6. CASE Finish
  <2>1. /\ UNCHANGED <<manifest, pass, options, canceled, runs>>
        /\ stage = "auditing" /\ stage' = "over" /\ exit' = Gate(runs, manifest, options)
    BY <1>6 DEF Finish
  <2>2. exit' = Gate(runs', manifest', options')
    BY <2>1
  <2> QED BY <2>1, <2>2, SameRuns DEF ScoresInv, Decided
<1>7. CASE UNCHANGED vars
  <2>1. UNCHANGED <<manifest, pass, options, canceled, runs, stage, exit>>
    BY <1>7 DEF vars
  <2>2. Decided'
    BY <2>1 DEF ScoresInv, Decided, Audited
  <2> QED BY <2>1, <2>2, SameRuns DEF ScoresInv
<1> QED BY <1>1, <1>2, <1>3, <1>4, <1>5, <1>6, <1>7 DEF Next

\* Every audit recorded is scored from a list of findings, and the exit code is the gate's.
THEOREM ScoresAlways == Spec => []ScoresInv
<1>1. ScoresInv /\ [Next]_vars => ScoresInv'
  BY ScoresNext
<1> QED BY <1>1, ScoresInit, PTL DEF Spec

LEMMA InvEarned == ScoresInv => CreditIsEarned
<1> SUFFICES ASSUME ScoresInv, NEW i \in Audited PROVE Earned(manifest, runs[i])
  BY DEF CreditIsEarned, Earned
<1>1. PICK found, stopped : IsSeq(found) /\ runs[i] = ScoreRun(manifest, found, stopped)
  BY DEF ScoresInv, IsScore
<1>2. runs # <<>> /\ Valid(manifest) /\ IsSeq(manifest.defects)
  BY EvaluationAssumption DEF ScoresInv, Audited
<1> QED BY <1>1, <1>2, ScoreIsEarned

\* CreditIsEarned: in every audit that is scored, the model is credited once for each
\* finding that measures a target at its place and for nothing else, what it is told to
\* have missed is measured by none of the findings left over, and none is counted twice.
THEOREM CreditIsAlwaysEarned == Spec => []CreditIsEarned
BY ScoresAlways, InvEarned, PTL

-----------------------------------------------------------------------------
(* The gate.                                                                 *)

\* What a model records is by no rule that a manifest names.
LEMMA RepliesAreNoRule ==
    ASSUME ScoresInv, NEW reply \in Replies, NEW rule, NEW where,
           \/ \E d \in Range(manifest.defects) : rule = d.caughtBy
           \/ \E c \in manifest.clean : rule = c.rule
    PROVE  HasRuleAt(Found(reply), rule, where) <=> HasRuleAt(pass, rule, where)
<1>1. \A f \in Range(reply) : f.rule # rule
  BY EvaluationAssumption DEF ScoresInv
<1>2. Range(Found(reply)) = Range(pass) \/ Range(Found(reply)) = Range(pass) \union Range(reply)
  BY EvaluationAssumption, Joined DEF ScoresInv, Found
<1> QED BY <1>1, <1>2 DEF HasRuleAt

SameFields(a, b) ==
    a.found = b.found /\ a.missed = b.missed /\ a.falsePositives = b.falsePositives

\* So the checks score the same in every audit.
LEMMA ChecksAreThePass ==
    ASSUME ScoresInv, NEW reply \in Replies
    PROVE  SameFields(ScoreChecks(manifest, Found(reply)), ScoreChecks(manifest, pass))
<1> DEFINE planted == {d \in Range(manifest.defects) : Deterministic(d)}
<1>1. \A d \in planted : HasRuleAt(Found(reply), d.caughtBy, d.where)
                            <=> HasRuleAt(pass, d.caughtBy, d.where)
  BY RepliesAreNoRule
<1>2. \A c \in manifest.clean : HasRuleAt(Found(reply), c.rule, c.where)
                                   <=> HasRuleAt(pass, c.rule, c.where)
  BY RepliesAreNoRule
<1>3. /\ {d \in planted : HasRuleAt(Found(reply), d.caughtBy, d.where)}
           = {d \in planted : HasRuleAt(pass, d.caughtBy, d.where)}
      /\ {d \in planted : ~HasRuleAt(Found(reply), d.caughtBy, d.where)}
           = {d \in planted : ~HasRuleAt(pass, d.caughtBy, d.where)}
      /\ {c \in manifest.clean : HasRuleAt(Found(reply), c.rule, c.where)}
           = {c \in manifest.clean : HasRuleAt(pass, c.rule, c.where)}
  BY <1>1, <1>2
<1> QED BY <1>3 DEF SameFields, ScoreChecks

\* What fails a build.
Failed ==
    LET there(rule, where) == \E f \in Range(pass) : f.rule = rule /\ f.at = where
    IN  \/ \E d \in Range(manifest.defects) : Deterministic(d) /\ ~there(d.caughtBy, d.where)
        \/ \E c \in manifest.clean : there(c.rule, c.where)

LEMMA GateOfPass ==
    LET cs == ScoreChecks(manifest, pass)
    IN  Failed <=> cs.missed # {} \/ cs.falsePositives # {}
<1> DEFINE cs == ScoreChecks(manifest, pass)
           bad == {d \in {d \in Range(manifest.defects) : Deterministic(d)} :
                      ~HasRuleAt(pass, d.caughtBy, d.where)}
           wrong == {c \in manifest.clean : HasRuleAt(pass, c.rule, c.where)}
<1>1. cs.missed = {d.id : d \in bad} /\ cs.falsePositives = wrong
  BY DEF ScoreChecks
<1>2. {d.id : d \in bad} # {} <=> bad # {}
  OBVIOUS
<1>3. Failed <=> bad # {} \/ wrong # {}
  BY DEF Failed, HasRuleAt
<1> QED BY <1>1, <1>2, <1>3

LEMMA InvFair == ScoresInv => GateIsFair
<1> SUFFICES ASSUME ScoresInv, stage = "over", ~canceled, Audited # {}
             PROVE  (exit = "checks" <=> Failed) /\ exit # "unstable"
  BY DEF GateIsFair, Failed
<1> DEFINE cs == ScoreChecks(manifest, pass)
<1>1. \A i \in Audited : SameFields(runs[i].checks, cs)
  <2> SUFFICES ASSUME NEW i \in Audited PROVE SameFields(runs[i].checks, cs)
    OBVIOUS
  <2>1. PICK reply \in Replies :
           \E stopped : runs[i] = ScoreRun(manifest, Found(reply), stopped)
    BY DEF ScoresInv, IsScore
  <2>2. runs[i].checks = ScoreChecks(manifest, Found(reply))
    BY <2>1 DEF ScoreRun
  <2> QED BY <2>2, ChecksAreThePass
<1>2. Min(Audited) \in Audited
  BY FirstPlace DEF ScoresInv, Audited
<1>3. Checks(runs) = runs[Min(Audited)].checks
  BY DEF Checks, Audited
<1> HIDE DEF cs
<1>4. SameFields(Checks(runs), cs)
  BY <1>1, <1>2, <1>3
<1>5. ~Unstable(runs)
  <2>1. ASSUME NEW r \in Range(runs), ~r.err PROVE SameChecks(Checks(runs), r.checks)
    <3>1. PICK i \in Audited : r = runs[i]
      BY <2>1 DEF Range, Audited
    <3>2. SameFields(r.checks, cs)
      BY <1>1, <3>1
    <3> QED BY <1>4, <3>2 DEF SameFields, SameChecks
  <2> QED BY <2>1 DEF Unstable
<1>6. exit = Gate(runs, manifest, options)
  BY DEF ScoresInv, Decided
<1>7. Failed <=> Checks(runs).missed # {} \/ Checks(runs).falsePositives # {}
  BY <1>4, GateOfPass DEF SameFields, cs
<1> QED BY <1>5, <1>6, <1>7 DEF Gate

\* GateIsFair: a build that nobody interrupted, and of which an audit succeeded, is failed
\* for its checks when they missed a planted defect or fired on a clean place, and only
\* then, whatever the model did and whichever audits failed; and it is never unstable.
THEOREM GateIsAlwaysFair == Spec => []GateIsFair
BY ScoresAlways, InvFair, PTL
===============================================================================
