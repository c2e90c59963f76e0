-------------------------- MODULE AlertEngineProofs ---------------------------
(***************************************************************************)
(* Proofs about AlertEngine, for any alerts, servers, rule lists and       *)
(* clocks: what was told is what the state says, the status of a cycle     *)
(* rule is of the cycle, and no verdict needs a point that was dropped.    *)
(***************************************************************************)
EXTENDS AlertEngine, FiniteSetTheorems, SequenceTheorems, WellFoundedInduction, TLAPS

-----------------------------------------------------------------------------
(* Least and greatest numbers *)

\* A set of numbers that has some has a least one.
LEMMA MinIsLeast ==
  ASSUME NEW S, S \subseteq Nat, S # {}
  PROVE  Min(S) \in S /\ \A y \in S : Min(S) <= y
<1> DEFINE R == OpToRel(<, Nat)
<1>0. IsWellFoundedOn(R, Nat)
  BY NatLessThanWellFounded
<1>1. \A x, y \in Nat : x < y => <<x, y>> \in R
  BY DEF OpToRel
<1> HIDE DEF R
<1>2. PICK x \in S : \A y \in S : <<y, x>> \notin R
  BY <1>0, WFMin
<1>3. \A y \in S : x <= y
  <2> SUFFICES ASSUME NEW y \in S, y < x PROVE FALSE
    OBVIOUS
  <2> QED BY <1>1, <1>2
<1> QED BY <1>3 DEF Min

\* A bounded set of numbers that has some has a greatest one.
LEMMA MaxIsGreatest ==
  ASSUME NEW n \in Nat, NEW S, S \subseteq 0..n, S # {}
  PROVE  Max(S) \in S /\ \A y \in S : Max(S) >= y
<1> DEFINE T == {n - x : x \in S}
<1>1. T \subseteq Nat /\ T # {}
  <2>1. ASSUME NEW x \in S PROVE n - x \in Nat
    <3>1. x \in 0..n
      OBVIOUS
    <3> QED BY <3>1
  <2> QED BY <2>1
<1>2. PICK x \in S : Min(T) = n - x
  BY <1>1, MinIsLeast
<1>3. \A z \in T : n - x <= z
  BY <1>1, <1>2, MinIsLeast
<1>4. \A y \in S : x >= y
  <2> SUFFICES ASSUME NEW y \in S PROVE x >= y
    OBVIOUS
  <2>1. n - x <= n - y
    BY <1>3
  <2>2. x \in 0..n /\ y \in 0..n
    OBVIOUS
  <2> QED BY <2>1, <2>2
<1> QED BY <1>4 DEF Max

-----------------------------------------------------------------------------
(* The clock *)

\* The start of a cycle does not go back.
LEMMA Quotient ==
  ASSUME NEW x \in Nat, NEW c \in Nat \ {0}
  PROVE  /\ x \div c \in Nat
         /\ (x \div c) * c <= x /\ x < (x \div c) * c + c
OBVIOUS

\* A product grows with its factor.
LEMMA TimesGrows ==
  ASSUME NEW p \in Nat, NEW q \in Nat, p <= q, NEW c \in Nat
  PROVE  p * c <= q * c
OBVIOUS

\* The start of the cycle grows with the clock.
LEMMA CycleStartGrows ==
  ASSUME NEW now \in Nat, now >= 2
  PROVE  CycleStart(now) \in Nat /\ CycleStart(now) <= CycleStart(now + 1)
<1> DEFINE p == (now - 2) \div CycleLength
           q == (now - 1) \div CycleLength
<1>0. CycleLength \in Nat \ {0}
  BY AlertAssumption
<1>1. now - 2 \in Nat /\ now - 1 \in Nat /\ (now + 1) - 2 = now - 1
  OBVIOUS
<1>2. /\ p \in Nat /\ p * CycleLength <= now - 2
      /\ q \in Nat /\ now - 1 < q * CycleLength + CycleLength
  BY <1>0, <1>1, Quotient
<1> HIDE DEF p, q
<1>3. p <= q
  <2> SUFFICES ASSUME q + 1 <= p PROVE FALSE
    BY <1>0, <1>2
  <2>1. (q + 1) * CycleLength <= p * CycleLength
    BY <1>0, <1>2, TimesGrows
  <2>2. (q + 1) * CycleLength = q * CycleLength + CycleLength
    BY <1>0, <1>2
  <2>3. p * CycleLength \in Nat /\ q * CycleLength \in Nat
    BY <1>0, <1>2
  <2> QED BY <1>0, <1>1, <1>2, <2>1, <2>2, <2>3
<1>4. p * CycleLength <= q * CycleLength /\ p * CycleLength \in Nat /\ q * CycleLength \in Nat
  BY <1>0, <1>2, <1>3, TimesGrows
<1> QED BY <1>1, <1>4 DEF CycleStart, p, q

-----------------------------------------------------------------------------
(* The newest points *)

\* The last n points of a window are its end.
LEMMA LastPointsProperties ==
  ASSUME NEW a \in Seq(Point), NEW n \in Nat
  PROVE  /\ LastPoints(a, n) \in Seq(Point)
         /\ Len(LastPoints(a, n)) = IF n < Len(a) THEN n ELSE Len(a)
         /\ \A k \in 0..(n - 1) : k < Len(a) =>
              LastPoints(a, n)[Len(LastPoints(a, n)) - k] = a[Len(a) - k]
<1>1. Len(a) \in Nat /\ \A j \in 1..Len(a) : a[j] \in Point
  OBVIOUS
<1>2. CASE n < Len(a)
  <2> DEFINE m == Len(a) - n + 1
  <2>0. m \in Nat /\ 1 < m /\ m <= Len(a) + 1 /\ Len(a) - m + 1 = n
    BY <1>1, <1>2
  <2> HIDE DEF m
  <2>1. \A j \in m..Len(a) : a[j] \in Point
    <3> SUFFICES ASSUME NEW j \in m..Len(a) PROVE a[j] \in Point
      OBVIOUS
    <3>1. j \in 1..Len(a)
      BY <1>1, <2>0
    <3> QED BY <1>1, <3>1
  <2>2. /\ SubSeq(a, m, Len(a)) \in Seq(Point)
        /\ Len(SubSeq(a, m, Len(a))) = n
        /\ \A j \in 1..n : SubSeq(a, m, Len(a))[j] = a[m + j - 1]
    BY <1>1, <2>0, <2>1, SubSeqProperties
  <2>3. LastPoints(a, n) = SubSeq(a, m, Len(a))
    BY <1>2 DEF LastPoints, m
  <2>4. ASSUME NEW k \in 0..(n - 1)
        PROVE  LastPoints(a, n)[n - k] = a[Len(a) - k]
    <3>1. n - k \in 1..n /\ m + (n - k) - 1 = Len(a) - k
      BY <1>1, <2>0
    <3> QED BY <2>2, <2>3, <3>1
  <2> QED BY <1>2, <2>2, <2>3, <2>4
<1>3. CASE ~(n < Len(a))
  BY <1>1, <1>3 DEF LastPoints
<1> QED BY <1>2, <1>3

\* Sequences that end alike.
LEMMA SameEndIsSymmetric ==
  ASSUME NEW a \in Seq(Point), NEW b \in Seq(Point), NEW n \in Nat, SameEnd(a, b, n)
  PROVE  SameEnd(b, a, n)
BY DEF SameEnd

\* Windows that end alike with a third end alike.
LEMMA SameEndIsTransitive ==
  ASSUME NEW a \in Seq(Point), NEW b \in Seq(Point), NEW c \in Seq(Point), NEW n \in Nat,
         SameEnd(a, b, n), SameEnd(b, c, n)
  PROVE  SameEnd(a, c, n)
<1>1. Len(a) \in Nat /\ Len(b) \in Nat /\ Len(c) \in Nat
  OBVIOUS
<1>2. Len(a) < n \/ Len(b) < n \/ Len(c) < n => Len(a) = Len(b) /\ Len(b) = Len(c)
  BY <1>1 DEF SameEnd
<1>3. ASSUME NEW k \in 0..(n - 1), k < Len(a), k < Len(c)
      PROVE  a[Len(a) - k] = c[Len(c) - k]
  <2>1. k < Len(b)
    BY <1>1, <1>2, <1>3
  <2> QED BY <1>3, <2>1 DEF SameEnd
<1> QED BY <1>2, <1>3 DEF SameEnd

\* Windows that end alike do so for fewer points,
LEMMA SameEndOfFewer ==
  ASSUME NEW a \in Seq(Point), NEW b \in Seq(Point), NEW n \in Nat, NEW m \in 0..n,
         SameEnd(a, b, n)
  PROVE  SameEnd(a, b, m)
<1>1. Len(a) \in Nat /\ Len(b) \in Nat
  OBVIOUS
<1> QED BY <1>1 DEF SameEnd

\* and for one more, when both get the same point.
LEMMA SameEndOfMore ==
  ASSUME NEW a \in Seq(Point), NEW b \in Seq(Point), NEW n \in Nat, NEW x \in Point,
         SameEnd(a, b, n)
  PROVE  SameEnd(Append(a, x), Append(b, x), n + 1)
<1>1. Len(a) \in Nat /\ Len(b) \in Nat
  OBVIOUS
<1>2. /\ Len(Append(a, x)) = Len(a) + 1 /\ Append(a, x)[Len(a) + 1] = x
      /\ \A j \in 1..Len(a) : Append(a, x)[j] = a[j]
  OBVIOUS
<1>3. /\ Len(Append(b, x)) = Len(b) + 1 /\ Append(b, x)[Len(b) + 1] = x
      /\ \A j \in 1..Len(b) : Append(b, x)[j] = b[j]
  OBVIOUS
<1>4. Len(a) + 1 < n + 1 \/ Len(b) + 1 < n + 1 => Len(a) + 1 = Len(b) + 1
  BY <1>1 DEF SameEnd
<1>5. ASSUME NEW k \in 0..n, k < Len(a) + 1, k < Len(b) + 1
      PROVE  Append(a, x)[Len(a) + 1 - k] = Append(b, x)[Len(b) + 1 - k]
  <2>1. CASE k = 0
    BY <1>1, <1>2, <1>3, <2>1
  <2>2. CASE k # 0
    <3>1. k - 1 \in 0..(n - 1) /\ k - 1 < Len(a) /\ k - 1 < Len(b)
      BY <1>1, <1>5, <2>2
    <3>2. a[Len(a) - (k - 1)] = b[Len(b) - (k - 1)]
      BY <3>1 DEF SameEnd
    <3>3. Len(a) + 1 - k \in 1..Len(a) /\ Len(a) + 1 - k = Len(a) - (k - 1)
      BY <1>1, <1>5, <2>2
    <3>4. Len(b) + 1 - k \in 1..Len(b) /\ Len(b) + 1 - k = Len(b) - (k - 1)
      BY <1>1, <1>5, <2>2
    <3> QED BY <1>2, <1>3, <3>2, <3>3, <3>4
  <2> QED BY <2>1, <2>2
<1> QED BY <1>2, <1>3, <1>4, <1>5 DEF SameEnd

\* Truncation keeps the end.
LEMMA SameEndOfLast ==
  ASSUME NEW a \in Seq(Point), NEW m \in Nat, NEW n \in 0..m
  PROVE  SameEnd(LastPoints(a, m), a, n)
<1>1. Len(a) \in Nat
  OBVIOUS
<1> QED BY <1>1, LastPointsProperties DEF SameEnd

-----------------------------------------------------------------------------
(* Verdicts *)

\* Points that end alike, as far back as a rule looks, are one to it.
LEMMA PassingOfSameEnd ==
  ASSUME NEW a \in Seq(Point), NEW b \in Seq(Point), NEW rule \in Rule, NEW i, NEW n \in Nat,
         rule.duration <= n, SameEnd(a, b, n)
  PROVE  Passing(a, rule, i) = Passing(b, rule, i)
<1>1. Len(a) \in Nat /\ Len(b) \in Nat /\ rule.duration \in Nat
  BY DEF Rule
<1>2. ASSUME NEW k \in 0..(rule.duration - 1)
      PROVE  /\ k < Len(a) <=> k < Len(b)
             /\ k < Len(a) => a[Len(a) - k] = b[Len(b) - k]
  <2>1. k \in 0..(n - 1) /\ k \in Nat /\ k < n
    BY <1>1
  <2> QED BY <1>1, <2>1 DEF SameEnd
<1> QED BY <1>2 DEF Passing

\* A rule judges windows alike that end alike as far back as it looks.
LEMMA VerdictOfSameEnd ==
  ASSUME NEW a \in Seq(Point), NEW b \in Seq(Point), NEW rule \in Rule, NEW i, NEW n \in Nat \ {0},
         rule.kind # "cycle" => rule.duration <= n, SameEnd(a, b, n)
  PROVE  RulePasses(rule, i, a) <=> RulePasses(rule, i, b)
<1>1. Len(a) \in Nat /\ Len(b) \in Nat /\ rule.duration \in Nat
  BY DEF Rule
<1>2. CASE rule.kind = "cycle"
  <2>1. a = <<>> <=> b = <<>>
    <3>1. Len(a) = 0 <=> Len(b) = 0
      BY <1>1 DEF SameEnd
    <3>2. (a = <<>> <=> Len(a) = 0) /\ (b = <<>> <=> Len(b) = 0)
      BY EmptySeq
    <3> QED BY <3>1, <3>2
  <2>2. a # <<>> => Last(a) = Last(b)
    <3> SUFFICES ASSUME a # <<>> PROVE Last(a) = Last(b)
      OBVIOUS
    <3>1. 0 < Len(a) /\ 0 < Len(b)
      BY <1>1, <2>1, EmptySeq
    <3>2. 0 \in 0..(n - 1)
      OBVIOUS
    <3>3. a[Len(a) - 0] = b[Len(b) - 0]
      BY <3>1, <3>2 DEF SameEnd
    <3> QED BY <1>1, <3>3 DEF Last
  <2> QED BY <1>2, <2>1, <2>2 DEF RulePasses
<1>3. CASE rule.kind # "cycle"
  <2>1. Passing(a, rule, i) = Passing(b, rule, i)
    <3>1. n \in Nat /\ rule.duration <= n
      BY <1>3
    <3> QED BY <3>1, PassingOfSameEnd
  <2>2. Len(a) < rule.duration <=> Len(b) < rule.duration
    BY <1>1, <1>3 DEF SameEnd
  <2> QED BY <1>3, <2>1, <2>2 DEF RulePasses, Failures
<1> QED BY <1>2, <1>3

-----------------------------------------------------------------------------
(* How many points are kept *)

\* A list of rules that an alert may have.
LEMMA ListProperties ==
  ASSUME NEW list \in AllLists
  PROVE  /\ list \in Seq(Rule) /\ Len(list) \in Nat /\ DOMAIN list = 1..Len(list) /\ 1 \in DOMAIN list
         /\ Len(list) <= MaxRules /\ MaxRules \in Nat /\ MaxSamples \in Nat \ {0}
         /\ \A i \in DOMAIN list : list[i] \in Rule /\ list[i].duration \in 1..MaxSamples
<1>1. PICK a \in Alert : list \in RuleLists[a]
  BY DEF AllLists
<1>2. list \in Seq(Rule) /\ list # <<>> /\ Len(list) <= MaxRules /\ MaxRules \in Nat
  BY <1>1, AlertAssumption
<1>3. Len(list) \in Nat /\ DOMAIN list = 1..Len(list) /\ 1 \in DOMAIN list
  BY <1>2, EmptySeq
<1>4. \A i \in DOMAIN list : list[i] \in Rule
  BY <1>2
<1>5. \A i \in DOMAIN list : list[i].duration <= MaxSamples
  BY <1>1, AlertAssumption
<1>6. \A i \in DOMAIN list : list[i].duration \in Nat \ {0}
  BY <1>4 DEF Rule
<1>7. MaxSamples \in Nat
  BY AlertAssumption
<1>8. \A i \in DOMAIN list : list[i].duration \in 1..MaxSamples
  BY <1>5, <1>6, <1>7
<1> QED BY <1>2, <1>3, <1>4, <1>6, <1>8, <1>7

\* The failures a rule counts at the end of a window, and where they stop.
LEMMA RecentFailuresBounds ==
  ASSUME NEW a \in Seq(Point), NEW rule \in Rule, NEW i
  PROVE  /\ RecentFailures(a, rule, i) \in 1..rule.duration
         /\ Passing(a, rule, i) # {} =>
              /\ Min(Passing(a, rule, i)) \in Passing(a, rule, i)
              /\ RecentFailures(a, rule, i) = Min(Passing(a, rule, i)) + 1
         /\ Passing(a, rule, i) = {} => RecentFailures(a, rule, i) = rule.duration
<1>1. rule.duration \in Nat \ {0}
  BY DEF Rule
<1>2. CASE Passing(a, rule, i) = {}
  BY <1>1, <1>2 DEF RecentFailures
<1>3. CASE Passing(a, rule, i) # {}
  <2>1. Passing(a, rule, i) \subseteq 0..(rule.duration - 1)
    BY DEF Passing
  <2>2. Passing(a, rule, i) \subseteq Nat
    BY <2>1
  <2>3. Min(Passing(a, rule, i)) \in Passing(a, rule, i)
    BY <1>3, <2>2, MinIsLeast
  <2>4. Min(Passing(a, rule, i)) \in 0..(rule.duration - 1)
    BY <2>1, <2>3
  <2> QED BY <1>1, <1>3, <2>3, <2>4 DEF RecentFailures
<1> QED BY <1>2, <1>3

\* A rule asks to keep one point at least, and no more than its duration.
LEMMA DurationBounds ==
  ASSUME NEW list \in AllLists, NEW a \in Seq(Point), NEW i \in DOMAIN list
  PROVE  Duration(list, i, a) \in 1..list[i].duration
<1>1. list[i] \in Rule /\ list[i].duration \in Nat \ {0}
  BY ListProperties DEF Rule
<1>2. 1 \in 1..list[i].duration /\ list[i].duration \in 1..list[i].duration
  BY <1>1
<1>3. RecentFailures(a, list[i], i) \in 1..list[i].duration
  BY <1>1, RecentFailuresBounds
<1>4. list[i].kind \in Kinds
  BY <1>1 DEF Rule
<1> DEFINE skipped == Len(a) < list[i].duration \/ \E j \in 1..(i - 1) : RulePasses(list[j], j, a)
<1>5. /\ list[i].kind = "cycle" => Duration(list, i, a) = 1
      /\ list[i].kind = "metric" => Duration(list, i, a) = list[i].duration
      /\ list[i].kind = "offline" /\ skipped => Duration(list, i, a) = 1
      /\ list[i].kind = "offline" /\ ~skipped => Duration(list, i, a) = RecentFailures(a, list[i], i)
  BY DEF Duration
<1> HIDE DEF skipped
<1> QED BY <1>2, <1>3, <1>4, <1>5 DEF Kinds

\* As many as the most demanding rule asks for.
LEMMA MaxDurationBounds ==
  ASSUME NEW list \in AllLists, NEW a \in Seq(Point)
  PROVE  /\ MaxDuration(list, a) \in 1..MaxSamples
         /\ \A i \in DOMAIN list : Duration(list, i, a) <= MaxDuration(list, a)
<1> DEFINE S == {Duration(list, i, a) : i \in DOMAIN list}
<1>1. ASSUME NEW i \in DOMAIN list PROVE Duration(list, i, a) \in 1..MaxSamples
  <2>1. Duration(list, i, a) \in 1..list[i].duration
    BY DurationBounds
  <2>2. list[i].duration \in 1..MaxSamples /\ MaxSamples \in Nat
    BY ListProperties
  <2> QED BY <2>1, <2>2
<1>2. S \subseteq 1..MaxSamples
  BY <1>1
<1>3. S \subseteq 0..MaxSamples /\ MaxSamples \in Nat
  BY <1>2, ListProperties
<1>4. Duration(list, 1, a) \in S
  BY ListProperties
<1>5. Max(S) \in S /\ \A y \in S : Max(S) >= y
  <2> HIDE DEF S
  <2> QED BY <1>3, <1>4, MaxIsGreatest
<1>6. Max(S) \in Nat
  BY <1>2, <1>5
<1>7. \A i \in DOMAIN list : Duration(list, i, a) <= Max(S)
  BY <1>1, <1>5, <1>6
<1> QED BY <1>2, <1>5, <1>7 DEF MaxDuration

\* What is kept is enough for each rule up to the first that passes.
LEMMA FirstVerdictsAreKept ==
  ASSUME NEW list \in AllLists, NEW a \in Seq(Point), NEW i \in DOMAIN list,
         \A j \in 1..(i - 1) : ~RulePasses(list[j], j, a)
  PROVE  RulePasses(list[i], i, LastPoints(a, MaxDuration(list, a))) <=> RulePasses(list[i], i, a)
<1> DEFINE m == MaxDuration(list, a)
           b == LastPoints(a, m)
           rule == list[i]
<1>1. /\ m \in Nat \ {0} /\ Duration(list, i, a) \in Nat /\ Duration(list, i, a) <= m
      /\ rule \in Rule /\ rule.kind \in Kinds /\ rule.duration \in Nat \ {0}
  <2>1. m \in 1..MaxSamples /\ Duration(list, i, a) <= m
    BY MaxDurationBounds
  <2>2. Duration(list, i, a) \in 1..list[i].duration
    BY DurationBounds
  <2>3. rule \in Rule
    BY ListProperties
  <2> QED BY <2>1, <2>2, <2>3 DEF Rule
<1>2. b \in Seq(Point) /\ Len(a) \in Nat /\ Len(b) = IF m < Len(a) THEN m ELSE Len(a)
  BY <1>1, LastPointsProperties
<1>3. SameEnd(b, a, m)
  <2>1. m \in Nat /\ m \in 0..m
    BY <1>1
  <2> QED BY <2>1, SameEndOfLast
<1>4. ASSUME rule.kind # "cycle" => rule.duration <= m
      PROVE  RulePasses(rule, i, b) <=> RulePasses(rule, i, a)
  <2> HIDE DEF m, b, rule
  <2> QED BY <1>1, <1>2, <1>3, <1>4, VerdictOfSameEnd
<1>5. CASE rule.kind = "cycle"
  BY <1>4, <1>5
<1>6. CASE rule.kind = "metric"
  <2>1. Duration(list, i, a) = rule.duration
    BY <1>6 DEF Duration
  <2> QED BY <1>1, <1>4, <2>1
<1>7. CASE rule.kind = "offline"
  <2>1. CASE Len(a) < rule.duration
    <3>1. Len(b) < rule.duration
      BY <1>1, <1>2, <2>1
    <3> QED BY <1>7, <2>1, <3>1 DEF RulePasses
  <2>2. CASE ~(Len(a) < rule.duration)
    <3>1. Duration(list, i, a) = RecentFailures(a, rule, i)
      BY <1>7, <2>2 DEF Duration
    <3>2. CASE Passing(a, rule, i) = {}
      <4>1. RecentFailures(a, rule, i) = rule.duration
        BY <1>1, <3>2, RecentFailuresBounds
      <4> QED BY <1>1, <1>4, <3>1, <4>1
    <3>3. CASE Passing(a, rule, i) # {}
      <4> DEFINE k == Min(Passing(a, rule, i))
      <4>1. k \in Passing(a, rule, i) /\ Duration(list, i, a) = k + 1
        BY <1>1, <3>1, <3>3, RecentFailuresBounds
      <4>2. k \in 0..(rule.duration - 1) /\ k < Len(a) /\ ReadingAt(a[Len(a) - k], i)
        BY <4>1 DEF Passing
      <4>3. k \in 0..(m - 1) /\ k < Len(b)
        BY <1>1, <1>2, <4>1, <4>2
      <4>4. b[Len(b) - k] = a[Len(a) - k]
        BY <1>3, <4>2, <4>3 DEF SameEnd
      <4>5. k \in Passing(b, rule, i)
        BY <4>2, <4>3, <4>4 DEF Passing
      <4> QED BY <1>7, <3>3, <4>5 DEF RulePasses
    <3> QED BY <3>2, <3>3
  <2> QED BY <2>1, <2>2
<1> QED BY <1>1, <1>5, <1>6, <1>7 DEF Kinds

\* The points that a check asks to keep are judged as those it was given.
LEMMA VerdictIsKept ==
  ASSUME NEW list \in AllLists, NEW a \in Seq(Point)
  PROVE  Passed(list, LastPoints(a, MaxDuration(list, a))) <=> Passed(list, a)
<1> DEFINE b == LastPoints(a, MaxDuration(list, a))
           S == {i \in DOMAIN list : RulePasses(list[i], i, a)}
<1>1. CASE S = {}
  <2>1. ASSUME NEW i \in DOMAIN list PROVE ~RulePasses(list[i], i, b)
    <3>1. \A j \in 1..(i - 1) : j \in DOMAIN list
      BY ListProperties
    <3>2. \A j \in 1..(i - 1) : ~RulePasses(list[j], j, a)
      BY <1>1, <3>1
    <3> QED BY <1>1, <3>2, FirstVerdictsAreKept
  <2> QED BY <1>1, <2>1 DEF Passed
<1>2. CASE S # {}
  <2>1. S \subseteq Nat
    BY ListProperties
  <2> DEFINE i == Min(S)
  <2>2. i \in S /\ \A j \in S : i <= j
    <3> HIDE DEF S
    <3> QED BY <1>2, <2>1, MinIsLeast
  <2> HIDE DEF i
  <2>3. \A j \in 1..(i - 1) : j \in DOMAIN list /\ ~(i <= j)
    BY <2>2, ListProperties
  <2>4. \A j \in 1..(i - 1) : ~RulePasses(list[j], j, a)
    BY <2>2, <2>3
  <2>5. RulePasses(list[i], i, b)
    BY <2>2, <2>4, FirstVerdictsAreKept
  <2> QED BY <2>2, <2>5 DEF Passed
<1> QED BY <1>1, <1>2

-----------------------------------------------------------------------------
(* One pair in a tick *)

\* An evaluation gives windows, a state and cycles of their types.
LEMMA EvaluateIsTyped ==
  ASSUME TypeOK, NEW p \in Pair, NEW r \in Readings(rules[p[1]]), NEW delay \in 1..MaxDelay,
         NEW e, e = Evaluate(p, r, delay)
  PROVE  /\ e.samples \in Seq(Point) /\ e.readings \in Seq(Point)
         /\ Len(e.samples) <= MaxSamples /\ Len(e.readings) <= MaxSamples
         /\ e.prev \in {Fail, Pass}
         /\ e.cycle \in [1..MaxRules -> [start : Nat, next : Nat, passed : BOOLEAN]]
         /\ e.taken \in [1..MaxRules -> Nat]
         /\ e.action \in {"nothing", "incident", "resolved"}
         /\ e.told \in {"nothing", "incident", "resolved", "unknown"}
<1> DEFINE list == rules[p[1]]
           reset == \E i \in DOMAIN list : list[i].kind = "cycle" /\ Begins(cycle[p][i])
           point == [i \in DOMAIN list |-> SnapshotPasses(list[i], cycle[p][i], r[i])]
           pushed == Append(IF reset THEN <<>> ELSE samples[p], point)
           read == Append(IF reset THEN <<>> ELSE readings[p], point)
<1>1. /\ list \in AllLists /\ DOMAIN list \subseteq 1..MaxRules
      /\ p[1] \in Alert
      /\ samples[p] \in Seq(Point) /\ readings[p] \in Seq(Point)
      /\ cycle[p] \in [1..MaxRules -> [start : Nat, next : Nat, passed : BOOLEAN]]
      /\ taken[p] \in [1..MaxRules -> Nat]
      /\ told[p] \in {"nothing", "incident", "resolved", "unknown"}
      /\ CycleStart(clock) \in Nat /\ clock \in Nat
  <2>1. p[1] \in Alert
    BY DEF Pair
  <2>2. list \in AllLists
    BY <2>1 DEF TypeOK
  <2>3. DOMAIN list \subseteq 1..MaxRules
    BY <2>2, ListProperties
  <2>4. CycleStart(clock) \in Nat
    BY CycleStartGrows DEF TypeOK
  <2> QED BY <2>1, <2>2, <2>3, <2>4 DEF TypeOK
<1>2. point \in Point
  <2>1. \A i \in DOMAIN list : SnapshotPasses(list[i], cycle[p][i], r[i]) \in BOOLEAN
    BY <1>1 DEF SnapshotPasses
  <2>2. point \in [1..Len(list) -> BOOLEAN]
    BY <1>1, <2>1, ListProperties
  <2>3. Len(list) \in 1..MaxRules
    BY <1>1, ListProperties
  <2> QED BY <2>2, <2>3 DEF Point
<1> HIDE DEF point
<1>3. pushed \in Seq(Point) /\ read \in Seq(Point)
  BY <1>1, <1>2
<1>4. MaxDuration(list, pushed) \in 1..MaxSamples /\ MaxSamples \in Nat
  BY <1>1, <1>3, MaxDurationBounds, ListProperties
<1>5. \A n \in Nat : n <= MaxSamples =>
        /\ LastPoints(pushed, n) \in Seq(Point) /\ Len(LastPoints(pushed, n)) <= MaxSamples
        /\ LastPoints(read, n) \in Seq(Point) /\ Len(LastPoints(read, n)) <= MaxSamples
  <2>1. \A s \in Seq(Point) : Len(s) \in Nat
    OBVIOUS
  <2> HIDE DEF pushed, read
  <2> QED BY <1>3, <1>4, <2>1, LastPointsProperties
<1>6. /\ e.samples = LastPoints(pushed, MaxDuration(list, pushed))
      /\ e.readings = LastPoints(read, MaxSamples)
  BY DEF Evaluate, point
<1>7. /\ e.samples \in Seq(Point) /\ e.readings \in Seq(Point)
      /\ Len(e.samples) <= MaxSamples /\ Len(e.readings) <= MaxSamples
  <2> DEFINE m == MaxDuration(list, pushed)
  <2>1. m \in Nat /\ m <= MaxSamples /\ MaxSamples <= MaxSamples /\ MaxSamples \in Nat
    BY <1>4
  <2>2. e.samples = LastPoints(pushed, m)
    BY <1>6
  <2> HIDE DEF pushed, read, list, m
  <2>3. e.samples \in Seq(Point) /\ Len(e.samples) <= MaxSamples
    BY <1>5, <2>1, <2>2
  <2>4. e.readings \in Seq(Point) /\ Len(e.readings) <= MaxSamples
    BY <1>5, <1>6, <2>1
  <2> QED BY <2>3, <2>4
<1>8. e.prev \in {Fail, Pass}
  BY DEF Evaluate
<1>9. e.cycle \in [1..MaxRules -> [start : Nat, next : Nat, passed : BOOLEAN]]
  <2>1. ASSUME NEW i \in DOMAIN list
        PROVE  LookAt(cycle[p][i], r[i], delay) \in [start : Nat, next : Nat, passed : BOOLEAN]
    <3>1. cycle[p][i] \in [start : Nat, next : Nat, passed : BOOLEAN]
      BY <1>1
    <3>2. clock + delay \in Nat
      BY <1>1, AlertAssumption
    <3> HIDE DEF list
    <3> QED BY <1>1, <3>1, <3>2 DEF LookAt, NewCycle
  <2>2. e.cycle = [i \in 1..MaxRules |->
                      IF i \in DOMAIN list /\ list[i].kind = "cycle"
                      THEN LookAt(cycle[p][i], r[i], delay) ELSE cycle[p][i]]
    BY DEF Evaluate
  <2> DEFINE C == [start : Nat, next : Nat, passed : BOOLEAN]
  <2>3. \A i \in 1..MaxRules : cycle[p][i] \in C
    BY <1>1
  <2> HIDE DEF list, C
  <2>4. \A i \in 1..MaxRules :
          (IF i \in DOMAIN list /\ list[i].kind = "cycle"
           THEN LookAt(cycle[p][i], r[i], delay) ELSE cycle[p][i]) \in C
    BY <2>1, <2>3 DEF C
  <2>5. e.cycle \in [1..MaxRules -> C]
    BY <2>2, <2>4
  <2> QED BY <2>5 DEF C
<1>10. e.taken \in [1..MaxRules -> Nat]
  <2>1. e.taken = [i \in 1..MaxRules |->
                      IF i \in DOMAIN list /\ Looked(list[i], cycle[p][i], r[i])
                      THEN CycleStart(clock) ELSE taken[p][i]]
    BY DEF Evaluate
  <2>2. \A i \in 1..MaxRules : taken[p][i] \in Nat
    BY <1>1
  <2> HIDE DEF list
  <2>3. \A i \in 1..MaxRules :
          (IF i \in DOMAIN list /\ Looked(list[i], cycle[p][i], r[i])
           THEN CycleStart(clock) ELSE taken[p][i]) \in Nat
    BY <1>1, <2>2
  <2> QED BY <2>1, <2>3
<1>11. e.action \in {"nothing", "incident", "resolved"}
  <2>1. \A b, q : Change(p[1], b, q) \in {"nothing", "incident", "resolved"}
    BY DEF Change
  <2> QED BY <2>1 DEF Evaluate
<1>12. e.told \in {"nothing", "incident", "resolved", "unknown"}
  BY <1>1 DEF Evaluate
<1> QED BY <1>7, <1>8, <1>9, <1>10, <1>11, <1>12

\* What is pushed to the actions, and what is said to be told.
LEMMA EvaluateIsNews ==
  ASSUME NEW p \in Pair, NEW r, NEW delay, IsTold(p), NEW e, e = Evaluate(p, r, delay)
  PROVE  /\ e.action = "incident" => e.prev = Fail /\ (p[1] \notin once \/ e.told # "incident")
         /\ e.action = "resolved" => e.prev = Pass /\ e.told \in {"incident", "unknown"} \cup {told[p]}
                                       /\ e.told # "nothing" /\ e.told # "resolved"
         /\ e.action = "nothing" => /\ e.told = "incident" => e.prev = Fail
                                    /\ e.told = "resolved" => e.prev = Pass
                                    /\ e.told = "nothing"  => e.prev # Fail
<1> DEFINE list == rules[p[1]]
           reset == \E i \in DOMAIN list : list[i].kind = "cycle" /\ Begins(cycle[p][i])
           point == [i \in DOMAIN list |-> SnapshotPasses(list[i], cycle[p][i], r[i])]
           pushed == Append(IF reset THEN <<>> ELSE samples[p], point)
           passed == Passed(list, pushed)
           before == IF reset THEN 0 ELSE prev[p]
<1>1. /\ e.prev = IF passed THEN Pass ELSE Fail
      /\ e.action = Change(p[1], before, passed)
      /\ e.told = IF reset /\ prev[p] = Fail THEN "unknown" ELSE told[p]
  BY DEF Evaluate
<1>2. reset \in BOOLEAN /\ passed \in BOOLEAN
  BY DEF Passed
<1> HIDE DEF reset, passed
<1> QED BY <1>1, <1>2 DEF Change, IsTold, Fail, Pass

\* The status of a cycle rule has the time of its cycle.
LEMMA EvaluateHasItsCycle ==
  ASSUME TypeOK, StatusHasItsCycle,
         NEW p \in Pair, NEW r, NEW delay \in 1..MaxDelay, NEW i \in 1..MaxRules,
         NEW e, e = Evaluate(p, r, delay)
  PROVE  /\ e.cycle[i].start <= CycleStart(clock)
         /\ e.cycle[i].next # 0 => e.taken[i] = e.cycle[i].start
<1> DEFINE list == rules[p[1]]
           c == cycle[p][i]
<1>1. /\ c \in [start : Nat, next : Nat, passed : BOOLEAN]
      /\ taken[p][i] \in Nat /\ clock \in Nat /\ CycleStart(clock) \in Nat
  <2>1. CycleStart(clock) \in Nat
    BY CycleStartGrows DEF TypeOK
  <2>2. cycle[p] \in [1..MaxRules -> [start : Nat, next : Nat, passed : BOOLEAN]]
    BY DEF TypeOK
  <2>3. taken[p] \in [1..MaxRules -> Nat]
    BY DEF TypeOK
  <2>4. clock \in Nat
    BY DEF TypeOK
  <2> QED BY <2>1, <2>2, <2>3, <2>4
<1>2. c.start <= CycleStart(clock) /\ (c.next # 0 => taken[p][i] = c.start)
  BY DEF StatusHasItsCycle
<1>3. /\ e.cycle[i] = IF i \in DOMAIN list /\ list[i].kind = "cycle"
                       THEN LookAt(c, r[i], delay) ELSE c
      /\ e.taken[i] = IF i \in DOMAIN list /\ Looked(list[i], c, r[i])
                      THEN CycleStart(clock) ELSE taken[p][i]
  BY DEF Evaluate
<1>4. Begins(c) <=> CycleStart(clock) > c.start
  BY DEF Begins
<1> HIDE DEF list, c
<1>5. CASE ~(i \in DOMAIN list /\ list[i].kind = "cycle")
  BY <1>2, <1>3, <1>5 DEF Looked
<1>6. CASE i \in DOMAIN list /\ list[i].kind = "cycle"
  <2>1. CASE ~Begins(c) /\ c.next > clock
    <3>1. ~(c.next <= clock)
      BY <1>1, <2>1
    <3> QED BY <1>2, <1>3, <1>6, <2>1, <3>1 DEF LookAt, Looked
  <2>2. CASE ~(~Begins(c) /\ c.next > clock) /\ r[i] = "unknown"
    <3>1. e.cycle[i] = IF Begins(c) THEN NewCycle(c) ELSE c
      BY <1>3, <1>6, <2>2 DEF LookAt
    <3>2. e.taken[i] = taken[p][i]
      BY <1>3, <2>2 DEF Looked
    <3> QED BY <1>1, <1>2, <3>1, <3>2 DEF NewCycle
  <2>3. CASE ~(~Begins(c) /\ c.next > clock) /\ r[i] # "unknown"
    <3>1. e.cycle[i] = [(IF Begins(c) THEN NewCycle(c) ELSE c) EXCEPT
                           !.next = clock + delay, !.passed = (r[i] = "pass")]
      BY <1>3, <1>6, <2>3 DEF LookAt
    <3>2. e.cycle[i].start = IF Begins(c) THEN CycleStart(clock) ELSE c.start
      BY <1>1, <3>1 DEF NewCycle
    <3>3. e.taken[i] = CycleStart(clock)
      BY <1>1, <1>3, <1>6, <2>3 DEF Looked
    <3> QED BY <1>1, <1>2, <1>4, <3>2, <3>3
  <2> QED BY <2>1, <2>2, <2>3
<1> QED BY <1>5, <1>6

-----------------------------------------------------------------------------
(* A tick *)

\* What each pair that is seen contributes.
LEMMA EachIsEvaluated ==
  ASSUME NEW seen \in SUBSET Pair, NEW new \in Evaluations(seen), NEW p \in seen
  PROVE  \E r \in Readings(rules[p[1]]), delay \in 1..MaxDelay : new[p] = Evaluate(p, r, delay)
<1>1. PICK delay \in 1..MaxDelay, reading \in AllReadings(seen) :
        new = [q \in seen |-> Evaluate(q, reading[q], delay)]
  BY DEF Evaluations
<1>2. reading[p] \in Readings(rules[p[1]])
  BY DEF AllReadings
<1>3. new[p] = Evaluate(p, reading[p], delay)
  BY <1>1
<1> QED BY <1>2, <1>3

\* Evaluating the alerts of a tick keeps the invariant, whatever actions are lost.
LEMMA EvaluateAlertsKeepsInv ==
  ASSUME EngineIInv, BeginTick, NEW evaluated \in SUBSET Alert, NEW lost \in BOOLEAN,
         EvaluateAlerts(evaluated, lost), upsets' \in 0..MaxUpsets
  PROVE  EngineIInv'
<1> DEFINE seen == {p \in Pair : p[1] \in evaluated}
<1>0. PICK new \in Evaluations(seen) : Keep(new, seen, lost)
  BY DEF EvaluateAlerts
<1>1. /\ \A p \in seen : \E r \in Readings(rules[p[1]]), delay \in 1..MaxDelay :
           new[p] = Evaluate(p, r, delay)
      /\ samples' = [p \in Pair |-> IF p \in seen THEN new[p].samples ELSE samples[p]]
      /\ prev' = [p \in Pair |-> IF p \in seen THEN new[p].prev ELSE prev[p]]
      /\ cycle' = [p \in Pair |-> IF p \in seen THEN new[p].cycle ELSE cycle[p]]
      /\ readings' = [p \in Pair |-> IF p \in seen THEN new[p].readings ELSE readings[p]]
      /\ taken' = [p \in Pair |-> IF p \in seen THEN new[p].taken ELSE taken[p]]
      /\ actions' = IF lost THEN {}
                    ELSE {[pair |-> p, kind |-> new[p].action] :
                            p \in {q \in seen : new[q].action # "nothing"}}
      /\ told' = [p \in Pair |-> IF lost /\ p \in seen /\ new[p].action # "nothing" THEN "unknown"
                                 ELSE IF p \in seen THEN new[p].told ELSE told[p]]
  <2>1. seen \in SUBSET Pair
    OBVIOUS
  <2> HIDE DEF seen
  <2>2. told' = [p \in Pair |-> IF lost /\ p \in seen /\ new[p].action # "nothing" THEN "unknown"
                                ELSE IF p \in seen THEN new[p].told ELSE told[p]]
    BY <1>0 DEF Keep
  <2> QED BY <1>0, <2>1, <2>2, EachIsEvaluated DEF Keep
<1>2. /\ actions = {} /\ working = {} /\ working' = {} /\ clock' = clock + 1
      /\ rules' = rules /\ once' = once /\ silent' = silent
  BY DEF BeginTick, stored
<1>3. \A p \in Pair : IsTold(p)
  BY <1>2 DEF EngineIInv, NewsIsPending
<1>4. ASSUME NEW p \in seen
      PROVE  /\ new[p].samples \in Seq(Point) /\ new[p].readings \in Seq(Point)
             /\ Len(new[p].samples) <= MaxSamples /\ Len(new[p].readings) <= MaxSamples
             /\ new[p].prev \in {Fail, Pass}
             /\ new[p].cycle \in [1..MaxRules -> [start : Nat, next : Nat, passed : BOOLEAN]]
             /\ new[p].taken \in [1..MaxRules -> Nat]
             /\ new[p].action \in {"nothing", "incident", "resolved"}
             /\ new[p].told \in {"nothing", "incident", "resolved", "unknown"}
  <2> DEFINE e == new[p]
  <2>1. PICK r \in Readings(rules[p[1]]), delay \in 1..MaxDelay : e = Evaluate(p, r, delay)
    BY <1>1
  <2>2. p \in Pair /\ TypeOK
    BY DEF EngineIInv
  <2> HIDE DEF e
  <2>3. /\ e.samples \in Seq(Point) /\ e.readings \in Seq(Point)
        /\ Len(e.samples) <= MaxSamples /\ Len(e.readings) <= MaxSamples
        /\ e.prev \in {Fail, Pass}
        /\ e.cycle \in [1..MaxRules -> [start : Nat, next : Nat, passed : BOOLEAN]]
        /\ e.taken \in [1..MaxRules -> Nat]
        /\ e.action \in {"nothing", "incident", "resolved"}
        /\ e.told \in {"nothing", "incident", "resolved", "unknown"}
    BY <2>1, <2>2, EvaluateIsTyped
  <2> QED BY <2>3 DEF e
<1>5. ASSUME NEW p \in seen
      PROVE  /\ new[p].action = "incident" => new[p].prev = Fail
             /\ new[p].action = "resolved" => new[p].prev = Pass
             /\ new[p].action = "nothing" => /\ new[p].told = "incident" => new[p].prev = Fail
                                             /\ new[p].told = "resolved" => new[p].prev = Pass
                                             /\ new[p].told = "nothing"  => new[p].prev # Fail
  <2> DEFINE e == new[p]
  <2>1. PICK r \in Readings(rules[p[1]]), delay \in 1..MaxDelay : e = Evaluate(p, r, delay)
    BY <1>1
  <2>2. p \in Pair /\ IsTold(p)
    BY <1>3
  <2> HIDE DEF e
  <2>3. /\ e.action = "incident" => e.prev = Fail
        /\ e.action = "resolved" => e.prev = Pass
        /\ e.action = "nothing" => /\ e.told = "incident" => e.prev = Fail
                                   /\ e.told = "resolved" => e.prev = Pass
                                   /\ e.told = "nothing"  => e.prev # Fail
    BY <2>1, <2>2, EvaluateIsNews
  <2> QED BY <2>3 DEF e
<1>6. ASSUME NEW p \in seen, NEW i \in 1..MaxRules
      PROVE  /\ new[p].cycle[i].start <= CycleStart(clock)
             /\ new[p].cycle[i].next # 0 => new[p].taken[i] = new[p].cycle[i].start
  <2> DEFINE e == new[p]
  <2>1. PICK r \in Readings(rules[p[1]]), delay \in 1..MaxDelay : e = Evaluate(p, r, delay)
    BY <1>1
  <2>2. p \in Pair /\ TypeOK /\ StatusHasItsCycle
    BY DEF EngineIInv
  <2> HIDE DEF e
  <2>3. e.cycle[i].start <= CycleStart(clock) /\ (e.cycle[i].next # 0 => e.taken[i] = e.cycle[i].start)
    BY <2>1, <2>2, EvaluateHasItsCycle
  <2> QED BY <2>3 DEF e
<1>7. seen \subseteq Pair
  OBVIOUS
<1> HIDE DEF seen
<1> DEFINE C == [1..MaxRules -> [start : Nat, next : Nat, passed : BOOLEAN]]
           T == [1..MaxRules -> Nat]
<1>8. TypeOK'
  <2>1. /\ TypeOK
        /\ samples \in [Pair -> Seq(Point)] /\ readings \in [Pair -> Seq(Point)]
        /\ prev \in [Pair -> {0, Fail, Pass}] /\ cycle \in [Pair -> C] /\ taken \in [Pair -> T]
        /\ told \in [Pair -> {"nothing", "incident", "resolved", "unknown"}]
        /\ \A p \in Pair : Len(samples[p]) <= MaxSamples /\ Len(readings[p]) <= MaxSamples
    BY DEF EngineIInv, TypeOK
  <2> HIDE DEF C, T
  <2>2. \A p \in seen : new[p].cycle \in C /\ new[p].taken \in T
    BY <1>4 DEF C, T
  <2>3. samples' \in [Pair -> Seq(Point)] /\ readings' \in [Pair -> Seq(Point)]
    BY <1>1, <1>4, <2>1
  <2>4. \A p \in Pair : Len(samples'[p]) <= MaxSamples /\ Len(readings'[p]) <= MaxSamples
    BY <1>1, <1>4, <2>1
  <2>5. prev' \in [Pair -> {0, Fail, Pass}]
    BY <1>1, <1>4, <2>1
  <2>6. cycle' \in [Pair -> C] /\ taken' \in [Pair -> T]
    BY <1>1, <2>1, <2>2
  <2>7. told' \in [Pair -> {"nothing", "incident", "resolved", "unknown"}]
    BY <1>1, <1>4, <2>1
  <2>8. actions' \subseteq Action
    <3> SUFFICES ASSUME NEW x \in actions' PROVE x \in Action
      OBVIOUS
    <3>1. PICK p \in seen : new[p].action # "nothing" /\ x = [pair |-> p, kind |-> new[p].action]
      BY <1>1
    <3>2. new[p].action \in {"incident", "resolved"} /\ p \in Pair
      BY <1>4, <1>7, <3>1
    <3> QED BY <3>1, <3>2 DEF Action
  <2>9. clock' \in Nat /\ clock' >= 2
    BY <1>2, <2>1 DEF TypeOK
  <2>10. /\ rules' \in [Alert -> AllLists] /\ \A a \in Alert : rules'[a] \in RuleLists[a]
         /\ once' \subseteq Alert /\ silent' \subseteq Alert
    BY <1>2, <2>1 DEF TypeOK
  <2>11. working' \subseteq Action /\ \A x, y \in working' : x = y
    BY <1>2
  <2> QED BY <2>3, <2>4, <2>5, <2>6, <2>7, <2>8, <2>9, <2>10, <2>11 DEF TypeOK, C, T
<1>9. NewsIsPending'
  <2>1. ASSUME NEW x \in actions'
        PROVE  /\ x.pair \in seen /\ x = [pair |-> x.pair, kind |-> new[x.pair].action]
               /\ prev'[x.pair] = IF x.kind = "incident" THEN Fail ELSE Pass
    <3>1. PICK p \in seen : new[p].action # "nothing" /\ x = [pair |-> p, kind |-> new[p].action]
      BY <1>1
    <3>2. prev'[p] = new[p].prev
      BY <1>1, <1>7
    <3> QED BY <1>4, <1>5, <3>1, <3>2
  <2>2. \A x, y \in actions' : x.pair = y.pair => x = y
    BY <2>1
  <2>3. ASSUME NEW p \in Pair PROVE (\E x \in actions' : x.pair = p) \/ IsTold(p)'
    <3>1. CASE p \notin seen
      <4>1. told'[p] = told[p] /\ prev'[p] = prev[p]
        BY <1>1, <3>1
      <4> QED BY <1>3, <4>1 DEF IsTold
    <3>2. CASE p \in seen /\ new[p].action = "nothing"
      <4>1. told'[p] = new[p].told /\ prev'[p] = new[p].prev
        BY <1>1, <3>2
      <4> QED BY <1>5, <3>2, <4>1 DEF IsTold
    <3>3. CASE p \in seen /\ new[p].action # "nothing" /\ lost
      <4>1. told'[p] = "unknown"
        BY <1>1, <3>3
      <4> QED BY <4>1 DEF IsTold
    <3>4. CASE p \in seen /\ new[p].action # "nothing" /\ ~lost
      <4>1. [pair |-> p, kind |-> new[p].action] \in actions'
        BY <1>1, <3>4
      <4> QED BY <4>1
    <3> QED BY <3>1, <3>2, <3>3, <3>4
  <2>4. actions' \union working' = actions'
    BY <1>2
  <2> QED BY <2>1, <2>2, <2>3, <2>4 DEF NewsIsPending
<1>10. StatusHasItsCycle'
  <2> SUFFICES ASSUME NEW p \in Pair, NEW i \in 1..MaxRules
               PROVE  /\ cycle'[p][i].start <= CycleStart(clock')
                      /\ cycle'[p][i].next # 0 => taken'[p][i] = cycle'[p][i].start
    BY DEF StatusHasItsCycle, CycleStart
  <2>1. clock \in Nat /\ clock >= 2 /\ clock + 1 \in Nat /\ clock + 1 >= 2
    BY DEF EngineIInv, TypeOK
  <2>2. CycleStart(clock) \in Nat /\ CycleStart(clock) <= CycleStart(clock') /\ CycleStart(clock') \in Nat
    BY <1>2, <2>1, CycleStartGrows
  <2>3. cycle'[p][i].start \in Nat
    <3>1. cycle' \in [Pair -> C]
      BY <1>8 DEF TypeOK
    <3>2. cycle'[p] \in C
      BY <3>1
    <3> QED BY <3>2
  <2>4. CASE p \in seen
    <3>1. cycle'[p] = new[p].cycle /\ taken'[p] = new[p].taken
      BY <1>1, <2>4
    <3> QED BY <1>6, <2>2, <2>3, <2>4, <3>1
  <2>5. CASE p \notin seen
    <3>1. cycle'[p] = cycle[p] /\ taken'[p] = taken[p]
      BY <1>1, <2>5
    <3>2. cycle[p][i].start <= CycleStart(clock) /\ (cycle[p][i].next # 0 => taken[p][i] = cycle[p][i].start)
      BY DEF EngineIInv, StatusHasItsCycle
    <3> QED BY <2>2, <2>3, <3>1, <3>2
  <2> QED BY <2>4, <2>5
<1> QED BY <1>8, <1>9, <1>10 DEF EngineIInv

-----------------------------------------------------------------------------
(* Every step *)

\* A dashboard that starts has told nothing.
LEMMA InitHasInv == Init => EngineIInv
<1> SUFFICES ASSUME Init PROVE EngineIInv
  OBVIOUS
<1>1. /\ NoCycle \in [1..MaxRules -> [start : Nat, next : Nat, passed : BOOLEAN]]
      /\ [i \in 1..MaxRules |-> 0] \in [1..MaxRules -> Nat]
      /\ <<>> \in Seq(Point) /\ Len(<<>>) = 0 /\ MaxSamples \in Nat /\ MaxUpsets \in Nat
  BY EmptySeq, AlertAssumption DEF NoCycle
<1>2. TypeOK
  BY <1>1 DEF Init, TypeOK, Fail, Pass
<1>3. NewsIsPending
  BY DEF Init, NewsIsPending, IsTold, Fail, Pass
<1>4. StatusHasItsCycle
  <2>1. CycleStart(clock) \in Nat
    BY CycleStartGrows DEF Init
  <2> QED BY <2>1 DEF Init, StatusHasItsCycle, NoCycle
<1> QED BY <1>2, <1>3, <1>4 DEF EngineIInv

\* Every step of the tick, of users and of restarts keeps the invariant.
LEMMA StepKeepsInv == EngineIInv /\ [Next]_vars => EngineIInv'
<1> SUFFICES ASSUME EngineIInv, [Next]_vars PROVE EngineIInv'
  OBVIOUS
<1>0. TypeOK /\ NewsIsPending /\ StatusHasItsCycle
  BY DEF EngineIInv
<1>1. ASSUME Upset PROVE upsets' \in 0..MaxUpsets
  <2>1. upsets \in 0..MaxUpsets /\ MaxUpsets \in Nat
    BY <1>0, AlertAssumption DEF TypeOK
  <2> QED BY <1>1, <2>1 DEF Upset
<1>2. CASE Tick
  <2>1. Alert \ silent \in SUBSET Alert /\ FALSE \in BOOLEAN /\ upsets' \in 0..MaxUpsets
    BY <1>0, <1>2 DEF Tick, TypeOK
  <2> QED BY <1>2, <2>1, EvaluateAlertsKeepsInv DEF Tick
<1>3. CASE TickAborted
  <2>1. PICK evaluated \in SUBSET (Alert \ silent) : EvaluateAlerts(evaluated, TRUE)
    BY <1>3 DEF TickAborted
  <2>2. evaluated \in SUBSET Alert /\ TRUE \in BOOLEAN /\ upsets' \in 0..MaxUpsets
    BY <1>1, <1>3 DEF TickAborted
  <2> QED BY <1>3, <2>1, <2>2, EvaluateAlertsKeepsInv DEF TickAborted
<1>4. ASSUME NEW x \in actions, TriggerCrons(x) PROVE EngineIInv'
  <2> USE <1>4 DEF TriggerCrons, stored, runtime, history
  <2>1. actions' \union working' = actions \union working /\ \A y, z \in working' : y = z
    OBVIOUS
  <2>2. TypeOK'
    BY <1>0 DEF TypeOK
  <2>3. NewsIsPending'
    BY <1>0, <2>1 DEF NewsIsPending, IsTold
  <2>4. StatusHasItsCycle'
    BY <1>0 DEF StatusHasItsCycle, CycleStart
  <2> QED BY <2>2, <2>3, <2>4 DEF EngineIInv
<1>5. ASSUME NEW x \in working, Notify(x) PROVE EngineIInv'
  <2> USE <1>5 DEF Notify, stored, runtime, history
  <2>1. working = {x} /\ x \in Action /\ x.pair \in Pair /\ x.kind \in {"incident", "resolved"}
    BY <1>0 DEF TypeOK, Action
  <2>2. TypeOK'
    <3>1. told' \in [Pair -> {"nothing", "incident", "resolved", "unknown"}]
      BY <1>0, <2>1 DEF TypeOK
    <3> QED BY <1>0, <3>1 DEF TypeOK
  <2>3. NewsIsPending'
    <3>1. actions' \union working' = actions
      OBVIOUS
    <3>2. ASSUME NEW p \in Pair, p # x.pair PROVE (\E y \in actions : y.pair = p) \/ IsTold(p)'
      <4>1. told'[p] = told[p]
        BY <1>0, <3>2 DEF TypeOK
      <4>2. (\E y \in actions : y.pair = p) \/ IsTold(p)
        BY <1>0, <2>1, <3>2 DEF NewsIsPending
      <4> QED BY <4>1, <4>2 DEF IsTold
    <3>3. IsTold(x.pair)'
      <4>1. told'[x.pair] = x.kind
        BY <1>0, <2>1 DEF TypeOK
      <4>2. prev[x.pair] = IF x.kind = "incident" THEN Fail ELSE Pass
        BY <1>0 DEF NewsIsPending
      <4> QED BY <2>1, <4>1, <4>2 DEF IsTold
    <3> QED BY <1>0, <2>1, <3>1, <3>2, <3>3 DEF NewsIsPending
  <2>4. StatusHasItsCycle'
    BY <1>0 DEF StatusHasItsCycle, CycleStart
  <2> QED BY <2>2, <2>3, <2>4 DEF EngineIInv
<1>6. CASE NotifyFailed
  <2> USE <1>6 DEF NotifyFailed, stored, runtime, history
  <2>1. TypeOK'
    <3>1. told' \in [Pair -> {"nothing", "incident", "resolved", "unknown"}]
      BY <1>0 DEF TypeOK
    <3> QED BY <1>0, <1>1, <3>1 DEF TypeOK
  <2>2. NewsIsPending'
    <3>1. ASSUME NEW p \in Pair PROVE IsTold(p)'
      <4>1. told'[p] = IF \E x \in actions \union working : x.pair = p THEN "unknown" ELSE told[p]
        OBVIOUS
      <4>2. (\E x \in actions \union working : x.pair = p) \/ IsTold(p)
        BY <1>0 DEF NewsIsPending
      <4> QED BY <4>1, <4>2 DEF IsTold
    <3> QED BY <3>1 DEF NewsIsPending
  <2>3. StatusHasItsCycle'
    BY <1>0 DEF StatusHasItsCycle, CycleStart
  <2> QED BY <2>1, <2>2, <2>3 DEF EngineIInv
<1>7. CASE Pass3Seconds
  <2> USE <1>7 DEF Pass3Seconds, stored, runtime, history
  <2>1. TypeOK'
    BY <1>0 DEF TypeOK
  <2>2. NewsIsPending'
    BY <1>0 DEF NewsIsPending, IsTold
  <2>3. StatusHasItsCycle'
    <3> SUFFICES ASSUME NEW p \in Pair, NEW i \in 1..MaxRules
                 PROVE  cycle[p][i].start <= CycleStart(clock')
      BY <1>0 DEF StatusHasItsCycle, CycleStart
    <3>1. /\ CycleStart(clock) <= CycleStart(clock') /\ CycleStart(clock) \in Nat
          /\ CycleStart(clock') \in Nat
      BY <1>0, CycleStartGrows DEF TypeOK
    <3>2. cycle[p][i].start \in Nat /\ cycle[p][i].start <= CycleStart(clock)
      BY <1>0 DEF TypeOK, StatusHasItsCycle
    <3> QED BY <3>1, <3>2
  <2> QED BY <2>1, <2>2, <2>3 DEF EngineIInv
<1>8. ASSUME NEW a \in Alert, EditAlert(a) PROVE EngineIInv'
  <2> USE <1>8 DEF EditAlert, runtime, history
  <2>1. TypeOK'
    <3>1. PICK list \in RuleLists[a] : rules' = [rules EXCEPT ![a] = list]
      OBVIOUS
    <3>2. list \in AllLists
      BY DEF AllLists
    <3>3. rules' \in [Alert -> AllLists] /\ \A b \in Alert : rules'[b] \in RuleLists[b]
      BY <1>0, <3>1, <3>2 DEF TypeOK
    <3>4. once' \subseteq Alert
      BY <1>0 DEF TypeOK
    <3>5. readings' \in [Pair -> Seq(Point)] /\ \A p \in Pair : Len(readings'[p]) <= MaxSamples
      BY <1>0 DEF TypeOK
    <3> QED BY <1>0, <1>1, <3>3, <3>4, <3>5 DEF TypeOK
  <2>2. NewsIsPending'
    BY <1>0 DEF NewsIsPending, IsTold
  <2>3. StatusHasItsCycle'
    BY <1>0 DEF StatusHasItsCycle, CycleStart
  <2> QED BY <2>1, <2>2, <2>3 DEF EngineIInv
<1>9. ASSUME NEW a \in Alert, Silence(a) \/ Unsilence(a) PROVE EngineIInv'
  <2> USE <1>9 DEF Silence, Unsilence, runtime, history
  <2>1. upsets' \in 0..MaxUpsets
    BY <1>0, <1>1 DEF TypeOK
  <2>2. TypeOK'
    BY <1>0, <2>1 DEF TypeOK
  <2>3. NewsIsPending'
    BY <1>0 DEF NewsIsPending, IsTold
  <2>4. StatusHasItsCycle'
    BY <1>0 DEF StatusHasItsCycle, CycleStart
  <2> QED BY <2>2, <2>3, <2>4 DEF EngineIInv
<1>10. CASE Restart
  <2> USE <1>10 DEF Restart, stored
  <2>1. /\ NoCycle \in [1..MaxRules -> [start : Nat, next : Nat, passed : BOOLEAN]]
        /\ [i \in 1..MaxRules |-> 0] \in [1..MaxRules -> Nat]
        /\ <<>> \in Seq(Point) /\ Len(<<>>) = 0 /\ MaxSamples \in Nat
    BY EmptySeq, AlertAssumption DEF NoCycle
  <2>2. TypeOK'
    BY <1>0, <1>1, <2>1 DEF TypeOK
  <2>3. NewsIsPending'
    BY DEF NewsIsPending, IsTold, Fail, Pass
  <2>4. StatusHasItsCycle'
    <3>1. CycleStart(clock) \in Nat
      BY <1>0, CycleStartGrows DEF TypeOK
    <3> QED BY <3>1 DEF StatusHasItsCycle, NoCycle, CycleStart
  <2> QED BY <2>2, <2>3, <2>4 DEF EngineIInv
<1>11. CASE UNCHANGED vars
  BY <1>0, <1>11 DEF vars, stored, runtime, history, EngineIInv, TypeOK, NewsIsPending, IsTold,
                     StatusHasItsCycle, CycleStart
<1> QED
  BY <1>2, <1>3, <1>4, <1>5, <1>6, <1>7, <1>8, <1>9, <1>10, <1>11 DEF Next

\* The invariant holds in every state of every behaviour.
LEMMA InvHolds == Spec => []EngineIInv
BY InitHasInv, StepKeepsInv, PTL DEF Spec

-----------------------------------------------------------------------------
(* What was told *)

\* Between ticks, what the user was told of a pair is what its state says, after any number
\* of ticks, edits and mutes.  A pair whose action an aborted tick or a failed notification
\* lost, or whose state a new cycle or a restart cleared, is left out until it is told of
\* again.
THEOREM ToldIsSo == Spec => []ToldWhatIsSo
<1>1. EngineIInv => ToldWhatIsSo
  BY DEF EngineIInv, NewsIsPending, ToldWhatIsSo
<1> QED BY <1>1, InvHolds, PTL

\* A tick pushes no action that the user was told of: in trigger-once mode no second
\* incident, in no mode a resolution without an incident.
THEOREM NewsStaysNew == Spec => NewsIsNew
<1> DEFINE Fresh ==
      \A x \in actions' \ actions :
        /\ x.kind = "incident" => (x.pair[1] \notin once \/ told'[x.pair] # "incident")
        /\ x.kind = "resolved" => told'[x.pair] \in {"incident", "unknown"}
<1>1. ASSUME EngineIInv, [Next]_vars PROVE [Fresh]_vars
  <2>1. ASSUME BeginTick, NEW evaluated \in SUBSET Alert, EvaluateAlerts(evaluated, FALSE)
        PROVE  Fresh
    <3> DEFINE seen == {p \in Pair : p[1] \in evaluated}
    <3>1. PICK new \in Evaluations(seen) : Keep(new, seen, FALSE)
      BY <2>1 DEF EvaluateAlerts
    <3>0. /\ \A p \in seen : \E r \in Readings(rules[p[1]]), delay \in 1..MaxDelay :
               new[p] = Evaluate(p, r, delay)
          /\ actions' = {[pair |-> p, kind |-> new[p].action] :
                           p \in {q \in seen : new[q].action # "nothing"}}
          /\ told' = [p \in Pair |-> IF p \in seen THEN new[p].told ELSE told[p]]
      <4>1. seen \in SUBSET Pair
        OBVIOUS
      <4> HIDE DEF seen, Fresh
      <4>2. told' = [p \in Pair |-> IF p \in seen THEN new[p].told ELSE told[p]]
        BY <3>1 DEF Keep
      <4> QED BY <3>1, <4>1, <4>2, EachIsEvaluated DEF Keep
    <3>2. ASSUME NEW x \in actions'
          PROVE  /\ x.kind = "incident" => (x.pair[1] \notin once \/ told'[x.pair] # "incident")
                 /\ x.kind = "resolved" => told'[x.pair] \in {"incident", "unknown"}
      <4>1. PICK p \in seen : new[p].action # "nothing" /\ x = [pair |-> p, kind |-> new[p].action]
        BY <3>0
      <4> DEFINE e == new[p]
      <4>2. PICK r \in Readings(rules[p[1]]), delay \in 1..MaxDelay : e = Evaluate(p, r, delay)
        BY <3>0
      <4>3. p \in Pair /\ IsTold(p) /\ told[p] \in {"nothing", "incident", "resolved", "unknown"}
        BY <1>1, <2>1 DEF EngineIInv, NewsIsPending, BeginTick, TypeOK
      <4>4. x.pair = p /\ x.kind = e.action /\ told'[p] = e.told
        BY <3>0, <4>1, <4>3
      <4> HIDE DEF e
      <4>5. /\ e.action = "incident" => (p[1] \notin once \/ e.told # "incident")
            /\ e.action = "resolved" => /\ e.told \in {"incident", "unknown"} \cup {told[p]}
                                        /\ e.told # "nothing" /\ e.told # "resolved"
        BY <4>2, <4>3, EvaluateIsNews
      <4> QED BY <4>3, <4>4, <4>5
    <3> QED BY <3>2
  <2>2. CASE Tick
    <3>1. Alert \ silent \in SUBSET Alert
      OBVIOUS
    <3> QED BY <2>1, <2>2, <3>1 DEF Tick
  <2>3. CASE ~Tick
    <3>1. actions' \subseteq actions \/ UNCHANGED vars
      <4>1. CASE TickAborted
        <5>1. actions' = {}
          BY <4>1 DEF TickAborted, EvaluateAlerts, Keep
        <5> QED BY <5>1
      <4>2. CASE \E x \in actions : TriggerCrons(x)
        BY <4>2 DEF TriggerCrons
      <4>3. CASE \E x \in working : Notify(x)
        BY <4>3 DEF Notify
      <4>4. CASE NotifyFailed \/ Pass3Seconds \/ Restart
        BY <4>4 DEF NotifyFailed, Pass3Seconds, Restart
      <4>5. CASE \E a \in Alert : EditAlert(a) \/ Silence(a) \/ Unsilence(a)
        BY <4>5 DEF EditAlert, Silence, Unsilence
      <4> QED BY <1>1, <2>3, <4>1, <4>2, <4>3, <4>4, <4>5 DEF Next
    <3> QED BY <3>1
  <2> QED BY <2>2, <2>3
<1>2. EngineIInv /\ [Next]_vars => [Fresh]_vars
  BY <1>1
<1> HIDE DEF Fresh
<1>3. Spec => [][Fresh]_vars
  BY <1>2, InvHolds, PTL DEF Spec
<1> QED BY <1>3 DEF NewsIsNew, Fresh

\* The status that a cycle rule repeats between two looks was read in the cycle the clock is
\* in, for any length of the cycle, any delays and any readings that are missing.
THEOREM StatusIsOfThisCycle == Spec => []StatusOfThisCycle
<1>1. ASSUME EngineIInv PROVE StatusOfThisCycle
  <2> SUFFICES ASSUME NEW p \in Pair, NEW i \in DOMAIN rules[p[1]],
                      cycle[p][i].next > clock, ~Begins(cycle[p][i])
               PROVE  taken[p][i] = CycleStart(clock)
    BY DEF StatusOfThisCycle
  <2>1. i \in 1..MaxRules
    <3>1. rules[p[1]] \in AllLists
      BY <1>1 DEF EngineIInv, TypeOK, Pair
    <3> QED BY <3>1, ListProperties
  <2>2. cycle[p][i].start \in Nat /\ cycle[p][i].next \in Nat /\ clock \in Nat /\ clock >= 2
    BY <1>1, <2>1 DEF EngineIInv, TypeOK
  <2>3. CycleStart(clock) \in Nat
    BY <2>2, CycleStartGrows
  <2>4. cycle[p][i].start <= CycleStart(clock) /\ taken[p][i] = cycle[p][i].start
    BY <1>1, <2>1, <2>2 DEF EngineIInv, StatusHasItsCycle
  <2> QED BY <2>2, <2>3, <2>4 DEF Begins
<1>2. EngineIInv => StatusOfThisCycle
  BY <1>1
<1> QED BY <1>2, InvHolds, PTL

-----------------------------------------------------------------------------
(* The window *)

\* What is asked for is kept, and a look adds to it.
LEMMA AskedIsKept ==
  ASSUME NEW list \in AllLists, NEW a \in Seq(Point), NEW n \in Asked(list)
  PROVE  n \in 1..MaxSamples /\ n <= MaxDuration(list, a)
<1>1. /\ MaxDuration(list, a) \in 1..MaxSamples /\ MaxSamples \in Nat
      /\ \A i \in DOMAIN list : Duration(list, i, a) <= MaxDuration(list, a)
  BY MaxDurationBounds, ListProperties
<1>2. CASE n = 1
  BY <1>1, <1>2
<1>3. ASSUME NEW i \in DOMAIN list, list[i].kind = "metric", n = list[i].duration
      PROVE  n \in 1..MaxSamples /\ n <= MaxDuration(list, a)
  <2>1. n \in 1..MaxSamples
    BY <1>3, ListProperties
  <2>2. Duration(list, i, a) = n
    BY <1>3 DEF Duration
  <2> QED BY <1>1, <2>1, <2>2
<1> QED BY <1>2, <1>3 DEF Asked

\* The next point is judged alike on what is kept and on what was read.
LEMMA NextVerdictIsAlike ==
  ASSUME OfflineRulesAreShort, NEW list \in AllLists, NEW a \in Seq(Point), NEW b \in Seq(Point),
         NEW x \in Point, \A n \in Asked(list) : SameEnd(a, b, n)
  PROVE  Passed(list, Append(a, x)) <=> Passed(list, Append(b, x))
<1>1. ASSUME NEW i \in DOMAIN list
      PROVE  RulePasses(list[i], i, Append(a, x)) <=> RulePasses(list[i], i, Append(b, x))
  <2>1. list[i] \in Rule /\ list[i].kind \in Kinds /\ list[i].duration \in Nat
    BY ListProperties DEF Rule
  <2>2. PICK n \in Asked(list) : list[i].kind # "cycle" => list[i].duration <= n + 1
    <3>1. 1 \in Asked(list)
      BY DEF Asked
    <3>2. \A j \in DOMAIN list : list[j].kind = "metric" => list[j].duration \in Asked(list)
      BY DEF Asked
    <3>3. CASE list[i].kind = "metric"
      BY <2>1, <3>2, <3>3
    <3>4. CASE list[i].kind = "offline"
      <4>1. \/ list[i].duration <= 1 + 1
            \/ \E j \in DOMAIN list : list[j].kind = "metric" /\ list[i].duration <= list[j].duration + 1
        BY <3>4 DEF OfflineRulesAreShort
      <4> QED BY <3>1, <3>2, <4>1
    <3>5. CASE list[i].kind = "cycle"
      BY <3>1, <3>5
    <3> QED BY <2>1, <3>3, <3>4, <3>5 DEF Kinds
  <2>3. n \in Nat /\ n + 1 \in Nat \ {0}
    <3>1. n \in 1..MaxSamples /\ MaxSamples \in Nat
      BY AskedIsKept, ListProperties
    <3> QED BY <3>1
  <2>4. SameEnd(Append(a, x), Append(b, x), n + 1)
    BY <2>3, SameEndOfMore
  <2>5. Append(a, x) \in Seq(Point) /\ Append(b, x) \in Seq(Point)
    OBVIOUS
  <2> QED BY <2>1, <2>2, <2>3, <2>4, <2>5, VerdictOfSameEnd
<1> QED BY <1>1 DEF Passed

\* All readings that are kept in the model are as good as all that there were.
LEMMA LastOfAll ==
  ASSUME NEW list \in AllLists, NEW b \in Seq(Point)
  PROVE  Passed(list, LastPoints(b, MaxSamples)) <=> Passed(list, b)
<1>1. MaxSamples \in Nat \ {0} /\ MaxSamples \in 0..MaxSamples
  BY ListProperties
<1>2. LastPoints(b, MaxSamples) \in Seq(Point)
  BY <1>1, LastPointsProperties
<1>3. SameEnd(LastPoints(b, MaxSamples), b, MaxSamples)
  BY <1>1, SameEndOfLast
<1>4. ASSUME NEW i \in DOMAIN list
      PROVE  RulePasses(list[i], i, LastPoints(b, MaxSamples)) <=> RulePasses(list[i], i, b)
  <2>1. list[i] \in Rule /\ list[i].duration <= MaxSamples
    BY ListProperties
  <2> QED BY <1>1, <1>2, <1>3, <2>1, VerdictOfSameEnd
<1> QED BY <1>4 DEF Passed

\* After an evaluation the cut window and all readings end alike again.
LEMMA EvaluateKeepsWindow ==
  ASSUME TypeOK,
         NEW p \in Pair, NEW r \in Readings(rules[p[1]]), NEW delay \in 1..MaxDelay,
         NEW e, e = Evaluate(p, r, delay),
         \A n \in Asked(rules[p[1]]) : SameEnd(samples[p], readings[p], n)
  PROVE  /\ OfflineRulesAreShort =>
              (Passed(rules[p[1]], e.samples) <=> Passed(rules[p[1]], e.readings))
         /\ \A n \in Asked(rules[p[1]]) : SameEnd(e.samples, e.readings, n)
<1> DEFINE list == rules[p[1]]
           reset == \E i \in DOMAIN list : list[i].kind = "cycle" /\ Begins(cycle[p][i])
           x == [i \in DOMAIN list |-> SnapshotPasses(list[i], cycle[p][i], r[i])]
           a == IF reset THEN <<>> ELSE samples[p]
           b == IF reset THEN <<>> ELSE readings[p]
           na == Append(a, x)
           nb == Append(b, x)
           m == MaxDuration(list, na)
<1>1. e.samples = LastPoints(na, m) /\ e.readings = LastPoints(nb, MaxSamples)
  BY DEF Evaluate
<1>2. p[1] \in Alert /\ list \in AllLists
  BY DEF Pair, TypeOK
<1>3. x \in Point
  <2>1. cycle[p] \in [1..MaxRules -> [start : Nat, next : Nat, passed : BOOLEAN]]
    BY DEF TypeOK
  <2>2. Len(list) \in 1..MaxRules /\ DOMAIN list = 1..Len(list) /\ DOMAIN list \subseteq 1..MaxRules
    BY <1>2, ListProperties
  <2>3. \A i \in DOMAIN list : SnapshotPasses(list[i], cycle[p][i], r[i]) \in BOOLEAN
    BY <2>1, <2>2 DEF SnapshotPasses
  <2>4. x \in [1..Len(list) -> BOOLEAN]
    BY <2>2, <2>3
  <2> QED BY <2>2, <2>4 DEF Point
<1>4. a \in Seq(Point) /\ b \in Seq(Point)
  <2>1. samples[p] \in Seq(Point) /\ readings[p] \in Seq(Point) /\ <<>> \in Seq(Point)
    BY DEF TypeOK
  <2> QED BY <2>1
<1>5. \A n \in Asked(list) : SameEnd(a, b, n)
  BY DEF SameEnd
<1> HIDE DEF list, reset, x, a, b
<1>6. na \in Seq(Point) /\ nb \in Seq(Point)
  BY <1>3, <1>4
<1>7. OfflineRulesAreShort => (Passed(list, na) <=> Passed(list, nb))
  BY <1>2, <1>3, <1>4, <1>5, NextVerdictIsAlike
<1>10. \A n \in Asked(list) : n \in Nat => SameEnd(na, nb, n + 1)
  BY <1>3, <1>4, <1>5, SameEndOfMore
<1> HIDE DEF na, nb
<1>11. m \in 1..MaxSamples /\ MaxSamples \in Nat
  BY <1>2, <1>6, MaxDurationBounds, ListProperties
<1>12. m \in Nat
  BY <1>11
<1>8. OfflineRulesAreShort => (Passed(list, e.samples) <=> Passed(list, e.readings))
  <2>1. Passed(list, e.samples) <=> Passed(list, na)
    BY <1>1, <1>2, <1>6, VerdictIsKept
  <2>2. Passed(list, e.readings) <=> Passed(list, nb)
    BY <1>1, <1>2, <1>6, LastOfAll
  <2> QED BY <1>7, <2>1, <2>2
<1>9. ASSUME NEW n \in Asked(list) PROVE SameEnd(e.samples, e.readings, n)
  <2>1. n \in 1..MaxSamples /\ n <= m
    BY <1>2, <1>6, AskedIsKept
  <2>2. n \in Nat /\ n \in 0..m /\ n \in 0..MaxSamples /\ n \in 0..(n + 1) /\ n + 1 \in Nat
    BY <1>11, <1>12, <2>1
  <2> HIDE DEF m
  <2>3. e.samples \in Seq(Point) /\ e.readings \in Seq(Point)
    BY <1>1, <1>6, <1>11, <1>12, LastPointsProperties
  <2>4. SameEnd(e.samples, na, n)
    BY <1>1, <1>6, <1>11, <1>12, <2>2, SameEndOfLast
  <2>5. SameEnd(na, nb, n)
    <3>1. SameEnd(na, nb, n + 1)
      BY <1>10, <2>2
    <3> QED BY <1>6, <2>2, <3>1, SameEndOfFewer
  <2>6. SameEnd(e.readings, nb, n)
    BY <1>1, <1>6, <1>11, <1>12, <2>2, SameEndOfLast
  <2>7. SameEnd(nb, e.readings, n)
    BY <1>6, <2>2, <2>3, <2>6, SameEndIsSymmetric
  <2>8. SameEnd(e.samples, nb, n)
    BY <1>6, <2>2, <2>3, <2>4, <2>5, SameEndIsTransitive
  <2> QED BY <1>6, <2>2, <2>3, <2>7, <2>8, SameEndIsTransitive
<1> QED BY <1>8, <1>9 DEF list

WindowInv == WindowsEndAlike /\ (OfflineRulesAreShort => WindowIsEnough)

\* So after every step.
LEMMA StepKeepsWindow == EngineIInv /\ WindowInv /\ [Next]_vars => WindowInv'
<1> SUFFICES ASSUME EngineIInv, WindowInv, [Next]_vars PROVE WindowInv'
  OBVIOUS
<1>0. TypeOK
  BY DEF EngineIInv
<1>1. ASSUME BeginTick, NEW evaluated \in SUBSET Alert, NEW lost \in BOOLEAN,
             EvaluateAlerts(evaluated, lost)
      PROVE  WindowInv'
  <2> DEFINE seen == {p \in Pair : p[1] \in evaluated}
  <2>1. PICK new \in Evaluations(seen) : Keep(new, seen, lost)
    BY <1>1 DEF EvaluateAlerts
  <2>2. seen \in SUBSET Pair
    OBVIOUS
  <2> HIDE DEF seen
  <2>3. /\ samples' = [p \in Pair |-> IF p \in seen THEN new[p].samples ELSE samples[p]]
        /\ readings' = [p \in Pair |-> IF p \in seen THEN new[p].readings ELSE readings[p]]
        /\ rules' = rules
    BY <1>1, <2>1 DEF Keep, BeginTick, stored
  <2>4. ASSUME NEW p \in Pair
        PROVE  /\ OfflineRulesAreShort =>
                    (Passed(rules[p[1]], samples'[p]) <=> Passed(rules[p[1]], readings'[p]))
               /\ \A n \in Asked(rules[p[1]]) : SameEnd(samples'[p], readings'[p], n)
    <3>1. /\ OfflineRulesAreShort =>
                (Passed(rules[p[1]], samples[p]) = Passed(rules[p[1]], readings[p]))
          /\ \A n \in Asked(rules[p[1]]) : SameEnd(samples[p], readings[p], n)
      BY DEF WindowInv, WindowIsEnough, WindowsEndAlike
    <3>2. CASE p \in seen
      <4> DEFINE e == new[p]
      <4>1. PICK r \in Readings(rules[p[1]]), delay \in 1..MaxDelay : e = Evaluate(p, r, delay)
        BY <2>1, <2>2, <3>2, EachIsEvaluated
      <4>2. samples'[p] = e.samples /\ readings'[p] = e.readings
        BY <2>3, <3>2
      <4> HIDE DEF e
      <4> QED BY <1>0, <3>1, <4>1, <4>2, EvaluateKeepsWindow
    <3>3. CASE p \notin seen
      <4>1. samples'[p] = samples[p] /\ readings'[p] = readings[p]
        BY <2>3, <3>3
      <4> QED BY <3>1, <4>1
    <3> QED BY <3>2, <3>3
  <2>5. \A p \in Pair : /\ Passed(rules[p[1]], samples'[p]) \in BOOLEAN
                        /\ Passed(rules[p[1]], readings'[p]) \in BOOLEAN
    BY DEF Passed
  <2> QED BY <2>3, <2>4, <2>5 DEF WindowInv, WindowsEndAlike, WindowIsEnough
<1>2. CASE Tick
  <2>1. Alert \ silent \in SUBSET Alert /\ FALSE \in BOOLEAN
    OBVIOUS
  <2> QED BY <1>1, <1>2, <2>1 DEF Tick
<1>3. CASE TickAborted
  <2>1. PICK evaluated \in SUBSET (Alert \ silent) : EvaluateAlerts(evaluated, TRUE)
    BY <1>3 DEF TickAborted
  <2>2. evaluated \in SUBSET Alert /\ TRUE \in BOOLEAN
    OBVIOUS
  <2> QED BY <1>1, <1>3, <2>1, <2>2 DEF TickAborted
\* Elsewhere both are as they were, or become one.
<1>4. ASSUME \A p \in Pair : \/ samples'[p] = readings'[p] /\ samples'[p] \in Seq(Point)
                             \/ /\ samples'[p] = samples[p] /\ readings'[p] = readings[p]
                                /\ rules'[p[1]] = rules[p[1]]
      PROVE  WindowInv'
  <2>1. ASSUME NEW p \in Pair
        PROVE  /\ OfflineRulesAreShort =>
                    Passed(rules'[p[1]], samples'[p]) = Passed(rules'[p[1]], readings'[p])
               /\ \A n \in Asked(rules'[p[1]]) : SameEnd(samples'[p], readings'[p], n)
    <3>1. CASE samples'[p] = readings'[p]
      BY <3>1 DEF SameEnd
    <3>2. CASE samples'[p] = samples[p] /\ readings'[p] = readings[p] /\ rules'[p[1]] = rules[p[1]]
      BY <3>2 DEF WindowInv, WindowsEndAlike, WindowIsEnough
    <3> QED BY <1>4, <3>1, <3>2
  <2> QED BY <2>1 DEF WindowInv, WindowsEndAlike, WindowIsEnough
<1>5. ASSUME samples' = samples, readings' = readings, rules' = rules
      PROVE  WindowInv'
  BY <1>4, <1>5
<1>6. CASE \E x \in actions : TriggerCrons(x)
  BY <1>5, <1>6 DEF TriggerCrons, stored, runtime, history
<1>7. CASE \E x \in working : Notify(x)
  BY <1>5, <1>7 DEF Notify, stored, runtime
<1>8. CASE NotifyFailed \/ Pass3Seconds
  BY <1>5, <1>8 DEF NotifyFailed, Pass3Seconds, stored, runtime, history
<1>9. ASSUME NEW a \in Alert, EditAlert(a) PROVE WindowInv'
  <2>1. samples' = samples /\ samples \in [Pair -> Seq(Point)] /\ rules \in [Alert -> AllLists]
    BY <1>0, <1>9 DEF EditAlert, runtime, TypeOK
  <2>2. \E list \in RuleLists[a] : rules' = [rules EXCEPT ![a] = list]
    BY <1>9 DEF EditAlert
  <2>3. readings' = [p \in Pair |-> IF p[1] = a THEN samples[p] ELSE readings[p]]
    BY <1>9 DEF EditAlert
  <2>4. \A p \in Pair : p[1] # a => rules'[p[1]] = rules[p[1]]
    BY <2>1, <2>2 DEF Pair
  <2> QED BY <1>4, <2>1, <2>3, <2>4
<1>10. CASE \E a \in Alert : Silence(a) \/ Unsilence(a)
  BY <1>5, <1>10 DEF Silence, Unsilence, runtime, history
<1>11. CASE Restart
  BY <1>4, <1>11 DEF Restart
<1>12. CASE UNCHANGED vars
  BY <1>5, <1>12 DEF vars, stored, runtime, history
<1> QED BY <1>2, <1>3, <1>6, <1>7, <1>8, <1>9, <1>10, <1>11, <1>12 DEF Next

\* Windows end alike in every state, and are judged alike if offline rules are short.
LEMMA WindowInvHolds == Spec => []WindowInv
<1>1. Init => WindowInv
  BY DEF Init, WindowInv, WindowsEndAlike, WindowIsEnough, SameEnd
<1> QED BY <1>1, StepKeepsWindow, InvHolds, PTL DEF Spec

\* Truncation forgets nothing that a verdict needs: for every list of rules whose offline
\* rules are short, what is kept is judged as all that was read since the start, the last
\* new cycle or the last edit, at every tick and for readings in any order.
THEOREM WindowSuffices == OfflineRulesAreShort => (Spec => []WindowIsEnough)
<1> SUFFICES ASSUME OfflineRulesAreShort PROVE Spec => []WindowIsEnough
  OBVIOUS
<1>1. WindowInv => WindowIsEnough
  BY DEF WindowInv
<1> QED BY <1>1, WindowInvHolds, PTL
=============================================================================
