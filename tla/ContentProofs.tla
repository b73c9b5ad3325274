---------------------------- MODULE ContentProofs ----------------------------
(***************************************************************************)
(* The chunkers on every text: ChunkService and ChunkText lose nothing but *)
(* space, keep their size limits, and move on with every turn of the loop. *)
(* And the way from the chunks to a graded attempt, for every sequence of  *)
(* answers: what is published can be delivered, what is stored is a sound  *)
(* quiz, and an attempt at it is read back as it was graded.               *)
(***************************************************************************)
EXTENDS QuizContent, FiniteSetTheorems, SequenceTheorems, WellFoundedInduction, TLAPS

(***************************************************************************)
(* Least and greatest numbers                                              *)
(***************************************************************************)

\* A set of natural numbers that is not empty has a least member.
LEMMA LeastOf ==
  ASSUME NEW S \in SUBSET Nat, S # {}
  PROVE  \E n \in S : \A m \in S : n <= m
<1> DEFINE R == {pair \in Nat \X Nat : pair[1] < pair[2]}
<1>1. IsWellFoundedOn(R, Nat)
  BY NatLessThanWellFounded DEF OpToRel
<1>2. \A m, k \in S : m < k => <<m, k>> \in R
  OBVIOUS
<1>5. \A m, k \in S : m < k \/ k <= m
  OBVIOUS
<1> HIDE DEF R
<1>3. PICK n \in S : \A m \in S : ~ (<<m, n>> \in R)
  <2>1. IsWellFoundedOn(R, S)
    BY <1>1, IsWellFoundedOnSubset, Zenon
  <2>2. QED
    BY <2>1, WFMin, Zenon
<1>4. \A m \in S : n <= m
  BY <1>2, <1>3, <1>5, Zenon
<1> QED BY <1>4

\* Min and Max as the chunkers use them: of offsets.
LEMMA MinOf ==
  ASSUME NEW S \in SUBSET Nat, S # {}
  PROVE  Min(S) \in S /\ \A m \in S : Min(S) <= m
<1>1. \E n \in S : \A m \in S : n <= m
  BY LeastOf
<1> QED BY <1>1 DEF Min

\* The same of the greatest, in a bounded set.
LEMMA MaxOf ==
  ASSUME NEW n \in Nat, NEW S \in SUBSET (0..n), S # {}
  PROVE  Max(S) \in S /\ \A m \in S : m <= Max(S)
<1> DEFINE T == {n - m : m \in S}
<1>1. T \in SUBSET Nat /\ T # {}
  OBVIOUS
<1>2. PICK k \in T : \A m \in T : k <= m
  BY <1>1, LeastOf
<1>3. PICK g \in S : k = n - g
  BY <1>2
<1>4. \A m \in S : n - m \in T
  OBVIOUS
<1>5. \A m \in S : m <= g
  BY <1>2, <1>3, <1>4
<1> HIDE DEF T
<1>6. \E x \in S : \A y \in S : x >= y
  BY <1>3, <1>5
<1>7. Max(S) \in S /\ \A y \in S : Max(S) >= y
  BY <1>6 DEF Max
<1> QED BY <1>7

(***************************************************************************)
(* Texts                                                                   *)
(***************************************************************************)

\* Trimming takes space away, at both ends only, and leaves ink at both.
LEMMA Trimmed ==
  ASSUME NEW text \in Seq(Units), NEW from \in Nat, NEW to \in Nat,
         from <= to, to <= Len(text),
         NEW part, part = TrimBounds(text, from, to)
  PROVE  /\ part.from \in Nat /\ part.to \in Nat
         /\ from <= part.from /\ part.from <= part.to /\ part.to <= to
         /\ \A i \in from..(to - 1) : ~IsSpace(text, i) => part.from <= i /\ i < part.to
         /\ part.from # part.to =>
                part.from < part.to /\ ~IsSpace(text, part.from) /\ ~IsSpace(text, part.to - 1)
<1> DEFINE ink == {i \in from..(to - 1) : ~IsSpace(text, i)}
<1>1. part = IF ink = {} THEN [from |-> to, to |-> to]
             ELSE [from |-> Min(ink), to |-> Max(ink) + 1]
  BY DEF TrimBounds
<1>2. \A i \in ink : i \in Nat /\ from <= i /\ i < to /\ ~IsSpace(text, i)
  OBVIOUS
<1>3. \A i \in from..(to - 1) : ~IsSpace(text, i) => i \in ink
  OBVIOUS
<1>4. ink \in SUBSET Nat /\ (0 < to => ink \in SUBSET (0..(to - 1)))
  OBVIOUS
<1> HIDE DEF ink
<1>5. CASE ink = {}
  BY <1>1, <1>3, <1>5
<1>6. CASE ink # {}
  <2>1. Min(ink) \in ink /\ \A m \in ink : Min(ink) <= m
    BY <1>4, <1>6, MinOf
  <2>2. 0 < to /\ to - 1 \in Nat
    BY <1>2, <2>1
  <2>3. Max(ink) \in ink /\ \A m \in ink : m <= Max(ink)
    BY <1>4, <1>6, <2>2, MaxOf
  <2>4. part.from = Min(ink) /\ part.to = Max(ink) + 1
    BY <1>1, <1>6
  <2>5. Min(ink) \in Nat /\ Max(ink) \in Nat /\ Min(ink) <= Max(ink) /\ Max(ink) < to
        /\ from <= Min(ink) /\ ~IsSpace(text, Min(ink)) /\ ~IsSpace(text, Max(ink))
    BY <1>2, <2>1, <2>3
  <2>6. part.to - 1 = Max(ink)
    BY <2>4, <2>5
  <2>7. \A i \in from..(to - 1) : ~IsSpace(text, i) => part.from <= i /\ i < part.to
    BY <1>2, <1>3, <2>1, <2>3, <2>4, <2>5
  <2> QED BY <2>4, <2>5, <2>6, <2>7
<1> QED BY <1>5, <1>6

\* What is a boundary between characters.
LEMMA BoundaryIs ==
  ASSUME NEW text \in Seq(Units), NEW b
  PROVE  b \in GraphemeBoundaries(text) <=>
           /\ b \in Nat /\ b <= Len(text)
           /\ b < Len(text) => text[b + 1] # "t"
<1>1. Len(text) \in Nat
  OBVIOUS
<1> QED BY <1>1 DEF GraphemeBoundaries

\* Trimming between boundaries cuts at boundaries: a character never begins
\* with its further unit, nor does one follow a space.
LEMMA TrimmedIsWhole ==
  ASSUME NEW text, WellFormed(text),
         NEW from \in GraphemeBoundaries(text), NEW to \in GraphemeBoundaries(text), from <= to,
         NEW part, part = TrimBounds(text, from, to)
  PROVE  {part.from, part.to} \subseteq GraphemeBoundaries(text)
<1>1. text \in Seq(Units) /\ \A i \in 1..Len(text) : text[i] = "t" => i > 1 /\ text[i - 1] # "s"
  BY DEF WellFormed
<1>2. /\ from \in Nat /\ to \in Nat /\ to <= Len(text) /\ Len(text) \in Nat
      /\ from < Len(text) => text[from + 1] # "t"
      /\ to < Len(text) => text[to + 1] # "t"
  BY <1>1, BoundaryIs
<1>3. /\ part.from \in Nat /\ part.to \in Nat
      /\ from <= part.from /\ part.from <= part.to /\ part.to <= to
      /\ \A i \in from..(to - 1) : ~IsSpace(text, i) => part.from <= i /\ i < part.to
  BY <1>1, <1>2, Trimmed
<1>4. \A i \in from..(to - 1) : i < part.from \/ i >= part.to => text[i + 1] = "s"
  BY <1>3 DEF IsSpace
<1>5. part.from < Len(text) => text[part.from + 1] # "t"
  <2>1. CASE part.from = from
    BY <1>2, <2>1
  <2>2. CASE from < part.from
    <3>1. part.from - 1 \in from..(to - 1)
      BY <1>2, <1>3, <2>2
    <3>2. text[(part.from - 1) + 1] = "s"
      BY <1>3, <1>4, <3>1
    <3>3. text[part.from] = "s"
      BY <1>3, <3>2
    <3>4. part.from < Len(text) => part.from + 1 \in 1..Len(text) /\ (part.from + 1) - 1 = part.from
      BY <1>2, <1>3
    <3> QED BY <1>1, <3>3, <3>4
  <2> QED BY <1>2, <1>3, <2>1, <2>2
<1>6. part.to < Len(text) => text[part.to + 1] # "t"
  <2>1. CASE part.to = to
    BY <1>2, <2>1
  <2>2. CASE part.to < to
    <3>1. part.to \in from..(to - 1)
      BY <1>2, <1>3, <2>2
    <3> QED BY <1>3, <1>4, <3>1
  <2> QED BY <1>2, <1>3, <2>1, <2>2
<1>7. part.from <= Len(text) /\ part.to <= Len(text)
  BY <1>2, <1>3
<1> QED BY <1>1, <1>3, <1>5, <1>6, <1>7, BoundaryIs

(***************************************************************************)
(* One turn of the loop: its end and the next start                        *)
(***************************************************************************)

\* The greater of two offsets, one of which may lie before the text.
LEMMA MaxOfTwo ==
  ASSUME NEW x \in Int, NEW y \in Int
  PROVE  /\ Max({x, y}) \in {x, y}
         /\ x <= Max({x, y}) /\ y <= Max({x, y})
<1>1. \E m \in {x, y} : \A k \in {x, y} : m >= k
  <2>1. CASE x >= y
    BY <2>1
  <2>2. CASE y >= x
    BY <2>2
  <2> QED BY <2>1, <2>2
<1>2. Max({x, y}) \in {x, y} /\ \A k \in {x, y} : Max({x, y}) >= k
  BY <1>1 DEF Max
<1> QED BY <1>2

\* previousBoundary returns a boundary above the minimum, or the minimum.
LEMMA PreviousIs ==
  ASSUME NEW text \in Seq(Units), NEW candidate \in Int, NEW minimum \in Nat,
         NEW p, p = PreviousBoundary(GraphemeBoundaries(text), candidate, minimum)
  PROVE  \/ p = minimum
         \/ p \in GraphemeBoundaries(text) /\ p <= candidate /\ p > minimum
<1> DEFINE below == {b \in GraphemeBoundaries(text) : b <= candidate /\ b > minimum}
<1>1. p = IF below = {} THEN minimum ELSE Max(below)
  BY DEF PreviousBoundary
<1>2. Len(text) \in Nat /\ below \in SUBSET (0..Len(text))
  BY BoundaryIs
<1>3. below # {} => Max(below) \in below
  BY <1>2, MaxOf
<1> QED BY <1>1, <1>3

\* The next boundary after an offset inside the text.
LEMMA NextIs ==
  ASSUME NEW text \in Seq(Units), NEW from \in Nat, from < Len(text),
         NEW p, p = NextBoundary(GraphemeBoundaries(text), from)
  PROVE  /\ p \in GraphemeBoundaries(text) /\ p > from
         /\ \A b \in GraphemeBoundaries(text) : ~(from < b /\ b < p)
<1> DEFINE above == {b \in GraphemeBoundaries(text) : b > from}
<1>1. Len(text) \in Nat /\ Len(text) \in above /\ above \in SUBSET Nat
  BY BoundaryIs
<1>2. p = Min(above)
  BY DEF NextBoundary
<1>3. p \in above /\ \A b \in above : p <= b
  BY <1>1, <1>2, MinOf
<1>4. \A b \in GraphemeBoundaries(text) : b \in Nat
  BY BoundaryIs
<1> QED BY <1>3, <1>4

\* selectChunkEnd: a boundary further on, within the maximum unless one
\* grapheme is wider than that.
LEMMA NodeEnd ==
  ASSUME NEW text \in Seq(Units), NEW from \in Nat, from < Len(text), NEW c \in Settings,
         NEW end, end = SelectChunkEnd(text, from, c)
  PROVE  /\ end \in GraphemeBoundaries(text) /\ from < end
         /\ \/ end <= from + c.max
            \/ \A b \in GraphemeBoundaries(text) : ~(from < b /\ b < end)
<1> DEFINE boundaries == GraphemeBoundaries(text)
           maxEnd == PreviousBoundary(boundaries, from + c.max, from)
           preferredEnd == PreviousBoundary(boundaries, from + c.target, from)
           spaces == {b \in boundaries : b > from /\ b <= preferredEnd /\ IsSpace(text, b)}
           next == NextBoundary(boundaries, from)
<1>1. end = IF maxEnd >= Len(text) THEN Len(text)
            ELSE IF spaces # {} THEN Max(spaces)
            ELSE IF maxEnd > from THEN maxEnd
            ELSE next
  BY DEF SelectChunkEnd
<1>2. c.max \in Nat /\ c.target \in Nat /\ c.target <= c.max
  BY SettingsAssumption
<1>10. from + c.max \in Int /\ from + c.target \in Int
  BY <1>2
<1>3. maxEnd = from \/ (maxEnd \in boundaries /\ maxEnd <= from + c.max /\ maxEnd > from)
  BY <1>10, PreviousIs, Zenon
<1>4. preferredEnd = from
      \/ (preferredEnd \in boundaries /\ preferredEnd <= from + c.target /\ preferredEnd > from)
  BY <1>10, PreviousIs, Zenon
<1>5. next \in boundaries /\ next > from /\ \A b \in boundaries : ~(from < b /\ b < next)
  BY NextIs
<1>6. Len(text) \in Nat /\ Len(text) \in boundaries
      /\ \A b \in boundaries : b \in Nat /\ b <= Len(text)
  BY BoundaryIs
<1>7. spaces # {} => Max(spaces) \in spaces
  <2>1. spaces \in SUBSET (0..Len(text))
    BY <1>6
  <2> HIDE DEF spaces
  <2> QED BY <1>6, <2>1, MaxOf
<1> HIDE DEF boundaries, maxEnd, preferredEnd, next
<1>8. spaces # {} =>
        /\ Max(spaces) \in boundaries /\ from < Max(spaces) /\ Max(spaces) <= from + c.max
  BY <1>2, <1>4, <1>6, <1>7
<1> HIDE DEF spaces
<1>9. /\ end \in boundaries /\ from < end
      /\ end <= from + c.max \/ \A b \in boundaries : ~(from < b /\ b < end)
  <2>1. CASE maxEnd >= Len(text)
    BY <1>1, <1>2, <1>3, <1>6, <2>1
  <2>2. CASE ~(maxEnd >= Len(text)) /\ spaces # {}
    BY <1>1, <1>8, <2>2
  <2>3. CASE ~(maxEnd >= Len(text)) /\ spaces = {} /\ maxEnd > from
    BY <1>1, <1>3, <1>6, <2>3
  <2>4. CASE ~(maxEnd >= Len(text)) /\ spaces = {} /\ ~(maxEnd > from)
    BY <1>1, <1>5, <2>4
  <2> QED BY <2>1, <2>2, <2>3, <2>4
<1> QED BY <1>9 DEF boundaries

\* endOf: an offset further on, within the maximum.
LEMMA GoEnd ==
  ASSUME NEW text \in Seq(Units), NEW from \in Nat, from < Len(text), NEW c \in Settings,
         NEW end, end = EndOf(text, from, c)
  PROVE  end \in Nat /\ from < end /\ end <= Len(text) /\ end <= from + c.max
<1> DEFINE least == from + c.target
           limit == Min({from + c.max, Len(text)})
           spaces == {i \in least..(limit - 1) : IsSpace(text, i)}
<1>1. end = IF least >= Len(text) THEN Len(text)
            ELSE IF spaces # {} THEN Min(spaces) + 1
            ELSE limit
  BY DEF EndOf
<1>2. c.max \in Nat /\ c.target \in Nat \ {0} /\ c.target <= c.max /\ Len(text) \in Nat
  BY SettingsAssumption
<1>3. limit \in Nat /\ limit <= from + c.max /\ limit <= Len(text)
      /\ limit \in {from + c.max, Len(text)}
  <2>1. {from + c.max, Len(text)} \in SUBSET Nat
    BY <1>2
  <2>2. limit \in {from + c.max, Len(text)}
        /\ \A m \in {from + c.max, Len(text)} : limit <= m
    BY <2>1, MinOf
  <2> QED BY <1>2, <2>2
<1> HIDE DEF limit
<1>4. spaces # {} => Min(spaces) \in spaces
  <2>1. spaces \in SUBSET Nat
    BY <1>2, <1>3
  <2> HIDE DEF spaces
  <2> QED BY <2>1, MinOf
<1>5. spaces # {} => Min(spaces) \in Nat /\ least <= Min(spaces) /\ Min(spaces) < limit
  BY <1>2, <1>3, <1>4
<1> HIDE DEF spaces
<1> QED BY <1>1, <1>2, <1>3, <1>5

\* The step back by the overlap never undoes the step forward, and in Node it
\* ends at a boundary.
LEMMA NextStartMoves ==
  ASSUME NEW text, text = Text, text \in Seq(Units), start \in Nat, chunker.settings \in Settings,
         NEW end \in Nat, start < end, end <= Len(text),
         chunker.language = "node" => end \in GraphemeBoundaries(text)
  PROVE  /\ NextStart(end) \in Nat /\ start < NextStart(end) /\ NextStart(end) <= end
         /\ chunker.language = "node" => NextStart(end) \in GraphemeBoundaries(text)
<1> DEFINE c == chunker.settings
           high == Max({end - c.overlap, start + 1})
           stepped == PreviousBoundary(GraphemeBoundaries(text), high, start)
           back == IF chunker.language = "node" THEN stepped ELSE end - c.overlap
<1>1. NextStart(end) = IF back > start THEN back ELSE end
  BY DEF NextStart
<1>2. c.overlap \in Nat \ {0}
  BY SettingsAssumption
<1>3. high \in Int /\ high <= end
  <2>1. end - c.overlap \in Int /\ start + 1 \in Int
        /\ end - c.overlap <= end /\ start + 1 <= end
    BY <1>2
  <2>2. high \in {end - c.overlap, start + 1}
    BY <2>1, MaxOfTwo, Zenon
  <2> HIDE DEF high
  <2> QED BY <2>1, <2>2
<1> HIDE DEF high
<1>4. stepped = start
      \/ (stepped \in GraphemeBoundaries(text) /\ stepped <= high /\ stepped > start)
  BY <1>3, PreviousIs
<1>5. \A b \in GraphemeBoundaries(text) : b \in Nat
  BY BoundaryIs
<1> HIDE DEF stepped
<1>6. CASE chunker.language = "node"
  BY <1>1, <1>3, <1>4, <1>5, <1>6
<1>7. CASE chunker.language # "node"
  BY <1>1, <1>2, <1>7
<1> QED BY <1>6, <1>7

(***************************************************************************)
(* A segment and its trimmed text                                          *)
(***************************************************************************)

\* What WellFormed says of a text of units.
LEMMA WellFormedIs ==
  ASSUME NEW d, WellFormed(d)
  PROVE  /\ d \in Seq(Units) /\ Len(d) \in Nat
         /\ \A i \in 1..Len(d) : d[i] = "t" => i > 1 /\ d[i - 1] \in {"h", "t"}
<1>1. d \in Seq(Units) /\ \A i \in DOMAIN d : d[i] = "t" => i > 1 /\ d[i - 1] \in {"h", "t"}
  BY DEF WellFormed
<1>2. DOMAIN d = 1..Len(d) /\ Len(d) \in Nat
  BY <1>1
<1> QED BY <1>1, <1>2

\* The units of a part of a text.
LEMMA PartOfText ==
  ASSUME NEW S, NEW d \in Seq(S), NEW from \in Nat, NEW to \in Nat, from <= to, to <= Len(d)
  PROVE  /\ SubSeq(d, from + 1, to) \in Seq(S)
         /\ Len(SubSeq(d, from + 1, to)) = to - from
         /\ \A j \in 1..(to - from) : SubSeq(d, from + 1, to)[j] = d[from + j]
<1> DEFINE first == from + 1
<1>1. first \in Int /\ to \in Int /\ \A i \in first..to : d[i] \in S
  OBVIOUS
<1>3. (IF first <= to THEN to - first + 1 ELSE 0) = to - from
      /\ to - first + 1 = to - from /\ \A j \in Int : first + j - 1 = from + j
  OBVIOUS
<1>4. \A j \in 1..(to - from) : j \in Int
  OBVIOUS
<1> HIDE DEF first
<1>2. /\ SubSeq(d, first, to) \in Seq(S)
      /\ Len(SubSeq(d, first, to)) = IF first <= to THEN to - first + 1 ELSE 0
      /\ \A j \in 1..(to - first + 1) : SubSeq(d, first, to)[j] = d[first + j - 1]
  BY <1>1, SubSeqProperties
<1>5. /\ SubSeq(d, first, to) \in Seq(S)
      /\ Len(SubSeq(d, first, to)) = to - from
      /\ \A j \in 1..(to - from) : SubSeq(d, first, to)[j] = d[from + j]
  BY <1>2, <1>3, <1>4, Zenon
<1> QED BY <1>5 DEF first

\* What t, the units of d from `from` to `to`, has in common with d.
PartOf(d, from, to, t) ==
    /\ WellFormed(t) /\ Len(t) \in Nat /\ to = from + Len(t)
    /\ \A j \in Nat : j < Len(t) => (IsSpace(t, j) <=> IsSpace(d, from + j))
    /\ \A j \in GraphemeBoundaries(t) : from + j \in GraphemeBoundaries(d)
    /\ \A j \in Nat : j <= Len(t) /\ from + j \in GraphemeBoundaries(d) =>
                          j \in GraphemeBoundaries(t)

\* Offsets and boundaries of a part that is cut at boundaries are those of the
\* text, moved by what is in front.
LEMMA PartIsWhole ==
  ASSUME NEW d, WellFormed(d),
         NEW from \in GraphemeBoundaries(d), NEW to \in GraphemeBoundaries(d), from <= to,
         NEW t \in Seq(Units), Len(t) = to - from, \A j \in 1..Len(t) : t[j] = d[from + j]
  PROVE  PartOf(d, from, to, t)
<1>1. /\ d \in Seq(Units) /\ Len(d) \in Nat
      /\ \A i \in 1..Len(d) : d[i] = "t" => i > 1 /\ d[i - 1] \in {"h", "t"}
  BY WellFormedIs
<1>2. /\ from \in Nat /\ to \in Nat /\ to <= Len(d) /\ from <= Len(d)
      /\ from < Len(d) => d[from + 1] # "t"
  BY <1>1, BoundaryIs
<1>3. Len(t) \in Nat /\ to = from + Len(t) /\ DOMAIN t = 1..Len(t)
  BY <1>2
<1>4. ASSUME NEW j \in Nat, j < Len(t)
      PROVE  t[j + 1] = d[(from + j) + 1]
  <2>1. j + 1 \in 1..Len(t) /\ from + (j + 1) = (from + j) + 1
    BY <1>2, <1>3, <1>4
  <2>2. t[j + 1] = d[from + (j + 1)]
    BY <2>1
  <2> QED BY <2>1, <2>2
<1>5. WellFormed(t)
  <2>1. ASSUME NEW i \in 1..Len(t), t[i] = "t"
        PROVE  i > 1 /\ t[i - 1] \in {"h", "t"}
    <3>1. from + i \in 1..Len(d) /\ d[from + i] = "t"
      BY <1>2, <1>3, <2>1
    <3>2. i # 1
      BY <1>2, <1>3, <2>1
    <3>3. i > 1 /\ i - 1 \in 1..Len(t) /\ from + (i - 1) = (from + i) - 1
      BY <1>2, <1>3, <3>2
    <3>4. t[i - 1] = d[from + (i - 1)]
      BY <3>3
    <3> QED BY <1>1, <3>1, <3>3, <3>4
  <2> QED BY <1>3, <2>1 DEF WellFormed
<1>6. ASSUME NEW j \in GraphemeBoundaries(t)
      PROVE  from + j \in GraphemeBoundaries(d)
  <2>1. j \in Nat /\ j <= Len(t) /\ (j < Len(t) => t[j + 1] # "t")
    BY BoundaryIs
  <2>2. CASE j = Len(t)
    BY <1>3, <2>2
  <2>3. CASE j < Len(t)
    <3>1. d[(from + j) + 1] # "t"
      BY <1>4, <2>1, <2>3
    <3>2. from + j \in Nat /\ from + j <= Len(d)
      BY <1>2, <1>3, <2>1
    <3> QED BY <1>1, <3>1, <3>2, BoundaryIs
  <2> QED BY <1>3, <2>1, <2>2, <2>3
<1>7. ASSUME NEW j \in Nat, j <= Len(t), from + j \in GraphemeBoundaries(d)
      PROVE  j \in GraphemeBoundaries(t)
  <2>1. from + j < Len(d) => d[(from + j) + 1] # "t"
    BY <1>1, <1>7, BoundaryIs
  <2>2. j < Len(t) => from + j < Len(d)
    BY <1>1, <1>2, <1>3
  <2>3. j < Len(t) => t[j + 1] # "t"
    BY <1>4, <2>1, <2>2
  <2> QED BY <1>7, <2>3, BoundaryIs
<1>8. \A j \in Nat : j < Len(t) => (IsSpace(t, j) <=> IsSpace(d, from + j))
  BY <1>4 DEF IsSpace
<1> QED BY <1>3, <1>5, <1>6, <1>7, <1>8 DEF PartOf

\* The trimmed text of a segment: a part cut at boundaries, with all the ink.
LEMMA SegmentText ==
  ASSUME NEW d, WellFormed(d), NEW b, b = TrimBounds(d, 0, Len(d)),
         NEW t, t = SubSeq(d, b.from + 1, b.to)
  PROVE  /\ PartOf(d, b.from, b.to, t)
         /\ b.from \in Nat /\ b.to \in Nat /\ b.from <= b.to /\ b.to <= Len(d)
         /\ \A i \in 0..(Len(d) - 1) : ~IsSpace(d, i) => b.from <= i /\ i < b.to
<1>1. /\ d \in Seq(Units) /\ Len(d) \in Nat
      /\ \A i \in 1..Len(d) : d[i] = "t" => i > 1 /\ d[i - 1] \in {"h", "t"}
  BY WellFormedIs
<1>2. 0 \in GraphemeBoundaries(d) /\ Len(d) \in GraphemeBoundaries(d)
  BY <1>1, BoundaryIs
<1>3. /\ b.from \in Nat /\ b.to \in Nat /\ b.from <= b.to /\ b.to <= Len(d)
      /\ \A i \in 0..(Len(d) - 1) : ~IsSpace(d, i) => b.from <= i /\ i < b.to
  BY <1>1, Trimmed
<1>4. b.from \in GraphemeBoundaries(d) /\ b.to \in GraphemeBoundaries(d)
  BY <1>1, <1>2, TrimmedIsWhole
<1>5. /\ t \in Seq(Units) /\ Len(t) = b.to - b.from
      /\ \A j \in 1..(b.to - b.from) : t[j] = d[b.from + j]
  <2> DEFINE u == SubSeq(d, b.from + 1, b.to)
  <2>1. /\ u \in Seq(Units) /\ Len(u) = b.to - b.from
        /\ \A j \in 1..(b.to - b.from) : u[j] = d[b.from + j]
    BY <1>1, <1>3, PartOfText
  <2>2. t = u
    OBVIOUS
  <2> HIDE DEF u
  <2> QED BY <2>1, <2>2
<1>6. \A j \in 1..Len(t) : t[j] = d[b.from + j]
  BY <1>5
<1>7. PartOf(d, b.from, b.to, t)
  <2>1. PICK from \in GraphemeBoundaries(d) : from = b.from
    BY <1>4
  <2>2. PICK to \in GraphemeBoundaries(d) : to = b.to
    BY <1>4
  <2>3. from <= to /\ t \in Seq(Units) /\ Len(t) = to - from
    BY <1>3, <1>5, <2>1, <2>2
  <2>4. \A j \in 1..Len(t) : t[j] = d[from + j]
    BY <1>6, <2>1
  <2>5. PartOf(d, from, to, t)
    BY <2>3, <2>4, PartIsWhole, Zenon
  <2> QED BY <2>1, <2>2, <2>5, Zenon
<1> QED BY <1>3, <1>7, Zenon

(***************************************************************************)
(* The walk                                                                *)
(***************************************************************************)

ChunkType == [segment : Nat, from : Nat, to : Nat, locator : [start : Int, end : Int]]

\* The walk is inside a segment, in Node between two characters of it.
WalkTyped ==
    /\ document \in Seq(Seq(Units)) /\ \A s \in DOMAIN document : WellFormed(document[s])
    /\ chunker.settings \in Settings
    /\ segment \in Nat \ {0} /\ start \in Nat /\ chunks \in Seq(ChunkType)
    /\ segment \in DOMAIN document =>
           /\ start <= Len(Text)
           /\ chunker.language = "node" => start \in GraphemeBoundaries(Text)

\* What every chunk of document `texts` is.
ChunkOK(k, texts, by) ==
    LET text == texts[k.segment] IN
    /\ k.segment \in DOMAIN texts
    /\ k.from < k.to
    /\ k.locator.start \in Nat /\ k.locator.start < k.locator.end
    /\ \/ Size(k) <= by.settings.max
       \/ /\ by.language = "node"
          /\ {b \in GraphemeBoundaries(text) : k.from < b /\ b < k.to} = {}
    /\ by.language = "node" =>
           /\ Whole(text, k.from, k.to)
           /\ k.locator = [start |-> k.from, end |-> k.to]

ChunksOK ==
    \A n \in DOMAIN chunks :
        ChunkOK(chunks[n], document, chunker) /\ chunks[n].segment <= segment

InOrder ==
    \A n \in DOMAIN chunks :
        n > 1 => \/ chunks[n - 1].segment < chunks[n].segment
                 \/ chunks[n - 1].from <= chunks[n].from

\* The ink still ahead begins no earlier than the last chunk, although the walk
\* may have stepped back before it.
LastBegins ==
    LET last == chunks[Len(chunks)] IN
    chunks # <<>> /\ last.segment = segment =>
        \A i \in 0..(Len(document[segment]) - 1) :
            ~IsSpace(document[segment], i) /\ Bounds.from + start <= i => last.from <= i

\* All ink behind is in a chunk.
WalkedIsCovered ==
    \A s \in DOMAIN document : \A i \in 0..(Len(document[s]) - 1) :
        (/\ ~IsSpace(document[s], i)
         /\ \/ s < segment
            \/ s = segment /\ i < Bounds.from + start) => Covered(s, i)

ChunkInv ==
    /\ WalkTyped /\ ChunksOK /\ InOrder
    /\ LastBegins /\ WalkedIsCovered

\* The invariant is what the property says, and where the walk stands.
LEMMA InvCoversText == ChunkInv => ChunksCoverText
<1> SUFFICES ASSUME ChunkInv PROVE ChunksCoverText
  OBVIOUS
<1>1. ASSUME NEW n \in DOMAIN chunks
      PROVE  Size(chunks[n]) > 0
  <2>1. chunks \in Seq(ChunkType) /\ ChunkOK(chunks[n], document, chunker)
    BY DEF ChunkInv, WalkTyped, ChunksOK
  <2>2. chunks[n] \in ChunkType
    BY <2>1
  <2>3. chunks[n].from < chunks[n].to
    BY <2>1 DEF ChunkOK
  <2> QED BY <2>2, <2>3 DEF ChunkType, Size
<1> QED BY <1>1 DEF ChunkInv, ChunksOK, ChunkOK, InOrder, WalkedIsCovered, ChunksCoverText


\* The trimmed text of the segment that is being split.
LEMMA TextIs ==
  ASSUME WellFormed(document[segment])
  PROVE  /\ PartOf(document[segment], Bounds.from, Bounds.to, Text)
         /\ Bounds.from \in Nat /\ Bounds.to \in Nat
         /\ Bounds.from <= Bounds.to /\ Bounds.to <= Len(document[segment])
         /\ \A i \in 0..(Len(document[segment]) - 1) :
                ~IsSpace(document[segment], i) => Bounds.from <= i /\ i < Bounds.to
<1> DEFINE d == document[segment]
           b == TrimBounds(d, 0, Len(d))
           t == SubSeq(d, b.from + 1, b.to)
<1>1. WellFormed(d)
  OBVIOUS
<1>2. Bounds = b /\ Text = t
  BY DEF Bounds, Text
<1>3. /\ PartOf(d, b.from, b.to, t)
      /\ b.from \in Nat /\ b.to \in Nat /\ b.from <= b.to /\ b.to <= Len(d)
      /\ \A i \in 0..(Len(d) - 1) : ~IsSpace(d, i) => b.from <= i /\ i < b.to
  <2> HIDE DEF d
  <2> QED BY <1>1, SegmentText, Zenon
<1> HIDE DEF b, t
<1> QED BY <1>1, <1>2, <1>3

\* The end that either chunker chooses.
LEMMA ChunkEndIs ==
  ASSUME WalkTyped, segment \in DOMAIN document, start < Len(Text), NEW end, end = ChunkEnd
  PROVE  /\ end \in Nat /\ start < end /\ end <= Len(Text)
         /\ chunker.language = "node" =>
                start \in GraphemeBoundaries(Text) /\ end \in GraphemeBoundaries(Text)
         /\ \/ end <= start + chunker.settings.max
            \/ /\ chunker.language = "node"
               /\ \A b \in GraphemeBoundaries(Text) : ~(start < b /\ b < end)
<1> DEFINE t == Text
           c == chunker.settings
<1>1. t \in Seq(Units) /\ Len(t) \in Nat
  <2>1. WellFormed(document[segment])
    BY DEF WalkTyped
  <2> QED BY <2>1, TextIs, WellFormedIs DEF PartOf
<1>2. c \in Settings /\ start \in Nat /\ start < Len(t)
      /\ (chunker.language = "node" => start \in GraphemeBoundaries(t))
  BY DEF WalkTyped
<1>3. end = IF chunker.language = "node" THEN SelectChunkEnd(t, start, c) ELSE EndOf(t, start, c)
  BY DEF ChunkEnd
<1> HIDE DEF t, c
<1>4. CASE chunker.language = "node"
  <2>1. /\ end \in GraphemeBoundaries(t) /\ start < end
        /\ end <= start + c.max \/ \A b \in GraphemeBoundaries(t) : ~(start < b /\ b < end)
    BY <1>1, <1>2, <1>3, <1>4, NodeEnd
  <2>2. end \in Nat /\ end <= Len(t)
    BY <1>1, <2>1, BoundaryIs
  <2> QED BY <1>2, <1>4, <2>1, <2>2 DEF t, c
<1>5. CASE chunker.language # "node"
  <2>1. end \in Nat /\ start < end /\ end <= Len(t) /\ end <= start + c.max
    BY <1>1, <1>2, <1>3, <1>5, GoEnd
  <2> QED BY <1>5, <2>1 DEF t, c
<1> QED BY <1>4, <1>5

\* The chunk of one turn holds the ink up to the end of the turn, obeys the
\* limits and, in Node, is cut between characters.
LEMMA TurnChunk ==
  ASSUME WalkTyped, segment \in DOMAIN document, start < Len(Text), NEW end, end = ChunkEnd,
         NEW part, part = TrimBounds(Text, start, end), NEW k, k = ChunkOf(part)
  PROVE  /\ part.from # part.to =>
                k \in ChunkType /\ ChunkOK(k, document, chunker) /\ ~IsSpace(document[segment], k.from)
         /\ k.segment = segment /\ k.from \in Nat /\ Bounds.from + start <= k.from
         /\ \A i \in 0..(Len(document[segment]) - 1) :
                (/\ ~IsSpace(document[segment], i)
                 /\ Bounds.from + start <= i /\ i < Bounds.from + end)
                    => part.from # part.to /\ k.from <= i /\ i < k.to
<1> DEFINE t == Text
           d == document[segment]
           off == Bounds.from
<1>1. /\ WellFormed(d) /\ PartOf(d, off, Bounds.to, t) /\ off \in Nat
      /\ Bounds.to \in Nat /\ Bounds.to <= Len(d) /\ Len(d) \in Nat
  <2>1. WellFormed(document[segment])
    BY DEF WalkTyped
  <2> QED BY <2>1, TextIs, WellFormedIs
<1>2. /\ WellFormed(t) /\ Len(t) \in Nat /\ Bounds.to = off + Len(t)
      /\ \A j \in Nat : j < Len(t) => (IsSpace(t, j) <=> IsSpace(d, off + j))
      /\ \A j \in GraphemeBoundaries(t) : off + j \in GraphemeBoundaries(d)
      /\ \A j \in Nat : j <= Len(t) /\ off + j \in GraphemeBoundaries(d) =>
                            j \in GraphemeBoundaries(t)
  BY <1>1 DEF PartOf
<1>3. t \in Seq(Units)
  BY <1>2, WellFormedIs
<1>4. /\ end \in Nat /\ start < end /\ end <= Len(t)
      /\ chunker.language = "node" => start \in GraphemeBoundaries(t) /\ end \in GraphemeBoundaries(t)
      /\ \/ end <= start + chunker.settings.max
         \/ /\ chunker.language = "node"
            /\ \A b \in GraphemeBoundaries(t) : ~(start < b /\ b < end)
  BY ChunkEndIs
<1>5. start \in Nat /\ segment \in Nat /\ chunker.settings \in Settings /\ segment \in DOMAIN document
  BY DEF WalkTyped
<1>6. part = TrimBounds(t, start, end)
  OBVIOUS
<1>7. k = [segment |-> segment, from |-> off + part.from, to |-> off + part.to,
           locator |-> LET locatorStart == off + (IF chunker.language = "node" THEN part.from ELSE start)
                       IN  [start |-> locatorStart, end |-> locatorStart + (part.to - part.from)]]
  BY DEF ChunkOf
<1>d. d = document[segment] /\ off = Bounds.from
  OBVIOUS
<1> HIDE DEF t, d, off
<1>8. /\ part.from \in Nat /\ part.to \in Nat
      /\ start <= part.from /\ part.from <= part.to /\ part.to <= end
      /\ \A i \in start..(end - 1) : ~IsSpace(t, i) => part.from <= i /\ i < part.to
      /\ part.from # part.to =>
             part.from < part.to /\ ~IsSpace(t, part.from) /\ ~IsSpace(t, part.to - 1)
  <2>1. start <= end
    BY <1>4, <1>5
  <2> QED BY <1>3, <1>4, <1>5, <1>6, <2>1, Trimmed
<1>9. k.segment = segment /\ k.from = off + part.from /\ k.to = off + part.to
  BY <1>7
<1>10. off + start <= k.from /\ k.from \in Nat /\ k.to \in Nat
  <2>1. PICK f \in Nat : f = part.from /\ start <= f
    BY <1>8
  <2>2. PICK g \in Nat : g = part.to
    BY <1>8
  <2>3. k.from = off + f /\ k.to = off + g
    BY <1>9, <2>1, <2>2
  <2>4. off \in Nat /\ start \in Nat
    BY <1>1, <1>5
  <2>5. off + start <= off + f
    BY <2>1, <2>4
  <2>6. off + f \in Nat
    BY <2>4
  <2>7. off + g \in Nat
    BY <2>4
  <2> QED BY <2>3, <2>5, <2>6, <2>7, Zenon
<1>11. ASSUME NEW i \in 0..(Len(d) - 1), ~IsSpace(d, i), off + start <= i, i < off + end
       PROVE  part.from # part.to /\ k.from <= i /\ i < k.to
  <2>1. PICK j \in Nat : i = off + j /\ start <= j /\ j < end /\ j < Len(t)
    <3>1. i - off \in Nat /\ i = off + (i - off) /\ start <= i - off /\ i - off < end
      BY <1>1, <1>4, <1>5, <1>11
    <3>2. i - off < Len(t)
      BY <1>2, <1>4, <3>1
    <3> QED BY <3>1, <3>2
  <2>2. ~IsSpace(t, j)
    BY <1>2, <1>11, <2>1
  <2>3. j \in start..(end - 1)
    BY <1>4, <1>5, <2>1
  <2>4. part.from <= j /\ j < part.to
    BY <1>8, <2>2, <2>3
  <2> QED BY <1>1, <1>8, <1>9, <2>1, <2>4
<1>12. ASSUME part.from # part.to
       PROVE  k \in ChunkType /\ ChunkOK(k, document, chunker) /\ ~IsSpace(d, k.from)
  <2>1. part.from < part.to /\ ~IsSpace(t, part.from) /\ part.from < Len(t)
    BY <1>2, <1>4, <1>8, <1>12
  <2>2. ~IsSpace(d, k.from)
    BY <1>2, <1>8, <1>9, <2>1
  <2>3. k \in ChunkType
    <3> DEFINE place == off + (IF chunker.language = "node" THEN part.from ELSE start)
    <3>1. place \in Int /\ place + (part.to - part.from) \in Int
      BY <1>1, <1>5, <1>8
    <3>2. off + part.from \in Nat /\ off + part.to \in Nat
      BY <1>9, <1>10, Zenon
    <3>3. k = [segment |-> segment, from |-> off + part.from, to |-> off + part.to,
               locator |-> [start |-> place, end |-> place + (part.to - part.from)]]
      BY <1>7, Zenon
    <3> HIDE DEF place
    <3>4. [start |-> place, end |-> place + (part.to - part.from)] \in [start : Int, end : Int]
      BY <3>1
    <3>5. segment \in Nat
      BY <1>5
    <3> QED BY <3>2, <3>3, <3>4, <3>5 DEF ChunkType
  <2>7. k.locator.start \in Nat /\ k.locator.start < k.locator.end
    <3> DEFINE place == off + (IF chunker.language = "node" THEN part.from ELSE start)
    <3>1. PICK f \in Nat : f = part.from
      BY <1>8
    <3>2. PICK g \in Nat : g = part.to
      BY <1>8
    <3>3. f < g /\ place = off + (IF chunker.language = "node" THEN f ELSE start)
      BY <2>1, <3>1, <3>2
    <3>4. place \in Nat /\ place < place + (g - f)
      BY <1>1, <1>5, <3>1, <3>2, <3>3
    <3>5. k.locator = [start |-> place, end |-> place + (g - f)]
      BY <1>7, <3>1, <3>2
    <3> HIDE DEF place
    <3> QED BY <3>4, <3>5
  <2>4. k.from < k.to /\ Size(k) = part.to - part.from
    BY <1>1, <1>8, <1>9, <2>1 DEF Size
  <2>5. CASE chunker.language = "node"
    <3>1. start \in GraphemeBoundaries(t) /\ end \in GraphemeBoundaries(t) /\ start <= end
      BY <1>4, <1>5, <2>5
    <3>2. {part.from, part.to} \subseteq GraphemeBoundaries(t)
      BY <1>2, <1>6, <3>1, TrimmedIsWhole
    <3>3. Whole(d, k.from, k.to)
      BY <1>2, <1>9, <3>2 DEF Whole
    <3>4. k.locator = [start |-> k.from, end |-> k.to]
      <4>1. k.locator = [start |-> off + part.from, end |-> (off + part.from) + (part.to - part.from)]
        BY <1>7, <2>5
      <4>2. (off + part.from) + (part.to - part.from) = off + part.to
        BY <1>1, <1>8
      <4> QED BY <1>9, <4>1, <4>2
    <3>5. Size(k) <= chunker.settings.max
          \/ {b \in GraphemeBoundaries(d) : k.from < b /\ b < k.to} = {}
      <4>1. CASE end <= start + chunker.settings.max
        <5>1. chunker.settings.max \in Nat
          BY <1>5, SettingsAssumption
        <5> QED BY <1>4, <1>5, <1>8, <2>4, <4>1, <5>1
      <4>2. CASE \A b \in GraphemeBoundaries(t) : ~(start < b /\ b < end)
        <5>1. SUFFICES ASSUME NEW b \in GraphemeBoundaries(d), k.from < b, b < k.to
                       PROVE  FALSE
          OBVIOUS
        <5>2. b \in Nat
          BY <1>1, WellFormedIs, BoundaryIs
        <5>3. b - off \in Nat /\ b = off + (b - off) /\ part.from < b - off /\ b - off < part.to
              /\ b - off <= Len(t)
          BY <1>1, <1>2, <1>4, <1>8, <1>9, <5>1, <5>2
        <5>4. b - off \in GraphemeBoundaries(t)
          BY <1>2, <5>1, <5>3
        <5>5. start < b - off /\ b - off < end
          BY <1>4, <1>5, <1>8, <5>3
        <5> QED BY <4>2, <5>4, <5>5
      <4> QED BY <1>4, <4>1, <4>2
    <3> QED BY <1>5, <1>9, <1>d, <2>2, <2>3, <2>4, <2>5, <2>7, <3>3, <3>4, <3>5 DEF ChunkOK
  <2>6. CASE chunker.language # "node"
    <3>1. end <= start + chunker.settings.max
      BY <1>4, <2>6
    <3>2. chunker.settings.max \in Nat
      BY <1>5, SettingsAssumption
    <3>3. Size(k) <= chunker.settings.max
      BY <1>4, <1>5, <1>8, <2>4, <3>1, <3>2
    <3> QED BY <1>5, <1>9, <2>2, <2>3, <2>4, <2>6, <2>7, <3>3 DEF ChunkOK
  <2> QED BY <2>5, <2>6
<1> QED BY <1>9, <1>10, <1>11, <1>12, <1>d


\* One turn of the loop that is not at a limit keeps the invariant and moves on.
LEMMA TurnKeeps ==
  ASSUME ChunkInv, segment \in DOMAIN document, start < Len(Text),
         UNCHANGED <<chunker, document, segment>>,
         NEW end, end = ChunkEnd, NEW part, part = TrimBounds(Text, start, end),
         NEW k, k = ChunkOf(part),
         chunks' = IF part.from = part.to THEN chunks ELSE Append(chunks, k),
         start' = IF end = Len(Text) THEN end ELSE NextStart(end)
  PROVE  ChunkInv' /\ start' > start
<1> DEFINE d == document[segment]
           off == Bounds.from
           last == chunks[Len(chunks)]
<1>1. WalkTyped /\ ChunksOK /\ InOrder /\ LastBegins /\ WalkedIsCovered
  BY DEF ChunkInv
<1>2. /\ start \in Nat /\ segment \in Nat /\ chunks \in Seq(ChunkType) /\ Len(chunks) \in Nat
      /\ chunker.settings \in Settings
  BY <1>1 DEF WalkTyped
<1>3. /\ WellFormed(d) /\ PartOf(d, off, Bounds.to, Text) /\ off \in Nat /\ Len(d) \in Nat
      /\ Text \in Seq(Units) /\ Len(Text) \in Nat
  <2>1. WellFormed(d) /\ PartOf(d, off, Bounds.to, Text) /\ off \in Nat
    <3>1. WellFormed(document[segment])
      BY <1>1 DEF WalkTyped
    <3> QED BY <3>1, TextIs
  <2>2. WellFormed(Text)
    BY <2>1 DEF PartOf
  <2> HIDE DEF d, off
  <2> QED BY <2>1, <2>2, WellFormedIs
<1>4. /\ end \in Nat /\ start < end /\ end <= Len(Text)
      /\ chunker.language = "node" => end \in GraphemeBoundaries(Text)
  BY <1>1, ChunkEndIs
<1>5. /\ part.from # part.to =>
             k \in ChunkType /\ ChunkOK(k, document, chunker) /\ ~IsSpace(d, k.from)
      /\ k.segment = segment /\ k.from \in Nat /\ off + start <= k.from
      /\ \A i \in 0..(Len(d) - 1) :
             (~IsSpace(d, i) /\ off + start <= i /\ i < off + end)
                 => part.from # part.to /\ k.from <= i /\ i < k.to
  BY <1>1, TurnChunk
<1>6. /\ start' \in Nat /\ start < start' /\ start' <= end
      /\ chunker.language = "node" => start' \in GraphemeBoundaries(Text)
  <2>1. /\ NextStart(end) \in Nat /\ start < NextStart(end) /\ NextStart(end) <= end
        /\ chunker.language = "node" => NextStart(end) \in GraphemeBoundaries(Text)
    BY <1>2, <1>3, <1>4, NextStartMoves
  <2> QED BY <1>4, <2>1
<1>7. Text' = Text /\ Bounds' = Bounds
  BY DEF Text, Bounds
<1>8. chunks' \in Seq(ChunkType)
  BY <1>2, <1>5
<1>9. \/ chunks' = chunks /\ part.from = part.to
      \/ /\ part.from # part.to /\ Len(chunks') = Len(chunks) + 1
         /\ DOMAIN chunks' = DOMAIN chunks \cup {Len(chunks) + 1}
         /\ chunks'[Len(chunks) + 1] = k
         /\ \A n \in DOMAIN chunks : chunks'[n] = chunks[n]
  BY <1>2, <1>5
<1>10. DOMAIN chunks = 1..Len(chunks)
  BY <1>2
<1>11. \A n \in DOMAIN chunks : chunks[n] \in ChunkType
  BY <1>2
<1>12. off = Bounds.from /\ d = document[segment] /\ off' = off /\ d' = d
  BY <1>7
<1> HIDE DEF d, off, last
<1>13. WalkTyped'
  <2>1. start' <= Len(Text)
    BY <1>3, <1>4, <1>6
  <2>2. \A s \in DOMAIN document : WellFormed(document[s])
    BY <1>1 DEF WalkTyped
  <2>3. document \in Seq(Seq(Units)) /\ segment \in Nat \ {0}
    BY <1>1 DEF WalkTyped
  <2> QED BY <1>2, <1>6, <1>7, <1>8, <2>1, <2>2, <2>3, Zenon DEF WalkTyped
<1>14. ChunksOK'
  <2>1. \A n \in DOMAIN chunks : ChunkOK(chunks[n], document, chunker) /\ chunks[n].segment <= segment
    BY <1>1 DEF ChunksOK
  <2>2. segment <= segment
    BY <1>2
  <2>3. \A n \in DOMAIN chunks' :
           ChunkOK(chunks'[n], document, chunker) /\ chunks'[n].segment <= segment
    BY <1>5, <1>9, <2>1, <2>2, Zenon
  <2> QED BY <2>3, Zenon DEF ChunksOK
<1>15. part.from # part.to /\ chunks # <<>> =>
         \/ chunks[Len(chunks)].segment < segment
         \/ chunks[Len(chunks)].from <= k.from
  <2>1. SUFFICES ASSUME part.from # part.to, chunks # <<>>, last.segment = segment
                 PROVE  last.from <= k.from
    <3>1. chunks # <<>> => Len(chunks) \in DOMAIN chunks
      BY <1>2
    <3>2. chunks # <<>> => last \in ChunkType /\ last.segment <= segment
      BY <1>1, <1>11, <3>1 DEF ChunksOK, last
    <3>3. chunks # <<>> => last.segment \in Nat
      BY <3>2 DEF ChunkType
    <3>4. chunks # <<>> => last.segment < segment \/ last.segment = segment
      BY <1>2, <3>2, <3>3
    <3> QED BY <3>4 DEF last
  <2>2. k.from \in 0..(Len(d) - 1) /\ ~IsSpace(d, k.from)
    <3>1. ChunkOK(k, document, chunker) /\ k \in ChunkType /\ ~IsSpace(d, k.from)
      BY <1>5, <2>1
    <3>2. k.from < off + end
      <4>1. part.to <= end /\ part.from < part.to /\ part.from \in Nat /\ part.to \in Nat
        BY <1>2, <1>3, <1>4, <2>1, Trimmed
      <4>2. k.from = off + part.from
        BY <1>12 DEF ChunkOf
      <4>3. PICK f \in Nat : f = part.from
        BY <4>1
      <4>4. f < end
        BY <1>4, <4>1, <4>3
      <4>5. k.from = off + f
        BY <4>2, <4>3
      <4> QED BY <1>3, <1>4, <4>4, <4>5
    <3>3. off + end <= Len(d)
      <4>1. Bounds.to = off + Len(Text) /\ Bounds.to <= Len(d)
        BY <1>3, <1>12, TextIs DEF PartOf
      <4> QED BY <1>3, <1>4, <4>1
    <3> QED BY <1>3, <1>4, <1>5, <3>1, <3>2, <3>3
  <2>3. last.segment = segment => \A i \in 0..(Len(d) - 1) : ~IsSpace(d, i) /\ off + start <= i => last.from <= i
    BY <1>1, <1>12, <2>1 DEF LastBegins, last
  <2> QED BY <1>5, <2>1, <2>2, <2>3
<1>16. InOrder'
  <2>1. \A n \in DOMAIN chunks : n > 1 => \/ chunks[n - 1].segment < chunks[n].segment
                                          \/ chunks[n - 1].from <= chunks[n].from
    BY <1>1 DEF InOrder
  <2>2. CASE chunks' = chunks
    BY <2>1, <2>2 DEF InOrder
  <2>3. CASE part.from # part.to /\ chunks' # chunks
    <3>1. SUFFICES ASSUME NEW n \in DOMAIN chunks', n > 1
                   PROVE  \/ chunks'[n - 1].segment < chunks'[n].segment
                          \/ chunks'[n - 1].from <= chunks'[n].from
      BY DEF InOrder
    <3>2. CASE n \in DOMAIN chunks
      <4>1. n - 1 \in DOMAIN chunks
        BY <1>2, <1>10, <3>1, <3>2
      <4>2. chunks'[n] = chunks[n] /\ chunks'[n - 1] = chunks[n - 1]
        BY <1>9, <2>3, <3>2, <4>1
      <4> QED BY <2>1, <3>1, <3>2, <4>2
    <3>3. CASE n = Len(chunks) + 1
      <4>1. n - 1 = Len(chunks) /\ Len(chunks) \in DOMAIN chunks /\ chunks # <<>>
        BY <1>2, <1>10, <3>1, <3>3
      <4>2. chunks'[n] = k /\ chunks'[n - 1] = chunks[Len(chunks)]
        BY <1>9, <2>3, <3>3, <4>1
      <4> QED BY <1>5, <1>15, <2>3, <4>1, <4>2
    <3> QED BY <1>9, <2>3, <3>1, <3>2, <3>3
  <2> QED BY <1>9, <2>2, <2>3
<1>17. LastBegins'
  <2>1. SUFFICES ASSUME chunks' # <<>>, chunks'[Len(chunks')].segment = segment,
                        NEW i \in 0..(Len(d) - 1), ~IsSpace(d, i), off + start' <= i
                 PROVE  chunks'[Len(chunks')].from <= i
    BY <1>7, <1>12 DEF LastBegins
  <2>2. off + start <= i
    BY <1>2, <1>3, <1>6, <2>1
  <2>3. CASE chunks' = chunks
    BY <1>1, <1>12, <2>1, <2>2, <2>3 DEF LastBegins
  <2>4. CASE part.from # part.to /\ chunks'[Len(chunks')] = k
    <3>1. CASE i < off + end
      BY <1>5, <2>1, <2>2, <2>4, <3>1
    <3>2. CASE ~(i < off + end)
      <4>1. part.to <= end /\ part.from < part.to /\ part.from \in Nat /\ part.to \in Nat
        BY <1>2, <1>3, <1>4, <2>4, Trimmed
      <4>2. k.from = off + part.from
        BY <1>12 DEF ChunkOf
      <4>3. PICK f \in Nat : f = part.from
        BY <4>1
      <4>4. f < end /\ k.from = off + f
        BY <1>4, <4>1, <4>2, <4>3
      <4> QED BY <1>3, <1>4, <2>4, <3>2, <4>4
    <3> QED BY <3>1, <3>2
  <2> QED BY <1>9, <2>3, <2>4
<1>18. WalkedIsCovered'
  <2>1. SUFFICES ASSUME NEW s \in DOMAIN document, NEW i \in 0..(Len(document[s]) - 1),
                        ~IsSpace(document[s], i),
                        s < segment \/ (s = segment /\ i < off + start')
                 PROVE  \E n \in DOMAIN chunks' :
                            chunks'[n].segment = s /\ chunks'[n].from <= i /\ i < chunks'[n].to
    BY <1>7, <1>12 DEF WalkedIsCovered, Covered
  <2>2. CASE s < segment \/ (s = segment /\ i < off + start)
    <3>1. PICK n \in DOMAIN chunks : chunks[n].segment = s /\ chunks[n].from <= i /\ i < chunks[n].to
      BY <1>1, <1>12, <2>1, <2>2 DEF WalkedIsCovered, Covered
    <3>2. n \in DOMAIN chunks' /\ chunks'[n] = chunks[n]
      BY <1>9
    <3> QED BY <3>1, <3>2
  <2>3. CASE s = segment /\ ~(i < off + start)
    <3>1. i \in 0..(Len(d) - 1) /\ ~IsSpace(d, i) /\ off + start <= i /\ i < off + end
      <4>1. document[s] = d
        BY <1>12, <2>3
      <4>2. i \in 0..(Len(d) - 1) /\ ~IsSpace(d, i)
        BY <2>1, <4>1, Zenon
      <4>3. i < off + start' /\ ~(i < off + start)
        BY <1>2, <2>1, <2>3
      <4>4. off + start <= i
        BY <1>2, <1>3, <4>2, <4>3
      <4>5. i < off + end
        BY <1>3, <1>4, <1>6, <4>2, <4>3
      <4> QED BY <4>2, <4>4, <4>5
    <3>2. part.from # part.to /\ k.from <= i /\ i < k.to /\ k.segment = s
      BY <1>5, <2>3, <3>1
    <3>3. Len(chunks) + 1 \in DOMAIN chunks' /\ chunks'[Len(chunks) + 1] = k
      BY <1>9, <3>2
    <3> QED BY <3>2, <3>3
  <2> QED BY <2>1, <2>2, <2>3
<1>19. start' > start
  BY <1>2, <1>6
<1> QED BY <1>13, <1>14, <1>16, <1>17, <1>18, <1>19 DEF ChunkInv


\* Where a segment begins: nothing of it is behind, and no character is cut.
AtSegmentStart ==
    /\ start \in Nat /\ start <= Len(Text) /\ start \in GraphemeBoundaries(Text)
    /\ \A i \in 0..(Len(document[segment]) - 1) :
           ~IsSpace(document[segment], i) => ~(i < Bounds.from + start)

\* The walk of a segment begins there.
LEMMA SegmentBegins == WellFormed(document[segment]) /\ start = 0 => AtSegmentStart
<1> SUFFICES ASSUME WellFormed(document[segment]), start = 0 PROVE AtSegmentStart
  OBVIOUS
<1>1. /\ WellFormed(Text) /\ Bounds.from \in Nat
      /\ \A i \in 0..(Len(document[segment]) - 1) :
             ~IsSpace(document[segment], i) => Bounds.from <= i /\ i < Bounds.to
  BY TextIs DEF PartOf
<1>2. /\ Text \in Seq(Units) /\ Len(Text) \in Nat
      /\ \A i \in 1..Len(Text) : Text[i] = "t" => i > 1 /\ Text[i - 1] \in {"h", "t"}
  BY <1>1, WellFormedIs
<1>3. 0 < Len(Text) => Text[0 + 1] # "t"
  BY <1>2
<1>4. 0 \in GraphemeBoundaries(Text)
  BY <1>2, <1>3, BoundaryIs
<1>5. \A i \in 0..(Len(document[segment]) - 1) :
          ~IsSpace(document[segment], i) => ~(i < Bounds.from + 0)
  BY <1>1
<1> QED BY <1>2, <1>4, <1>5 DEF AtSegmentStart

\* A walk that begins.
Fresh ==
    /\ document \in Seq(Seq(Units)) /\ \A s \in DOMAIN document : WellFormed(document[s])
    /\ chunker.settings \in Settings
    /\ segment = 1 /\ start = 0 /\ chunks = <<>>

\* It has walked nothing.
LEMMA FreshWalk == Fresh => ChunkInv
<1> SUFFICES ASSUME Fresh PROVE ChunkInv
  OBVIOUS
<1>1. /\ document \in Seq(Seq(Units)) /\ \A s \in DOMAIN document : WellFormed(document[s])
      /\ chunker.settings \in Settings
      /\ segment = 1 /\ start = 0 /\ chunks = <<>>
  BY DEF Fresh
<1>2. segment \in DOMAIN document =>
         /\ start \in Nat /\ start <= Len(Text) /\ start \in GraphemeBoundaries(Text)
         /\ \A i \in 0..(Len(document[segment]) - 1) :
                ~IsSpace(document[segment], i) => ~(i < Bounds.from + start)
  BY <1>1, SegmentBegins DEF AtSegmentStart
<1>3. chunks \in Seq(ChunkType) /\ DOMAIN chunks = {}
  BY <1>1
<1>4. WalkTyped
  BY <1>1, <1>2, <1>3 DEF WalkTyped
<1>5. ChunksOK /\ InOrder /\ LastBegins
  BY <1>1, <1>3 DEF ChunksOK, InOrder, LastBegins
<1>6. WalkedIsCovered
  <2>1. SUFFICES ASSUME NEW s \in DOMAIN document, NEW i \in 0..(Len(document[s]) - 1),
                        ~IsSpace(document[s], i),
                        s < segment \/ (s = segment /\ i < Bounds.from + start)
                 PROVE  FALSE
    BY DEF WalkedIsCovered
  <2>2. s \in Nat /\ s >= 1
    BY <1>1
  <2>3. CASE s < segment
    BY <1>1, <2>2, <2>3
  <2>4. CASE s = segment /\ i < Bounds.from + start
    BY <1>2, <2>1, <2>4
  <2> QED BY <2>1, <2>3, <2>4
<1> QED BY <1>4, <1>5, <1>6 DEF ChunkInv

\* Going on to the next segment keeps the invariant: the walk is past all ink.
LEMMA NextSegmentKeeps == ChunkInv /\ NextSegment => ChunkInv'
<1> SUFFICES ASSUME ChunkInv, NextSegment PROVE ChunkInv'
  OBVIOUS
<1>1. /\ segment <= Len(document) /\ start >= Len(Text)
      /\ segment' = segment + 1 /\ start' = 0
      /\ chunker' = chunker /\ document' = document /\ chunks' = chunks
  BY DEF NextSegment
<1>2. WalkTyped /\ ChunksOK /\ InOrder /\ WalkedIsCovered
  BY DEF ChunkInv
<1>3. /\ document \in Seq(Seq(Units)) /\ \A s \in DOMAIN document : WellFormed(document[s])
      /\ chunker.settings \in Settings /\ segment \in Nat \ {0} /\ chunks \in Seq(ChunkType)
  BY <1>2 DEF WalkTyped
<1>4. segment' \in DOMAIN document => AtSegmentStart'
  <2>1. (WellFormed(document[segment]) /\ start = 0)' => AtSegmentStart'
    BY SegmentBegins, PTL
  <2> QED BY <1>1, <1>3, <2>1
<1>5. WalkTyped'
  BY <1>1, <1>3, <1>4 DEF WalkTyped, AtSegmentStart
<1>6. \A n \in DOMAIN chunks : chunks[n] \in ChunkType /\ chunks[n].segment \in Nat
  <2>1. \A n \in DOMAIN chunks : chunks[n] \in ChunkType
    BY <1>3
  <2> QED BY <2>1 DEF ChunkType
<1>7. \A n \in DOMAIN chunks :
         ChunkOK(chunks[n], document, chunker) /\ chunks[n].segment <= segment
  BY <1>2 DEF ChunksOK
<1>8. \A n \in DOMAIN chunks : chunks[n].segment < segment + 1
  BY <1>3, <1>6, <1>7
<1>9. ChunksOK'
  <2>1. \A n \in DOMAIN chunks : chunks[n].segment <= segment + 1
    BY <1>3, <1>6, <1>8
  <2> QED BY <1>1, <1>7, <2>1 DEF ChunksOK
<1>10. InOrder'
  BY <1>1, <1>2 DEF InOrder
<1>11. LastBegins'
  <2>1. chunks # <<>> => Len(chunks) \in DOMAIN chunks
    BY <1>3
  <2>2. chunks # <<>> => chunks[Len(chunks)].segment # segment + 1
    BY <1>3, <1>6, <1>8, <2>1
  <2> QED BY <1>1, <2>2 DEF LastBegins
<1>12. WalkedIsCovered'
  <2>1. SUFFICES ASSUME NEW s \in DOMAIN document, NEW i \in 0..(Len(document[s]) - 1),
                        ~IsSpace(document[s], i),
                        s < segment' \/ (s = segment' /\ i < Bounds'.from + start')
                 PROVE  Covered(s, i)
    BY <1>1 DEF WalkedIsCovered, Covered
  <2>2. s \in Nat
    BY <1>3
  <2>3. CASE s < segment
    BY <1>2, <2>1, <2>3 DEF WalkedIsCovered
  <2>4. CASE s = segment
    <3>1. WellFormed(document[segment])
      BY <1>3, <2>4
    <3>2. /\ Bounds.from \in Nat /\ Bounds.to = Bounds.from + Len(Text)
          /\ Len(Text) \in Nat
          /\ \A j \in 0..(Len(document[segment]) - 1) :
                 ~IsSpace(document[segment], j) => Bounds.from <= j /\ j < Bounds.to
      BY <3>1, TextIs DEF PartOf
    <3>3. i \in 0..(Len(document[segment]) - 1) /\ ~IsSpace(document[segment], i)
      BY <2>1, <2>4, Zenon
    <3>4. i < Bounds.from + Len(Text) /\ i \in Int
      BY <3>2, <3>3
    <3>5. start \in Nat
      BY <1>2 DEF WalkTyped
    <3>6. i < Bounds.from + start
      BY <1>1, <3>2, <3>4, <3>5
    <3> QED BY <1>2, <2>4, <3>3, <3>6 DEF WalkedIsCovered
  <2>5. CASE s = segment'
    <3>1. s \in DOMAIN document /\ AtSegmentStart'
      BY <1>4, <2>5
    <3>2. i \in 0..(Len(document'[segment']) - 1) /\ ~IsSpace(document'[segment'], i)
      BY <1>1, <2>1, <2>5, Zenon
    <3>3. ~(i < Bounds'.from + start')
      BY <3>1, <3>2 DEF AtSegmentStart
    <3>4. ~(s < segment')
      BY <1>1, <1>3, <2>5
    <3> QED BY <2>1, <3>3, <3>4
  <2> QED BY <1>1, <1>3, <2>1, <2>2, <2>3, <2>4, <2>5
<1> QED BY <1>5, <1>9, <1>10, <1>11, <1>12 DEF ChunkInv

\* The invariant is about the walk only.
LEMMA ChunkInvStands ==
  ASSUME ChunkInv, UNCHANGED <<chunker, document, segment, start, chunks>>
  PROVE  ChunkInv'
<1>1. WalkTyped /\ ChunksOK /\ InOrder /\ LastBegins /\ WalkedIsCovered
  BY DEF ChunkInv
<1>2. Text' = Text /\ Bounds' = Bounds
  BY DEF Text, Bounds
<1>3. /\ chunker' = chunker /\ document' = document /\ segment' = segment
      /\ start' = start /\ chunks' = chunks
  OBVIOUS
<1>4. WalkTyped'
  BY <1>1, <1>2, <1>3, Zenon DEF WalkTyped
<1>5. ChunksOK'
  BY <1>1, <1>3, Zenon DEF ChunksOK
<1>6. InOrder'
  BY <1>1, <1>3 DEF InOrder
<1>7. LastBegins'
  BY <1>1, <1>2, <1>3 DEF LastBegins
<1>8. WalkedIsCovered'
  <2>1. \A s \in DOMAIN document : \A i \in 0..(Len(document[s]) - 1) :
           Covered(s, i)' <=> Covered(s, i)
    BY <1>3 DEF Covered
  <2>2. \A s \in DOMAIN document : \A i \in 0..(Len(document[s]) - 1) :
           (/\ ~IsSpace(document[s], i)
            /\ \/ s < segment
               \/ s = segment /\ i < Bounds.from + start) => Covered(s, i)'
    BY <1>1, <2>1 DEF WalkedIsCovered
  <2> QED BY <1>2, <1>3, <2>2 DEF WalkedIsCovered
<1> QED BY <1>4, <1>5, <1>6, <1>7, <1>8 DEF ChunkInv

\* A turn keeps the invariant, and moves on unless it ends the walk.
LEMMA SplitKeeps ==
  ASSUME ChunkInv, Split
  PROVE  ChunkInv' /\ (result' = "running" => start' > start)
<1> DEFINE end == ChunkEnd
           part == TrimBounds(Text, start, end)
           k == ChunkOf(part)
<1>1. /\ segment <= Len(document) /\ start < Len(Text)
      /\ UNCHANGED <<chunker, document, segment>>
      /\ \/ result' = "limit" /\ UNCHANGED <<chunks, start>>
         \/ /\ chunks' = IF part.from = part.to THEN chunks ELSE Append(chunks, k)
            /\ start' = IF end = Len(Text) THEN end ELSE NextStart(end)
  BY DEF Split
<1>2. segment \in DOMAIN document
  <2>1. document \in Seq(Seq(Units)) /\ segment \in Nat \ {0}
    BY DEF ChunkInv, WalkTyped
  <2> QED BY <1>1, <2>1
<1> HIDE DEF end
<1>3. CASE result' = "limit" /\ UNCHANGED <<chunks, start>>
  <2>1. UNCHANGED <<chunker, document, segment, start, chunks>>
    BY <1>1, <1>3
  <2>2. ChunkInv'
    BY <2>1, ChunkInvStands
  <2> QED BY <1>3, <2>2
<1>4. CASE /\ chunks' = IF part.from = part.to THEN chunks ELSE Append(chunks, k)
           /\ start' = IF end = Len(Text) THEN end ELSE NextStart(end)
  <2>1. end = ChunkEnd
    BY DEF end
  <2> HIDE DEF k
  <2>2. k = ChunkOf(part)
    BY DEF k
  <2> HIDE DEF part
  <2>3. part = TrimBounds(Text, start, end)
    BY DEF part
  <2>4. ChunkInv' /\ start' > start
    BY <1>1, <1>2, <1>4, <2>1, <2>2, <2>3, TurnKeeps
  <2> QED BY <2>4
<1> QED BY <1>1, <1>3, <1>4

\* So does every step of the walk, and none at all.
LEMMA ChunkStepKeeps ==
  ASSUME ChunkInv, ChunkStep \/ UNCHANGED chunkVars
  PROVE  /\ ChunkInv'
         /\ chunkVars' # chunkVars =>
               (segment' = segment /\ result = "running" /\ result' = "running" => start' > start)
<1>1. CASE Split
  BY <1>1, SplitKeeps
<1>2. CASE NextSegment
  <2>1. segment' # segment
    BY <1>2 DEF NextSegment, ChunkInv, WalkTyped
  <2> QED BY <1>2, <2>1, NextSegmentKeeps
<1>3. CASE Return \/ UNCHANGED chunkVars
  <2>1. UNCHANGED <<chunker, document, segment, start, chunks>>
    BY <1>3 DEF Return, chunkVars
  <2>2. ChunkInv'
    BY <2>1, ChunkInvStands
  <2>3. result' = "running" => chunkVars' = chunkVars
    BY <1>3 DEF Return, chunkVars
  <2> QED BY <2>2, <2>3
<1> QED BY <1>1, <1>2, <1>3 DEF ChunkStep


(***************************************************************************)
(* What is extracted is text                                               *)
(***************************************************************************)

\* Numbers up to some bound can be counted off: one of them is the n-th.
LEMMA NthExists ==
  ASSUME NEW N \in Nat, NEW H \in SUBSET (1..N), NEW n \in 1..Cardinality(H)
  PROVE  \E i \in H : Cardinality({j \in H : j <= i}) = n
<1> DEFINE UpTo(i) == {j \in H : j <= i}
           S == {m \in 0..N : Cardinality(UpTo(m)) >= n}
<1>1. IsFiniteSet(1..N)
  BY FS_Interval
<1>2. ASSUME NEW i PROVE IsFiniteSet(UpTo(i)) /\ Cardinality(UpTo(i)) \in Nat
  <2>1. UpTo(i) \subseteq 1..N
    OBVIOUS
  <2> HIDE DEF UpTo
  <2> QED BY <1>1, <2>1, FS_Subset, FS_CardinalityType
<1>3. UpTo(N) = H /\ UpTo(0) = {}
  <2>1. \A j \in H : j <= N /\ ~(j <= 0)
    OBVIOUS
  <2>2. \A j : (j \in UpTo(N) <=> j \in H) /\ j \notin UpTo(0)
    BY <2>1
  <2> HIDE DEF UpTo
  <2> QED BY <2>2
<1>4. Cardinality({}) = 0
  BY FS_EmptySet
<1>5. \A m \in 1..N : m \notin H => UpTo(m) = UpTo(m - 1)
  <2>1. SUFFICES ASSUME NEW m \in 1..N, m \notin H PROVE UpTo(m) = UpTo(m - 1)
    OBVIOUS
  <2>2. \A j \in H : j <= m <=> j <= m - 1
    BY <2>1
  <2>3. \A j : j \in UpTo(m) <=> j \in UpTo(m - 1)
    BY <2>2, Zenon
  <2> HIDE DEF UpTo
  <2> QED BY <2>3
<1>6. \A m \in 1..N : m \in H => UpTo(m) = UpTo(m - 1) \cup {m} /\ m \notin UpTo(m - 1)
  <2>1. SUFFICES ASSUME NEW m \in 1..N, m \in H
                 PROVE  UpTo(m) = UpTo(m - 1) \cup {m} /\ m \notin UpTo(m - 1)
    OBVIOUS
  <2>2. \A j \in H : j <= m <=> (j <= m - 1 \/ j = m)
    BY <2>1
  <2>3. ~(m <= m - 1)
    OBVIOUS
  <2>4. \A j : j \in UpTo(m) <=> (j \in UpTo(m - 1) \/ j = m)
    BY <2>1, <2>2, Zenon
  <2>5. m \notin UpTo(m - 1)
    BY <2>3
  <2> HIDE DEF UpTo
  <2> QED BY <2>4, <2>5
<1> HIDE DEF UpTo
<1>7. Cardinality(H) \in Nat
  BY <1>2, <1>3
<1>8. N \in S
  BY <1>3, <1>7
<1>9. PICK m \in S : \A l \in S : m <= l
  <2>1. S \in SUBSET Nat
    OBVIOUS
  <2> HIDE DEF S
  <2> QED BY <1>8, <2>1, LeastOf
<1>10. m \in 1..N
  <2>1. m \in 0..N /\ Cardinality(UpTo(m)) >= n
    OBVIOUS
  <2>2. n >= 1 /\ n \in Nat
    BY <1>7
  <2>3. m # 0
    BY <1>3, <1>4, <2>1, <2>2
  <2> QED BY <2>1, <2>3
<1>11. Cardinality(UpTo(m - 1)) < n
  <2>1. m - 1 \in 0..N /\ ~(m <= m - 1)
    BY <1>10
  <2>2. m - 1 \notin S
    BY <1>9, <2>1, Zenon
  <2> QED BY <1>2, <2>1, <2>2
<1>12. Cardinality(UpTo(m)) >= n
  OBVIOUS
<1>13. m \in H
  BY <1>2, <1>5, <1>10, <1>11, <1>12
<1>14. Cardinality(UpTo(m)) = Cardinality(UpTo(m - 1)) + 1
  BY <1>2, <1>6, <1>10, <1>13, FS_AddElement
<1>15. Cardinality(UpTo(m)) = n
  BY <1>2, <1>11, <1>12, <1>14
<1> QED BY <1>13, <1>15 DEF UpTo

\* Trimming a text leaves a text.
LEMMA TrimSpaceIsText ==
  ASSUME NEW d, WellFormed(d)
  PROVE  WellFormed(TrimSpace(d))
<1> DEFINE b == TrimBounds(d, 0, Len(d))
           t == SubSeq(d, b.from + 1, b.to)
<1>1. PartOf(d, b.from, b.to, t)
  BY SegmentText
<1>2. TrimSpace(d) = t
  BY DEF TrimSpace
<1> HIDE DEF t, b
<1> QED BY <1>1, <1>2 DEF PartOf

\* The segments of an object are texts.
LEMMA SegmentsAreTexts ==
  ASSUME object \in Objects
  PROVE  \E N \in Nat : DOMAIN Segments = 1..N /\ \A i \in 1..N : WellFormed(Segments[i])
<1> DEFINE texts == object.texts
<1>1. /\ texts \in Seq(Seq(Units)) /\ \A i \in DOMAIN texts : WellFormed(texts[i])
      /\ object.type = "TEXT" => Len(texts) = 1
  BY ObjectsAssumption
<1>2. DOMAIN texts = 1..Len(texts) /\ Len(texts) \in Nat
  BY <1>1
<1>3. Segments = IF object.type = "TEXT"
                   THEN IF chunker.language = "go" THEN <<TrimSpace(texts[1])>> ELSE texts
                   ELSE [i \in DOMAIN texts |-> TrimSpace(texts[i])]
  BY DEF Segments
<1> HIDE DEF texts
<1>4. \A i \in DOMAIN texts : WellFormed(TrimSpace(texts[i]))
  BY <1>1, TrimSpaceIsText
<1>5. CASE object.type = "TEXT" /\ chunker.language = "go"
  <2>1. DOMAIN Segments = 1..1 /\ Segments[1] = TrimSpace(texts[1])
    BY <1>3, <1>5
  <2>2. WellFormed(TrimSpace(texts[1]))
    BY <1>1, <1>2, <1>4, <1>5
  <2>3. \A i \in 1..1 : WellFormed(Segments[i])
    BY <2>1, <2>2
  <2> QED BY <2>1, <2>3
<1>6. CASE object.type = "TEXT" /\ chunker.language # "go"
  BY <1>1, <1>2, <1>3, <1>6
<1>7. CASE object.type # "TEXT"
  <2>1. DOMAIN Segments = DOMAIN texts /\ \A i \in DOMAIN texts : Segments[i] = TrimSpace(texts[i])
    BY <1>3, <1>7
  <2> QED BY <1>2, <1>4, <2>1
<1> QED BY <1>5, <1>6, <1>7

\* The n-th segment with text is one.
LEMMA PagesHaveText ==
  ASSUME object \in Objects, NEW n \in 1..Cardinality(HaveText)
  PROVE  PageWithText(n) \in HaveText
<1>1. PICK N \in Nat : DOMAIN Segments = 1..N /\ \A i \in 1..N : WellFormed(Segments[i])
  BY SegmentsAreTexts
<1>2. HaveText \in SUBSET (1..N)
  BY <1>1 DEF HaveText
<1>3. \E i \in HaveText : Cardinality({j \in HaveText : j <= i}) = n
  BY <1>2, NthExists
<1> QED BY <1>3 DEF PageWithText

\* What is extracted are the segments that have text.
LEMMA ExtractedAreTexts ==
  ASSUME object \in Objects, NEW texts, texts = [i \in DOMAIN Extracted |-> Extracted[i].text]
  PROVE  texts \in Seq(Seq(Units)) /\ \A s \in DOMAIN texts : WellFormed(texts[s])
<1>1. PICK N \in Nat : DOMAIN Segments = 1..N /\ \A i \in 1..N : WellFormed(Segments[i])
  BY SegmentsAreTexts
<1> DEFINE count == Cardinality(HaveText)
<1>2. HaveText \in SUBSET (1..N)
  BY <1>1 DEF HaveText
<1>3. count \in Nat
  <2>1. IsFiniteSet(1..N)
    BY FS_Interval
  <2> QED BY <1>2, <2>1, FS_Subset, FS_CardinalityType
<1>4. \A n \in 1..count : PageWithText(n) \in 1..N
  <2>1. \A n \in 1..count : PageWithText(n) \in HaveText
    BY PagesHaveText
  <2> QED BY <1>2, <2>1
<1>5. /\ DOMAIN Extracted = 1..count
      /\ \A n \in 1..count : Extracted[n].text = Segments[PageWithText(n)]
  BY DEF Extracted
<1> HIDE DEF count
<1>6. DOMAIN texts = 1..count /\ \A n \in 1..count : WellFormed(texts[n])
  BY <1>1, <1>4, <1>5
<1>7. \A n \in 1..count : texts[n] \in Seq(Units)
  BY <1>6 DEF WellFormed
<1>8. texts = [n \in 1..count |-> texts[n]]
  BY <1>6
<1>9. texts \in Seq(Seq(Units))
  BY <1>3, <1>7, <1>8
<1> QED BY <1>6, <1>9


(***************************************************************************)
(* The whole path                                                          *)
(***************************************************************************)

Early == {"uploaded", "refused", "queued", "extract"}
Stages == Early \cup {"none", "split", "store", "generate", "ended"}
WorkType == [stage : Stages, retries : Nat, faults : Nat, next : Nat \ {0}]

WorkTyped ==
    /\ work \in WorkType
    /\ object \in Objects \cup {NoObject}

\* Nothing is split before a text has been extracted, and then from the start.
ContentInv ==
    /\ WorkTyped /\ ChunkInv
    /\ work.stage \in Early =>
           document = <<>> /\ segment = 1 /\ start = 0 /\ chunks = <<>> /\ result = "waiting"
    /\ work.stage = "extract" => object # NoObject

\* It holds at first, on a text of Inputs and on an upload.
LEMMA ContentInit == Init => ContentInv
<1> SUFFICES ASSUME Init PROVE ContentInv
  OBVIOUS
<1>1. SourceInit
  BY DEF Init
<1>2. CASE /\ ChunkInit /\ object = NoObject
           /\ work = [stage |-> "none", retries |-> 0, faults |-> 0, next |-> 1]
  <2>1. document \in Inputs /\ chunker.settings \in Settings
        /\ segment = 1 /\ start = 0 /\ chunks = <<>>
    BY <1>2 DEF ChunkInit
  <2>2. document \in Seq(Seq(Units)) /\ \A s \in DOMAIN document : WellFormed(document[s])
    BY <2>1, InputsAssumption
  <2>3. Fresh
    BY <2>1, <2>2 DEF Fresh
  <2>4. work.stage \notin Early /\ work.stage # "extract" /\ WorkTyped
    BY <1>2 DEF Early, Stages, WorkType, WorkTyped
  <2> QED BY <2>3, <2>4, FreshWalk DEF ContentInv
<1>3. CASE /\ object \in Objects
           /\ chunker \in [language : {"node", "go"}, settings : {c \in Settings : c.overlap < c.target}]
           /\ document = <<>> /\ segment = 1 /\ start = 0 /\ chunks = <<>> /\ result = "waiting"
           /\ work = [stage |-> "uploaded", retries |-> 0, faults |-> 0, next |-> 1]
  <2>1. Fresh
    BY <1>3 DEF Fresh
  <2>2. WorkTyped /\ work.stage # "extract"
    BY <1>3 DEF Early, Stages, WorkType, WorkTyped
  <2> QED BY <1>3, <2>1, <2>2, FreshWalk DEF ContentInv
<1> QED BY <1>1, <1>2, <1>3 DEF SourceInit

\* An attempt that failed leaves nothing behind.
LEMMA FinishKeeps ==
  ASSUME ContentInv, NEW failure, NEW faults \in Nat, Finish(failure, faults)
  PROVE  ContentInv' /\ result' = "waiting"
<1>1. /\ document' = <<>> /\ segment' = 1 /\ start' = 0 /\ chunks' = <<>> /\ result' = "waiting"
      /\ chunker' = chunker /\ object' = object
  BY DEF Finish, Forgotten
<1>2. WorkTyped /\ chunker.settings \in Settings
  BY DEF ContentInv, ChunkInv, WalkTyped
<1>3. WorkTyped' /\ work'.stage # "extract"
  <2>1. CASE work' = [stage |-> "queued", retries |-> work.retries + 1, faults |-> faults, next |-> 1]
    BY <1>1, <1>2, <2>1 DEF Early, Stages, WorkType, WorkTyped
  <2>2. CASE work' = [work EXCEPT !.stage = "ended", !.faults = faults]
    BY <1>1, <1>2, <2>2 DEF Early, Stages, WorkType, WorkTyped
  <2> QED BY <2>1, <2>2 DEF Finish
<1>4. Fresh'
  BY <1>1, <1>2 DEF Fresh
<1>5. Fresh' => ChunkInv'
  BY FreshWalk, PTL
<1> QED BY <1>1, <1>3, <1>4, <1>5 DEF ContentInv

\* A stage after the extraction that leaves the walk alone.
LEMMA LaterKeeps ==
  ASSUME ContentInv, UNCHANGED <<chunkVars, object>>,
         work' \in WorkType,
         work'.stage \notin Early
  PROVE  ContentInv'
<1>1. UNCHANGED <<chunker, document, segment, start, chunks>>
  BY DEF chunkVars
<1>2. ChunkInv'
  BY <1>1, ChunkInvStands DEF ContentInv
<1>3. WorkTyped'
  BY DEF ContentInv, WorkTyped
<1>4. work'.stage # "extract"
  BY DEF Early
<1> QED BY <1>2, <1>3, <1>4 DEF ContentInv

\* A stage before it.
LEMMA EarlierKeeps ==
  ASSUME ContentInv, work.stage \in Early, UNCHANGED chunkVars,
         work' \in WorkType,
         object' \in Objects \cup {NoObject}, work'.stage = "extract" => object' # NoObject
  PROVE  ContentInv'
<1>1. /\ UNCHANGED <<chunker, document, segment, start, chunks>>
      /\ result' = result
  BY DEF chunkVars
<1>2. ChunkInv'
  BY <1>1, ChunkInvStands DEF ContentInv
<1>3. WorkTyped'
  BY DEF WorkTyped
<1> QED BY <1>1, <1>2, <1>3 DEF ContentInv

\* The extraction hands texts to the chunker.
LEMMA ExtractKeeps ==
  ASSUME ContentInv, Extract
  PROVE  ContentInv' /\ (chunkVars' # chunkVars => result = "waiting")
<1>1. /\ WorkTyped /\ work.stage = "extract" /\ object \in Objects /\ result = "waiting"
      /\ document = <<>> /\ segment = 1 /\ start = 0 /\ chunks = <<>>
      /\ chunker.settings \in Settings
  BY DEF Extract, ContentInv, WorkTyped, Early, ChunkInv, WalkTyped
<1>2. work.faults \in Nat /\ work.faults + 1 \in Nat
  BY <1>1 DEF WorkType, WorkTyped
<1>3. CASE \E failure : Finish(failure, work.faults) \/ Finish(failure, work.faults + 1)
  BY <1>1, <1>2, <1>3, FinishKeeps
<1>4. CASE /\ document' = [i \in DOMAIN Extracted |-> Extracted[i].text]
           /\ work' = [work EXCEPT !.stage = "split"]
           /\ UNCHANGED <<chunker, segment, start, chunks, object>>
  <2>1. document' \in Seq(Seq(Units)) /\ \A s \in DOMAIN document' : WellFormed(document'[s])
    BY <1>1, <1>4, ExtractedAreTexts
  <2>2. Fresh'
    BY <1>1, <1>4, <2>1 DEF Fresh
  <2>3. Fresh' => ChunkInv'
    BY FreshWalk, PTL
  <2>4. WorkTyped' /\ work'.stage = "split"
    BY <1>1, <1>4 DEF Early, Stages, WorkType, WorkTyped
  <2> QED BY <1>1, <2>2, <2>3, <2>4 DEF ContentInv, Early
<1>5. \/ Finish(Final("PDF_INVALID"), work.faults)
      \/ Finish(Final("PDF_TEXT_NOT_FOUND"), work.faults)
      \/ Finish(Technical("PROCESSING_FAILED"), work.faults + 1)
      \/ /\ document' = [i \in DOMAIN Extracted |-> Extracted[i].text]
         /\ work' = [work EXCEPT !.stage = "split"]
         /\ UNCHANGED <<chunker, segment, start, chunks, object>>
  BY Zenon DEF Extract
<1> QED BY <1>3, <1>4, <1>5, Zenon

\* What every step of the whole path does to the walk: it keeps the invariant,
\* and a step that changes the walk and stays in its segment moves on.
Advances ==
    chunkVars' # chunkVars =>
        (segment' = segment /\ result = "running" /\ result' = "running" => start' > start)

\* The steps of the source.
LEMMA SourceStepKeeps ==
  ASSUME ContentInv, SourceStep \/ Read
  PROVE  ContentInv' /\ Advances
<1>1. WorkTyped /\ work \in WorkType /\ object \in Objects \cup {NoObject} /\ work.faults \in Nat
      /\ work.faults + 1 \in Nat
  BY DEF ContentInv, WorkTyped, WorkType
<1>2. ASSUME NEW failure, Finish(failure, work.faults) \/ Finish(failure, work.faults + 1)
      PROVE  ContentInv' /\ Advances
  <2>1. ContentInv' /\ result' = "waiting"
    BY <1>1, <1>2, FinishKeeps
  <2> QED BY <2>1 DEF Advances
<1>3. CASE ChunkStep /\ UNCHANGED sourceVars
  <2>1. result = "running"
    BY <1>3 DEF ChunkStep, Split, NextSegment, Return
  <2>2. work.stage \notin Early /\ work' = work /\ object' = object
    BY <1>3, <2>1 DEF ContentInv, sourceVars
  <2>3. ChunkInv' /\ Advances
    BY <1>3, ChunkStepKeeps DEF ContentInv, Advances
  <2>4. WorkTyped' /\ work'.stage # "extract"
    BY <1>1, <2>2 DEF WorkTyped, Early
  <2> QED BY <2>2, <2>3, <2>4 DEF ContentInv
<1>4. CASE Confirm
  <2>1. work.stage \in Early /\ UNCHANGED <<chunkVars, object>>
    BY <1>4 DEF Confirm, Early
  <2>2. work' \in WorkType /\ work'.stage # "extract"
    BY <1>1, <1>4 DEF Confirm, WorkType, Stages, Early
  <2> QED BY <1>1, <2>1, <2>2, EarlierKeeps DEF Advances
<1>5. CASE ObjectRemoved
  <2>1. work.stage \in Early /\ work.stage # "extract" /\ UNCHANGED <<chunkVars, work>>
    BY <1>5 DEF ObjectRemoved, Early
  <2>2. object' \in Objects \cup {NoObject}
    BY <1>5 DEF ObjectRemoved
  <2> QED BY <1>1, <2>1, <2>2, EarlierKeeps DEF Advances
<1>6. CASE Extract
  BY <1>6, ExtractKeeps DEF Advances
<1>7. CASE Chunked
  <2>1. CASE \E failure : Finish(failure, work.faults)
    BY <1>2, <2>1
  <2>2. CASE /\ work' = [work EXCEPT !.stage = IF chunker.language = "go" THEN "generate" ELSE "store"]
             /\ UNCHANGED <<chunkVars, object>>
    <3>1. work' \in WorkType /\ work'.stage \notin Early
      BY <1>1, <2>2 DEF WorkType, Stages, Early
    <3> QED BY <2>2, <3>1, LaterKeeps DEF Advances
  <2>3. \/ Finish(Final("CHUNK_RESOURCE_LIMIT_EXCEEDED"), work.faults)
        \/ /\ work' = [work EXCEPT !.stage = IF chunker.language = "go" THEN "generate" ELSE "store"]
           /\ UNCHANGED <<chunkVars, object>>
    BY <1>7 DEF Chunked
  <2> QED BY <2>1, <2>2, <2>3, Zenon
<1>8. CASE ReplaceForDocument
  <2>1. CASE \E failure : Finish(failure, work.faults)
    BY <1>2, <2>1
  <2>2. CASE /\ work' = [work EXCEPT !.stage = "generate"]
             /\ UNCHANGED <<chunkVars, object>>
    <3>1. work' \in WorkType /\ work'.stage \notin Early
      BY <1>1, <2>2 DEF WorkType, Stages, Early
    <3> QED BY <2>2, <3>1, LaterKeeps DEF Advances
  <2>3. \/ Finish(Final("PROCESSING_FAILED"), work.faults)
        \/ work' = [work EXCEPT !.stage = "generate"] /\ UNCHANGED <<chunkVars, object>>
    BY <1>8 DEF ReplaceForDocument
  <2> QED BY <2>1, <2>2, <2>3, Zenon
<1>9. CASE Read
  <2>1. CASE \E failure : Finish(failure, work.faults) \/ Finish(failure, work.faults + 1)
    BY <1>2, <2>1
  <2>2. CASE /\ work.stage = "queued" /\ object # NoObject
             /\ work' = [work EXCEPT !.stage = "extract"]
             /\ UNCHANGED <<chunkVars, object>>
    <3>1. work.stage \in Early /\ work' \in WorkType
      BY <1>1, <2>2 DEF WorkType, Stages, Early
    <3> QED BY <1>1, <2>2, <3>1, EarlierKeeps DEF Advances
  <2>3. \/ Finish(Final("EXTRACTION_OBJECT_NOT_FOUND"), work.faults)
        \/ Finish(Final("EXTRACTION_OBJECT_TOO_LARGE"), work.faults)
        \/ Finish(ClassifyObjectReadError, work.faults + 1)
        \/ /\ work.stage = "queued" /\ object # NoObject
           /\ work' = [work EXCEPT !.stage = "extract"]
           /\ UNCHANGED <<chunkVars, object>>
    BY <1>9 DEF Read
  <2> QED BY <2>1, <2>2, <2>3, Zenon
<1> QED BY <1>3, <1>4, <1>5, <1>6, <1>7, <1>8, <1>9 DEF SourceStep

\* All steps.
LEMMA ContentStep ==
  ASSUME ContentInv, [Next]_vars
  PROVE  ContentInv' /\ Advances
<1>1. WorkTyped /\ work \in WorkType /\ work.faults \in Nat
  BY DEF ContentInv, WorkTyped, WorkType
<1>2. ASSUME NEW failure, Finish(failure, work.faults)
      PROVE  ContentInv' /\ Advances
  <2>1. ContentInv' /\ result' = "waiting"
    BY <1>1, <1>2, FinishKeeps
  <2> QED BY <2>1 DEF Advances
<1>3. ASSUME UNCHANGED <<chunkVars, object, work>>
      PROVE  ContentInv' /\ Advances
  <2>1. UNCHANGED <<chunker, document, segment, start, chunks, result>>
    BY <1>3 DEF chunkVars
  <2>2. ChunkInv'
    BY <2>1, ChunkInvStands DEF ContentInv
  <2>3. WorkTyped' /\ work' = work /\ object' = object
    BY <1>1, <1>3 DEF ContentInv, WorkTyped
  <2> QED BY <1>3, <2>1, <2>2, <2>3 DEF ContentInv, Advances
<1>4. ASSUME work.stage = "generate", work' \in WorkType, work'.stage \notin Early,
             UNCHANGED <<chunkVars, object>>
      PROVE  ContentInv' /\ Advances
  BY <1>4, LaterKeeps DEF Advances
<1>5. CASE SourceStep \/ Read
  BY <1>5, SourceStepKeeps
<1>6. ASSUME NEW answer \in Answers, Preflight(answer) \/ Generate(answer)
      PROVE  ContentInv' /\ Advances
  <2>1. CASE Preflight(answer)
    <3>1. UNCHANGED <<chunkVars, object, work>>
      BY <2>1 DEF Preflight, sourceVars
    <3> QED BY <1>3, <3>1
  <2>2. CASE Generate(answer)
    <3>1. work.stage = "generate" /\ (\/ \E failure : Finish(failure, work.faults)
                                     \/ /\ work' = [work EXCEPT !.next = work.next + 1]
                                        /\ UNCHANGED <<chunkVars, object>>)
      BY <2>2, Zenon DEF Generate
    <3>2. CASE /\ work' = [work EXCEPT !.next = work.next + 1]
               /\ UNCHANGED <<chunkVars, object>>
      <4>1. work' \in WorkType /\ work'.stage \notin Early
        BY <1>1, <3>1, <3>2 DEF WorkType, Stages, Early
      <4> QED BY <1>4, <3>1, <3>2, <4>1
    <3> QED BY <1>2, <3>1, <3>2
  <2> QED BY <1>6, <2>1, <2>2
<1>7. ASSUME work.stage = "generate",
             \/ \E failure : Finish(failure, work.faults)
             \/ work' = [work EXCEPT !.stage = "ended"] /\ UNCHANGED <<chunkVars, object>>
      PROVE  ContentInv' /\ Advances
  <2>1. CASE work' = [work EXCEPT !.stage = "ended"] /\ UNCHANGED <<chunkVars, object>>
    <3>1. work' \in WorkType /\ work'.stage \notin Early
      BY <1>1, <2>1 DEF WorkType, Stages, Early
    <3> QED BY <1>4, <1>7, <2>1, <3>1
  <2> QED BY <1>2, <1>7, <2>1
<1>8. CASE PersistAndComplete
  <2>1. work.stage = "generate" /\ (\/ \E failure : Finish(failure, work.faults)
                                   \/ /\ work' = [work EXCEPT !.stage = "ended"]
                                      /\ UNCHANGED <<chunkVars, object>>)
    BY <1>8, Zenon DEF PersistAndComplete
  <2> QED BY <1>7, <2>1
<1>9. CASE HandoffPersist
  <2>1. work.stage = "generate" /\ (\/ \E failure : Finish(failure, work.faults)
                                   \/ /\ work' = [work EXCEPT !.stage = "ended"]
                                      /\ UNCHANGED <<chunkVars, object>>)
    BY <1>9, Zenon DEF HandoffPersist
  <2> QED BY <1>7, <2>1
<1>10. CASE ReturnRelay \/ SubmitAttempt \/ UNCHANGED vars
  <2>1. UNCHANGED <<chunkVars, object, work>>
    BY <1>10 DEF ReturnRelay, SubmitAttempt, vars, sourceVars
  <2> QED BY <1>3, <2>1
<1> QED BY <1>5, <1>6, <1>8, <1>9, <1>10 DEF Next

\* The invariant of the content path.
THEOREM ContentInvariant == Spec => []ContentInv
<1>1. Init => ContentInv
  BY ContentInit
<1>2. ContentInv /\ [Next]_vars => ContentInv'
  BY ContentStep
<1> QED BY <1>1, <1>2, PTL DEF Spec

\* Both chunkers, on every text and with all settings that the configuration
\* accepts: no character is lost at a cut, chunks keep their order and size, and
\* Node cuts at graphemes and records where it cut (chunk.service.ts, chunk.go).
THEOREM ChunksKeepText == Spec => []ChunksCoverText
<1>1. ContentInv => ChunksCoverText
  BY InvCoversText DEF ContentInv
<1> QED BY <1>1, ContentInvariant, PTL

\* Every turn of either loop moves on, whatever the text and the overlap, so no
\* segment keeps a worker forever.
THEOREM WalkAdvances == Spec => SplittingAdvances
<1>1. ContentInv /\ [Next]_vars =>
          [(segment' = segment /\ result = "running" /\ result' = "running") => start' > start]_chunkVars
  BY ContentStep DEF Advances
<1> QED BY <1>1, ContentInvariant, PTL DEF Spec, SplittingAdvances


(***************************************************************************)
(* The Quiz aggregate: the sort and what is accepted, candidate by         *)
(* candidate                                                               *)
(***************************************************************************)

\* The sort leaves a list alone that is in order.
LEMMA SortedIs ==
  ASSUME NEW S, NEW list \in Seq(S),
         \A i, j \in DOMAIN list : CompareCandidates(list[i], list[j]) <=> i < j
  PROVE  Sorted(list) = list
<1> DEFINE D == DOMAIN list
           Before(i) == {j \in D : \/ CompareCandidates(list[j], list[i])
                                   \/ ~CompareCandidates(list[i], list[j]) /\ j < i}
           Place(n) == CHOOSE i \in D : Cardinality(Before(i)) = n - 1
<1>1. Sorted(list) = [n \in D |-> list[Place(n)]]
  BY DEF Sorted
<1>2. D = 1..Len(list) /\ Len(list) \in Nat
  OBVIOUS
<1>3. ASSUME NEW i \in D
      PROVE  Cardinality(Before(i)) = i - 1
  <2>1. \A j \in D : j \in Before(i) <=> j < i
    OBVIOUS
  <2>2. i \in Nat /\ i > 0 /\ i <= Len(list)
    BY <1>2
  <2> HIDE DEF Before
  <2>3. Before(i) \in SUBSET D
    BY DEF Before
  <2> HIDE DEF D
  <2>5. \A j \in D : j \in Nat /\ 1 <= j
    BY <1>2
  <2>6. \A j \in 1..(i - 1) : j \in D /\ j < i
    BY <1>2, <2>2
  <2>7. \A j \in D : j < i => j \in 1..(i - 1)
    BY <2>2, <2>5
  <2>4. Before(i) = 1..(i - 1)
    BY <2>1, <2>3, <2>6, <2>7, Zenon
  <2> QED BY <2>2, <2>4, FS_Interval
<1> HIDE DEF Before
<1>4. ASSUME NEW n \in D
      PROVE  Place(n) = n
  <2>1. \E i \in D : Cardinality(Before(i)) = n - 1
    BY <1>3
  <2>2. Place(n) \in D /\ Cardinality(Before(Place(n))) = n - 1
    BY <2>1
  <2> HIDE DEF Place
  <2>3. Place(n) - 1 = n - 1
    BY <1>3, <2>2
  <2> QED BY <1>2, <2>2, <2>3
<1> HIDE DEF Place
<1>5. \A n \in D : list[Place(n)] = list[n]
  BY <1>4
<1>6. [n \in D |-> list[Place(n)]] = [n \in D |-> list[n]]
  BY <1>5
<1>7. list = [n \in D |-> list[n]]
  OBVIOUS
<1> QED BY <1>1, <1>6, <1>7

\* What the aggregate accepts of the first n candidates of a list.
AcceptStep(list, g, n) == IF n = 0 THEN <<>> ELSE Accept(g[n - 1], list[n])

\* The equation of the loop has a solution.
LEMMA AcceptExists ==
  ASSUME NEW list, NEW length \in Nat
  PROVE  \E g : g = [n \in 0..length |-> AcceptStep(list, g, n)]
<1> DEFINE Solved(m) == \E g : g = [n \in 0..m |-> AcceptStep(list, g, n)]
<1>1. Solved(0)
  <2> DEFINE g == [n \in 0..0 |-> <<>>]
  <2>1. g = [n \in 0..0 |-> AcceptStep(list, g, n)]
    BY DEF AcceptStep
  <2> QED BY <2>1
<1>2. ASSUME NEW m \in Nat, Solved(m)
      PROVE  Solved(m + 1)
  <2>1. PICK g : g = [n \in 0..m |-> AcceptStep(list, g, n)]
    BY <1>2
  <2> DEFINE h == [n \in 0..(m + 1) |-> AcceptStep(list, g, n)]
  <2>2. \A n \in 0..m : h[n] = g[n]
    BY <2>1
  <2>3. \A n \in 0..(m + 1) : n # 0 => n - 1 \in 0..m
    OBVIOUS
  <2>4. \A n \in 0..(m + 1) : AcceptStep(list, h, n) = AcceptStep(list, g, n)
    <3> HIDE DEF h
    <3> QED BY <2>2, <2>3 DEF AcceptStep
  <2>6. h = [n \in 0..(m + 1) |-> AcceptStep(list, g, n)]
    OBVIOUS
  <2>5. h = [n \in 0..(m + 1) |-> AcceptStep(list, h, n)]
    <3> HIDE DEF h
    <3> QED BY <2>4, <2>6
  <2> QED BY <2>5
<1> DEFINE Missing == {m \in Nat : ~Solved(m)}
<1> HIDE DEF Solved
<1>3. Missing = {}
  <2> SUFFICES ASSUME Missing # {} PROVE FALSE
    OBVIOUS
  <2>1. PICK n \in Missing : \A m \in Missing : n <= m
    BY LeastOf
  <2>2. n # 0 /\ n - 1 \in Nat /\ n - 1 \notin Missing
    BY <1>1, <2>1
  <2>3. Solved(n - 1)
    BY <2>2
  <2>4. Solved((n - 1) + 1)
    BY <1>2, <2>2, <2>3
  <2> QED BY <2>1, <2>4
<1>4. Solved(length)
  BY <1>3
<1> QED BY <1>4 DEF Solved

\* QuizCreate is the end of that loop.
LEMMA QuizCreateIs ==
  ASSUME NEW S, NEW list \in Seq(S), Sorted(list) = list
  PROVE  \E g : /\ g = [n \in 0..Len(list) |-> AcceptStep(list, g, n)]
                /\ QuizCreate(list) = g[Len(list)]
<1> DEFINE Solves(g) == g = [n \in 0..Len(list) |-> AcceptStep(list, g, n)]
           accepted == CHOOSE g : Solves(g)
<1>1. QuizCreate(list) = accepted[Len(list)]
  BY DEF QuizCreate, AcceptStep
<1>2. Len(list) \in Nat
  OBVIOUS
<1>3. \E g : Solves(g)
  BY <1>2, AcceptExists
<1>4. Solves(accepted)
  BY <1>3, Zenon
<1> QED BY <1>1, <1>4


(***************************************************************************)
(* Candidates, lists of them and quizzes                                   *)
(***************************************************************************)
\* A question candidate: what a decoder passed on, with its chunk and citation.
LocatorType == [kind : {"page"}, page : Nat] \cup [kind : {"text-range"}, start : Int, end : Int]
CandidateType ==
    [chunk : Nat, ordinal : Nat, key : Nat \X Nat, stem : Texts, explanation : Texts,
     options : Seq([content : Texts, isCorrect : BOOLEAN]), words : Seq(Words), locator : LocatorType]

\* It copies nothing long in Node, and cites a place that the upload has.
CandidateOK(c, uploaded, by) ==
    /\ by.language = "node" => ~Copies(c.words)
    /\ IsValidLocator(c.locator)
    /\ c.locator.kind = "page" => TrimSpace(uploaded.texts[c.locator.page]) # <<>>

\* The candidates of one attempt, numbered on through its chunks.
ListOK(list, uploaded, by) ==
    /\ list \in Seq(CandidateType)
    /\ \A i \in DOMAIN list : list[i].ordinal = i - 1 /\ CandidateOK(list[i], uploaded, by)
    /\ \A i, j \in DOMAIN list : i < j => list[i].chunk <= list[j].chunk

\* What the aggregate makes of them.
QuizOK(q, uploaded, by) ==
    /\ q \in Seq(CandidateType)
    /\ \A i \in DOMAIN q : /\ q[i].ordinal = i - 1
                           /\ QuestionCreate(q[i]) /\ CandidateOK(q[i], uploaded, by)
    /\ \A i, j \in DOMAIN q : i # j => NodeForm[q[i].stem] # NodeForm[q[j].stem]

\* A new number changes nothing else of a candidate.
LEMMA Renumbered ==
  ASSUME NEW c \in CandidateType, NEW n \in Nat, NEW uploaded, NEW by
  PROVE  LET r == [c EXCEPT !.ordinal = n] IN
         /\ r \in CandidateType /\ r.ordinal = n /\ r.stem = c.stem
         /\ QuestionCreate(c) => QuestionCreate(r)
         /\ CandidateOK(c, uploaded, by) => CandidateOK(r, uploaded, by)
<1> DEFINE r == [c EXCEPT !.ordinal = n]
<1>1. /\ r.ordinal = n /\ r.stem = c.stem /\ r.explanation = c.explanation
      /\ r.locator = c.locator /\ r.options = c.options /\ r.words = c.words
      /\ r \in CandidateType
  BY DEF CandidateType
<1> HIDE DEF r
<1>2. QuestionCreate(c) => QuestionCreate(r)
  BY <1>1, Zenon DEF QuestionCreate
<1>3. CandidateOK(c, uploaded, by) => CandidateOK(r, uploaded, by)
  BY <1>1, Zenon DEF CandidateOK
<1> QED BY <1>1, <1>2, <1>3 DEF r

\* Accepting one candidate more keeps what a quiz is: no gap in the numbers, no
\* stem twice.
LEMMA AcceptKeeps ==
  ASSUME NEW uploaded, NEW by, NEW q, QuizOK(q, uploaded, by),
         NEW c \in CandidateType, CandidateOK(c, uploaded, by)
  PROVE  QuizOK(Accept(q, c), uploaded, by)
<1> DEFINE n == Len(q)
           r == [c EXCEPT !.ordinal = n]
           s == Append(q, r)
<1>1. /\ q \in Seq(CandidateType) /\ n \in Nat /\ DOMAIN q = 1..n
      /\ \A i \in DOMAIN q : /\ q[i].ordinal = i - 1
                             /\ QuestionCreate(q[i]) /\ CandidateOK(q[i], uploaded, by)
      /\ \A i, j \in DOMAIN q : i # j => NodeForm[q[i].stem] # NodeForm[q[j].stem]
  BY DEF QuizOK
<1>2. /\ r \in CandidateType /\ r.ordinal = n /\ r.stem = c.stem
      /\ QuestionCreate(c) => QuestionCreate(r)
      /\ CandidateOK(c, uploaded, by) => CandidateOK(r, uploaded, by)
  BY <1>1, Renumbered
<1>3. CASE /\ QuestionCreate(c)
           /\ \A i \in DOMAIN q : NodeForm[q[i].stem] # NodeForm[c.stem] /\ q[i].key # c.key
  <2>1. Accept(q, c) = s
    BY <1>3 DEF Accept
  <2> HIDE DEF r
  <2>2. /\ s \in Seq(CandidateType) /\ Len(s) = n + 1 /\ DOMAIN s = 1..(n + 1)
        /\ s[n + 1] = r /\ \A i \in 1..n : s[i] = q[i]
    BY <1>1, <1>2
  <2> HIDE DEF s, n
  <2>3. ASSUME NEW i \in DOMAIN s
        PROVE  s[i].ordinal = i - 1 /\ QuestionCreate(s[i]) /\ CandidateOK(s[i], uploaded, by)
    <3>1. CASE i \in 1..n
      BY <1>1, <2>2, <3>1
    <3>2. CASE i = n + 1
      <4>1. i - 1 = n /\ s[i] = r
        BY <1>1, <2>2, <3>2
      <4> QED BY <1>2, <1>3, <4>1
    <3>3. i \in 1..n \/ i = n + 1
      BY <1>1, <2>2
    <3> QED BY <3>1, <3>2, <3>3
  <2>4. ASSUME NEW i \in DOMAIN s, NEW j \in DOMAIN s, i # j
        PROVE  NodeForm[s[i].stem] # NodeForm[s[j].stem]
    <3>1. (i \in 1..n \/ i = n + 1) /\ (j \in 1..n \/ j = n + 1)
      BY <1>1, <2>2
    <3>2. CASE i \in 1..n /\ j \in 1..n
      BY <1>1, <2>2, <2>4, <3>2
    <3>3. CASE i \in 1..n /\ j = n + 1
      <4>1. s[j] = r /\ s[i] = q[i] /\ i \in DOMAIN q
        BY <1>1, <2>2, <3>3
      <4> QED BY <1>2, <1>3, <4>1, Zenon
    <3>4. CASE i = n + 1 /\ j \in 1..n
      <4>1. s[i] = r /\ s[j] = q[j] /\ j \in DOMAIN q
        BY <1>1, <2>2, <3>4
      <4> QED BY <1>2, <1>3, <4>1, Zenon
    <3> QED BY <2>4, <3>1, <3>2, <3>3, <3>4
  <2>5. QuizOK(s, uploaded, by)
    BY <2>2, <2>3, <2>4 DEF QuizOK
  <2> QED BY <2>1, <2>5
<1>4. CASE ~(/\ QuestionCreate(c)
             /\ \A i \in DOMAIN q : NodeForm[q[i].stem] # NodeForm[c.stem] /\ q[i].key # c.key)
  <2>1. Accept(q, c) = q
    BY <1>4 DEF Accept
  <2> QED BY <2>1
<1> QED BY <1>3, <1>4

\* The candidates of an attempt are in order already.
LEMMA ListInOrder ==
  ASSUME NEW list, NEW uploaded, NEW by, ListOK(list, uploaded, by)
  PROVE  Sorted(list) = list
<1>1. /\ list \in Seq(CandidateType) /\ Len(list) \in Nat /\ DOMAIN list = 1..Len(list)
      /\ \A i \in DOMAIN list : list[i].ordinal = i - 1
      /\ \A i, j \in DOMAIN list : i < j => list[i].chunk <= list[j].chunk
  BY DEF ListOK
<1>2. ASSUME NEW i \in DOMAIN list, NEW j \in DOMAIN list
      PROVE  CompareCandidates(list[i], list[j]) <=> i < j
  <2>3. list[i] \in CandidateType /\ list[j] \in CandidateType
    BY <1>1
  <2>4. \A c \in CandidateType : c.chunk \in Nat
    BY DEF CandidateType
  <2>1. list[i].chunk \in Nat /\ list[j].chunk \in Nat
    BY <2>3, <2>4, Zenon
  <2>2. /\ list[i].ordinal = i - 1 /\ list[j].ordinal = j - 1
        /\ i < j => list[i].chunk <= list[j].chunk
        /\ j < i => list[j].chunk <= list[i].chunk
        /\ i \in Nat /\ j \in Nat
    BY <1>1
  <2> QED BY <2>1, <2>2 DEF CompareCandidates
<1> QED BY <1>1, <1>2, SortedIs

\* Whatever candidates an attempt hands over, what is accepted of them is a quiz.
LEMMA QuizCreated ==
  ASSUME NEW list, NEW uploaded, NEW by, ListOK(list, uploaded, by)
  PROVE  QuizOK(QuizCreate(list), uploaded, by)
<1>1. /\ list \in Seq(CandidateType) /\ Len(list) \in Nat /\ DOMAIN list = 1..Len(list)
      /\ \A i \in DOMAIN list : list[i] \in CandidateType /\ CandidateOK(list[i], uploaded, by)
  BY DEF ListOK
<1>2. PICK g : /\ g = [n \in 0..Len(list) |-> AcceptStep(list, g, n)]
               /\ QuizCreate(list) = g[Len(list)]
  BY <1>1, ListInOrder, QuizCreateIs
<1>3. \A n \in 0..Len(list) : g[n] = AcceptStep(list, g, n)
  BY <1>2
<1> DEFINE Bad == {n \in 0..Len(list) : ~QuizOK(g[n], uploaded, by)}
<1>4. Bad = {}
  <2> SUFFICES ASSUME Bad # {} PROVE FALSE
    OBVIOUS
  <2>1. Bad \in SUBSET Nat
    BY <1>1
  <2>2. PICK n \in Bad : \A m \in Bad : n <= m
    BY <2>1, LeastOf
  <2>3. n \in 0..Len(list) /\ ~QuizOK(g[n], uploaded, by)
    OBVIOUS
  <2>4. CASE n = 0
    <3>1. g[n] = <<>>
      BY <1>3, <2>3, <2>4 DEF AcceptStep
    <3>2. QuizOK(<<>>, uploaded, by)
      BY DEF QuizOK
    <3> QED BY <2>3, <3>1, <3>2
  <2>5. CASE n # 0
    <3>1. n - 1 \in 0..Len(list) /\ ~(n <= n - 1) /\ n \in DOMAIN list
      BY <1>1, <2>3, <2>5
    <3>2. QuizOK(g[n - 1], uploaded, by)
      BY <2>2, <3>1
    <3>3. g[n] = Accept(g[n - 1], list[n])
      BY <1>3, <2>3, <2>5 DEF AcceptStep
    <3>4. QuizOK(Accept(g[n - 1], list[n]), uploaded, by)
      BY <1>1, <3>1, <3>2, AcceptKeeps
    <3> QED BY <2>3, <3>3, <3>4
  <2> QED BY <2>4, <2>5
<1>5. Len(list) \in 0..Len(list)
  BY <1>1
<1> QED BY <1>2, <1>4, <1>5


(***************************************************************************)
(* Copies of the source                                                    *)
(***************************************************************************)

\* A part of a sequence, by its first index and its length.
LEMMA PartAt ==
  ASSUME NEW S, NEW d \in Seq(S), NEW i \in Nat \ {0}, NEW n \in Nat, i + n - 1 <= Len(d)
  PROVE  /\ SubSeq(d, i, i + n - 1) \in Seq(S)
         /\ Len(SubSeq(d, i, i + n - 1)) = n
         /\ \A j \in 1..n : SubSeq(d, i, i + n - 1)[j] = d[i + j - 1]
<1> DEFINE from == i - 1
           to == i + n - 1
<1>1. from \in Nat /\ to \in Nat /\ from <= to /\ to <= Len(d)
  OBVIOUS
<1>2. from + 1 = i /\ to - from = n /\ \A j \in 1..n : from + j = i + j - 1
  OBVIOUS
<1> HIDE DEF from, to
<1>3. /\ SubSeq(d, from + 1, to) \in Seq(S)
      /\ Len(SubSeq(d, from + 1, to)) = to - from
      /\ \A j \in 1..(to - from) : SubSeq(d, from + 1, to)[j] = d[from + j]
  BY <1>1, PartOfText
<1>4. /\ SubSeq(d, i, to) \in Seq(S)
      /\ Len(SubSeq(d, i, to)) = n
      /\ \A j \in 1..n : SubSeq(d, i, to)[j] = d[i + j - 1]
  BY <1>2, <1>3, Zenon
<1> QED BY <1>4 DEF to

\* The n words of w from i and those of s from k are the same.
SameWords(w, i, s, k, n) == SubSeq(w, i, i + n - 1) = SubSeq(s, k, k + n - 1)

\* Parts that are equal begin with equal parts.
LEMMA PrefixesAgree ==
  ASSUME NEW w \in Seq(Words), NEW s \in Seq(Words),
         NEW i \in Nat \ {0}, NEW k \in Nat \ {0}, NEW n \in Nat,
         i + n - 1 <= Len(w), k + n - 1 <= Len(s),
         SameWords(w, i, s, k, n), NEW m \in 0..n
  PROVE  SameWords(w, i, s, k, m)
<1> DEFINE S == Words
<1>1. \A j \in 1..n : w[i + j - 1] = s[k + j - 1]
  <2>1. \A j \in 1..n : SubSeq(w, i, i + n - 1)[j] = w[i + j - 1]
    BY PartAt
  <2>2. \A j \in 1..n : SubSeq(s, k, k + n - 1)[j] = s[k + j - 1]
    BY PartAt
  <2> QED BY <2>1, <2>2 DEF SameWords
<1>2. m \in Nat /\ i + m - 1 <= Len(w) /\ k + m - 1 <= Len(s) /\ \A j \in 1..m : j \in 1..n
  <2>1. Len(w) \in Nat /\ Len(s) \in Nat
    OBVIOUS
  <2> QED BY <2>1
<1> DEFINE u == SubSeq(w, i, i + m - 1)
           v == SubSeq(s, k, k + m - 1)
<1>3. u \in Seq(S) /\ Len(u) = m /\ \A j \in 1..m : u[j] = w[i + j - 1]
  BY <1>2, PartAt
<1>4. v \in Seq(S) /\ Len(v) = m /\ \A j \in 1..m : v[j] = s[k + j - 1]
  BY <1>2, PartAt
<1> HIDE DEF u, v
<1>5. \A j \in 1..m : u[j] = v[j]
  BY <1>1, <1>2, <1>3, <1>4, Zenon
<1>6. u = v
  BY <1>3, <1>4, <1>5
<1> QED BY <1>6 DEF u, v, SameWords

\* The lengths from which the shortest is taken, and that it is one of them.
QualifyingLengths(words, from) ==
    {n \in 1..MaximumTokens : /\ from + n - 1 <= Len(words)
                              /\ Qualifies(SubSeq(words, from, from + n - 1))}

\* FindShortestQualifyingLength finds the shortest, where there is one.
LEMMA ShortestIs ==
  ASSUME NEW words, NEW from, QualifyingLengths(words, from) # {}
  PROVE  /\ FindShortestQualifyingLength(words, from) \in QualifyingLengths(words, from)
         /\ \A n \in QualifyingLengths(words, from) : FindShortestQualifyingLength(words, from) <= n
<1> DEFINE L == QualifyingLengths(words, from)
<1>1. FindShortestQualifyingLength(words, from) = Min(L)
  BY DEF FindShortestQualifyingLength, QualifyingLengths
<1>2. L \in SUBSET Nat
  BY DEF QualifyingLengths
<1> HIDE DEF L
<1>3. L # {}
  BY DEF L
<1>4. Min(L) \in L /\ \A n \in L : Min(L) <= n
  BY <1>2, <1>3, MinOf
<1> QED BY <1>1, <1>4 DEF L

\* Comparing the shortest windows is enough: a longer sequence that the source
\* has too begins with a window of both (RejectIfCopied).
LEMMA CopiesAreFound ==
  ASSUME NEW words \in Seq(Words), Copies(words)
  PROVE  RejectIfCopied(words)
<1>1. SourceWords \in Seq(Words) /\ MinimumMatchTokens \in Nat \ {0} /\ MaximumTokens \in Nat
  BY AnswersAssumption, MatchAssumption
<1>2. PICK n \in MinimumMatchTokens..MaximumTokens, i \in DOMAIN words, k \in DOMAIN SourceWords :
        /\ i + n - 1 <= Len(words) /\ k + n - 1 <= Len(SourceWords)
        /\ SubSeq(words, i, i + n - 1) = SubSeq(SourceWords, k, k + n - 1)
        /\ Qualifies(SubSeq(words, i, i + n - 1))
  BY DEF Copies
<1>3. /\ n \in Nat /\ n \in 1..MaximumTokens /\ i \in Nat \ {0} /\ k \in Nat \ {0}
  BY <1>1
<1>17. i + n - 1 <= Len(words) /\ k + n - 1 <= Len(SourceWords)
  BY <1>2, Zenon
<1>18. SubSeq(words, i, i + n - 1) = SubSeq(SourceWords, k, k + n - 1)
  BY <1>2, Zenon
<1>4. \A m \in 0..n : SubSeq(words, i, i + m - 1) = SubSeq(SourceWords, k, k + m - 1)
  <2>1. SameWords(words, i, SourceWords, k, n)
    BY <1>18, Zenon DEF SameWords
  <2>2. words \in Seq(Words) /\ SourceWords \in Seq(Words)
    BY <1>1
  <2>3. \A m \in 0..n : SameWords(words, i, SourceWords, k, m)
    BY <1>3, <1>17, <2>1, <2>2, PrefixesAgree
  <2> QED BY <2>3, Zenon DEF SameWords
<1>5. \A m \in 0..n : i + m - 1 <= Len(words) /\ k + m - 1 <= Len(SourceWords)
  <2>1. Len(words) \in Nat /\ Len(SourceWords) \in Nat
    BY <1>1
  <2>2. PICK x \in Nat : x = Len(words)
    BY <2>1
  <2>3. PICK y \in Nat : y = Len(SourceWords)
    BY <2>1
  <2>4. i + n - 1 <= x /\ k + n - 1 <= y
    BY <1>17, <2>2, <2>3, Zenon
  <2>5. \A m \in 0..n : i + m - 1 <= x /\ k + m - 1 <= y
    BY <1>3, <2>2, <2>3, <2>4
  <2> QED BY <2>2, <2>3, <2>5, Zenon
<1>6. n \in QualifyingLengths(words, i) /\ n \in QualifyingLengths(SourceWords, k)
  <2>1. Qualifies(SubSeq(SourceWords, k, k + n - 1))
    BY <1>2
  <2> QED BY <1>2, <1>3, <2>1, Zenon DEF QualifyingLengths
<1>7. \A m \in 1..n : m \in QualifyingLengths(words, i) <=> m \in QualifyingLengths(SourceWords, k)
  <2>1. ASSUME NEW m \in 1..n
        PROVE  m \in QualifyingLengths(words, i) <=> m \in QualifyingLengths(SourceWords, k)
    <3>1. m \in 0..n /\ m \in 1..MaximumTokens
      BY <1>1, <1>3
    <3> QED BY <1>4, <1>5, <3>1, Zenon DEF QualifyingLengths
  <2> QED BY <2>1
<1> DEFINE a == FindShortestQualifyingLength(words, i)
           b == FindShortestQualifyingLength(SourceWords, k)
<1>8. a \in QualifyingLengths(words, i) /\ \A m \in QualifyingLengths(words, i) : a <= m
  BY <1>6, ShortestIs
<1>9. b \in QualifyingLengths(SourceWords, k)
      /\ \A m \in QualifyingLengths(SourceWords, k) : b <= m
  BY <1>6, ShortestIs
<1>10. a \in Nat /\ b \in Nat /\ a >= 1 /\ b >= 1
  BY <1>8, <1>9 DEF QualifyingLengths
<1> HIDE DEF a, b
<1>11. a \in 1..n /\ b \in 1..n
  BY <1>3, <1>6, <1>8, <1>9, <1>10
<1>12. a = b
  BY <1>7, <1>8, <1>9, <1>10, <1>11
<1>13. a \in 0..n
  BY <1>11
<1>14. SubSeq(words, i, i + a - 1) = SubSeq(SourceWords, k, k + b - 1)
  BY <1>4, <1>12, <1>13, Zenon
<1>15. SubSeq(words, i, i + a - 1) \in QualifyingWindows(words)
  <2>1. a > 0 /\ i \in DOMAIN words
    BY <1>10
  <2> QED BY <2>1, Zenon DEF QualifyingWindows, a
<1>16. SubSeq(SourceWords, k, k + b - 1) \in QualifyingWindows(SourceWords)
  <2>1. b > 0 /\ k \in DOMAIN SourceWords
    BY <1>10
  <2> QED BY <2>1, Zenon DEF QualifyingWindows, b
<1> QED BY <1>14, <1>15, <1>16 DEF RejectIfCopied


(***************************************************************************)
(* From the text to the graded attempt                                     *)
(***************************************************************************)

\* A segment with a page has the text of that page.
PagesOK ==
    work.stage \in {"split", "store", "generate"} =>
        /\ object \in Objects
        /\ DOMAIN pages = DOMAIN document
        /\ \A s \in DOMAIN pages :
               pages[s] \in Nat /\ (pages[s] > 0 => TrimSpace(object.texts[pages[s]]) # <<>>)

\* Candidates come from chunks already done.
QuestionsOK ==
    /\ ListOK(questions, object, chunker)
    /\ \A i \in DOMAIN questions : questions[i].chunk < work.next
    /\ questions # <<>> => work.stage \in {"generate", "ended"}

Codes == DocumentProcessingFailureCode \cup {Null}

\* The event says how the attempt ended; READY without questions means that the
\* quiz is stored.
EventOK ==
    /\ DOMAIN event = {"status", "code", "questions", "published"}
    /\ event.status \in {"none", "READY", "FAILED"} /\ event.code \in Codes
    /\ event.questions = {} \/ \E list : event.questions = {list} /\ ListOK(list, object, chunker)
    /\ event.questions # {} => event.status = "READY"
    /\ event.status = "READY" /\ event.questions = {} => quiz # <<>>
    /\ event.status # "none" \/ quiz # <<>> => work.stage = "ended"

\* No document is READY without its quiz.
RowOK ==
    /\ row \in [status : {"UPLOADED", "PROCESSING", "READY", "FAILED"}, code : Codes]
    /\ row.status = "READY" => quiz # <<>>

StoredOK == QuizOK(quiz, object, chunker)

AttemptOK ==
    /\ attempt # NoAttempt => quiz # <<>>
    /\ GradedAttemptsReadBack

PathInv == PagesOK /\ QuestionsOK /\ EventOK /\ RowOK /\ StoredOK /\ AttemptOK

\* Nothing is a list of candidates, and a quiz.
LEMMA NothingIsOK ==
  ASSUME NEW uploaded, NEW by
  PROVE  ListOK(<<>>, uploaded, by) /\ QuizOK(<<>>, uploaded, by)
BY DEF ListOK, QuizOK

\* An attempt stays what it was while the quiz does.
LEMMA AttemptStands == AttemptOK /\ UNCHANGED <<quiz, attempt>> => AttemptOK'
<1> SUFFICES ASSUME AttemptOK, UNCHANGED <<quiz, attempt>>
             PROVE  AttemptOK'
  OBVIOUS
<1>1. FindServed' = FindServed
  BY DEF FindServed
<1>2. \A id : FindForGrading(id)' = FindForGrading(id)
  BY DEF FindForGrading
<1>3. \A selection : GradePracticeFeedback(selection)' = GradePracticeFeedback(selection)
  BY <1>2 DEF GradePracticeFeedback
<1>4. FindAttempt' = FindAttempt
  BY <1>2 DEF FindAttempt
<1> QED BY <1>1, <1>3, <1>4 DEF AttemptOK, GradedAttemptsReadBack

\* A step that leaves all that follows the chunks alone.
LEMMA PathStands ==
  ASSUME PathInv,
         UNCHANGED <<chunker, document, object, pages, work, questions, event, row, quiz, attempt>>
  PROVE  PathInv'
<1>1. AttemptOK'
  BY AttemptStands DEF PathInv
<1>2. PagesOK' /\ RowOK' /\ StoredOK'
  BY DEF PathInv, PagesOK, RowOK, StoredOK
<1>3. QuestionsOK' /\ EventOK'
  BY DEF PathInv, QuestionsOK, EventOK
<1> QED BY <1>1, <1>2, <1>3 DEF PathInv

\* Before the generation there is nothing to lose.
LEMMA NothingYet ==
  ASSUME PathInv
  PROVE  /\ work.stage # "ended" => event.status = "none" /\ event.questions = {} /\ quiz = <<>>
                                     /\ row.status # "READY"
         /\ work.stage \notin {"generate", "ended"} => questions = <<>>
  BY DEF PathInv, EventOK, QuestionsOK, RowOK

\* It holds at first.
LEMMA PathInit == Init => PathInv
<1> SUFFICES ASSUME Init PROVE PathInv
  OBVIOUS
<1>1. /\ SourceInit /\ quiz = <<>> /\ attempt = NoAttempt
      /\ questions = <<>> /\ event = NoEvent /\ row = [status |-> "UPLOADED", code |-> Null]
      /\ work.stage \in {"none", "uploaded"}
  BY DEF Init, SourceInit
<1>2. PagesOK /\ QuestionsOK
  BY <1>1, NothingIsOK DEF PagesOK, QuestionsOK
<1>3. EventOK /\ RowOK
  BY <1>1 DEF EventOK, RowOK, NoEvent, Codes
<1>4. StoredOK
  BY <1>1, NothingIsOK DEF StoredOK
<1>5. AttemptOK
  BY <1>1 DEF AttemptOK, GradedAttemptsReadBack
<1> QED BY <1>2, <1>3, <1>4, <1>5 DEF PathInv


\* A failed attempt: another one, or the failure as the result.
LEMMA FinishPath ==
  ASSUME PathInv, work \in WorkType, work.stage # "ended",
         NEW failure, failure.code \in Codes, NEW faults \in Nat, Finish(failure, faults),
         UNCHANGED <<quiz, attempt>>
  PROVE  PathInv'
<1>1. /\ questions' = <<>> /\ chunker' = chunker /\ object' = object /\ row' = row
      /\ event.status = "none" /\ event.questions = {} /\ quiz = <<>>
  BY NothingYet DEF Finish, Forgotten
<1>2. ListOK(<<>>, object, chunker)
  BY NothingIsOK
<1>3. AttemptOK' /\ StoredOK' /\ RowOK'
  <2>1. AttemptOK'
    BY AttemptStands DEF PathInv
  <2>2. StoredOK' /\ RowOK'
    BY <1>1 DEF PathInv, StoredOK, RowOK
  <2> QED BY <2>1, <2>2
<1>4. CASE work' = [stage |-> "queued", retries |-> work.retries + 1, faults |-> faults, next |-> 1]
           /\ event' = event
  <2>1. PagesOK' /\ QuestionsOK'
    BY <1>1, <1>2, <1>4 DEF PagesOK, QuestionsOK
  <2>2. EventOK'
    BY <1>1, <1>4 DEF PathInv, EventOK
  <2> QED BY <1>3, <2>1, <2>2 DEF PathInv
<1>5. CASE work' = [work EXCEPT !.stage = "ended", !.faults = faults]
           /\ event' = [status |-> "FAILED", code |-> failure.code, questions |-> {}, published |-> FALSE]
  <2>1. work'.stage = "ended"
    BY <1>5 DEF WorkType
  <2>2. PagesOK' /\ QuestionsOK'
    BY <1>1, <1>2, <2>1 DEF PagesOK, QuestionsOK
  <2>3. EventOK'
    BY <1>1, <1>5, <2>1 DEF EventOK
  <2> QED BY <1>3, <2>2, <2>3 DEF PathInv
<1> QED BY <1>4, <1>5 DEF Finish, Publish

\* A step to another stage, with nothing published.
LEMMA StagePath ==
  ASSUME PathInv, work \in WorkType, work.stage # "ended", NEW stage \in Stages, stage # "ended",
         work' = [work EXCEPT !.stage = stage], PagesOK',
         questions # <<>> => stage = "generate",
         RowOK' \/ row' = row,
         UNCHANGED <<chunker, object, questions, event, quiz, attempt>>
  PROVE  PathInv'
<1>1. work'.stage = stage /\ work'.next = work.next
  BY DEF WorkType
<1>2. event.status = "none" /\ event.questions = {} /\ quiz = <<>>
  BY NothingYet
<1>3. QuestionsOK'
  BY <1>1 DEF PathInv, QuestionsOK
<1>4. EventOK' /\ RowOK'
  BY <1>2 DEF PathInv, EventOK, RowOK
<1>5. AttemptOK'
  BY AttemptStands DEF PathInv
<1>6. StoredOK'
  BY DEF PathInv, StoredOK
<1> QED BY <1>3, <1>4, <1>5, <1>6 DEF PathInv

\* The extraction: every segment with the page it is from, if it is from one.
LEMMA ExtractedPages ==
  ASSUME object \in Objects, NEW p,
         p = [i \in DOMAIN Extracted |-> IF object.type = "PDF" THEN Extracted[i].page ELSE 0]
  PROVE  /\ DOMAIN p = DOMAIN Extracted
         /\ \A s \in DOMAIN p : p[s] \in Nat /\ (p[s] > 0 => TrimSpace(object.texts[p[s]]) # <<>>)
<1>1. DOMAIN p = 1..Cardinality(HaveText) /\ DOMAIN p = DOMAIN Extracted
  BY DEF Extracted
<1>2. ASSUME NEW s \in DOMAIN p
      PROVE  p[s] \in Nat /\ (p[s] > 0 => TrimSpace(object.texts[p[s]]) # <<>>)
  <2>1. PageWithText(s) \in HaveText
    BY <1>1, PagesHaveText
  <2>2. CASE object.type = "PDF"
    <3>1. p[s] = PageWithText(s)
      BY <1>1, <2>2 DEF Extracted
    <3>2. Segments = [i \in DOMAIN object.texts |-> TrimSpace(object.texts[i])]
      BY <2>2 DEF Segments
    <3>3. object.texts \in Seq(Seq(Units))
      BY ObjectsAssumption
    <3>4. PageWithText(s) \in DOMAIN object.texts /\ Segments[PageWithText(s)] # <<>>
      BY <2>1, <3>2 DEF HaveText
    <3>5. PageWithText(s) \in Nat
      BY <3>3, <3>4
    <3> QED BY <3>1, <3>2, <3>4, <3>5
  <2>3. CASE object.type # "PDF"
    <3>1. p[s] = 0
      BY <1>1, <2>3
    <3> QED BY <3>1
  <2> QED BY <2>2, <2>3
<1> QED BY <1>1, <1>2

\* The extraction.
LEMMA ExtractPath ==
  ASSUME ContentInv, PathInv, Extract, UNCHANGED <<quiz, attempt>>
  PROVE  PathInv'
<1>1. /\ work \in WorkType /\ work.stage = "extract" /\ object \in Objects
      /\ work.faults \in Nat /\ work.faults + 1 \in Nat
  BY DEF Extract, ContentInv, WorkTyped, WorkType
<1>2. Final("PDF_INVALID").code \in Codes /\ Final("PDF_TEXT_NOT_FOUND").code \in Codes
      /\ Technical("PROCESSING_FAILED").code \in Codes
  BY DEF Final, Technical, Codes, DocumentProcessingFailureCode
<1>3. ASSUME NEW failure, failure.code \in Codes, NEW faults \in Nat, Finish(failure, faults)
      PROVE  PathInv'
  BY <1>1, <1>3, FinishPath
<1>4. CASE /\ document' = [i \in DOMAIN Extracted |-> Extracted[i].text]
           /\ pages' = [i \in DOMAIN Extracted |-> IF object.type = "PDF" THEN Extracted[i].page ELSE 0]
           /\ work' = [work EXCEPT !.stage = "split"]
           /\ UNCHANGED <<chunker, object, questions, event, row>>
  <2>1. /\ DOMAIN pages' = DOMAIN Extracted
        /\ \A s \in DOMAIN pages' :
               pages'[s] \in Nat /\ (pages'[s] > 0 => TrimSpace(object.texts[pages'[s]]) # <<>>)
    <3> DEFINE p == [i \in DOMAIN Extracted |-> IF object.type = "PDF" THEN Extracted[i].page ELSE 0]
    <3>1. /\ DOMAIN p = DOMAIN Extracted
          /\ \A s \in DOMAIN p : p[s] \in Nat /\ (p[s] > 0 => TrimSpace(object.texts[p[s]]) # <<>>)
      BY <1>1, ExtractedPages
    <3>2. pages' = p
      BY <1>4
    <3> HIDE DEF p
    <3> QED BY <3>1, <3>2
  <2>2. DOMAIN document' = DOMAIN Extracted /\ object' = object
    BY <1>4
  <2>3. PagesOK'
    BY <1>1, <2>1, <2>2 DEF PagesOK
  <2>4. questions = <<>>
    BY <1>1, NothingYet
  <2> QED BY <1>1, <1>4, <2>3, <2>4, StagePath DEF Stages, Early
<1>5. \/ Finish(Final("PDF_INVALID"), work.faults)
      \/ Finish(Final("PDF_TEXT_NOT_FOUND"), work.faults)
      \/ Finish(Technical("PROCESSING_FAILED"), work.faults + 1)
      \/ /\ document' = [i \in DOMAIN Extracted |-> Extracted[i].text]
         /\ pages' = [i \in DOMAIN Extracted |-> IF object.type = "PDF" THEN Extracted[i].page ELSE 0]
         /\ work' = [work EXCEPT !.stage = "split"]
         /\ UNCHANGED <<chunker, object, questions, event, row>>
  BY Zenon DEF Extract
<1> QED BY <1>1, <1>2, <1>3, <1>4, <1>5, Zenon


\* The steps of the source, with the quiz and the attempt left alone.
LEMMA SourceStepPath ==
  ASSUME ContentInv, PathInv, SourceStep \/ Read, UNCHANGED <<quiz, attempt>>
  PROVE  PathInv'
<1>1. /\ work \in WorkType /\ work.faults \in Nat /\ work.faults + 1 \in Nat
      /\ object \in Objects \cup {NoObject}
  BY DEF ContentInv, WorkTyped, WorkType
<1>2. ASSUME NEW code, code \in Codes, work.stage # "ended",
             NEW failure, failure \in {Final(code), Technical(code)},
             Finish(failure, work.faults) \/ Finish(failure, work.faults + 1)
      PROVE  PathInv'
  <2>1. failure.code \in Codes
    BY <1>2 DEF Final, Technical
  <2> QED BY <1>1, <1>2, <2>1, FinishPath
<1>3. {"CHUNK_RESOURCE_LIMIT_EXCEEDED", "EXTRACTION_OBJECT_NOT_FOUND",
       "EXTRACTION_OBJECT_TOO_LARGE", "PROCESSING_FAILED"} \subseteq Codes
  BY DEF Codes, DocumentProcessingFailureCode
<1>4. CASE ChunkStep /\ UNCHANGED sourceVars
  <2>1. UNCHANGED <<chunker, document>>
    BY <1>4 DEF ChunkStep, Split, NextSegment, Return
  <2>2. UNCHANGED <<object, pages, work, questions, event, row>>
    BY <1>4 DEF sourceVars
  <2> QED BY <2>1, <2>2, PathStands
<1>5. CASE Confirm
  <2>1. /\ work.stage \in {"uploaded", "refused"}
        /\ UNCHANGED <<chunker, document, object, pages, questions, event>>
    BY <1>5 DEF Confirm, chunkVars
  <2>2. PICK stage \in {"queued", "refused"} : work' = [work EXCEPT !.stage = stage]
    BY <1>5 DEF Confirm
  <2>3. PagesOK'
    <3>1. work'.stage = stage
      BY <1>1, <2>2 DEF WorkType
    <3> QED BY <3>1 DEF PagesOK
  <2>4. RowOK'
    <3>1. row' = [row EXCEPT !.status = "PROCESSING"] \/ row' = row
      BY <1>5 DEF Confirm
    <3>2. RowOK /\ quiz' = quiz
      BY DEF PathInv
    <3>3. row' = row => RowOK'
      BY <3>2 DEF RowOK
    <3>4. row' = [row EXCEPT !.status = "PROCESSING"] => row'.status = "PROCESSING" /\ row'.code = row.code
      <4>1. row \in [status : {"UPLOADED", "PROCESSING", "READY", "FAILED"}, code : Codes]
        BY DEF PathInv, RowOK
      <4> QED BY <4>1
    <3> QED BY <3>1, <3>2, <3>3, <3>4 DEF RowOK
  <2>5. questions = <<>>
    BY <2>1, NothingYet
  <2> QED BY <1>1, <2>1, <2>2, <2>3, <2>4, <2>5, StagePath DEF Stages, Early
<1>6. CASE ObjectRemoved
  <2>1. /\ work.stage \in {"uploaded", "refused", "queued"}
        /\ UNCHANGED <<chunker, document, pages, work, questions, event, row>>
    BY <1>6 DEF ObjectRemoved, chunkVars
  <2>2. questions = <<>> /\ event.questions = {} /\ quiz = <<>> /\ event.status = "none"
    BY <2>1, NothingYet
  <2>3. PagesOK' /\ QuestionsOK'
    <3>1. ListOK(<<>>, object', chunker')
      BY NothingIsOK
    <3> QED BY <2>1, <2>2, <3>1 DEF PagesOK, QuestionsOK
  <2>4. EventOK' /\ RowOK'
    BY <2>1, <2>2 DEF PathInv, EventOK, RowOK
  <2>5. StoredOK'
    <3>1. QuizOK(<<>>, object', chunker')
      BY NothingIsOK
    <3> QED BY <2>2, <3>1 DEF StoredOK
  <2>6. AttemptOK'
    BY AttemptStands DEF PathInv
  <2> QED BY <2>3, <2>4, <2>5, <2>6 DEF PathInv
<1>7. CASE Extract
  BY <1>7, ExtractPath
<1>8. CASE Chunked
  <2>1. /\ work.stage = "split"
        /\ \/ Finish(Final("CHUNK_RESOURCE_LIMIT_EXCEEDED"), work.faults)
           \/ /\ work' = [work EXCEPT !.stage = IF chunker.language = "go" THEN "generate" ELSE "store"]
              /\ UNCHANGED <<chunkVars, object, pages, questions, event, row>>
    BY <1>8 DEF Chunked
  <2>2. CASE /\ work' = [work EXCEPT !.stage = IF chunker.language = "go" THEN "generate" ELSE "store"]
             /\ UNCHANGED <<chunkVars, object, pages, questions, event, row>>
    <3>1. PICK stage \in {"generate", "store"} : work' = [work EXCEPT !.stage = stage]
      BY <2>2
    <3>2. UNCHANGED <<chunker, document>>
      BY <2>2 DEF chunkVars
    <3>3. PagesOK'
      BY <2>1, <2>2, <3>2 DEF PathInv, PagesOK
    <3>4. questions = <<>>
      BY <2>1, NothingYet
    <3> QED BY <1>1, <2>1, <2>2, <3>1, <3>2, <3>3, <3>4, StagePath DEF Stages, Early
  <2> QED BY <1>2, <1>3, <2>1, <2>2
<1>9. CASE ReplaceForDocument
  <2>1. /\ work.stage = "store"
        /\ \/ Finish(Final("PROCESSING_FAILED"), work.faults)
           \/ /\ work' = [work EXCEPT !.stage = "generate"]
              /\ UNCHANGED <<chunkVars, object, pages, questions, event, row>>
    BY <1>9 DEF ReplaceForDocument
  <2>2. CASE /\ work' = [work EXCEPT !.stage = "generate"]
             /\ UNCHANGED <<chunkVars, object, pages, questions, event, row>>
    <3>1. UNCHANGED <<chunker, document>>
      BY <2>2 DEF chunkVars
    <3>2. PagesOK'
      BY <2>1, <2>2, <3>1 DEF PathInv, PagesOK
    <3> QED BY <1>1, <2>1, <2>2, <3>1, <3>2, StagePath DEF Stages, Early
  <2> QED BY <1>2, <1>3, <2>1, <2>2
<1>10. CASE Read
  <2>1. /\ work.stage = "queued"
        /\ \/ Finish(Final("EXTRACTION_OBJECT_NOT_FOUND"), work.faults)
           \/ Finish(Final("EXTRACTION_OBJECT_TOO_LARGE"), work.faults)
           \/ Finish(ClassifyObjectReadError, work.faults + 1)
           \/ /\ work' = [work EXCEPT !.stage = "extract"]
              /\ UNCHANGED <<chunkVars, object, pages, questions, event, row>>
    BY <1>10 DEF Read
  <2>2. ClassifyObjectReadError \in {Technical("PROCESSING_FAILED"), Final("EXTRACTION_OBJECT_NOT_FOUND")}
    BY DEF ClassifyObjectReadError
  <2>3. CASE /\ work' = [work EXCEPT !.stage = "extract"]
             /\ UNCHANGED <<chunkVars, object, pages, questions, event, row>>
    <3>1. UNCHANGED <<chunker, document>>
      BY <2>3 DEF chunkVars
    <3>2. PagesOK'
      <4>1. work'.stage = "extract"
        BY <1>1, <2>3 DEF WorkType
      <4> QED BY <4>1 DEF PagesOK
    <3>3. questions = <<>>
      BY <2>1, NothingYet
    <3> QED BY <1>1, <2>1, <2>3, <3>1, <3>2, <3>3, StagePath DEF Stages, Early
  <2>4. CASE Finish(ClassifyObjectReadError, work.faults + 1)
    <3>1. PICK failure : failure = ClassifyObjectReadError
      OBVIOUS
    <3>2. Finish(failure, work.faults + 1)
          /\ failure \in {Technical("PROCESSING_FAILED"), Final("EXTRACTION_OBJECT_NOT_FOUND")}
      BY <2>2, <2>4, <3>1
    <3>3. failure.code \in Codes
      BY <1>3, <3>2 DEF Final, Technical
    <3> QED BY <1>1, <2>1, <3>2, <3>3, FinishPath
  <2> QED BY <1>2, <1>3, <2>1, <2>3, <2>4
<1> QED BY <1>4, <1>5, <1>6, <1>7, <1>8, <1>9, <1>10 DEF SourceStep


(***************************************************************************)
(* The answers of the provider                                             *)
(***************************************************************************)

\* Every code that a call can fail with is one that documents know; and Node
\* passes no answer on that copies the source.
LEMMA NodeGenerates ==
  ASSUME NEW answer \in Answers
  PROVE  /\ NodeGenerate(answer).code \in Codes
         /\ NodeGenerate(answer) = NoFailure => ~Copies(answer.words)
<1>1. NodeProvider(answer) \in {"ok", "PROVIDER_UNAVAILABLE", "PROCESSING_FAILED",
                                "GENERATION_OUTPUT_INVALID", "GENERATION_OUTPUT_TRUNCATED"}
  BY DEF NodeProvider, GenerateResponse, GenerateChatCompletion, ParseGeneratedOutput
<1>2. CASE NodeProvider(answer) # "ok"
  <2>1. NodeGenerate(answer) = Final(NodeProvider(answer))
    BY <1>2 DEF NodeGenerate
  <2>2. NodeProvider(answer) \in Codes /\ NodeProvider(answer) # Null
    BY <1>1, <1>2 DEF Codes, DocumentProcessingFailureCode, Null
  <2> QED BY <2>1, <2>2 DEF Final, NoFailure
<1>3. CASE NodeProvider(answer) = "ok"
  <2>1. answer.words \in Seq(Words)
    BY AnswersAssumption
  <2>2. Copies(answer.words) => RejectIfCopied(answer.words)
    BY <2>1, CopiesAreFound
  <2>3. NodeGenerate(answer) =
          IF answer.json = "extraKeys" \/ RejectIfCopied(answer.words)
            THEN Final("GENERATION_OUTPUT_INVALID") ELSE NoFailure
    BY <1>3, Zenon DEF NodeGenerate
  <2>4. Final("GENERATION_OUTPUT_INVALID") # NoFailure
    BY DEF Final, NoFailure, Null
  <2>5. Final("GENERATION_OUTPUT_INVALID").code \in Codes /\ NoFailure.code \in Codes
    BY DEF Final, NoFailure, Codes, DocumentProcessingFailureCode
  <2>6. CASE answer.json = "extraKeys" \/ RejectIfCopied(answer.words)
    BY <2>3, <2>4, <2>5, <2>6, Zenon
  <2>7. CASE ~(answer.json = "extraKeys" \/ RejectIfCopied(answer.words))
    BY <2>2, <2>3, <2>5, <2>7, Zenon
  <2> QED BY <2>6, <2>7
<1> QED BY <1>2, <1>3

\* The same of the Go worker, which asks for no more than the texts.
LEMMA GoGenerates ==
  ASSUME NEW answer \in Answers
  PROVE  GoGenerate(answer).code \in Codes
<1>1. DecodeResponse(answer) \in {"ok", "GENERATION_OUTPUT_INVALID", "GENERATION_OUTPUT_TRUNCATED"}
  BY DEF DecodeResponse
<1>2. GoGenerate(answer) \in {Technical("PROVIDER_UNAVAILABLE"), Technical("GENERATION_OUTPUT_TRUNCATED"),
                              Final("GENERATION_OUTPUT_INVALID"), NoFailure}
  BY <1>1, Zenon DEF GoGenerate
<1> QED BY <1>2 DEF Technical, Final, NoFailure, Codes, DocumentProcessingFailureCode

\* A citation names a page that has text, or a range.
LEMMA Cited ==
  ASSUME ContentInv, PathInv, work.stage = "generate", NEW n \in DOMAIN chunks
  PROVE  LET l == LocatorOf(chunks[n]) IN
         /\ l \in LocatorType /\ IsValidLocator(l)
         /\ l.kind = "page" => TrimSpace(object.texts[l.page]) # <<>>
<1> DEFINE k == chunks[n]
<1>1. chunks \in Seq(ChunkType) /\ ChunkOK(k, document, chunker)
  BY DEF ContentInv, ChunkInv, WalkTyped, ChunksOK
<1>2. k \in ChunkType
  BY <1>1
<1>3. k.segment \in DOMAIN document /\ k.locator.start \in Nat /\ k.locator.start < k.locator.end
  BY <1>1 DEF ChunkOK
<1>4. k.locator.start \in Int /\ k.locator.end \in Int
  BY <1>2 DEF ChunkType
<1> HIDE DEF k
<1> DEFINE page == pages[k.segment]
<1>5. page \in Nat /\ (page > 0 => TrimSpace(object.texts[page]) # <<>>)
  BY <1>3 DEF PathInv, PagesOK
<1>6. LocatorOf(k) = IF page > 0 THEN [kind |-> "page", page |-> page]
                     ELSE [kind |-> "text-range", start |-> k.locator.start, end |-> k.locator.end]
  BY DEF LocatorOf
<1> HIDE DEF page
<1>7. CASE page > 0
  <2>1. LocatorOf(k) = [kind |-> "page", page |-> page]
    BY <1>6, <1>7
  <2> QED BY <1>5, <1>7, <2>1 DEF k, LocatorType, IsValidLocator
<1>8. CASE ~(page > 0)
  <2>1. PICK from \in Nat : from = k.locator.start
    BY <1>3
  <2>2. PICK to \in Int : to = k.locator.end
    BY <1>4
  <2>3. LocatorOf(k) = [kind |-> "text-range", start |-> from, end |-> to] /\ from < to
    BY <1>3, <1>6, <1>8, <2>1, <2>2
  <2> DEFINE l == [kind |-> "text-range", start |-> from, end |-> to]
  <2>4. l.kind = "text-range" /\ l.start = from /\ l.end = to /\ l \in LocatorType
    BY DEF LocatorType
  <2> HIDE DEF l
  <2>5. IsValidLocator(l) /\ l.kind # "page"
    BY <2>3, <2>4 DEF IsValidLocator
  <2> QED BY <2>3, <2>4, <2>5 DEF k, l
<1> QED BY <1>7, <1>8


\* The candidates of one more chunk are numbered on, and come after the others.
LEMMA CandidatesFollow ==
  ASSUME ContentInv, PathInv, work.stage = "generate", work.next \in DOMAIN chunks,
         NEW answer \in Answers, chunker.language = "node" => ~Copies(answer.words),
         NEW list, list = questions \o Candidates(answer, work.next)
  PROVE  /\ ListOK(list, object, chunker)
         /\ \A i \in DOMAIN list : list[i].chunk < work.next + 1
<1> DEFINE n == work.next
           asked == answer.questions
           c == Candidates(answer, n)
           before == Len(questions)
<1>1. /\ questions \in Seq(CandidateType) /\ before \in Nat /\ DOMAIN questions = 1..before
      /\ \A i \in DOMAIN questions : /\ questions[i].ordinal = i - 1 /\ questions[i].chunk < n
                                     /\ CandidateOK(questions[i], object, chunker)
      /\ \A i, j \in DOMAIN questions : i < j => questions[i].chunk <= questions[j].chunk
  BY DEF PathInv, QuestionsOK, ListOK
<1>2. asked \in Seq(Asked) /\ answer.words \in Seq(Words) /\ n \in Nat
  <2>1. work \in WorkType
    BY DEF ContentInv, WorkTyped
  <2> QED BY <2>1, AnswersAssumption DEF WorkType
<1>3. Len(asked) \in Nat /\ DOMAIN asked = 1..Len(asked)
  BY <1>2
<1> DEFINE l == LocatorOf(chunks[n])
<1>4. /\ l \in LocatorType /\ IsValidLocator(l)
      /\ l.kind = "page" => TrimSpace(object.texts[l.page]) # <<>>
  BY Cited
<1>5. c = [i \in DOMAIN asked |->
             [chunk |-> n, ordinal |-> before + i - 1, key |-> <<n, before + i - 1>>,
              stem |-> asked[i].stem, explanation |-> asked[i].explanation,
              options |-> asked[i].options, words |-> answer.words, locator |-> l]]
  BY DEF Candidates
<1> HIDE DEF l, before
<1>6. ASSUME NEW i \in DOMAIN asked
      PROVE  /\ c[i] \in CandidateType /\ c[i].chunk = n /\ c[i].ordinal = before + i - 1
             /\ CandidateOK(c[i], object, chunker)
  <2>1. asked[i] \in Asked
    BY <1>2
  <2>2. asked[i].stem \in Texts /\ asked[i].explanation \in Texts
        /\ asked[i].options \in Seq([content : Texts, isCorrect : BOOLEAN])
    BY <2>1 DEF Asked
  <2>3. before + i - 1 \in Nat
    BY <1>1, <1>3
  <2> DEFINE r == [chunk |-> n, ordinal |-> before + i - 1, key |-> <<n, before + i - 1>>,
                   stem |-> asked[i].stem, explanation |-> asked[i].explanation,
                   options |-> asked[i].options, words |-> answer.words, locator |-> l]
  <2>4. c[i] = r
    BY <1>5
  <2>5. r \in CandidateType
    BY <1>2, <1>4, <2>2, <2>3 DEF CandidateType
  <2>6. r.chunk = n /\ r.ordinal = before + i - 1 /\ r.words = answer.words /\ r.locator = l
    OBVIOUS
  <2> HIDE DEF r, c, n
  <2>7. CandidateOK(r, object, chunker)
    BY <1>4, <2>6, Zenon DEF CandidateOK
  <2> QED BY <2>4, <2>5, <2>6, <2>7
<1>7. c \in Seq(CandidateType) /\ Len(c) = Len(asked) /\ DOMAIN c = DOMAIN asked
  <2>1. DOMAIN c = 1..Len(asked) /\ \A i \in 1..Len(asked) : c[i] \in CandidateType
    BY <1>3, <1>5, <1>6
  <2>2. c = [i \in 1..Len(asked) |-> c[i]]
    BY <1>3, <1>5
  <2> HIDE DEF c, asked
  <2>3. c \in Seq(CandidateType) /\ DOMAIN c = 1..Len(asked)
    BY <1>3, <2>1, <2>2
  <2> QED BY <1>3, <2>3
<1> HIDE DEF c, n, asked
<1> DEFINE m == Len(c)
<1> HIDE DEF CandidateType
<1>8. /\ list \in Seq(CandidateType) /\ Len(list) = before + m /\ m \in Nat
      /\ DOMAIN list = 1..(before + m)
      /\ \A i \in 1..before : list[i] = questions[i]
      /\ \A i \in 1..m : list[before + i] = c[i]
  <2>1. list = questions \o c /\ before = Len(questions)
    BY DEF c, n, before
  <2>2. c \in Seq(CandidateType) /\ questions \in Seq(CandidateType) /\ m \in Nat
    BY <1>1, <1>7
  <2> DEFINE whole == questions \o c
  <2>3. /\ whole \in Seq(CandidateType) /\ Len(whole) = Len(questions) + Len(c)
        /\ \A i \in 1..Len(questions) + Len(c) :
               whole[i] = IF i <= Len(questions) THEN questions[i] ELSE c[i - Len(questions)]
    BY <2>2, ConcatProperties
  <2>4. Len(questions) = before /\ list = whole
    BY <2>1
  <2> HIDE DEF whole
  <2>5. DOMAIN list = 1..(before + m) /\ Len(list) = before + m /\ list \in Seq(CandidateType)
    BY <2>2, <2>3, <2>4
  <2>6. ASSUME NEW i \in 1..before PROVE list[i] = questions[i]
    BY <1>1, <2>2, <2>3, <2>4
  <2>7. ASSUME NEW i \in 1..m PROVE list[before + i] = c[i]
    <3>1. before + i \in 1..(before + m) /\ ~(before + i <= before) /\ (before + i) - before = i
      BY <1>1, <2>2
    <3> QED BY <2>3, <2>4, <3>1
  <2> QED BY <2>2, <2>5, <2>6, <2>7
<1>9. \A i \in DOMAIN list : \/ i \in 1..before
                             \/ i - before \in 1..m /\ i = before + (i - before)
  BY <1>1, <1>8
<1>10. ASSUME NEW i \in DOMAIN list, i \notin 1..before
       PROVE  /\ list[i].ordinal = i - 1 /\ list[i].chunk = n
              /\ CandidateOK(list[i], object, chunker)
  <2>1. PICK j \in 1..m : i = before + j
    BY <1>9, <1>10
  <2>2. list[i] = c[j] /\ j \in DOMAIN asked
    BY <1>3, <1>7, <1>8, <2>1
  <2>3. before + j - 1 = i - 1
    BY <1>1, <1>8, <2>1
  <2> QED BY <1>6, <2>2, <2>3
<1>11. ASSUME NEW i \in DOMAIN list
       PROVE  /\ list[i].ordinal = i - 1 /\ list[i].chunk < n + 1 /\ list[i].chunk <= n
              /\ CandidateOK(list[i], object, chunker)
  <2>1. CASE i \in 1..before
    <3>1. list[i] = questions[i] /\ i \in DOMAIN questions
      BY <1>1, <1>8, <2>1
    <3>4. questions[i] \in CandidateType
      BY <1>1, <3>1
    <3>5. \A x \in CandidateType : x.chunk \in Nat
      BY DEF CandidateType
    <3>2. questions[i].chunk \in Nat
      BY <3>4, <3>5, Zenon
    <3>3. questions[i].chunk < n + 1 /\ questions[i].chunk <= n
      BY <1>1, <1>2, <3>1, <3>2
    <3> QED BY <1>1, <3>1, <3>3
  <2>2. CASE i \notin 1..before
    <3>1. n < n + 1 /\ n <= n
      BY <1>2
    <3> QED BY <1>10, <2>2, <3>1
  <2> QED BY <2>1, <2>2
<1>12. ASSUME NEW i \in DOMAIN list, NEW j \in DOMAIN list, i < j
       PROVE  list[i].chunk <= list[j].chunk
  <2>1. CASE j \in 1..before
    <3>1. i \in 1..before
      BY <1>1, <1>8, <1>12, <2>1
    <3> QED BY <1>1, <1>8, <1>12, <2>1, <3>1
  <2>2. CASE j \notin 1..before
    BY <1>10, <1>11, <2>2
  <2> QED BY <2>1, <2>2
<1>13. ListOK(list, object, chunker)
  BY <1>8, <1>11, <1>12 DEF ListOK
<1> QED BY <1>11, <1>13 DEF n

\* One chunk more, or its failure.
LEMMA GeneratePath ==
  ASSUME ContentInv, PathInv, NEW answer \in Answers, Generate(answer)
  PROVE  PathInv'
<1> DEFINE n == work.next
           failure == IF chunker.language = "go" THEN GoGenerate(answer) ELSE NodeGenerate(answer)
<1>1. /\ work \in WorkType /\ n \in Nat \ {0} /\ work.faults \in Nat
      /\ chunks \in Seq(ChunkType)
  BY DEF ContentInv, WorkTyped, WorkType, ChunkInv, WalkTyped
<1>2. /\ work.stage = "generate" /\ n <= Len(chunks) /\ UNCHANGED <<quiz, attempt>>
      /\ \/ failure # NoFailure /\ Finish(failure, work.faults)
         \/ /\ failure = NoFailure
            /\ questions' = questions \o Candidates(answer, n)
            /\ work' = [work EXCEPT !.next = n + 1]
            /\ UNCHANGED <<chunkVars, object, pages, event, row>>
  BY Zenon DEF Generate
<1>3. failure.code \in Codes /\ (failure = NoFailure /\ chunker.language = "node" => ~Copies(answer.words))
  BY NodeGenerates, GoGenerates
<1> HIDE DEF failure
<1>4. CASE failure # NoFailure /\ Finish(failure, work.faults)
  BY <1>1, <1>2, <1>3, <1>4, FinishPath
<1>5. CASE /\ failure = NoFailure
           /\ questions' = questions \o Candidates(answer, n)
           /\ work' = [work EXCEPT !.next = n + 1]
           /\ UNCHANGED <<chunkVars, object, pages, event, row>>
  <2>1. n \in DOMAIN chunks /\ UNCHANGED <<chunker, document>>
    BY <1>1, <1>2, <1>5 DEF chunkVars
  <2>2. work'.stage = "generate" /\ work'.next = n + 1
    BY <1>1, <1>2, <1>5 DEF WorkType
  <2>3. /\ ListOK(questions', object, chunker)
        /\ \A i \in DOMAIN questions' : questions'[i].chunk < n + 1
    BY <1>2, <1>3, <1>5, <2>1, CandidatesFollow
  <2>4. QuestionsOK'
    BY <1>5, <2>1, <2>2, <2>3 DEF QuestionsOK
  <2>5. PagesOK'
    BY <1>2, <1>5, <2>1, <2>2 DEF PathInv, PagesOK
  <2>6. EventOK' /\ RowOK'
    BY <1>2, <1>5, <2>1, NothingYet DEF PathInv, EventOK, RowOK
  <2>7. StoredOK'
    BY <1>2, <1>5, <2>1 DEF PathInv, StoredOK
  <2>8. AttemptOK'
    BY <1>2, AttemptStands DEF PathInv
  <2> QED BY <2>4, <2>5, <2>6, <2>7, <2>8 DEF PathInv
<1> QED BY <1>2, <1>4, <1>5


(***************************************************************************)
(* Attempts                                                                *)
(***************************************************************************)

\* Whatever the screens offer of a served question is an option of that question.
LEMMA ServedIsGradable ==
    \A i \in DOMAIN quiz : \A selection \in MapQuizQuestion(FindServed[i]) :
        GradePracticeFeedback(selection) # "invalid"
<1> SUFFICES ASSUME NEW i \in DOMAIN quiz, NEW selection \in MapQuizQuestion(FindServed[i])
             PROVE  GradePracticeFeedback(selection) # "invalid"
  OBVIOUS
<1>1. PICK o \in DOMAIN quiz[i].options : selection = [question |-> quiz[i].ordinal, option |-> o]
  BY DEF MapQuizQuestion, FindServed
<1>2. selection.question = quiz[i].ordinal /\ selection.option \in DOMAIN quiz[i].options
  BY <1>1
<1>3. quiz[i] \in FindForGrading(selection.question)
  BY <1>2 DEF FindForGrading, Range
<1>4. {q \in FindForGrading(selection.question) : selection.option \in DOMAIN q.options} # {}
  BY <1>2, <1>3
<1> QED BY <1>4, Zenon DEF GradePracticeFeedback

\* Selections that answer the whole quiz: one for each question.
Submitted(selections) ==
    /\ selections \in Selections
    /\ GradesWhole(selections)
    /\ attempt = GradeAttempt(selections)

WasSubmitted == \E selections : Submitted(selections)

\* What is stored of them is read again as it was graded.
LEMMA SubmittedReadsBack ==
    StoredOK /\ WasSubmitted => GradedAttemptsReadBack
<1> SUFFICES ASSUME StoredOK, NEW selections, Submitted(selections)
             PROVE  GradedAttemptsReadBack
  BY DEF WasSubmitted
<1> DEFINE T == [question : 0..Len(quiz), option : OptionIds]
           L == Len(quiz)
           D == 1..L
           f == [i \in D |-> [question |-> selections[i].question, option |-> selections[i].option,
                              isCorrect |-> GradePracticeFeedback(selections[i]) = "correct"]]
           answers == {f[i] : i \in D}
<1>1. /\ quiz \in Seq(CandidateType) /\ L \in Nat
      /\ \A i \in DOMAIN quiz : QuestionCreate(quiz[i])
  BY DEF StoredOK, QuizOK
<1>2. PICK m \in 0..L : selections \in [1..m -> T]
  BY DEF Submitted, Selections, BoundedSeq, SeqOf
<1>3. m = L /\ DOMAIN selections = D
  <2>1. m \in Nat /\ selections \in Seq(T) /\ Len(selections) = m
    <3> HIDE DEF T
    <3>1. m \in Nat
      BY <1>1
    <3> QED BY <1>2, <3>1
  <2>2. Len(selections) = L
    BY Zenon DEF Submitted, GradesWhole
  <2>3. DOMAIN selections = 1..m
    BY <1>2
  <2> HIDE DEF L
  <2>4. m = L
    BY <2>1, <2>2
  <2> QED BY <2>3, <2>4 DEF D
<1>4. /\ \A i, j \in D : i # j => selections[i].question # selections[j].question
      /\ \A i \in D : GradePracticeFeedback(selections[i]) # "invalid"
  BY <1>3, Zenon DEF Submitted, GradesWhole
<1>5. attempt = [questionCount |-> L, answers |-> answers,
                 score |-> Cardinality({a \in answers : a.isCorrect})]
  <2>1. answers = {[question |-> selections[i].question, option |-> selections[i].option,
                    isCorrect |-> GradePracticeFeedback(selections[i]) = "correct"] : i \in DOMAIN selections}
    BY <1>3
  <2> HIDE DEF answers
  <2> QED BY <2>1 DEF Submitted, GradeAttempt
<1>6. Cardinality(answers) = L
  <2>1. f \in [D -> answers] /\ \A a \in answers : \E i \in D : f[i] = a
    OBVIOUS
  <2>2. \A i, j \in D : f[i] = f[j] => i = j
    <3>1. \A i \in D : f[i].question = selections[i].question
      OBVIOUS
    <3> HIDE DEF f, D
    <3> QED BY <1>4, <3>1, Zenon
  <2> HIDE DEF f, answers, D
  <2>3. f \in Bijection(D, answers)
    BY <2>1, <2>2 DEF Bijection, Injection, Surjection, IsInjective
  <2>4. ExistsBijection(D, answers)
    BY <2>3 DEF ExistsBijection
  <2>5. IsFiniteSet(D) /\ Cardinality(D) = L
    <3> HIDE DEF L
    <3>1. 1 \in Int /\ L \in Int /\ (IF 1 > L THEN 0 ELSE L - 1 + 1) = L
      BY <1>1
    <3>2. /\ IsFiniteSet(1..L)
          /\ Cardinality(1..L) = IF 1 > L THEN 0 ELSE L - 1 + 1
      BY <3>1, FS_Interval
    <3> QED BY <3>1, <3>2 DEF D
  <2> QED BY <2>4, <2>5, FS_Bijection
<1>7. ASSUME NEW a \in answers
      PROVE  /\ a.isCorrect = (GradePracticeFeedback(a) = "correct")
             /\ \E q \in FindForGrading(a.question) :
                    a.option \in DOMAIN q.options /\ Correct(q.options) # {}
  <2>1. PICK i \in D : a = f[i]
    OBVIOUS
  <2>2. /\ a.question = selections[i].question /\ a.option = selections[i].option
        /\ a.isCorrect = (GradePracticeFeedback(selections[i]) = "correct")
    BY <2>1
  <2> HIDE DEF answers, f
  <2>3. GradePracticeFeedback(a) = GradePracticeFeedback(selections[i])
    BY <2>2, Zenon DEF GradePracticeFeedback
  <2>4. {q \in FindForGrading(a.question) : a.option \in DOMAIN q.options} # {}
    <3>1. GradePracticeFeedback(a) # "invalid"
      BY <1>4, <2>3, Zenon
    <3> QED BY <3>1, Zenon DEF GradePracticeFeedback
  <2>5. PICK q \in FindForGrading(a.question) : a.option \in DOMAIN q.options
    BY <2>4
  <2>6. q \in Range(quiz)
    BY DEF FindForGrading
  <2>7. QuestionCreate(q)
    BY <1>1, <2>6 DEF Range
  <2>8. Correct(q.options) # {}
    <3>1. Cardinality(Correct(q.options)) = 1
      BY <2>7, Zenon DEF QuestionCreate
    <3>2. Cardinality({}) = 0
      BY FS_EmptySet
    <3>3. 1 # 0
      OBVIOUS
    <3> QED BY <3>1, <3>2, <3>3, Zenon
  <2> QED BY <2>2, <2>3, <2>5, <2>8, Zenon
<1> HIDE DEF answers, f, D
<1>8. attempt.answers = answers /\ attempt.questionCount = L
      /\ attempt.score = Cardinality({a \in answers : a.isCorrect})
  BY <1>5
<1>9. FindAttempt = answers
  <2>1. {a \in answers : \E q \in FindForGrading(a.question) :
             a.option \in DOMAIN q.options /\ Correct(q.options) # {}} = answers
    BY <1>7, Zenon
  <2> QED BY <1>8, <2>1, Zenon DEF FindAttempt
<1>10. {a \in answers : a.isCorrect} = {a \in answers : GradePracticeFeedback(a) = "correct"}
  BY <1>7, Zenon
<1> QED BY <1>6, <1>8, <1>9, <1>10, ServedIsGradable, Zenon DEF GradedAttemptsReadBack


\* Storing a quiz where there is none, or leaving the one there is.
LEMMA NewQuiz ==
  ASSUME PathInv, NEW accepted, QuizOK(accepted, object, chunker), PersistQuiz(accepted),
         UNCHANGED <<chunker, object, attempt>>
  PROVE  /\ StoredOK' /\ AttemptOK'
         /\ accepted # <<>> \/ quiz # <<>> => quiz' # <<>>
<1>1. CASE quiz # <<>>
  <2>1. quiz' = quiz
    BY <1>1 DEF PersistQuiz
  <2>2. AttemptOK'
    BY <2>1, AttemptStands DEF PathInv
  <2>3. StoredOK'
    BY <2>1 DEF PathInv, StoredOK
  <2> QED BY <1>1, <2>1, <2>2, <2>3
<1>2. CASE quiz = <<>>
  <2>1. quiz' = accepted
    BY <1>2 DEF PersistQuiz
  <2>2. attempt' = NoAttempt
    BY <1>2 DEF PathInv, AttemptOK
  <2>3. (\A i \in DOMAIN quiz : \A selection \in MapQuizQuestion(FindServed[i]) :
            GradePracticeFeedback(selection) # "invalid")'
    BY ServedIsGradable, PTL
  <2>4. AttemptOK'
    BY <2>2, <2>3, Zenon DEF AttemptOK, GradedAttemptsReadBack, NoAttempt
  <2>5. StoredOK'
    BY <2>1 DEF StoredOK
  <2> QED BY <1>2, <2>1, <2>4, <2>5
<1> QED BY <1>1, <1>2

\* Nothing of the pages and the candidates changes when the result is published.
LEMMA EndedPath ==
  ASSUME PathInv, work \in WorkType, work' = [work EXCEPT !.stage = "ended"],
         UNCHANGED <<chunker, object, questions>>
  PROVE  PagesOK' /\ QuestionsOK' /\ work'.stage = "ended"
<1>1. work'.stage = "ended" /\ work'.next = work.next
  BY DEF WorkType
<1> QED BY <1>1 DEF PathInv, PagesOK, QuestionsOK

\* The Go worker publishes its candidates.
LEMMA PersistAndCompletePath ==
  ASSUME ContentInv, PathInv, PersistAndComplete
  PROVE  PathInv'
<1>1. work \in WorkType /\ work.faults \in Nat
  BY DEF ContentInv, WorkTyped, WorkType
<1>2. /\ work.stage = "generate" /\ UNCHANGED <<quiz, attempt>>
      /\ \/ Finish(Technical("PROCESSING_FAILED"), work.faults)
         \/ /\ Publish("READY", Null, {questions})
            /\ work' = [work EXCEPT !.stage = "ended"]
            /\ UNCHANGED <<chunkVars, object, pages, questions, row>>
  BY DEF PersistAndComplete
<1>3. Technical("PROCESSING_FAILED").code \in Codes
  BY DEF Technical, Codes, DocumentProcessingFailureCode
<1>4. CASE Finish(Technical("PROCESSING_FAILED"), work.faults)
  <2>1. PICK failure : failure = Technical("PROCESSING_FAILED")
    OBVIOUS
  <2> QED BY <1>1, <1>2, <1>3, <1>4, <2>1, FinishPath
<1>5. CASE /\ Publish("READY", Null, {questions})
           /\ work' = [work EXCEPT !.stage = "ended"]
           /\ UNCHANGED <<chunkVars, object, pages, questions, row>>
  <2>1. chunker' = chunker
    BY <1>5 DEF chunkVars
  <2>2. PagesOK' /\ QuestionsOK' /\ work'.stage = "ended"
    BY <1>1, <1>5, <2>1, EndedPath
  <2>3. ListOK(questions, object, chunker)
    BY DEF PathInv, QuestionsOK
  <2>4. event' = [status |-> "READY", code |-> Null, questions |-> {questions}, published |-> FALSE]
    BY <1>5 DEF Publish
  <2>5. EventOK'
    BY <1>5, <2>1, <2>2, <2>3, <2>4 DEF EventOK, Codes
  <2>6. RowOK' /\ StoredOK'
    BY <1>2, <1>5, <2>1 DEF PathInv, RowOK, StoredOK
  <2>7. AttemptOK'
    BY <1>2, AttemptStands DEF PathInv
  <2> QED BY <2>2, <2>5, <2>6, <2>7 DEF PathInv
<1> QED BY <1>2, <1>4, <1>5

\* Node stores the quiz itself, or fails for want of one.
LEMMA HandoffPath ==
  ASSUME ContentInv, PathInv, HandoffPersist
  PROVE  PathInv'
<1> DEFINE accepted == QuizCreate(questions)
<1>1. work \in WorkType /\ work.faults \in Nat
  BY DEF ContentInv, WorkTyped, WorkType
<1>2. /\ work.stage = "generate" /\ attempt' = attempt
      /\ \/ /\ accepted = <<>> /\ quiz' = quiz
            /\ Finish(Final("INSUFFICIENT_VALID_QUESTIONS"), work.faults)
         \/ /\ accepted # <<>> /\ PersistQuiz(accepted)
            /\ Publish("READY", Null, {})
            /\ work' = [work EXCEPT !.stage = "ended"]
            /\ UNCHANGED <<chunkVars, object, pages, questions, row>>
  BY DEF HandoffPersist
<1>3. QuizOK(accepted, object, chunker)
  BY QuizCreated DEF PathInv, QuestionsOK
<1> HIDE DEF accepted
<1>4. CASE quiz' = quiz /\ Finish(Final("INSUFFICIENT_VALID_QUESTIONS"), work.faults)
  <2>1. PICK failure : failure = Final("INSUFFICIENT_VALID_QUESTIONS")
    OBVIOUS
  <2>2. failure.code \in Codes
    BY <2>1 DEF Final, Codes, DocumentProcessingFailureCode
  <2> QED BY <1>1, <1>2, <1>4, <2>1, <2>2, FinishPath
<1>5. CASE /\ accepted # <<>> /\ PersistQuiz(accepted)
           /\ Publish("READY", Null, {})
           /\ work' = [work EXCEPT !.stage = "ended"]
           /\ UNCHANGED <<chunkVars, object, pages, questions, row>>
  <2>1. chunker' = chunker
    BY <1>5 DEF chunkVars
  <2>2. PagesOK' /\ QuestionsOK' /\ work'.stage = "ended"
    BY <1>1, <1>5, <2>1, EndedPath
  <2>3. StoredOK' /\ AttemptOK' /\ quiz' # <<>>
    BY <1>2, <1>3, <1>5, <2>1, NewQuiz
  <2>4. event' = [status |-> "READY", code |-> Null, questions |-> {}, published |-> FALSE]
    BY <1>5 DEF Publish
  <2>5. EventOK'
    BY <2>2, <2>3, <2>4 DEF EventOK, Codes
  <2>6. RowOK'
    BY <1>5, <2>3 DEF PathInv, RowOK
  <2> QED BY <2>2, <2>3, <2>5, <2>6 DEF PathInv
<1> QED BY <1>2, <1>4, <1>5

\* The relay: what it makes of the row is backed by the quiz it has stored.
LEMMA ReturnRelayPath ==
  ASSUME PathInv, ReturnRelay
  PROVE  PathInv'
<1>1. /\ event.status \in {"READY", "FAILED"} /\ event.code \in Codes
      /\ UNCHANGED <<chunker, document, object, pages, work, questions, attempt>>
  BY DEF ReturnRelay, ParseResult, PathInv, EventOK, chunkVars, Codes
<1>2. work.stage = "ended"
  BY <1>1 DEF PathInv, EventOK
<1>3. PagesOK' /\ QuestionsOK'
  BY <1>1 DEF PathInv, PagesOK, QuestionsOK
<1>4. ASSUME StoredOK', AttemptOK', quiz # <<>> => quiz' # <<>>,
             NEW status \in {"READY", "FAILED"}, NEW code \in Codes, Project(status, code),
             status = "READY" => quiz' # <<>>
      PROVE  PathInv'
  <2>1. RowOK'
    <3>1. row' = [status |-> status, code |-> code] \/ row' = row
      BY <1>4 DEF Project
    <3>2. row' = [status |-> status, code |-> code] => RowOK'
      BY <1>4 DEF RowOK
    <3>3. row' = row => RowOK'
      BY <1>4 DEF PathInv, RowOK
    <3> QED BY <3>1, <3>2, <3>3
  <2>2. PICK marked \in BOOLEAN : event' = [event EXCEPT !.published = marked]
    BY DEF ReturnRelay
  <2>3. /\ DOMAIN event' = {"status", "code", "questions", "published"}
        /\ event'.status = event.status /\ event'.code = event.code
        /\ event'.questions = event.questions
    BY <2>2 DEF PathInv, EventOK
  <2>4. EventOK'
    BY <1>1, <1>2, <1>4, <2>3 DEF PathInv, EventOK
  <2> QED BY <1>3, <1>4, <2>1, <2>4 DEF PathInv
<1> DEFINE accepted == {QuizCreate(list) : list \in event.questions}
<1>5. /\ IF accepted = {} \/ accepted = {<<>>} THEN UNCHANGED quiz ELSE \E a \in accepted : PersistQuiz(a)
      /\ IF accepted = {<<>>} THEN Project("FAILED", "INSUFFICIENT_VALID_QUESTIONS")
         ELSE Project(event.status, event.code)
  BY Zenon DEF ReturnRelay
<1>6. event.questions = {} \/ \E list : event.questions = {list} /\ ListOK(list, object, chunker)
  BY DEF PathInv, EventOK
<1>7. ASSUME quiz' = quiz
      PROVE  StoredOK' /\ AttemptOK'
  <2>1. AttemptOK'
    BY <1>1, <1>7, AttemptStands DEF PathInv
  <2> QED BY <1>1, <1>7, <2>1 DEF PathInv, StoredOK
<1>8. CASE event.questions = {}
  <2>1. accepted = {} /\ accepted # {<<>>}
    BY <1>8
  <2> HIDE DEF accepted
  <2>2. quiz' = quiz /\ Project(event.status, event.code)
    BY <1>5, <2>1
  <2>3. event.status = "READY" => quiz # <<>>
    BY <1>8 DEF PathInv, EventOK
  <2>4. PICK status \in {"READY", "FAILED"} : status = event.status
    BY <1>1
  <2>5. PICK code \in Codes : code = event.code
    BY <1>1
  <2> QED BY <1>4, <1>7, <2>2, <2>3, <2>4, <2>5
<1>9. ASSUME NEW list, event.questions = {list}, ListOK(list, object, chunker)
      PROVE  PathInv'
  <2> DEFINE q == QuizCreate(list)
  <2>1. accepted = {q}
    BY <1>9
  <2>2. QuizOK(q, object, chunker)
    BY <1>9, QuizCreated
  <2> HIDE DEF accepted, q
  <2>3. CASE q = <<>>
    <3>1. quiz' = quiz /\ Project("FAILED", "INSUFFICIENT_VALID_QUESTIONS")
      BY <1>5, <2>1, <2>3
    <3>2. "INSUFFICIENT_VALID_QUESTIONS" \in Codes
      BY DEF Codes, DocumentProcessingFailureCode
    <3> QED BY <1>4, <1>7, <3>1, <3>2
  <2>4. CASE q # <<>>
    <3>1. accepted # {} /\ accepted # {<<>>}
      BY <2>1, <2>4
    <3>2. PersistQuiz(q) /\ Project(event.status, event.code)
      BY <1>5, <2>1, <3>1
    <3>3. StoredOK' /\ AttemptOK' /\ quiz' # <<>>
      BY <1>1, <2>2, <2>4, <3>2, NewQuiz
    <3>4. PICK status \in {"READY", "FAILED"} : status = event.status
      BY <1>1
    <3>5. PICK code \in Codes : code = event.code
      BY <1>1
    <3> QED BY <1>4, <3>2, <3>3, <3>4, <3>5
  <2> QED BY <2>3, <2>4
<1> QED BY <1>6, <1>8, <1>9


\* A submission that grades is stored as it was graded.
LEMMA SubmitAttemptPath ==
  ASSUME PathInv, SubmitAttempt
  PROVE  PathInv'
<1>1. PICK selections \in Selections : GradesWhole(selections) /\ PersistAttempt(GradeAttempt(selections))
  BY DEF SubmitAttempt
<1>2. /\ quiz # <<>> /\ attempt' = GradeAttempt(selections)
      /\ UNCHANGED <<chunker, document, object, pages, work, questions, event, row, quiz>>
  BY <1>1 DEF PersistAttempt, SubmitAttempt, chunkVars, sourceVars
<1>3. PagesOK' /\ QuestionsOK'
  BY <1>2 DEF PathInv, PagesOK, QuestionsOK
<1>4. EventOK' /\ RowOK' /\ StoredOK'
  BY <1>2 DEF PathInv, EventOK, RowOK, StoredOK
<1>5. Submitted(selections)'
  <2>1. \A id : FindForGrading(id)' = FindForGrading(id)
    BY <1>2 DEF FindForGrading
  <2>2. \A selection : GradePracticeFeedback(selection)' = GradePracticeFeedback(selection)
    BY <2>1 DEF GradePracticeFeedback
  <2>3. GradesWhole(selections)' /\ GradeAttempt(selections)' = GradeAttempt(selections)
    BY <1>1, <1>2, <2>2 DEF GradesWhole, GradeAttempt
  <2>4. Selections' = Selections
    BY <1>2 DEF Selections
  <2> QED BY <1>1, <1>2, <2>3, <2>4, Zenon DEF Submitted
<1>6. GradedAttemptsReadBack'
  <2>1. StoredOK' /\ WasSubmitted' => GradedAttemptsReadBack'
    BY SubmittedReadsBack, PTL
  <2>2. WasSubmitted'
    BY <1>5, Zenon DEF WasSubmitted
  <2> QED BY <1>4, <2>1, <2>2
<1>7. AttemptOK'
  BY <1>2, <1>6 DEF AttemptOK
<1> QED BY <1>3, <1>4, <1>7 DEF PathInv

\* All steps.
LEMMA PathStep ==
  ASSUME ContentInv, PathInv, [Next]_vars
  PROVE  PathInv'
<1>1. ASSUME NEW answer \in Answers, Preflight(answer) \/ Generate(answer)
      PROVE  PathInv'
  <2>1. CASE Preflight(answer)
    <3>1. UNCHANGED <<chunker, document, object, pages, work, questions, event, row, quiz, attempt>>
      BY <2>1 DEF Preflight, chunkVars, sourceVars
    <3> QED BY <3>1, PathStands
  <2> QED BY <1>1, <2>1, GeneratePath
<1>2. CASE (SourceStep \/ (ready /\ Read)) /\ UNCHANGED <<profile, ready, quiz, attempt>>
  BY <1>2, SourceStepPath
<1>3. CASE UNCHANGED vars
  <2>1. UNCHANGED <<chunker, document, object, pages, work, questions, event, row, quiz, attempt>>
    BY <1>3 DEF vars, chunkVars, sourceVars
  <2> QED BY <2>1, PathStands
<1>4. CASE PersistAndComplete \/ HandoffPersist \/ ReturnRelay \/ SubmitAttempt
  BY <1>4, PersistAndCompletePath, HandoffPath, ReturnRelayPath, SubmitAttemptPath
<1> QED BY <1>1, <1>2, <1>3, <1>4 DEF Next

\* The invariant of all that follows the chunks.
THEOREM PathInvariant == Spec => []PathInv
<1>1. Init => PathInv
  BY PathInit
<1>2. ContentInv /\ PathInv /\ [Next]_vars => PathInv'
  BY PathStep
<1> QED BY <1>1, <1>2, ContentInvariant, PTL DEF Spec

\* What the invariant says to the relay, the web and the reader of a quiz.
LEMMA PathIsSound == PathInv => ResultsBecomeSoundQuizzes
<1> SUFFICES ASSUME PathInv PROVE ResultsBecomeSoundQuizzes
  OBVIOUS
<1>1. event.status # "none" => ParseResult(event)
  BY DEF PathInv, EventOK, ParseResult, Codes
<1>2. row.status \in {"UPLOADED", "PROCESSING", "READY", "FAILED"} /\ row.code \in Codes
      /\ (row.status = "READY" => quiz # <<>>)
  BY DEF PathInv, RowOK
<1>3. MapDocument(row)
  BY <1>2 DEF MapDocument, ReadDocumentStatus, ReadDocumentProcessingFailureCode, Codes,
              DocumentProcessingFailureCode
<1>4. /\ IsRetryableDocumentFailureCode(row.code) = IsDocumentProcessingFailureRetryable(row.code)
      /\ IsRetryableDocumentFailureCode(row.code) = (GetDocumentFailurePresentation(row.code) = "tryAgain")
  BY DEF IsRetryableDocumentFailureCode, IsDocumentProcessingFailureRetryable,
         GetDocumentFailurePresentation
<1>5. FindQuiz # "QUIZ_INVARIANT_VIOLATION"
  <2>1. CASE quiz # <<>>
    <3>1. quiz \in Seq(CandidateType)
      BY DEF PathInv, StoredOK, QuizOK
    <3>2. Len(quiz) \in DOMAIN quiz
      BY <2>1, <3>1
    <3>4. DOMAIN FindServed = DOMAIN quiz
      BY DEF FindServed
    <3>5. DOMAIN <<>> = {}
      OBVIOUS
    <3>3. FindServed # <<>>
      BY <3>2, <3>4, <3>5, Zenon
    <3> QED BY <3>3 DEF FindQuiz
  <2>2. CASE quiz = <<>>
    <3>1. row.status \in {"UPLOADED", "PROCESSING"} \/ row.status = "FAILED"
      BY <1>2, <2>2
    <3>2. CASE FindServed # <<>>
      BY <3>2 DEF FindQuiz
    <3>3. CASE FindServed = <<>>
      BY <3>1, <3>3 DEF FindQuiz
    <3> QED BY <3>2, <3>3
  <2> QED BY <2>1, <2>2
<1>6. ASSUME NEW i \in DOMAIN quiz
      PROVE  /\ quiz[i].ordinal = i - 1
             /\ Cardinality(Correct(quiz[i].options)) = 1 /\ Distinct(quiz[i].options, NodeForm)
             /\ \A j \in DOMAIN quiz : i # j => NodeForm[quiz[i].stem] # NodeForm[quiz[j].stem]
             /\ chunker.language = "node" => ~Copies(quiz[i].words)
             /\ IsValidLocator(quiz[i].locator) /\ MapCitationLocator(quiz[i].locator)
             /\ quiz[i].locator.kind = "page" =>
                    TrimSpace(object.texts[quiz[i].locator.page]) # <<>>
  <2>1. /\ quiz \in Seq(CandidateType) /\ quiz[i].ordinal = i - 1
        /\ QuestionCreate(quiz[i]) /\ CandidateOK(quiz[i], object, chunker)
        /\ \A j \in DOMAIN quiz : i # j => NodeForm[quiz[i].stem] # NodeForm[quiz[j].stem]
    BY DEF PathInv, StoredOK, QuizOK
  <2>2. quiz[i] \in CandidateType
    BY <2>1
  <2>3. MapCitationLocator(quiz[i].locator)
    BY <2>2 DEF CandidateType, LocatorType, MapCitationLocator
  <2> QED BY <2>1, <2>3, Zenon DEF QuestionCreate, CandidateOK
<1> QED BY <1>1, <1>3, <1>4, <1>5, <1>6, Zenon DEF ResultsBecomeSoundQuizzes

\* Every result that either worker publishes is one that the relay can deliver and
\* the web can show, no document is READY without its quiz, and what is stored is
\* a sound quiz: for every upload, every sequence of the provider's answers and
\* every failure on the way (mappers of the return relay, quiz.ts, question.ts).
THEOREM QuizzesAreSound == Spec => []ResultsBecomeSoundQuizzes
BY PathIsSound, PathInvariant, PTL

\* Every attempt that is accepted is read again in full with the score it was
\* given, and nothing that the screens offer is refused (grading service).
THEOREM AttemptsReadBack == Spec => []GradedAttemptsReadBack
<1>1. PathInv => GradedAttemptsReadBack
  BY DEF PathInv, AttemptOK
<1> QED BY <1>1, PathInvariant, PTL

==============================================================================
