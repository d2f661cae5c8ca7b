-------------------------- MODULE MaskCommand_proofs ---------------------------
(***************************************************************************)
(* Proofs about MaskCommand for every set of rules, texts and deny list.   *)
(***************************************************************************)
EXTENDS MaskCommand, WellFoundedInduction, SequenceTheorems, TLAPS

-----------------------------------------------------------------------------
(* FlattenSeq is a recursive function; that it is defined at all, and      *)
(* yields a sequence, is shown by a least counterexample.                  *)

LEMMA LeastOf ==
  ASSUME NEW T \in SUBSET Nat, T # {}
  PROVE  \E x \in T : \A y \in T : x <= y
<1> DEFINE R == OpToRel(<, Nat)
<1>1. IsWellFoundedOn(R, Nat)
  BY NatLessThanWellFounded
<1>2. PICK x \in T : \A y \in T : ~ (<<y, x>> \in R)
  BY <1>1, WFMin
<1>3. \A y \in T : ~ (y < x)
  BY <1>2 DEF OpToRel
<1> QED BY <1>3

(* What FlattenSeq puts at i, given what it has at i - 1.                  *)
Flat(q, i, prev) == IF i = 1 THEN q[i] ELSE prev \o q[i]

LEMMA FlatType ==
  ASSUME NEW S, NEW q \in Seq(Seq(S)), NEW i \in 1..Len(q), NEW prev,
         i # 1 => prev \in Seq(S)
  PROVE  Flat(q, i, prev) \in Seq(S)
<1>1. q[i] \in Seq(S)
  OBVIOUS
<1> QED BY <1>1, ConcatProperties DEF Flat

LEMMA FlattenPrefix ==
  ASSUME NEW S, NEW q \in Seq(Seq(S)), NEW n \in 0..Len(q)
  PROVE  \E f \in [1..n -> Seq(S)] : \A i \in 1..n : f[i] = Flat(q, i, f[i - 1])
<1> DEFINE Good(m, f) == \A i \in 1..m : f[i] = Flat(q, i, f[i - 1])
<1> DEFINE Bad == {m \in 0..Len(q) : ~ \E f \in [1..m -> Seq(S)] : Good(m, f)}
<1>1. Bad = {}
  <2>1. SUFFICES ASSUME Bad # {} PROVE FALSE
    OBVIOUS
  <2>2. PICK m \in Bad : \A y \in Bad : m <= y
    <3>1. Bad \in SUBSET Nat
      OBVIOUS
    <3> HIDE DEF Bad
    <3> QED BY <3>1, <2>1, LeastOf
  <2>3. CASE m = 0
    <3>1. Good(0, <<>>) /\ <<>> \in [1..0 -> Seq(S)]
      OBVIOUS
    <3> QED BY <3>1, <2>2, <2>3
  <2>4. CASE m # 0
    <3>1. m \in 1..Len(q) /\ m - 1 \in 0..Len(q) /\ m - 1 \notin Bad
      <4>1. m \in 0..Len(q)
        BY <2>2
      <4>2. m \in Nat /\ ~ (m <= m - 1)
        BY <4>1
      <4>3. m - 1 \notin Bad
        <5> HIDE DEF Bad
        <5> QED BY <4>2, <2>2
      <4> HIDE DEF Bad
      <4> QED BY <4>1, <4>3, <2>4
    <3>2. PICK f \in [1..(m - 1) -> Seq(S)] : Good(m - 1, f)
      BY <3>1
    <3> DEFINE last == Flat(q, m, f[m - 1])
               g == [i \in 1..m |-> IF i = m THEN last ELSE f[i]]
    <3>4. last \in Seq(S)
      <4>1. m # 1 => f[m - 1] \in Seq(S)
        BY <3>1
      <4> QED BY <4>1, <3>1, FlatType
    <3> HIDE DEF last
    <3>5. g \in [1..m -> Seq(S)]
      BY <3>4, <3>1
    <3>6. ASSUME NEW i \in 1..m PROVE g[i] = Flat(q, i, g[i - 1])
      <4>1. m \in Nat /\ i \in Nat /\ i > 0
        BY <3>1
      <4>2. CASE i = m
        <5>1. CASE m = 1
          BY <5>1, <4>2, <3>1 DEF last, Flat
        <5>2. CASE m # 1
          <6>1. g[i - 1] = f[m - 1]
            BY <5>2, <4>1, <4>2
          <6> QED BY <6>1, <4>2, <3>1 DEF last
        <5> QED BY <5>1, <5>2
      <4>3. CASE i # m
        <5>1. i \in 1..(m - 1)
          BY <4>1, <4>3
        <5>2. g[i] = f[i] /\ f[i] = Flat(q, i, f[i - 1])
          BY <5>1, <4>3, <3>2
        <5>3. CASE i = 1
          BY <5>2, <5>3 DEF Flat
        <5>4. CASE i # 1
          <6>1. g[i - 1] = f[i - 1]
            BY <5>4, <5>1, <4>1
          <6> QED BY <6>1, <5>2
        <5> QED BY <5>3, <5>4
      <4> QED BY <4>2, <4>3
    <3> QED BY <3>5, <3>6, <2>2
  <2> QED BY <2>3, <2>4
<1> QED BY <1>1

(* What holds at 0 and is passed on by every step holds up to n; the       *)
(* property is a set.                                                      *)
LEMMA Induct ==
  ASSUME NEW n \in Nat, NEW G, 0 \in G, \A i \in 1..n : i - 1 \in G => i \in G
  PROVE  \A i \in 0..n : i \in G
<1> DEFINE Bad == {i \in 0..n : i \notin G}
<1>1. SUFFICES ASSUME Bad # {} PROVE FALSE
  OBVIOUS
<1>2. PICK m \in Bad : \A y \in Bad : m <= y
  <2>1. Bad \in SUBSET Nat
    OBVIOUS
  <2> HIDE DEF Bad
  <2> QED BY <2>1, <1>1, LeastOf
<1>3. m \in 1..n
  BY <1>2
<1>4. m - 1 \in 0..n /\ ~ (m <= m - 1)
  BY <1>3
<1>5. m - 1 \notin Bad
  BY <1>2, <1>4
<1> QED BY <1>2, <1>3, <1>4, <1>5

(* FlattenSeq appends one sequence after the other.                        *)
LEMMA FlattenSteps ==
  ASSUME NEW S, NEW q \in Seq(Seq(S))
  PROVE  \E f \in [0..Len(q) -> Seq(S)] :
            /\ f[0] = <<>>
            /\ \A i \in 1..Len(q) : f[i] = f[i - 1] \o q[i]
            /\ FlattenSeq(q) = f[Len(q)]
<1>1. CASE Len(q) = 0
  <2>1. FlattenSeq(q) = <<>> /\ <<>> \in Seq(S)
    BY <1>1 DEF FlattenSeq
  <2> DEFINE f == [i \in 0..Len(q) |-> <<>>]
  <2>2. f \in [0..Len(q) -> Seq(S)]
    BY <2>1
  <2>3. 0 \in 0..Len(q) /\ f[0] = <<>> /\ f[Len(q)] = <<>>
    BY <1>1
  <2>4. \A i \in 1..Len(q) : f[i] = f[i - 1] \o q[i]
    BY <1>1
  <2> HIDE DEF f
  <2> QED BY <2>1, <2>2, <2>3, <2>4
<1>2. CASE Len(q) # 0
  <2> DEFINE body(f) == [i \in 1..Len(q) |-> IF i = 1 THEN q[i] ELSE f[i - 1] \o q[i]]
             flatten == CHOOSE f : f = body(f)
  <2>1. \E f : f = body(f)
    <3>1. PICK f \in [1..Len(q) -> Seq(S)] : \A i \in 1..Len(q) : f[i] = Flat(q, i, f[i - 1])
      <4>1. Len(q) \in 0..Len(q)
        OBVIOUS
      <4> QED BY <4>1, FlattenPrefix
    <3>2. f = [i \in 1..Len(q) |-> Flat(q, i, f[i - 1])]
      BY <3>1
    <3> QED BY <3>2 DEF Flat
  <2>2. flatten = body(flatten)
    BY <2>1, Zenon
  <2>3. FlattenSeq(q) = flatten[Len(q)]
    BY <1>2 DEF FlattenSeq
  <2> HIDE DEF flatten
  <2>4. \A i \in 1..Len(q) : flatten[i] = Flat(q, i, flatten[i - 1])
    BY <2>2 DEF Flat
  <2> DEFINE f == [i \in 0..Len(q) |-> IF i = 0 THEN <<>> ELSE flatten[i]]
             G == {i \in 0..Len(q) : f[i] \in Seq(S)}
  <2>5. Len(q) \in Nat /\ <<>> \in Seq(S) /\ \A i \in 1..Len(q) : q[i] \in Seq(S)
    OBVIOUS
  <2>6. f[0] = <<>> /\ \A i \in 1..Len(q) : f[i] = flatten[i]
    BY <2>5
  <2>a. f = [i \in 0..Len(q) |-> f[i]]
    BY Zenon
  <2> HIDE DEF f
  <2>7. ASSUME NEW i \in 1..Len(q), f[i - 1] \in Seq(S)
        PROVE  f[i] = f[i - 1] \o q[i] /\ f[i] \in Seq(S)
    <3>1. f[i] = flatten[i] /\ (i # 1 => f[i - 1] = flatten[i - 1]) /\ (i = 1 => f[i - 1] = <<>>)
      BY <2>5, <2>6
    <3>2. f[i] = Flat(q, i, f[i - 1])
      BY <2>4, <3>1 DEF Flat
    <3>3. CASE i = 1
      BY <2>5, <3>1, <3>2, <3>3, ConcatEmptySeq DEF Flat
    <3>4. CASE i # 1
      BY <2>5, <2>7, <3>2, <3>4, ConcatProperties DEF Flat
    <3> QED BY <3>3, <3>4
  <2>8. \A i \in 0..Len(q) : i \in G
    <3>1. 0 \in G
      <4>1. f[0] \in Seq(S)
        BY <2>5, <2>6, Zenon
      <4>2. 0 \in 0..Len(q)
        BY <2>5
      <4> QED BY <4>1, <4>2, Zenon
    <3>2. ASSUME NEW i \in 1..Len(q), i - 1 \in G PROVE i \in G
      <4>1. f[i - 1] \in Seq(S) /\ i \in 0..Len(q)
        BY <2>5, <3>2
      <4> QED BY <2>7, <4>1
    <3> HIDE DEF G
    <3> QED BY <2>5, <3>1, <3>2, Induct
  <2>9. \A i \in 0..Len(q) : f[i] \in Seq(S)
    BY <2>8
  <2>10. \A i \in 1..Len(q) : f[i] = f[i - 1] \o q[i]
    <3>1. \A i \in 1..Len(q) : i - 1 \in 0..Len(q)
      BY <2>5
    <3> QED BY <2>7, <2>9, <3>1
  <2>11. f \in [0..Len(q) -> Seq(S)]
    <3> DEFINE N == 0..Len(q)
               T == Seq(S)
    <3> HIDE DEF N, T
    <3> QED BY <2>9, <2>a DEF N, T
  <2>12. f[Len(q)] = flatten[Len(q)]
    <3>1. Len(q) \in 1..Len(q)
      BY <1>2, <2>5
    <3> QED BY <2>6, <3>1
  <2> QED BY <2>3, <2>6, <2>10, <2>11, <2>12
<1> QED BY <1>1, <1>2

LEMMA FlattenType ==
  ASSUME NEW S, NEW q \in Seq(Seq(S))
  PROVE  FlattenSeq(q) \in Seq(S)
<1>1. PICK f \in [0..Len(q) -> Seq(S)] : FlattenSeq(q) = f[Len(q)]
  BY FlattenSteps
<1>2. Len(q) \in 0..Len(q)
  <2>1. Len(q) \in Nat
    OBVIOUS
  <2> QED BY <2>1
<1> QED BY <1>1, <1>2

-----------------------------------------------------------------------------
(* The windows.                                                            *)

LEMMA MaxOfTwo ==
  ASSUME NEW x \in Int, NEW y \in Int
  PROVE  Max({x, y}) \in {x, y} /\ Max({x, y}) >= x /\ Max({x, y}) >= y
<1>1. \E z \in {x, y} : \A u \in {x, y} : z >= u
  OBVIOUS
<1> QED BY <1>1 DEF Max

LEMMA MinOfTwo ==
  ASSUME NEW x \in Int, NEW y \in Int
  PROVE  Min({x, y}) \in {x, y} /\ Min({x, y}) <= x /\ Min({x, y}) <= y
<1>1. \E z \in {x, y} : \A u \in {x, y} : z <= u
  OBVIOUS
<1> QED BY <1>1 DEF Min

LEMMA WindowEnds ==
  ASSUME NEW p \in Int, NEW d \in Nat, NEW len \in Nat
  PROVE  /\ Max({1, p - d}) \in {1, p - d} /\ Max({1, p - d}) >= 1
         /\ Min({len, p + d}) \in {len, p + d} /\ Min({len, p + d}) <= len
<1>1. p - d \in Int /\ p + d \in Int /\ len \in Int /\ 1 \in Int
  OBVIOUS
<1>2. Max({1, p - d}) \in {1, p - d} /\ Max({1, p - d}) >= 1
  BY <1>1, MaxOfTwo
<1>3. Min({len, p + d}) \in {len, p + d} /\ Min({len, p + d}) <= len
  BY <1>1, MinOfTwo
<1> QED BY <1>2, <1>3

(* An occurrence in w, in parts.                                           *)
SpanIn(w) == [head : w.lo..w.hi, start : w.lo..w.hi, end : w.lo..w.hi]

Shape(r, b, o) ==
    /\ o.start <= o.end
    /\ \A q \in o.start..o.end : b[q] \in r.symbols
    /\ IF r.behind
       THEN /\ b[o.head] \in r.words
            /\ o.head + 1 < o.start
            /\ \A q \in (o.head + 1)..(o.start - 1) : b[q] \in Blank
            /\ o.end - o.start < r.span
       ELSE /\ o.head = o.start
            /\ r.words = {} \/ \E q \in o.start..o.end : b[q] \in r.words

LEMMA OccurrenceParts ==
  ASSUME NEW r, NEW b, NEW w, NEW o
  PROVE  o \in Occurrences(r, b, w) <=>
           /\ o \in SpanIn(w)
           /\ Shape(r, b, o)
           /\ o.head = w.lo \/ b[o.head - 1] \notin r.symbols \union r.words
           /\ o.end = w.hi \/ b[o.end + 1] \notin r.symbols \union r.words
BY Zenon DEF Occurrences, SpanIn, Shape

LEMMA ReachType ==
  ASSUME NEW n \in DOMAIN Rules
  PROVE  /\ Reach(Rules[n]) \in Nat /\ Rules[n].span \in Nat
         /\ Reach(Rules[n]) >= Rules[n].span
<1>1. Rules[n].span \in Int /\ MinWindow \in Int /\ Rules[n].span \in Nat /\ MinWindow \in Nat
  BY RuleAssumption
<1>2. /\ Max({Rules[n].span, MinWindow}) \in {Rules[n].span, MinWindow}
      /\ Max({Rules[n].span, MinWindow}) >= Rules[n].span
  BY <1>1, MaxOfTwo
<1> QED BY <1>1, <1>2 DEF Reach

LEMMA WholeOccurrence ==
  ASSUME NEW S, NEW b \in Seq(S), NEW r, NEW o \in Occurrences(r, b, Whole(b))
  PROVE  /\ o.head \in 1..Len(b) /\ o.start \in 1..Len(b) /\ o.end \in 1..Len(b)
         /\ o.head <= o.start /\ o.start <= o.end
         /\ Shape(r, b, o)
         /\ o.head = 1 \/ b[o.head - 1] \notin r.symbols \union r.words
         /\ o.end = Len(b) \/ b[o.end + 1] \notin r.symbols \union r.words
<1>1. o \in SpanIn(Whole(b)) /\ Shape(r, b, o)
      /\ (o.head = 1 \/ b[o.head - 1] \notin r.symbols \union r.words)
      /\ (o.end = Len(b) \/ b[o.end + 1] \notin r.symbols \union r.words)
  BY OccurrenceParts DEF Whole
<1>2. o.head \in 1..Len(b) /\ o.start \in 1..Len(b) /\ o.end \in 1..Len(b)
  BY <1>1 DEF SpanIn, Whole
<1>3. o.head <= o.start /\ o.start <= o.end
  BY <1>1, <1>2 DEF Shape
<1> QED BY <1>1, <1>2, <1>3

(* Some window holds a match that is sought.                               *)
LEMMA WindowFits ==
  ASSUME NEW S, NEW b \in Seq(S), NEW n \in DOMAIN Rules,
         NEW o \in Occurrences(Rules[n], b, Whole(b)),
         Sought(Rules[n], b, o), Accepted(Rules[n], b, o.start, o.end)
  PROVE  \E w \in Windows(Rules[n], b) :
            /\ w.lo \in Int /\ w.hi \in Int
            /\ 1 <= w.lo /\ w.lo <= o.head /\ o.end <= w.hi /\ w.hi <= Len(b)
<1> DEFINE r == Rules[n]
<1>1. /\ o.head \in 1..Len(b) /\ o.start \in 1..Len(b) /\ o.end \in 1..Len(b)
      /\ o.head <= o.start /\ o.start <= o.end /\ Len(b) \in Nat
  BY WholeOccurrence
<1>2. ~ r.behind => o.head = o.start
  BY WholeOccurrence DEF Shape
<1>3. r.span \in Nat /\ o.end - o.start + 1 <= r.span /\ Reach(r) \in Nat /\ Reach(r) >= r.span
  BY ReachType DEF Accepted
<1>4. Sought(r, b, o)
  OBVIOUS
<1> HIDE DEF r
<1>5. CASE r.keys = {}
  <2>1. Whole(b) \in Windows(r, b)
    BY <1>5 DEF Windows
  <2> QED BY <2>1, <1>1 DEF Whole, r
<1>6. CASE r.keys # {}
  <2>1. PICK q \in o.head..o.end : /\ b[q] \in r.keys
                                   /\ r.behind => q - Reach(r) <= o.head /\ o.end <= q + Reach(r)
    BY <1>4, <1>6 DEF Sought
  <2> DEFINE w == [lo |-> Max({1, q - Reach(r)}), hi |-> Min({Len(b), q + Reach(r)})]
  <2>2. q \in Int /\ q \in DOMAIN b
    BY <1>1
  <2>3. w \in Windows(r, b)
    BY <1>6, <2>1, <2>2 DEF Windows
  <2>4. q - Reach(r) <= o.head /\ o.end <= q + Reach(r)
    <3>1. CASE r.behind
      BY <2>1, <3>1
    <3>2. CASE ~ r.behind
      BY <1>1, <1>2, <1>3, <3>2
    <3> QED BY <3>1, <3>2
  <2>5. /\ w.lo \in {1, q - Reach(r)} /\ w.lo >= 1
        /\ w.hi \in {Len(b), q + Reach(r)} /\ w.hi <= Len(b)
    BY <2>2, WindowEnds, <1>1, <1>3
  <2> HIDE DEF w
  <2>6. w.lo \in Int /\ w.hi \in Int /\ w.lo <= o.head /\ o.end <= w.hi
    BY <1>1, <1>3, <2>2, <2>4, <2>5
  <2> QED BY <2>3, <2>5, <2>6 DEF r
<1> QED BY <1>5, <1>6

(* In that window the expression matches at the same place,                *)
LEMMA OccursInWindow ==
  ASSUME NEW S, NEW b \in Seq(S), NEW r, NEW o \in Occurrences(r, b, Whole(b)), NEW w,
         w.lo \in Int, w.hi \in Int, 1 <= w.lo, w.lo <= o.head, o.end <= w.hi, w.hi <= Len(b)
  PROVE  o \in Occurrences(r, b, w)
<1>1. /\ o.head \in 1..Len(b) /\ o.start \in 1..Len(b) /\ o.end \in 1..Len(b)
      /\ o.head <= o.start /\ o.start <= o.end /\ Len(b) \in Nat
      /\ Shape(r, b, o)
      /\ o.head = 1 \/ b[o.head - 1] \notin r.symbols \union r.words
      /\ o.end = Len(b) \/ b[o.end + 1] \notin r.symbols \union r.words
  BY WholeOccurrence
<1>2. o \in SpanIn(w)
  <2>1. o.head \in w.lo..w.hi /\ o.start \in w.lo..w.hi /\ o.end \in w.lo..w.hi
    BY <1>1
  <2>2. o \in SpanIn(Whole(b))
    BY OccurrenceParts
  <2> QED BY <2>1, <2>2 DEF SpanIn
<1>3. (o.head = 1 => o.head = w.lo) /\ (o.end = Len(b) => o.end = w.hi)
  BY <1>1
<1> QED BY <1>1, <1>2, <1>3, OccurrenceParts

(* and no other match there takes a symbol of it.                          *)
LEMMA NoneClashes ==
  ASSUME NEW S, NEW b \in Seq(S), NEW n \in DOMAIN Rules,
         NEW o \in Occurrences(Rules[n], b, Whole(b)), Sought(Rules[n], b, o),
         NEW w, w.lo \in Int, w.hi \in Int, 1 <= w.lo, w.lo <= o.head, o.end <= w.hi, w.hi <= Len(b),
         NEW p \in Occurrences(Rules[n], b, w)
  PROVE  ~ Clash(Rules[n], p, o)
<1> SUFFICES ASSUME Clash(Rules[n], p, o) PROVE FALSE
  OBVIOUS
<1> DEFINE r == Rules[n]
<1>1. /\ o.head \in 1..Len(b) /\ o.start \in 1..Len(b) /\ o.end \in 1..Len(b)
      /\ o.head <= o.start /\ o.start <= o.end /\ Len(b) \in Nat
      /\ Shape(r, b, o)
      /\ o.head = 1 \/ b[o.head - 1] \notin r.symbols \union r.words
  BY WholeOccurrence
<1>2. /\ p \in SpanIn(w) /\ Shape(r, b, p)
      /\ p.end = w.hi \/ b[p.end + 1] \notin r.symbols \union r.words
  BY OccurrenceParts
<1>3. p.head \in w.lo..w.hi /\ p.start \in w.lo..w.hi /\ p.end \in w.lo..w.hi
  BY <1>2 DEF SpanIn
<1>4. p.head < o.head /\ o.head <= p.end + IF r.behind THEN 2 ELSE 0
  BY DEF Clash
<1>5. Sought(r, b, o) /\ Clash(r, p, o)
  OBVIOUS
<1>6. r.behind => (r.symbols \union r.words) \intersect Blank = {}
  BY RuleAssumption
<1> HIDE DEF r
<1>7. CASE r.behind
  <2>1. p.end # w.hi
    <3> SUFFICES ASSUME p.end = w.hi PROVE FALSE
      OBVIOUS
    <3>1. b[o.head] \in r.words /\ o.head + 1 < o.start /\ b[o.head + 1] \in Blank
      BY <1>1, <1>7 DEF Shape
    <3>2. CASE p.start <= o.head + 1
      <4>1. o.head + 1 \in p.start..p.end
        BY <1>1, <1>3, <3>1, <3>2
      <4>2. b[o.head + 1] \in r.symbols
        BY <1>2, <4>1 DEF Shape
      <4> QED BY <1>6, <1>7, <3>1, <4>2
    <3>3. CASE ~ (p.start <= o.head + 1)
      <4>1. o.head \in (p.head + 1)..(p.start - 1)
        BY <1>1, <1>3, <1>4, <3>3
      <4>2. b[o.head] \in Blank
        BY <1>2, <1>7, <4>1 DEF Shape
      <4> QED BY <1>6, <1>7, <3>1, <4>2
    <3> QED BY <3>2, <3>3
  <2> DEFINE v == [lo |-> p.head, hi |-> Len(b)]
  <2>2. p.head \in 1..(o.head - 1)
    BY <1>1, <1>3, <1>4
  <2>3. p \in SpanIn(v)
    <3>1. p.head <= p.start /\ p.start <= p.end
      BY <1>2, <1>3, <1>7 DEF Shape
    <3>2. p.head \in v.lo..v.hi /\ p.start \in v.lo..v.hi /\ p.end \in v.lo..v.hi
      BY <1>1, <1>3, <3>1
    <3> QED BY <1>2, <3>2 DEF SpanIn
  <2>4. p \in Occurrences(r, b, v)
    <3>1. p.head = v.lo
      OBVIOUS
    <3> HIDE DEF v
    <3> QED BY <1>2, <2>1, <2>3, <3>1, OccurrenceParts
  <2> QED BY <1>5, <2>2, <2>4 DEF Sought
<1>8. CASE ~ r.behind
  <2>1. p.head = p.start /\ o.head <= p.end
    BY <1>2, <1>3, <1>4, <1>8 DEF Shape
  <2>2. o.head - 1 \in p.start..p.end /\ o.head # 1
    BY <1>1, <1>3, <1>4, <2>1
  <2>3. b[o.head - 1] \in r.symbols
    BY <1>2, <2>2 DEF Shape
  <2> QED BY <1>1, <2>2, <2>3
<1> QED BY <1>7, <1>8

(* No window cuts a value that is not too long, and no match that a search *)
(* takes first hides one: whatever a rule matches in the whole text with a *)
(* word spelled like a keyword, near enough to it and with no name before  *)
(* it that claims its first symbol, is a candidate (keywordRanges,         *)
(* ruleFindAll, FindMatches).                                              *)
THEOREM ValuesAreFound ==
  ASSUME NEW S, NEW b \in Seq(S)
  PROVE  Values(b) \subseteq Candidates(b)
<1> SUFFICES ASSUME NEW m \in Values(b) PROVE m \in Candidates(b)
  OBVIOUS
<1>a. PICK n \in DOMAIN Rules : \E o \in Occurrences(Rules[n], b, Whole(b)) :
        /\ Sought(Rules[n], b, o)
        /\ m = [start |-> o.start, end |-> o.end, rule |-> n]
        /\ Accepted(Rules[m.rule], b, m.start, m.end)
  BY DEF Values, Placed
<1>1. PICK o \in Occurrences(Rules[n], b, Whole(b)) :
        /\ Sought(Rules[n], b, o)
        /\ m = [start |-> o.start, end |-> o.end, rule |-> n]
        /\ Accepted(Rules[m.rule], b, m.start, m.end)
  BY <1>a
<1>2. m.rule = n /\ m.start = o.start /\ m.end = o.end
  BY <1>1
<1>3. PICK w \in Windows(Rules[n], b) :
        /\ w.lo \in Int /\ w.hi \in Int
        /\ 1 <= w.lo /\ w.lo <= o.head /\ o.end <= w.hi /\ w.hi <= Len(b)
  BY <1>1, <1>2, WindowFits
<1>4. o \in Occurrences(Rules[n], b, w)
  BY <1>3, OccursInWindow
<1>5. \A p \in Occurrences(Rules[n], b, w) : ~ Clash(Rules[n], p, o)
  BY <1>1, <1>3, NoneClashes
<1>6. o \in FindAll(Rules[n], b, w)
  BY <1>4, <1>5 DEF FindAll
<1>7. m \in Placed(n, UNION {FindAll(Rules[n], b, x) : x \in Windows(Rules[n], b)})
  BY <1>1, <1>3, <1>6 DEF Placed
<1> QED BY <1>1, <1>7 DEF Candidates

LEMMA CandidatePlaces ==
  ASSUME NEW S, NEW b \in Seq(S), NEW c \in Candidates(b)
  PROVE  c \in [start : DOMAIN b, end : DOMAIN b, rule : DOMAIN Rules] /\ c.start <= c.end
<1>1. PICK n \in DOMAIN Rules :
         c \in Placed(n, UNION {FindAll(Rules[n], b, w) : w \in Windows(Rules[n], b)})
  BY DEF Candidates
<1> DEFINE r == Rules[n]
<1>2. PICK w \in Windows(r, b) : \E o \in FindAll(r, b, w) :
         c = [start |-> o.start, end |-> o.end, rule |-> n]
  BY <1>1 DEF Placed
<1>3. PICK o \in Occurrences(r, b, w) : c = [start |-> o.start, end |-> o.end, rule |-> n]
  BY <1>2 DEF FindAll
<1>4. Reach(r) \in Nat /\ Len(b) \in Nat
  BY ReachType
<1> HIDE DEF r
<1>5. w.lo \in Int /\ w.hi \in Int /\ w.lo >= 1 /\ w.hi <= Len(b)
  <2>1. CASE r.keys = {}
    BY <1>4, <2>1 DEF Windows, Whole
  <2>2. CASE r.keys # {}
    <3>1. PICK p \in DOMAIN b : w = [lo |-> Max({1, p - Reach(r)}), hi |-> Min({Len(b), p + Reach(r)})]
      BY <2>2 DEF Windows
    <3>2. p \in Int
      OBVIOUS
    <3>3. w.lo = Max({1, p - Reach(r)}) /\ w.hi = Min({Len(b), p + Reach(r)})
      BY <3>1
    <3>4. /\ w.lo \in {1, p - Reach(r)} /\ w.lo >= 1
          /\ w.hi \in {Len(b), p + Reach(r)} /\ w.hi <= Len(b)
      BY <1>4, <3>2, <3>3, WindowEnds
    <3> QED BY <1>4, <3>2, <3>4
  <2> QED BY <2>1, <2>2
<1>6. o.start \in w.lo..w.hi /\ o.end \in w.lo..w.hi /\ o.start <= o.end
  BY OccurrenceParts DEF SpanIn, Shape
<1>7. o.start \in DOMAIN b /\ o.end \in DOMAIN b
  BY <1>4, <1>5, <1>6
<1> QED BY <1>3, <1>6, <1>7

-----------------------------------------------------------------------------
(* Types.                                                                  *)

Places == [start : DOMAIN segment, end : DOMAIN segment, rule : DOMAIN Rules]

LEMMA MapType ==
  ASSUME NEW S, NEW T, NEW b \in Seq(S), NEW q,
         q = [i \in DOMAIN b |-> q[i]], \A i \in DOMAIN b : q[i] \in T
  PROVE  q \in Seq(T)
<1>1. Len(b) \in Nat /\ DOMAIN b = 1..Len(b)
  OBVIOUS
<1>2. q \in [1..Len(b) -> T]
  BY <1>1
<1> QED BY <1>1, <1>2, SeqDef

LEMMA RawType == \A c \in Symbols : Raw(c) \in OutputSymbols
  BY DEF OutputSymbols

LEMMA TokenType ==
  ASSUME NEW x \in OutputSymbols, x.form = "token"
  PROVE  x.text \in Seq(Symbols)
<1> DEFINE T == Seq(Symbols)
           K == Types
<1>1. \/ \E c \in Symbols : x = Raw(c)
      \/ \E n \in DOMAIN Rules : x = Redacted(Rules[n].type)
      \/ x \in [form : {"token"}, type : K, text : T]
  BY DEF OutputSymbols
<1> HIDE DEF T, K
<1>2. CASE \E c \in Symbols : x = Raw(c)
  <2>1. PICK c \in Symbols : x = Raw(c)
    BY <1>2
  <2>2. Raw(c).form = "raw"
    BY Zenon DEF Raw
  <2> QED BY <2>1, <2>2
<1>3. CASE \E n \in DOMAIN Rules : x = Redacted(Rules[n].type)
  <2>1. PICK n \in DOMAIN Rules : x = Redacted(Rules[n].type)
    BY <1>3
  <2>2. Redacted(Rules[n].type).form = "redacted"
    BY Zenon DEF Redacted
  <2> QED BY <2>1, <2>2
<1>4. CASE x \in [form : {"token"}, type : K, text : T]
  BY <1>4 DEF T
<1> QED BY <1>1, <1>2, <1>3, <1>4

LEMMA ReplaceType ==
  ASSUME NEW S, NEW b \in Seq(S), NEW by \in Seq(S), NEW l, NEW r
  PROVE  ReplaceLiteral(b, l, r, by) \in Seq(S)
<1> DEFINE here(i) == i \in 1..(Len(b) - 1) /\ b[i] = l /\ b[i + 1] = r
           q == [i \in DOMAIN b |->
                   IF here(i) THEN by ELSE IF here(i - 1) THEN <<>> ELSE <<b[i]>>]
<1>1. \A i \in DOMAIN b : q[i] \in Seq(S)
  OBVIOUS
<1>2. q \in Seq(Seq(S))
  <2> HIDE DEF here
  <2>1. q = [i \in DOMAIN b |-> q[i]]
    OBVIOUS
  <2> HIDE DEF q
  <2> QED BY <1>1, <2>1, MapType
<1>3. ReplaceLiteral(b, l, r, by) = FlattenSeq(q)
  BY DEF ReplaceLiteral
<1> HIDE DEF q
<1> QED BY <1>2, <1>3, FlattenType

LEMMA CharsType ==
  ASSUME NEW t \in Seq(Symbols)
  PROVE  Chars(t) \in Seq(OutputSymbols)
<1>1. \A i \in 1..Len(t) : Raw(t[i]) \in OutputSymbols
  BY RawType
<1> QED BY <1>1 DEF Chars

LEMMA RestoredType ==
  ASSUME NEW b \in Seq(OutputSymbols)
  PROVE  InertDecode(TokensReplaced(b)) \in Seq(OutputSymbols)
<1>1. \A i \in DOMAIN b : <<b[i]>> \in Seq(OutputSymbols)
  OBVIOUS
<1>2. \A i \in DOMAIN b : b[i].form = "token" => Chars(b[i].text) \in Seq(OutputSymbols)
  <2> SUFFICES ASSUME NEW i \in DOMAIN b, b[i].form = "token"
               PROVE  b[i].text \in Seq(Symbols)
    BY CharsType
  <2>1. b[i] \in OutputSymbols
    OBVIOUS
  <2> QED BY <2>1, TokenType
<1> DEFINE q == [i \in DOMAIN b |->
                   IF b[i].form = "token" /\ [type |-> b[i].type, text |-> b[i].text] \in rows
                   THEN Chars(b[i].text)
                   ELSE <<b[i]>>]
           known == FlattenSeq(q)
<1>3. \A i \in DOMAIN b : q[i] \in Seq(OutputSymbols)
  BY <1>1, <1>2, Zenon
<1>4. q \in Seq(Seq(OutputSymbols))
  <2>1. q = [i \in DOMAIN b |-> q[i]]
    BY Zenon
  <2> HIDE DEF q
  <2> QED BY <1>3, <2>1, MapType
<1> HIDE DEF q
<1>5. known \in Seq(OutputSymbols)
  BY <1>4, FlattenType
<1>6. TokensReplaced(b) \in Seq(OutputSymbols)
  <2> HIDE DEF known
  <2>1. ReplaceLiteral(known, Raw(Left), Raw(Right), Chars(Literal.text)) \in Seq(OutputSymbols)
    BY <1>5, CharsType, ReplaceType, MaskAssumption
  <2> QED BY <1>5, <2>1, Zenon DEF TokensReplaced, known, q
<1> DEFINE c == TokensReplaced(b)
           d == [i \in DOMAIN c |-> IF c[i] = Raw(Inert) THEN Chars(<<Left, Right>>) ELSE <<c[i]>>]
<1> HIDE DEF c
<1>7. Chars(<<Left, Right>>) \in Seq(OutputSymbols)
  <2>2. <<Left, Right>> \in Seq(Symbols)
    BY MaskAssumption
  <2> QED BY <2>2, CharsType
<1>8. c \in Seq(OutputSymbols)
  BY <1>6 DEF c
<1>9. d \in Seq(Seq(OutputSymbols))
  <2>1. \A i \in DOMAIN c : <<c[i]>> \in Seq(OutputSymbols)
    BY <1>8
  <2>2. \A i \in DOMAIN c : d[i] \in Seq(OutputSymbols)
    BY <2>1, <1>7, Zenon
  <2>3. d = [i \in DOMAIN c |-> d[i]]
    BY Zenon
  <2> HIDE DEF d
  <2> QED BY <2>2, <2>3, <1>8, MapType
<1>10. InertDecode(c) = FlattenSeq(d)
  BY DEF InertDecode
<1> HIDE DEF d
<1> QED BY <1>9, <1>10, FlattenType DEF c

LEMMA RawPartType ==
  ASSUME segment \in Seq(Symbols), NEW s \in Nat \ {0}, NEW e \in Int, e <= Len(segment)
  PROVE  RawPart(s, e) \in Seq(OutputSymbols)
<1> DEFINE n == e - s + 1
<1>1. \A i \in 1..n : segment[s + i - 1] \in Symbols
  OBVIOUS
<1>2. \A i \in 1..n : Raw(segment[s + i - 1]) \in OutputSymbols
  BY <1>1, RawType
<1> DEFINE len == IF n >= 0 THEN n ELSE 0
<1>3. len \in Nat /\ 1..n = 1..len
  OBVIOUS
<1>4. RawPart(s, e) = [i \in 1..len |-> Raw(segment[s + i - 1])]
  BY <1>3 DEF RawPart
<1> HIDE DEF len
<1>5. RawPart(s, e) \in [1..len -> OutputSymbols]
  BY <1>2, <1>3, <1>4
<1> QED BY <1>3, <1>5, SeqDef

LEMMA ValueType ==
  ASSUME segment \in Seq(Symbols), NEW m \in Places
  PROVE  /\ Token(ValueOf(m)) \in OutputSymbols
         /\ ValueOf(m) \in [type : Types, text : Seq(Symbols)]
<1>1. /\ m.start \in 1..Len(segment) /\ m.end \in 1..Len(segment) /\ m.rule \in DOMAIN Rules
      /\ Len(segment) \in Nat
  BY DEF Places
<1>2. SubSeq(segment, m.start, m.end) \in Seq(Symbols)
  BY <1>1, SubSeqProperties
<1> DEFINE t == SubSeq(segment, m.start, m.end)
           K == Types
           T == Seq(Symbols)
<1>3. Token(ValueOf(m)) = [form |-> "token", type |-> Rules[m.rule].type, text |-> t]
  BY Zenon DEF Token, ValueOf
<1>4. Rules[m.rule].type \in K /\ t \in T
  BY <1>1, <1>2 DEF Types
<1>5. [form : {"token"}, type : K, text : T] \subseteq OutputSymbols
  BY DEF OutputSymbols
<1>6. ValueOf(m) = [type |-> Rules[m.rule].type, text |-> t]
  BY Zenon DEF ValueOf
<1> HIDE DEF t, K, T
<1>7. ValueOf(m) \in [type : K, text : T]
  BY <1>4, <1>6
<1> QED BY <1>3, <1>4, <1>5, <1>7 DEF K, T

LEMMA RenderedType ==
  ASSUME segment \in Seq(Symbols), picked \in Seq(Places)
  PROVE  Rendered \in Seq(OutputSymbols)
<1> DEFINE after(i) == IF i = 0 THEN 1 ELSE picked[i].end + 1
           sign(i) == IF Rules[picked[i].rule].destroy
                      THEN Redacted(Rules[picked[i].rule].type)
                      ELSE Token(ValueOf(picked[i]))
           piece(i) == Append(RawPart(after(i - 1), picked[i].start - 1), sign(i))
           q == [i \in DOMAIN picked |-> piece(i)]
<1>1. Len(picked) \in Nat /\ DOMAIN picked = 1..Len(picked) /\ Len(segment) \in Nat
  OBVIOUS
<1>2. \A i \in DOMAIN picked : /\ picked[i] \in Places
                               /\ picked[i].start \in 1..Len(segment)
                               /\ picked[i].end \in 1..Len(segment)
                               /\ picked[i].rule \in DOMAIN Rules
  <2> SUFFICES ASSUME NEW i \in DOMAIN picked
               PROVE  /\ picked[i] \in Places
                      /\ picked[i].start \in 1..Len(segment)
                      /\ picked[i].end \in 1..Len(segment)
                      /\ picked[i].rule \in DOMAIN Rules
    OBVIOUS
  <2>1. picked[i] \in Places
    OBVIOUS
  <2> QED BY <2>1 DEF Places
<1>3. \A i \in 0..Len(picked) : after(i) \in Nat \ {0}
  BY <1>1, <1>2
<1>4. \A n \in DOMAIN Rules : Redacted(Rules[n].type) \in OutputSymbols
  BY DEF OutputSymbols
<1>5. \A i \in DOMAIN picked : sign(i) \in OutputSymbols
  BY <1>2, <1>4, ValueType
<1> HIDE DEF sign, after
<1>6. \A i \in DOMAIN picked : piece(i) \in Seq(OutputSymbols)
  <2> SUFFICES ASSUME NEW i \in DOMAIN picked PROVE piece(i) \in Seq(OutputSymbols)
    OBVIOUS
  <2>1. after(i - 1) \in Nat \ {0} /\ picked[i].start - 1 \in Int /\ picked[i].start - 1 <= Len(segment)
    BY <1>1, <1>2, <1>3
  <2>2. RawPart(after(i - 1), picked[i].start - 1) \in Seq(OutputSymbols)
    BY <2>1, RawPartType
  <2> QED BY <2>2, <1>5, AppendProperties
<1> HIDE DEF piece
<1>7. q \in Seq(Seq(OutputSymbols))
  <2>1. q = [i \in DOMAIN picked |-> q[i]]
    BY Zenon
  <2>2. \A i \in DOMAIN picked : q[i] \in Seq(OutputSymbols)
    BY <1>6, Zenon
  <2> HIDE DEF q
  <2> QED BY <2>1, <2>2, MapType
<1>8. FlattenSeq(q) \in Seq(OutputSymbols)
  <2> HIDE DEF q
  <2> QED BY <1>7, FlattenType
<1>9. RawPart(after(Len(picked)), Len(segment)) \in Seq(OutputSymbols)
  <2>1. after(Len(picked)) \in Nat \ {0}
    BY <1>1, <1>3
  <2> QED BY <2>1, <1>1, RawPartType
<1>10. Rendered = FlattenSeq(q) \o RawPart(after(Len(picked)), Len(segment))
  BY Zenon DEF Rendered, q, piece, after, sign
<1> HIDE DEF q
<1> QED BY <1>8, <1>9, <1>10, ConcatProperties

LEMMA EscapedType ==
  ASSUME NEW b \in Seq(Symbols)
  PROVE  InertEscape(b) \in Seq(Symbols)
<1>1. <<Inert>> \in Seq(Symbols)
  BY MaskAssumption
<1> QED BY <1>1, ReplaceType DEF InertEscape

LEMMA EndOfSegment ==
  ASSUME NEW n \in Nat, NEW t \in Nat, t < n, NEW C, C \subseteq 1..(n - 1)
  PROVE  Min({c \in C : c > t} \union {n}) \in (t + 1)..n
<1> DEFINE E == {c \in C : c > t} \union {n}
<1>1. ASSUME NEW e \in E PROVE e \in (t + 1)..n
  <2>1. CASE e = n
    BY <2>1
  <2>2. CASE e \in C /\ e > t
    <3>1. e \in 1..(n - 1)
      BY <2>2
    <3> QED BY <3>1, <2>2
  <2> QED BY <2>1, <2>2
<1>a. E \in SUBSET Nat /\ E # {} /\ \A e \in E : e \in (t + 1)..n
  <2> HIDE DEF E
  <2>1. \A e \in E : e \in Nat
    BY <1>1
  <2> QED BY <1>1, <2>1 DEF E
<1>2. \E x \in E : \A y \in E : x <= y
  BY <1>a, LeastOf
<1> HIDE DEF E
<1>3. Min(E) \in E
  BY <1>2 DEF Min
<1> QED BY <1>a, <1>3 DEF E

LEMMA LastOfType ==
  ASSUME NEW S, NEW b \in Seq(S), NEW n \in Nat
  PROVE  LastOf(b, n) \in Seq(S) /\ Len(LastOf(b, n)) <= n
<1>1. CASE Len(b) <= n
  BY <1>1 DEF LastOf
<1>2. CASE ~ (Len(b) <= n)
  BY <1>2, SubSeqProperties DEF LastOf
<1> QED BY <1>1, <1>2

(* Every variable keeps its type: escaping, rendering, restoring yield     *)
(* sequences of the right symbols, and the deny writer keeps no more of    *)
(* the output than its limit.                                              *)
LEMMA TypeInit == Init => TypeOK
<1> SUFFICES ASSUME Init PROVE TypeOK
  OBVIOUS
<1>1. input \in Seq(Symbols) /\ Len(input) \in Nat
  BY MaskAssumption DEF Init
<1>2. <<>> \in Seq(OutputSymbols) /\ <<>> \in Seq(Symbols) /\ Len(<<>>) <= Limit
  BY MaskAssumption
<1>3. rows \subseteq [type : Types, text : Seq(Symbols)] \union {Literal}
  BY Zenon DEF Init
<1>4. <<>> \in Seq(Places)
  BY EmptySeq
<1>5. /\ picked \in Seq(Places) /\ found \subseteq Places /\ segment \in Seq(Symbols)
      /\ {masked, tail, restored} \subseteq Seq(OutputSymbols) /\ Len(tail) <= Limit
  BY <1>2, <1>4 DEF Init
<1>6. input \in Inputs /\ cuts \subseteq 1..(Len(input) - 1) /\ taken \in 0..Len(input)
  BY <1>1 DEF Init
<1>7. hit \in BOOLEAN /\ at = "read"
  BY DEF Init
<1> QED BY <1>3, <1>5, <1>6, <1>7 DEF TypeOK, Places

LEMMA TakeType ==
  ASSUME TypeOK, TakeSegment
  PROVE  TypeOK' /\ segment' \in Seq(Symbols)
<1> DEFINE e == Min({n \in cuts : n > taken} \union {Len(input)})
<1>1. input \in Seq(Symbols) /\ Len(input) \in Nat /\ taken \in Nat /\ taken < Len(input)
  BY MaskAssumption DEF TypeOK, TakeSegment
<1>2. e \in (taken + 1)..Len(input)
  <2>1. cuts \subseteq 1..(Len(input) - 1)
    BY DEF TypeOK
  <2> QED BY <1>1, <2>1, EndOfSegment
<1> HIDE DEF e
<1>3. SubSeq(input, taken + 1, e) \in Seq(Symbols)
  BY <1>1, <1>2, SubSeqProperties
<1>4. segment' = InertEscape(SubSeq(input, taken + 1, e)) /\ taken' = e
  BY DEF TakeSegment, e
<1>5. segment' \in Seq(Symbols)
  BY <1>3, <1>4, EscapedType
<1>6. found' \subseteq Places'
  BY <1>5, CandidatePlaces DEF TakeSegment, Places
<1>7. picked' \in Seq(Places')
  BY DEF TakeSegment
<1> QED BY <1>1, <1>2, <1>4, <1>5, <1>6, <1>7 DEF TypeOK, TakeSegment, Places, given, deny

LEMMA TypeParts ==
  TypeOK <=>
    /\ input \in Inputs /\ cuts \subseteq 1..(Len(input) - 1) /\ taken \in 0..Len(input)
    /\ segment \in Seq(Symbols)
    /\ found \subseteq Places /\ picked \in Seq(Places)
    /\ rows \subseteq [type : Types, text : Seq(Symbols)] \union {Literal}
    /\ {masked, tail, restored} \subseteq Seq(OutputSymbols) /\ Len(tail) <= Limit
    /\ hit \in BOOLEAN
    /\ at \in {"read", "match", "write", "failed", "done", "canary", "unmasked"}
  BY DEF TypeOK, Places

LEMMA PickType ==
  ASSUME TypeOK, NEW m \in found, Pick(m)
  PROVE  TypeOK'
<1>1. m \in Places /\ found' \subseteq Places /\ Places' = Places
  BY TypeParts DEF Pick, Places, given
<1>2. picked' \in Seq(Places)
  <2>1. Append(picked, m) \in Seq(Places)
    BY <1>1, TypeParts, AppendProperties
  <2> QED BY <2>1, TypeParts DEF Pick
<1> QED BY <1>1, <1>2 DEF TypeOK, Places, Pick, given, deny

LEMMA WriteType ==
  ASSUME TypeOK, WriteMasked
  PROVE  TypeOK'
<1>1. Rendered \in Seq(OutputSymbols) /\ masked \in Seq(OutputSymbols) /\ tail \in Seq(OutputSymbols)
  BY RenderedType, TypeParts
<1> DEFINE p == Rendered
<1> HIDE DEF p
<1>2. p \in Seq(OutputSymbols)
  BY <1>1 DEF p
<1>3. masked \o p \in Seq(OutputSymbols) /\ tail \o p \in Seq(OutputSymbols)
  BY <1>1, <1>2, ConcatProperties
<1>4. DenyWrite(p)
  BY DEF WriteMasked, p
<1>5. masked' \in Seq(OutputSymbols)
  BY <1>3, <1>4 DEF DenyWrite
<1>6. tail' \in Seq(OutputSymbols) /\ Len(tail') <= Limit
  <2>1. LastOf(tail \o p, Limit) \in Seq(OutputSymbols) /\ Len(LastOf(tail \o p, Limit)) <= Limit
    BY <1>3, LastOfType, MaskAssumption
  <2> QED BY <2>1, <1>4, TypeParts DEF DenyWrite
<1>7. hit' \in BOOLEAN
  BY <1>4 DEF DenyWrite, Hits, TypeOK
<1>8. restored' = restored /\ restored \in Seq(OutputSymbols) /\ rows' = rows /\ at' = "read"
  BY TypeParts DEF WriteMasked
<1> QED BY <1>5, <1>6, <1>7, <1>8 DEF TypeOK, WriteMasked, given

LEMMA CommitType ==
  ASSUME TypeOK, CommitPlans
  PROVE  TypeOK'
<1>1. \A m \in Range(picked) : ValueOf(m) \in [type : Types, text : Seq(Symbols)]
  <2>1. picked \in Seq(Places) /\ segment \in Seq(Symbols)
    BY TypeParts
  <2>2. Range(picked) \subseteq Places
    BY <2>1 DEF Range
  <2> QED BY <2>1, <2>2, ValueType
<1>2. rows \subseteq [type : Types, text : Seq(Symbols)] \union {Literal}
  BY DEF TypeOK
<1>3. rows' \subseteq [type : Types, text : Seq(Symbols)] \union {Literal}
  BY <1>1, <1>2 DEF CommitPlans
<1>4. at' \in {"write", "failed"}
  BY DEF CommitPlans
<1> QED BY <1>3, <1>4 DEF TypeOK, CommitPlans, given, deny

LEMMA UnmaskType ==
  ASSUME TypeOK, Unmask
  PROVE  TypeOK'
<1>1. restored' \in Seq(OutputSymbols)
  BY RestoredType, TypeParts DEF Unmask
<1> QED BY <1>1 DEF TypeOK, Unmask, given, deny

LEMMA TypeStep == TypeOK /\ [Next]_vars => TypeOK'
<1> SUFFICES ASSUME TypeOK, [Next]_vars PROVE TypeOK'
  OBVIOUS
<1>1. CASE TakeSegment
  BY <1>1, TakeType
<1>2. CASE \E m \in found : Pick(m)
  BY <1>2, PickType
<1>3. CASE CommitPlans
  BY <1>3, CommitType
<1>4. CASE WriteMasked
  BY <1>4, WriteType
<1>5. CASE Finish
  BY <1>5 DEF TypeOK, Finish, given, deny
<1>6. CASE Unmask
  BY <1>6, UnmaskType
<1>7. CASE \E v \in rows : Prune(v)
  <2>1. rows' \subseteq rows /\ rows \subseteq [type : Types, text : Seq(Symbols)] \union {Literal}
    BY <1>7 DEF Prune, TypeOK
  <2>2. rows' \subseteq [type : Types, text : Seq(Symbols)] \union {Literal}
    BY <2>1
  <2> QED BY <1>7, <2>2 DEF TypeOK, Prune, given, deny
<1>8. CASE UNCHANGED vars
  BY <1>8 DEF TypeOK, vars, given, deny
<1> QED BY <1>1, <1>2, <1>3, <1>4, <1>5, <1>6, <1>7, <1>8 DEF Next

THEOREM MaskTyping == Spec => []TypeOK
BY TypeInit, TypeStep, PTL DEF Spec

-----------------------------------------------------------------------------
(* The canary.                                                             *)

(* Where the end of b that is remembered begins, less one.                 *)
Dropped(b) == IF Len(b) <= Limit THEN 0 ELSE Len(b) - Limit

LEMMA TailIs ==
  ASSUME NEW S, NEW b \in Seq(S)
  PROVE  /\ LastOf(b, Limit) = SubSeq(b, Dropped(b) + 1, Len(b))
         /\ Dropped(b) \in 0..Len(b)
         /\ Dropped(b) <= Len(b) /\ Len(b) - Limit <= Dropped(b)
<1>1. Len(b) \in Nat /\ Limit \in Nat
  BY MaskAssumption
<1>2. CASE Len(b) <= Limit
  BY <1>1, <1>2, SubSeqFull DEF LastOf, Dropped
<1>3. CASE ~ (Len(b) <= Limit)
  BY <1>1, <1>3 DEF LastOf, Dropped
<1> QED BY <1>2, <1>3

(* The tail followed by what is written is an end of the whole output.     *)
LEMMA EndOfOutput ==
  ASSUME NEW S, NEW m \in Seq(S), NEW p \in Seq(S), NEW k \in 0..Len(m)
  PROVE  SubSeq(m, k + 1, Len(m)) \o p = SubSeq(m \o p, k + 1, Len(m \o p))
<1> DEFINE u == SubSeq(m, k + 1, Len(m))
           w == m \o p
           v == SubSeq(w, k + 1, Len(w))
<1>1. /\ Len(m) \in Nat /\ Len(p) \in Nat /\ k \in Nat /\ k <= Len(m)
      /\ w \in Seq(S) /\ Len(w) = Len(m) + Len(p)
      /\ \A i \in 1..Len(w) : w[i] = IF i <= Len(m) THEN m[i] ELSE p[i - Len(m)]
  BY ConcatProperties
<1>2. /\ u \in Seq(S) /\ Len(u) = Len(m) - k
      /\ \A i \in 1..(Len(m) - k) : u[i] = m[k + i]
  <2>1. k + 1 \in 1..(Len(m) + 1) /\ Len(m) \in 0..Len(m)
    BY <1>1
  <2> QED BY <1>1, <2>1, SubSeqProperties
<1> HIDE DEF w
<1>3. /\ v \in Seq(S) /\ Len(v) = Len(w) - k
      /\ \A i \in 1..(Len(w) - k) : v[i] = w[k + i]
  <2>1. k + 1 \in 1..(Len(w) + 1) /\ Len(w) \in Nat
    BY <1>1
  <2> QED BY <1>1, <2>1, SubSeqProperties
<1> HIDE DEF u, v
<1>4. /\ u \o p \in Seq(S) /\ Len(u \o p) = Len(v)
      /\ \A i \in 1..Len(v) : (u \o p)[i] = IF i <= Len(u) THEN u[i] ELSE p[i - Len(u)]
  <2>1. Len(v) = Len(u) + Len(p) /\ Len(u) \in Nat
    BY <1>1, <1>2, <1>3
  <2>2. /\ u \o p \in Seq(S) /\ Len(u \o p) = Len(u) + Len(p)
        /\ \A i \in 1..(Len(u) + Len(p)) : (u \o p)[i] = IF i <= Len(u) THEN u[i] ELSE p[i - Len(u)]
    BY <1>2, ConcatProperties
  <2> QED BY <2>1, <2>2
<1>5. \A i \in 1..Len(v) : (u \o p)[i] = v[i]
  <2> SUFFICES ASSUME NEW i \in 1..Len(v) PROVE (u \o p)[i] = v[i]
    OBVIOUS
  <2>1. v[i] = w[k + i] /\ k + i \in 1..Len(w) /\ i \in Nat
    BY <1>1, <1>3
  <2>2. CASE i <= Len(u)
    <3>1. u[i] = m[k + i] /\ k + i <= Len(m)
      BY <1>1, <1>2, <2>1, <2>2
    <3> QED BY <1>1, <1>4, <2>1, <2>2, <3>1
  <2>3. CASE ~ (i <= Len(u))
    <3>1. ~ (k + i <= Len(m)) /\ i - Len(u) = k + i - Len(m)
      BY <1>1, <1>2, <2>1, <2>3
    <3> QED BY <1>1, <1>4, <2>1, <2>3, <3>1
  <2> QED BY <2>2, <2>3
<1>6. u \o p = v
  BY <1>3, <1>4, <1>5, SeqEqual
<1> QED BY <1>6 DEF u, v, w

(* An end of an end.                                                       *)
LEMMA PartOfEnd ==
  ASSUME NEW S, NEW w \in Seq(S), NEW k \in 0..Len(w), NEW i \in Nat, NEW j \in Nat,
         i <= j, k + j <= Len(w)
  PROVE  SubSeq(SubSeq(w, k + 1, Len(w)), i + 1, j) = SubSeq(w, k + i + 1, k + j)
<1> DEFINE v == SubSeq(w, k + 1, Len(w))
<1>1. /\ v \in Seq(S) /\ Len(v) = Len(w) - k /\ Len(w) \in Nat /\ k \in Nat /\ k <= Len(w)
      /\ \A n \in 1..(Len(w) - k) : v[n] = w[k + n]
  <2>1. k + 1 \in 1..(Len(w) + 1) /\ Len(w) \in Nat
    OBVIOUS
  <2> QED BY <2>1, SubSeqProperties
<1> HIDE DEF v
<1> DEFINE x == SubSeq(v, i + 1, j)
           y == SubSeq(w, k + i + 1, k + j)
<1>2. /\ x \in Seq(S) /\ Len(x) = j - i
      /\ \A n \in 1..(j - i) : x[n] = v[i + n]
  <2>1. i + 1 \in 1..(Len(v) + 1) /\ j \in i..Len(v)
    BY <1>1
  <2> QED BY <1>1, <2>1, SubSeqProperties
<1>3. /\ y \in Seq(S) /\ Len(y) = j - i
      /\ \A n \in 1..(j - i) : y[n] = w[k + i + n]
  <2>1. k + i + 1 \in 1..(Len(w) + 1) /\ k + j \in (k + i)..Len(w)
    BY <1>1
  <2> QED BY <1>1, <2>1, SubSeqProperties
<1>4. \A n \in 1..(j - i) : v[i + n] = w[k + i + n]
  <2> SUFFICES ASSUME NEW n \in 1..(j - i) PROVE v[i + n] = w[k + i + n]
    OBVIOUS
  <2>1. i + n \in 1..(Len(w) - k) /\ k + (i + n) = k + i + n
    BY <1>1
  <2> QED BY <1>1, <2>1
<1> HIDE DEF x, y
<1>5. x = y
  BY <1>2, <1>3, <1>4, SeqEqual
<1> QED BY <1>5 DEF v, x, y

LEMMA PartsOf ==
  ASSUME NEW S, NEW w \in Seq(S), NEW d
  PROVE  d \in SubSeqs(w) <=> \E i \in 0..Len(w), j \in 0..Len(w) : d = SubSeq(w, i + 1, j)
BY SMT DEF SubSeqs

(* What Write finds in the tail and the new part is in the output.         *)
LEMMA EndIsPart ==
  ASSUME NEW S, NEW w \in Seq(S), NEW k \in 0..Len(w),
         Hits(SubSeq(w, k + 1, Len(w)))
  PROVE  Hits(w)
<1> DEFINE v == SubSeq(w, k + 1, Len(w))
<1>1. PICK d \in DenyList : d \in SubSeqs(v)
  BY DEF Hits
<1>2. PICK i \in 0..Len(v), j \in 0..Len(v) : d = SubSeq(v, i + 1, j)
  <2>1. v \in Seq(S)
    <3>1. \A n \in (k + 1)..Len(w) : w[n] \in S
      OBVIOUS
    <3> QED BY <3>1, SubSeqProperties
  <2> HIDE DEF v
  <2> QED BY <1>1, <2>1, PartsOf
<1>3. Len(v) = Len(w) - k /\ Len(w) \in Nat /\ k \in Nat /\ k <= Len(w)
  <2>1. \A n \in (k + 1)..Len(w) : w[n] \in S
    OBVIOUS
  <2> QED BY <2>1, SubSeqProperties
<1>4. i < j
  <2>1. ASSUME ~ (i < j) PROVE FALSE
    <3>1. d = <<>>
      BY <1>2, <1>3, <2>1, SubSeqEmpty
    <3> QED BY <3>1, MaskAssumption
  <2> QED BY <2>1
<1>5. SubSeq(v, i + 1, j) = SubSeq(w, k + i + 1, k + j)
  BY <1>2, <1>3, <1>4, PartOfEnd
<1>6. k + i \in 0..Len(w) /\ k + j \in 0..Len(w)
  BY <1>2, <1>3
<1>7. SubSeq(w, k + i + 1, k + j) \in SubSeqs(w)
  <2> DEFINE x == SubSeq(w, k + i + 1, k + j)
  <2>1. \E a \in 0..Len(w), b \in 0..Len(w) : x = SubSeq(w, a + 1, b)
    BY <1>6
  <2> HIDE DEF x
  <2> QED BY <2>1, PartsOf DEF x
<1> QED BY <1>1, <1>2, <1>5, <1>7 DEF Hits

(* What was written before stays where it is.                              *)
LEMMA PartOfPrefix ==
  ASSUME NEW S, NEW m \in Seq(S), NEW p \in Seq(S), NEW i \in 0..Len(m), NEW j \in 0..Len(m)
  PROVE  SubSeq(m, i + 1, j) = SubSeq(m \o p, i + 1, j)
<1> DEFINE w == m \o p
           x == SubSeq(m, i + 1, j)
           y == SubSeq(w, i + 1, j)
<1>1. w \in Seq(S) /\ Len(m) \in Nat /\ Len(w) = Len(m) + Len(p) /\ Len(p) \in Nat
      /\ \A n \in 1..Len(w) : w[n] = IF n <= Len(m) THEN m[n] ELSE p[n - Len(m)]
  BY ConcatProperties
<1>2. i + 1 \in Int /\ j \in Int /\ i \in Nat /\ j \in Nat /\ j <= Len(m)
  BY <1>1
<1> HIDE DEF w
<1>3. \A n \in (i + 1)..j : w[n] = m[n] /\ w[n] \in S /\ m[n] \in S
  BY <1>1, <1>2
<1> DEFINE len == IF i + 1 <= j THEN j - (i + 1) + 1 ELSE 0
<1>4. x \in Seq(S) /\ Len(x) = len
      /\ \A n \in 1..(j - (i + 1) + 1) : x[n] = m[(i + 1) + n - 1]
  BY <1>2, <1>3, SubSeqProperties
<1>5. y \in Seq(S) /\ Len(y) = len
      /\ \A n \in 1..(j - (i + 1) + 1) : y[n] = w[(i + 1) + n - 1]
  BY <1>2, <1>3, SubSeqProperties
<1> HIDE DEF x, y
<1>6. \A n \in 1..Len(x) : x[n] = y[n]
  <2> SUFFICES ASSUME NEW n \in 1..Len(x) PROVE x[n] = y[n]
    OBVIOUS
  <2>1. n \in 1..(j - (i + 1) + 1) /\ (i + 1) + n - 1 \in (i + 1)..j
    BY <1>2, <1>4
  <2> QED BY <2>1, <1>3, <1>4, <1>5
<1>7. x = y
  BY <1>4, <1>5, <1>6, SeqEqual
<1> QED BY <1>7 DEF x, y, w

(* A word the tail is long enough for, of which the new part holds the     *)
(* end, is in the tail and the new part.                                   *)
LEMMA WordInEnd ==
  ASSUME NEW S, NEW m \in Seq(S), NEW p \in Seq(S),
         NEW d \in DenyList, Len(d) <= Limit + 1, d \in SubSeqs(m \o p), d \notin SubSeqs(m)
  PROVE  d \in SubSeqs(LastOf(m, Limit) \o p)
<1> DEFINE w == m \o p
           k == Dropped(m)
           v == SubSeq(w, k + 1, Len(w))
<1>1. w \in Seq(S) /\ Len(w) = Len(m) + Len(p) /\ Len(m) \in Nat /\ Len(p) \in Nat
      /\ \A i \in 1..Len(w) : w[i] = IF i <= Len(m) THEN m[i] ELSE p[i - Len(m)]
  BY ConcatProperties
<1>2. k \in 0..Len(m) /\ k \in Nat /\ k <= Len(m) /\ Len(m) - Limit <= k /\ (k = 0 \/ k = Len(m) - Limit)
      /\ LastOf(m, Limit) = SubSeq(m, k + 1, Len(m)) /\ Limit \in Nat
  <2>1. Limit \in Nat /\ Len(m) \in Nat
    BY MaskAssumption
  <2>2. k = 0 \/ k = Len(m) - Limit
    BY DEF Dropped
  <2>3. k \in 0..Len(m) /\ Len(m) - Limit <= k /\ LastOf(m, Limit) = SubSeq(m, k + 1, Len(m))
    BY TailIs
  <2> HIDE DEF k
  <2> QED BY <2>1, <2>2, <2>3
<1> HIDE DEF k
<1>3. LastOf(m, Limit) \o p = v
  BY <1>2, EndOfOutput
<1> HIDE DEF w
<1>4. PICK i \in 0..Len(w), j \in 0..Len(w) : d = SubSeq(w, i + 1, j)
  <2>1. d \in SubSeqs(w)
    BY DEF w
  <2>2. w \in Seq(S)
    BY <1>1
  <2>3. \E i \in 0..Len(w), j \in 0..Len(w) : d = SubSeq(w, i + 1, j)
    BY <2>1, <2>2, PartsOf
  <2> QED BY <2>3
<1>5. i < j
  <2>1. ASSUME ~ (i < j) PROVE FALSE
    <3>1. d = <<>>
      BY <1>1, <1>4, <2>1, SubSeqEmpty
    <3> QED BY <3>1, MaskAssumption
  <2> QED BY <2>1
<1>6. Len(d) = j - i
  <2>1. \A n \in (i + 1)..j : w[n] \in S
    BY <1>1, <1>4
  <2>2. i + 1 \in Int /\ j \in Int /\ i + 1 <= j
    BY <1>1, <1>4, <1>5
  <2>3. Len(SubSeq(w, i + 1, j)) = j - (i + 1) + 1
    BY <2>1, <2>2, SubSeqProperties
  <2> QED BY <1>4, <2>2, <2>3
<1>7. ~ (j <= Len(m))
  <2>1. ASSUME j <= Len(m) PROVE FALSE
    <3>1. i \in 0..Len(m) /\ j \in 0..Len(m)
      BY <1>1, <1>4, <1>5, <2>1
    <3>2. SubSeq(m, i + 1, j) = SubSeq(w, i + 1, j)
      BY <3>1, PartOfPrefix DEF w
    <3>3. d \in SubSeqs(m)
      <4>1. \E a \in 0..Len(m), b \in 0..Len(m) : d = SubSeq(m, a + 1, b)
        BY <1>4, <3>1, <3>2
      <4> QED BY <4>1, PartsOf
    <3> QED BY <3>3
  <2> QED BY <2>1
<1>8. i - k \in Nat /\ j - k \in Nat /\ i - k <= j - k /\ k + (j - k) <= Len(w) /\ k \in 0..Len(w)
  BY <1>1, <1>2, <1>4, <1>5, <1>6, <1>7
<1>9. SubSeq(v, (i - k) + 1, j - k) = SubSeq(w, k + (i - k) + 1, k + (j - k))
  BY <1>1, <1>8, PartOfEnd
<1>10. k + (i - k) + 1 = i + 1 /\ k + (j - k) = j
  BY <1>2, <1>4, <1>1
<1>11. d = SubSeq(v, (i - k) + 1, j - k)
  BY <1>4, <1>9, <1>10
<1>12. Len(v) = Len(w) - k
  <2>1. k + 1 \in Int /\ Len(w) \in Int /\ \A n \in (k + 1)..Len(w) : w[n] \in S
    BY <1>1, <1>2
  <2>2. /\ v \in Seq(S)
        /\ Len(v) = IF k + 1 <= Len(w) THEN Len(w) - (k + 1) + 1 ELSE 0
    BY <2>1, SubSeqProperties
  <2> QED BY <2>2, <1>8, <1>1, <1>2
<1>a. v \in Seq(S)
  <2>1. k + 1 \in Int /\ Len(w) \in Int /\ \A n \in (k + 1)..Len(w) : w[n] \in S
    BY <1>1, <1>2
  <2> QED BY <2>1, SubSeqProperties
<1>13. i - k \in 0..Len(v) /\ j - k \in 0..Len(v)
  BY <1>1, <1>2, <1>4, <1>8, <1>12
<1> HIDE DEF v
<1>14. d \in SubSeqs(v)
  BY <1>11, <1>13, <1>a, PartsOf
<1> QED BY <1>3, <1>14

LEMMA HitsGrow ==
  ASSUME NEW S, NEW m \in Seq(S), NEW p \in Seq(S), Hits(m)
  PROVE  Hits(m \o p)
<1>1. PICK d \in DenyList : d \in SubSeqs(m)
  BY DEF Hits
<1>2. PICK i \in 0..Len(m), j \in 0..Len(m) : d = SubSeq(m, i + 1, j)
  BY <1>1, PartsOf
<1> DEFINE w == m \o p
<1>3. w \in Seq(S) /\ Len(w) = Len(m) + Len(p) /\ Len(m) \in Nat /\ Len(p) \in Nat
  BY ConcatProperties
<1>4. d = SubSeq(w, i + 1, j)
  BY <1>2, PartOfPrefix
<1> HIDE DEF w
<1>5. i \in 0..Len(w) /\ j \in 0..Len(w)
  BY <1>2, <1>3
<1>6. \E a \in 0..Len(w), b \in 0..Len(w) : d = SubSeq(w, a + 1, b)
  BY <1>4, <1>5
<1>7. w \in Seq(S)
  BY <1>3
<1>8. d \in SubSeqs(w)
  BY <1>6, <1>7, PartsOf
<1> QED BY <1>1, <1>8 DEF Hits, w

LEMMA DroppedTwice ==
  ASSUME NEW a \in Nat, NEW b \in Nat, NEW l \in Nat, NEW k, NEW e,
         k = (IF a <= l THEN 0 ELSE a - l),
         e = (IF (a + b) - k <= l THEN 0 ELSE ((a + b) - k) - l)
  PROVE  k + e = (IF a + b <= l THEN 0 ELSE (a + b) - l)
<1>1. CASE a <= l
  BY <1>1
<1>2. CASE ~ (a <= l)
  BY <1>2
<1> QED BY <1>1, <1>2

(* The end of what Write has searched is the end of the output.            *)
LEMMA LastOfEnd ==
  ASSUME NEW S, NEW m \in Seq(S), NEW p \in Seq(S)
  PROVE  LastOf(LastOf(m, Limit) \o p, Limit) = LastOf(m \o p, Limit)
<1> DEFINE w == m \o p
           k == Dropped(m)
           v == LastOf(m, Limit) \o p
<1>1. w \in Seq(S) /\ Len(w) = Len(m) + Len(p) /\ Len(m) \in Nat /\ Len(p) \in Nat /\ Limit \in Nat
  BY ConcatProperties, MaskAssumption
<1>2. k \in 0..Len(m) /\ k = IF Len(m) <= Limit THEN 0 ELSE Len(m) - Limit
  BY TailIs DEF Dropped
<1>3. LastOf(m, Limit) = SubSeq(m, k + 1, Len(m))
  BY TailIs
<1> HIDE DEF k
<1>4. v = SubSeq(w, k + 1, Len(w))
  BY <1>2, <1>3, EndOfOutput
<1> HIDE DEF v, w
<1>5. v \in Seq(S) /\ Len(v) = Len(w) - k
  <2>1. k + 1 \in Int /\ Len(w) \in Int /\ \A n \in (k + 1)..Len(w) : w[n] \in S
    BY <1>1, <1>2
  <2>2. /\ SubSeq(w, k + 1, Len(w)) \in Seq(S)
        /\ Len(SubSeq(w, k + 1, Len(w))) = IF k + 1 <= Len(w) THEN Len(w) - (k + 1) + 1 ELSE 0
    BY <2>1, SubSeqProperties
  <2>3. k \in Nat /\ k <= Len(w) /\ Len(w) \in Nat
    BY <1>1, <1>2
  <2>4. Len(SubSeq(w, k + 1, Len(w))) = Len(w) - k
    BY <2>2, <2>3
  <2> QED BY <1>4, <2>2, <2>4
<1> DEFINE e == Dropped(v)
<1>6. e \in 0..Len(v) /\ e = (IF Len(v) <= Limit THEN 0 ELSE Len(v) - Limit)
      /\ LastOf(v, Limit) = SubSeq(v, e + 1, Len(v))
  BY <1>5, TailIs DEF Dropped
<1>7. Dropped(w) = (IF Len(w) <= Limit THEN 0 ELSE Len(w) - Limit)
      /\ LastOf(w, Limit) = SubSeq(w, Dropped(w) + 1, Len(w))
  BY <1>1, TailIs DEF Dropped
<1> HIDE DEF e
<1>8. k + e = Dropped(w)
  <2>1. Len(v) = (Len(m) + Len(p)) - k
    BY <1>1, <1>5
  <2>2. k = (IF Len(m) <= Limit THEN 0 ELSE Len(m) - Limit)
        /\ e = (IF (Len(m) + Len(p)) - k <= Limit THEN 0 ELSE ((Len(m) + Len(p)) - k) - Limit)
    BY <2>1, <1>2, <1>6
  <2>3. k + e = (IF Len(m) + Len(p) <= Limit THEN 0 ELSE (Len(m) + Len(p)) - Limit)
    <3> DEFINE a == Len(m)
               b == Len(p)
    <3>1. a \in Nat /\ b \in Nat /\ Limit \in Nat
      BY <1>1
    <3>2. k = (IF a <= Limit THEN 0 ELSE a - Limit)
          /\ e = (IF (a + b) - k <= Limit THEN 0 ELSE ((a + b) - k) - Limit)
      BY <2>2
    <3> HIDE DEF a, b
    <3>3. k + e = (IF a + b <= Limit THEN 0 ELSE (a + b) - Limit)
      BY <3>1, <3>2, DroppedTwice
    <3> QED BY <3>3 DEF a, b
  <2> QED BY <1>1, <1>7, <2>3
<1>9. SubSeq(v, e + 1, Len(v)) = SubSeq(w, k + e + 1, k + Len(v))
  <2>0. k \in Nat /\ k <= Len(w) /\ Len(w) \in Nat
    BY <1>1, <1>2
  <2>1. k \in 0..Len(w) /\ e \in Nat /\ Len(v) \in Nat /\ e <= Len(v) /\ k + Len(v) <= Len(w)
    BY <2>0, <1>5, <1>6
  <2>2. w \in Seq(S)
    BY <1>1
  <2> QED BY <2>1, <2>2, <1>4, PartOfEnd
<1>10. k + Len(v) = Len(w)
  BY <1>1, <1>2, <1>5
<1> QED BY <1>6, <1>7, <1>8, <1>9, <1>10 DEF v, w

DenyInv ==
    /\ hit => Hits(masked)
    /\ ~ hit => /\ tail = LastOf(masked, Limit)
                /\ \A d \in DenyList : Len(d) <= Limit + 1 => d \notin SubSeqs(masked)

LEMMA NoParts ==
  ASSUME NEW S, NEW w \in Seq(S), NEW d \in DenyList, d \in SubSeqs(w)
  PROVE  Len(w) # 0
<1>1. \E i \in 0..Len(w), j \in 0..Len(w) : d = SubSeq(w, i + 1, j)
  BY PartsOf
<1>2. PICK i \in 0..Len(w), j \in 0..Len(w) : d = SubSeq(w, i + 1, j)
  BY <1>1
<1> SUFFICES ASSUME Len(w) = 0 PROVE FALSE
  OBVIOUS
<1>3. i + 1 \in Int /\ j \in Int /\ j < i + 1
  BY <1>2
<1>4. d = <<>>
  BY <1>2, <1>3, SubSeqEmpty
<1> QED BY <1>4, MaskAssumption

LEMMA DenyInit == Init => DenyInv
<1> SUFFICES ASSUME Init PROVE DenyInv
  OBVIOUS
<1>1. masked = <<>> /\ tail = <<>> /\ hit = FALSE /\ Limit \in Nat
  BY MaskAssumption DEF Init
<1>2. LastOf(<<>>, Limit) = <<>>
  BY <1>1 DEF LastOf
<1>3. ASSUME NEW d \in DenyList, d \in SubSeqs(<<>>) PROVE FALSE
  <2> DEFINE none == <<>>
  <2>1. none \in Seq(OutputSymbols) /\ Len(none) = 0 /\ d \in SubSeqs(none)
    BY <1>3
  <2> HIDE DEF none
  <2> QED BY <2>1, NoParts
<1> QED BY <1>1, <1>2, <1>3 DEF DenyInv

LEMMA DenyStep ==
  ASSUME TypeOK, DenyInv, NEW p \in Seq(OutputSymbols), DenyWrite(p)
  PROVE  DenyInv'
<1> DEFINE w == masked \o p
           v == tail \o p
           k == Dropped(masked)
<1>1. masked \in Seq(OutputSymbols) /\ masked' = w
  BY TypeParts DEF DenyWrite
<1>2. CASE hit
  <2>1. hit' = hit /\ Hits(w)
    BY <1>1, <1>2, HitsGrow DEF DenyWrite, DenyInv
  <2> QED BY <1>1, <1>2, <2>1 DEF DenyInv, Hits
<1>3. CASE ~ hit
  <2>1. tail = LastOf(masked, Limit) /\ hit' = Hits(v) /\ tail' = LastOf(v, Limit)
    BY <1>3 DEF DenyInv, DenyWrite
  <2>2. w \in Seq(OutputSymbols) /\ Len(w) = Len(masked) + Len(p) /\ Len(masked) \in Nat /\ Len(p) \in Nat
    BY <1>1, ConcatProperties
  <2>3. k \in 0..Len(masked) /\ tail = SubSeq(masked, k + 1, Len(masked))
    BY <1>1, <2>1, TailIs
  <2> HIDE DEF k
  <2>4. v = SubSeq(w, k + 1, Len(w))
    BY <1>1, <2>3, EndOfOutput
  <2>5. Hits(v) => Hits(w)
    <3>1. k \in 0..Len(w) /\ w \in Seq(OutputSymbols)
      BY <2>2, <2>3
    <3> HIDE DEF w, v
    <3> QED BY <2>4, <3>1, EndIsPart
  <2>6. ASSUME ~ Hits(v), NEW d \in DenyList, Len(d) <= Limit + 1, d \in SubSeqs(w) PROVE FALSE
    <3>1. d \notin SubSeqs(masked)
      BY <1>3, <2>6 DEF DenyInv
    <3>2. d \in SubSeqs(v)
      BY <1>1, <2>1, <2>6, <3>1, WordInEnd
    <3> QED BY <2>6, <3>2 DEF Hits
  <2>7. tail' = LastOf(w, Limit)
    BY <1>1, <2>1, LastOfEnd
  <2> HIDE DEF w, v
  <2>8. masked' = w
    BY <1>1
  <2>9. Hits(masked') <=> Hits(w)
    BY <2>8
  <2>10. hit' => Hits(masked')
    BY <2>1, <2>5, <2>9
  <2>11. ~ hit' => \A d \in DenyList : Len(d) <= Limit + 1 => d \notin SubSeqs(masked')
    BY <2>1, <2>6, <2>8
  <2> QED BY <2>7, <2>8, <2>10, <2>11 DEF DenyInv, Hits
<1> QED BY <1>2, <1>3

(* The canary fires exactly when the output has a word of the deny list,   *)
(* for every list, every limit, and however the output is cut into writes. *)
THEOREM CanarySound == Spec => []CanaryComplete
<1>1. TypeOK /\ DenyInv /\ [Next]_vars => DenyInv'
  <2> SUFFICES ASSUME TypeOK, DenyInv, [Next]_vars PROVE DenyInv'
    OBVIOUS
  <2>1. CASE WriteMasked
    <3>1. Rendered \in Seq(OutputSymbols)
      BY RenderedType, TypeParts
    <3> QED BY <2>1, <3>1, DenyStep DEF WriteMasked
  <2>2. CASE ~ WriteMasked
    <3>1. masked' = masked /\ tail' = tail /\ hit' = hit
      BY <2>2 DEF Next, vars, deny, TakeSegment, Pick, CommitPlans, Finish, Unmask, Prune
    <3> QED BY <3>1 DEF DenyInv, Hits
  <2> QED BY <2>1, <2>2
<1>2. DenyInv => CanaryComplete
  BY DEF DenyInv, CanaryComplete
<1> QED BY <1>1, <1>2, DenyInit, TypeInit, TypeStep, PTL DEF Spec

-----------------------------------------------------------------------------
(* Overlaps.                                                               *)

Span == [start : Int, end : Int, rule : Int]

(* What holds of the candidates C while nonOverlapping has f left and has  *)
(* kept p: those it has looked at come before those it has not, and each   *)
(* of them is covered by one it has kept.                                  *)
Sifted(C, f, p) ==
    /\ f \subseteq C
    /\ \A i \in DOMAIN p : p[i] \in C \ f
    /\ \A i, j \in DOMAIN p : i < j => p[i].end < p[j].start
    /\ \A c \in C \ f : \E i \in DOMAIN p : Covers(p[i], c)
    /\ \A c \in C \ f, n \in f : Before(c, n)

LEMMA BeforeCovers ==
  ASSUME NEW m \in Span, NEW n \in Span, Before(m, n), n.start <= m.end
  PROVE  Covers(m, n)
BY DEF Before, Covers, Span

LEMMA SiftDrops ==
  ASSUME NEW C \in SUBSET Span, NEW f, NEW p \in Seq(Span), Sifted(C, f, p),
         NEW m \in f, \A n \in f \ {m} : Before(m, n),
         p # <<>>, m.start <= Last(p).end
  PROVE  Sifted(C, f \ {m}, p)
<1>1. Len(p) \in DOMAIN p /\ Last(p) = p[Len(p)]
  BY DEF Last
<1>2. Last(p) \in C \ f /\ m \in C
  BY <1>1 DEF Sifted
<1>3. Covers(Last(p), m)
  <2>1. Before(Last(p), m)
    BY <1>2 DEF Sifted
  <2> QED BY <2>1, <1>2, BeforeCovers
<1>4. \A c \in C \ (f \ {m}) : c \in C \ f \/ c = m
  OBVIOUS
<1>5. \A c \in C \ (f \ {m}) : \E i \in DOMAIN p : Covers(p[i], c)
  BY <1>1, <1>3, <1>4 DEF Sifted
<1>6. \A c \in C \ (f \ {m}), n \in f \ {m} : Before(c, n)
  BY <1>4 DEF Sifted
<1> QED BY <1>5, <1>6 DEF Sifted

LEMMA SiftKeeps ==
  ASSUME NEW C \in SUBSET Span, \A c \in C : c.start <= c.end,
         NEW f, NEW p \in Seq(Span), Sifted(C, f, p),
         NEW m \in f, \A n \in f \ {m} : Before(m, n),
         p = <<>> \/ ~ (m.start <= Last(p).end)
  PROVE  Sifted(C, f \ {m}, Append(p, m))
<1> DEFINE q == Append(p, m)
<1>1. m \in C /\ m \in Span /\ m.start \in Int /\ m.end \in Int
  BY DEF Sifted, Span
<1>2. DOMAIN q = 1..(Len(p) + 1) /\ DOMAIN p = 1..Len(p) /\ Len(p) \in Nat
      /\ q[Len(p) + 1] = m /\ \A i \in DOMAIN p : q[i] = p[i]
  BY <1>1, AppendProperties
<1> HIDE DEF q
<1>3. \A i \in DOMAIN q : i \in DOMAIN p \/ i = Len(p) + 1
  BY <1>2
<1>4. \A i \in DOMAIN q : q[i] \in C \ (f \ {m})
  BY <1>1, <1>2, <1>3 DEF Sifted
<1>5. ASSUME NEW i \in DOMAIN q, NEW j \in DOMAIN q, i < j
      PROVE  q[i].end < q[j].start
  <2>1. CASE j \in DOMAIN p
    <3>1. i \in DOMAIN p
      BY <1>2, <1>5, <2>1
    <3> QED BY <3>1, <2>1, <1>2, <1>5 DEF Sifted
  <2>2. CASE j = Len(p) + 1
    <3>1. i \in DOMAIN p /\ p # <<>>
      BY <1>2, <1>5, <2>2
    <3>2. Last(p) = p[Len(p)] /\ Len(p) \in DOMAIN p
      BY <3>1, <1>2 DEF Last
    <3>3. p[i] \in Span /\ Last(p) \in Span /\ Last(p) \in C
      BY <3>1, <3>2 DEF Sifted
    <3>4. p[i].end \in Int /\ Last(p).end \in Int /\ Last(p).start \in Int
          /\ Last(p).start <= Last(p).end
      BY <3>3 DEF Span
    <3>5. i = Len(p) \/ p[i].end < Last(p).start
      <4>1. i = Len(p) \/ i < Len(p)
        BY <3>1, <1>2
      <4> QED BY <4>1, <3>1, <3>2 DEF Sifted
    <3>6. Last(p).end < m.start
      BY <3>1, <3>4, <1>1
    <3>7. p[i].end < m.start
      BY <3>2, <3>4, <3>5, <3>6, <1>1
    <3> QED BY <3>7, <3>1, <1>2, <2>2
  <2> QED BY <2>1, <2>2, <1>3
<1>6. \A c \in C \ (f \ {m}) : c \in C \ f \/ c = m
  OBVIOUS
<1>7. Covers(m, m)
  BY <1>1 DEF Covers
<1>8. \A c \in C \ (f \ {m}) : \E i \in DOMAIN q : Covers(q[i], c)
  <2>1. Len(p) + 1 \in DOMAIN q /\ \A i \in DOMAIN p : i \in DOMAIN q
    BY <1>2
  <2>2. ASSUME NEW c \in C \ f PROVE \E i \in DOMAIN q : Covers(q[i], c)
    <3>1. PICK i \in DOMAIN p : Covers(p[i], c)
      BY DEF Sifted
    <3> QED BY <3>1, <2>1, <1>2
  <2> QED BY <1>2, <1>6, <1>7, <2>1, <2>2
<1>9. \A c \in C \ (f \ {m}), n \in f \ {m} : Before(c, n)
  BY <1>6 DEF Sifted
<1>10. f \ {m} \subseteq C
  BY DEF Sifted
<1> QED BY <1>4, <1>5, <1>8, <1>9, <1>10 DEF Sifted, q

LEMMA CandidateType ==
  ASSUME NEW S, NEW b \in Seq(S)
  PROVE  Candidates(b) \in SUBSET Span /\ \A c \in Candidates(b) : c.start <= c.end
<1>1. \A c \in Candidates(b) : c \in [start : DOMAIN b, end : DOMAIN b, rule : DOMAIN Rules]
      /\ c.start <= c.end
  BY CandidatePlaces
<1>2. DOMAIN b \subseteq Int /\ DOMAIN Rules \subseteq Int
  <2>1. DOMAIN b \subseteq Int
    OBVIOUS
  <2>2. DOMAIN Rules \subseteq Int
    BY RuleAssumption
  <2> QED BY <2>1, <2>2
<1>3. \A c \in Candidates(b) : c \in Span
  BY <1>1, <1>2 DEF Span
<1> QED BY <1>1, <1>3

MatchInv ==
    at \in {"match", "write"} =>
        /\ Sifted(Candidates(segment), found, picked)
        /\ at = "write" => found = {}

LEMMA MatchStep ==
  ASSUME TypeOK, MatchInv, [Next]_vars
  PROVE  MatchInv'
<1>1. CASE TakeSegment
  <2>1. found' = Candidates(segment') /\ picked' = <<>> /\ at' = "match"
    BY <1>1 DEF TakeSegment
  <2> QED BY <2>1 DEF MatchInv, Sifted
<1>2. ASSUME NEW m \in found, Pick(m) PROVE MatchInv'
  <2> DEFINE C == Candidates(segment)
  <2>1. segment \in Seq(Symbols) /\ picked \in Seq(Places)
    BY TypeParts
  <2>2. C \in SUBSET Span /\ \A c \in C : c.start <= c.end
    BY <2>1, CandidateType
  <2>3. Sifted(C, found, picked)
    BY <1>2 DEF MatchInv, Pick
  <2>4. segment' = segment /\ found' = found \ {m} /\ at' = "match"
        /\ \A n \in found \ {m} : Before(m, n)
    BY <1>2 DEF Pick
  <2>5. picked \in Seq(Span)
    <3>1. \A i \in 1..Len(picked) : picked[i] \in Span
      BY <2>1, <2>2, <2>3 DEF Sifted
    <3> QED BY <2>1, <3>1, SeqDef
  <2>6. Sifted(C, found', picked')
    <3> HIDE DEF C
    <3>1. CASE picked # <<>> /\ m.start <= Last(picked).end
      <4>1. picked' = picked
        BY <1>2, <3>1 DEF Pick
      <4> QED BY <4>1, <3>1, <2>2, <2>3, <2>4, <2>5, SiftDrops
    <3>2. CASE ~ (picked # <<>> /\ m.start <= Last(picked).end)
      <4>1. picked' = Append(picked, m)
        BY <1>2, <3>2 DEF Pick
      <4> QED BY <4>1, <3>2, <2>2, <2>3, <2>4, <2>5, SiftKeeps
    <3> QED BY <3>1, <3>2
  <2> QED BY <2>4, <2>6 DEF MatchInv
<1>3. CASE CommitPlans
  BY <1>3 DEF MatchInv, CommitPlans
<1>4. CASE WriteMasked \/ Finish \/ Unmask
  <2>1. at' \notin {"match", "write"}
    BY <1>4 DEF WriteMasked, Finish, Unmask
  <2> QED BY <2>1 DEF MatchInv
<1>5. CASE (\E v \in rows : Prune(v)) \/ UNCHANGED vars
  <2>1. segment' = segment /\ found' = found /\ picked' = picked /\ at' = at
    BY <1>5 DEF Prune, vars
  <2> QED BY <2>1 DEF MatchInv
<1> QED BY <1>1, <1>2, <1>3, <1>4, <1>5 DEF Next

(* Filters and overlaps lose no match that is sought (Sought in Detection  *)
(* names what a search may miss), for every set of rules and every text,   *)
(* and the matches that are kept do not overlap.                           *)
THEOREM MatchesHold == Spec => []MatchesCover
<1>1. Init => MatchInv
  BY DEF Init, MatchInv
<1>2. TypeOK /\ MatchInv => MatchesCover
  <2> SUFFICES ASSUME TypeOK, MatchInv, at = "write" PROVE
        Disjoint /\ \A v \in Values(segment) : \E m \in Range(picked) : Covers(m, v)
    BY DEF MatchesCover
  <2>1. Sifted(Candidates(segment), {}, picked)
    BY DEF MatchInv
  <2>2. Disjoint
    BY <2>1 DEF Sifted, Disjoint
  <2>3. ASSUME NEW v \in Values(segment) PROVE \E m \in Range(picked) : Covers(m, v)
    <3>1. v \in Candidates(segment)
      BY TypeParts, ValuesAreFound
    <3>2. PICK i \in DOMAIN picked : Covers(picked[i], v)
      BY <2>1, <3>1 DEF Sifted
    <3>3. picked[i] \in Range(picked)
      BY DEF Range
    <3> QED BY <3>2, <3>3
  <2> QED BY <2>2, <2>3
<1>3. TypeOK /\ MatchInv /\ [Next]_vars => MatchInv'
  BY MatchStep
<1> QED BY <1>1, <1>2, <1>3, TypeInit, TypeStep, PTL DEF Spec
-----------------------------------------------------------------------------
(* Flattening, and mapping symbols to sequences.                           *)

(* Whatever grows in those steps ends as FlattenSeq does.                  *)
LEMMA FlattenUnique ==
  ASSUME NEW S, NEW q \in Seq(Seq(S)), NEW f, f[0] = <<>>,
         \A i \in 1..Len(q) : f[i] = f[i - 1] \o q[i]
  PROVE  FlattenSeq(q) = f[Len(q)]
<1>1. PICK g \in [0..Len(q) -> Seq(S)] :
            /\ g[0] = <<>>
            /\ \A i \in 1..Len(q) : g[i] = g[i - 1] \o q[i]
            /\ FlattenSeq(q) = g[Len(q)]
  BY FlattenSteps
<1> DEFINE G == {i \in 0..Len(q) : f[i] = g[i]}
<1>2. Len(q) \in Nat /\ 0 \in G
  BY <1>1
<1>3. ASSUME NEW i \in 1..Len(q), i - 1 \in G PROVE i \in G
  <2>1. f[i - 1] = g[i - 1] /\ i \in 0..Len(q)
    BY <1>2, <1>3
  <2>2. f[i] = f[i - 1] \o q[i] /\ g[i] = g[i - 1] \o q[i]
    BY <1>1
  <2>3. f[i] = g[i]
    BY <2>1, <2>2, Zenon
  <2> QED BY <2>1, <2>3
<1>4. \A i \in 0..Len(q) : i \in G
  <2> HIDE DEF G
  <2> QED BY <1>2, <1>3, Induct
<1> QED BY <1>1, <1>2, <1>4

LEMMA ConcatThree ==
  \A S : \A x, y, z \in Seq(S) : (x \o y) \o z = x \o (y \o z)
BY ConcatAssociative

LEMMA FlattenConcat ==
  ASSUME NEW S, NEW p \in Seq(Seq(S)), NEW q \in Seq(Seq(S))
  PROVE  FlattenSeq(p \o q) = FlattenSeq(p) \o FlattenSeq(q)
<1>0. \A x, y, z \in Seq(S) : (x \o y) \o z = x \o (y \o z)
  BY ConcatThree
<1>1. PICK f \in [0..Len(p) -> Seq(S)] :
            /\ f[0] = <<>>
            /\ \A i \in 1..Len(p) : f[i] = f[i - 1] \o p[i]
            /\ FlattenSeq(p) = f[Len(p)]
  BY FlattenSteps
<1>2. PICK g \in [0..Len(q) -> Seq(S)] :
            /\ g[0] = <<>>
            /\ \A i \in 1..Len(q) : g[i] = g[i - 1] \o q[i]
            /\ FlattenSeq(q) = g[Len(q)]
  BY FlattenSteps
<1> DEFINE m == Len(p)
           n == Len(q)
           a == f[m]
           h == [i \in 0..(m + n) |-> IF i <= m THEN f[i] ELSE a \o g[i - m]]
           r == p \o q
<1>3. m \in Nat /\ n \in Nat /\ a \in Seq(S)
  <2>1. m \in Nat /\ n \in Nat
    OBVIOUS
  <2>2. m \in 0..m
    BY <2>1
  <2> QED BY <1>1, <2>1, <2>2
<1>4. /\ r \in Seq(Seq(S)) /\ Len(r) = m + n
      /\ \A i \in 1..(m + n) : r[i] = IF i <= m THEN p[i] ELSE q[i - m]
  BY ConcatProperties
<1>5. a \o <<>> = a
  BY <1>3, ConcatEmptySeq
<1> HIDE DEF r
<1>6. \A i \in 0..m : h[i] = f[i]
  BY <1>3
<1>7. \A j \in 1..n : h[m + j] = a \o g[j]
  <2> SUFFICES ASSUME NEW j \in 1..n PROVE h[m + j] = a \o g[j]
    OBVIOUS
  <2>1. m + j \in 0..(m + n) /\ ~ (m + j <= m) /\ (m + j) - m = j
    BY <1>3
  <2> QED BY <2>1
<1>8. h[m + 0] = a \o g[0]
  <2>1. m + 0 = m /\ m \in 0..m
    BY <1>3
  <2>2. h[m] = a
    BY <1>6, <2>1
  <2> HIDE DEF h, a
  <2> QED BY <1>2, <1>5, <2>1, <2>2
<1> HIDE DEF h
<1>9. ASSUME NEW i \in 1..m PROVE h[i] = h[i - 1] \o r[i]
  <2>1. i \in 0..m /\ i - 1 \in 0..m /\ i \in 1..(m + n) /\ i <= m
    BY <1>3
  <2>2. h[i] = f[i] /\ h[i - 1] = f[i - 1] /\ r[i] = p[i] /\ f[i] = f[i - 1] \o p[i]
    BY <1>1, <1>4, <1>6, <2>1
  <2> QED BY <2>2, Zenon
<1>10. ASSUME NEW j \in 1..n PROVE h[m + j] = h[m + (j - 1)] \o r[m + j]
  <2>1. m + j \in 1..(m + n) /\ ~ (m + j <= m) /\ (m + j) - m = j
        /\ j - 1 \in 0..n /\ (j - 1 = 0 \/ j - 1 \in 1..n)
    BY <1>3
  <2>2. r[m + j] = q[j]
    BY <1>4, <2>1
  <2>3. h[m + (j - 1)] = a \o g[j - 1]
    BY <1>7, <1>8, <2>1
  <2>4. g[j] = g[j - 1] \o q[j]
    BY <1>2
  <2>a. g[j - 1] \in Seq(S)
    BY <2>1
  <2>b. q[j] \in Seq(S)
    OBVIOUS
  <2>5. h[m + j] = a \o g[j]
    BY <1>7
  <2> HIDE DEF a
  <2>6. (a \o g[j - 1]) \o q[j] = a \o (g[j - 1] \o q[j])
    <3>1. a \in Seq(S)
      BY <1>3
    <3> QED BY <1>0, <3>1, <2>a, <2>b, Zenon
  <2> QED BY <2>2, <2>3, <2>4, <2>5, <2>6, Zenon
<1>11. \A i \in 1..Len(r) : h[i] = h[i - 1] \o r[i]
  <2> SUFFICES ASSUME NEW i \in 1..Len(r), ~ (i \in 1..m) PROVE h[i] = h[i - 1] \o r[i]
    BY <1>9
  <2>1. PICK j \in 1..n : i = m + j
    <3>1. i - m \in 1..n /\ i = m + (i - m)
      BY <1>3, <1>4
    <3> QED BY <3>1
  <2>2. i - 1 = m + (j - 1)
    BY <1>3, <2>1
  <2> QED BY <1>10, <2>1, <2>2
<1>12. h[m + n] = a \o g[n]
  <2>1. n = 0 \/ n \in 1..n
    BY <1>3
  <2> QED BY <1>7, <1>8, <2>1
<1>13. FlattenSeq(r) = h[Len(r)]
  <2>1. h[0] = <<>>
    <3>1. 0 \in 0..m
      BY <1>3
    <3>2. h[0] = f[0]
      BY <1>6, <3>1
    <3> QED BY <1>1, <3>2, Zenon
  <2> QED BY <1>4, <1>11, <2>1, FlattenUnique
<1> QED BY <1>1, <1>2, <1>4, <1>12, <1>13 DEF r

LEMMA FlattenSingles ==
  ASSUME NEW S, NEW b \in Seq(S), NEW q, q = [i \in DOMAIN b |-> <<b[i]>>]
  PROVE  FlattenSeq(q) = b
<1>1. Len(b) \in Nat /\ DOMAIN b = 1..Len(b) /\ \A i \in 1..Len(b) : <<b[i]>> \in Seq(S)
  OBVIOUS
<1>2. q \in Seq(Seq(S)) /\ Len(q) = Len(b)
  BY <1>1
<1> DEFINE f == [i \in 0..Len(b) |-> SubSeq(b, 1, i)]
<1>3. f[0] = <<>>
  BY <1>1, SubSeqEmpty
<1>4. ASSUME NEW i \in 1..Len(q) PROVE f[i] = f[i - 1] \o q[i]
  <2>1. i \in 1..Len(b) /\ 1 \in 1..Len(b) /\ i \in 1..Len(b)
    BY <1>1, <1>2
  <2>2. SubSeq(b, 1, i) = SubSeq(b, 1, i - 1) \o <<b[i]>>
    BY <2>1, SubSeqRecursiveSecond
  <2> QED BY <1>1, <1>2, <2>1, <2>2
<1>5. f[Len(q)] = b
  BY <1>1, <1>2, SubSeqFull
<1> HIDE DEF f
<1> QED BY <1>2, <1>3, <1>4, <1>5, FlattenUnique

(* What one of the sequences holds is in what FlattenSeq yields.           *)
LEMMA FlattenHas ==
  ASSUME NEW S, NEW q \in Seq(Seq(S)), NEW i \in 1..Len(q), NEW x, x \in Range(q[i])
  PROVE  x \in Range(FlattenSeq(q))
<1>1. PICK f \in [0..Len(q) -> Seq(S)] :
            /\ f[0] = <<>>
            /\ \A k \in 1..Len(q) : f[k] = f[k - 1] \o q[k]
            /\ FlattenSeq(q) = f[Len(q)]
  BY FlattenSteps
<1>2. Len(q) \in Nat
  OBVIOUS
<1>3. \A k \in 1..Len(q) : Range(f[k]) = Range(f[k - 1]) \cup Range(q[k])
  <2> SUFFICES ASSUME NEW k \in 1..Len(q) PROVE Range(f[k]) = Range(f[k - 1]) \cup Range(q[k])
    OBVIOUS
  <2>1. k - 1 \in 0..Len(q) /\ q[k] \in Seq(S)
    BY <1>2
  <2>2. f[k - 1] \in Seq(S)
    BY <2>1
  <2>3. Range(f[k - 1] \o q[k]) = Range(f[k - 1]) \cup Range(q[k])
    BY <2>1, <2>2, RangeConcatenation
  <2> QED BY <1>1, <2>3
<1> DEFINE G == {k \in 0..Len(q) : k >= i => x \in Range(f[k])}
<1>4. \A k \in 0..Len(q) : k \in G
  <2>1. 0 \in G
    BY <1>2
  <2>2. ASSUME NEW k \in 1..Len(q), k - 1 \in G PROVE k \in G
    <3>1. k \in 0..Len(q) /\ (k >= i => k = i \/ k - 1 >= i)
      BY <1>2
    <3>2. CASE k = i
      BY <1>3, <3>1, <3>2
    <3>3. CASE k # i
      BY <1>3, <2>2, <3>1, <3>3
    <3> QED BY <3>2, <3>3
  <2> HIDE DEF G
  <2> QED BY <1>2, <2>1, <2>2, Induct
<1>5. Len(q) \in 0..Len(q) /\ Len(q) >= i
  BY <1>2
<1> QED BY <1>1, <1>4, <1>5

(* Every symbol replaced by a sequence.                                    *)
FlatMap(g, b) == FlattenSeq([i \in DOMAIN b |-> g[b[i]]])

LEMMA FlatMapParts ==
  ASSUME NEW S, NEW U, NEW g \in [S -> U], NEW b \in Seq(S),
         NEW q, q = [i \in DOMAIN b |-> g[b[i]]]
  PROVE  q \in Seq(U) /\ Len(q) = Len(b) /\ \A i \in 1..Len(b) : q[i] = g[b[i]]
<1>1. DOMAIN b = 1..Len(b) /\ Len(b) \in Nat /\ \A i \in 1..Len(b) : g[b[i]] \in U
  OBVIOUS
<1> QED BY <1>1

LEMMA FlatMapType ==
  ASSUME NEW S, NEW T, NEW g \in [S -> Seq(T)], NEW b \in Seq(S)
  PROVE  FlatMap(g, b) \in Seq(T)
<1> DEFINE q == [i \in DOMAIN b |-> g[b[i]]]
<1>1. q \in Seq(Seq(T))
  <2>1. q = [i \in DOMAIN b |-> g[b[i]]]
    OBVIOUS
  <2> HIDE DEF q
  <2> QED BY <2>1, FlatMapParts
<1>2. FlatMap(g, b) = FlattenSeq(q)
  BY DEF FlatMap
<1> HIDE DEF q
<1> QED BY <1>1, <1>2, FlattenType

LEMMA FlatMapConcat ==
  ASSUME NEW S, NEW T, NEW g, NEW a, NEW b,
         g \in [S -> Seq(T)], a \in Seq(S), b \in Seq(S)
  PROVE  FlatMap(g, a \o b) = FlatMap(g, a) \o FlatMap(g, b)
<1> DEFINE U == Seq(T)
           c == a \o b
           p == [i \in DOMAIN a |-> g[a[i]]]
           q == [i \in DOMAIN b |-> g[b[i]]]
           r == [i \in DOMAIN c |-> g[c[i]]]
<1>0. g \in [S -> U]
  OBVIOUS
<1>a. \A x, y \in Seq(U) :
        /\ x \o y \in Seq(U) /\ Len(x \o y) = Len(x) + Len(y)
        /\ \A i \in 1..(Len(x) + Len(y)) : (x \o y)[i] = IF i <= Len(x) THEN x[i] ELSE y[i - Len(x)]
  BY ConcatProperties
<1>1. /\ c \in Seq(S) /\ Len(c) = Len(a) + Len(b) /\ Len(a) \in Nat /\ Len(b) \in Nat
      /\ \A i \in 1..Len(c) : c[i] = IF i <= Len(a) THEN a[i] ELSE b[i - Len(a)]
  BY ConcatProperties
<1>5. FlatMap(g, c) = FlattenSeq(r) /\ FlatMap(g, a) = FlattenSeq(p) /\ FlatMap(g, b) = FlattenSeq(q)
  BY DEF FlatMap
<1> HIDE DEF c, U
<1>2. p \in Seq(U) /\ Len(p) = Len(a) /\ \A i \in 1..Len(a) : p[i] = g[a[i]]
  <2>1. DOMAIN a = 1..Len(a) /\ Len(a) \in Nat /\ \A i \in 1..Len(a) : g[a[i]] \in U
    BY <1>0
  <2> QED BY <2>1
<1>3. q \in Seq(U) /\ Len(q) = Len(b) /\ \A i \in 1..Len(b) : q[i] = g[b[i]]
  <2>1. DOMAIN b = 1..Len(b) /\ Len(b) \in Nat /\ \A i \in 1..Len(b) : g[b[i]] \in U
    BY <1>0
  <2> QED BY <2>1
<1>4. r \in Seq(U) /\ Len(r) = Len(c) /\ \A i \in 1..Len(c) : r[i] = g[c[i]]
  <2>1. DOMAIN c = 1..Len(c) /\ Len(c) \in Nat /\ \A i \in 1..Len(c) : g[c[i]] \in U
    BY <1>0, <1>1
  <2> QED BY <2>1
<1> HIDE DEF p, q, r
<1>6. /\ p \o q \in Seq(U) /\ Len(p \o q) = Len(a) + Len(b)
      /\ \A i \in 1..(Len(a) + Len(b)) : (p \o q)[i] = IF i <= Len(a) THEN p[i] ELSE q[i - Len(a)]
  <2>1. p \in Seq(U) /\ q \in Seq(U) /\ Len(p) = Len(a) /\ Len(q) = Len(b)
    BY <1>2, <1>3
  <2>2. /\ p \o q \in Seq(U) /\ Len(p \o q) = Len(p) + Len(q)
        /\ \A i \in 1..(Len(p) + Len(q)) : (p \o q)[i] = IF i <= Len(p) THEN p[i] ELSE q[i - Len(p)]
    BY <1>a, <2>1, Zenon
  <2> QED BY <2>1, <2>2, Zenon
<1>7. \A i \in 1..Len(r) : r[i] = (p \o q)[i]
  <2> SUFFICES ASSUME NEW i \in 1..Len(c) PROVE r[i] = (p \o q)[i]
    BY <1>4
  <2>1. CASE i <= Len(a)
    <3>1. i \in 1..Len(a) /\ i \in 1..(Len(a) + Len(b))
      BY <1>1, <2>1
    <3>2. c[i] = a[i] /\ (p \o q)[i] = p[i]
      BY <1>1, <1>6, <2>1, <3>1
    <3> QED BY <1>2, <1>4, <3>1, <3>2
  <2>2. CASE ~ (i <= Len(a))
    <3>1. i - Len(a) \in 1..Len(b) /\ i \in 1..(Len(a) + Len(b))
      BY <1>1, <2>2
    <3>2. c[i] = b[i - Len(a)] /\ (p \o q)[i] = q[i - Len(a)]
      BY <1>1, <1>6, <2>2, <3>1
    <3> QED BY <1>3, <1>4, <3>1, <3>2
  <2> QED BY <2>1, <2>2
<1>8. r = p \o q
  <2>1. Len(r) = Len(p \o q)
    BY <1>1, <1>4, <1>6
  <2> QED BY <1>4, <1>6, <1>7, <2>1, SeqEqual
<1>9. FlattenSeq(p \o q) = FlattenSeq(p) \o FlattenSeq(q)
  BY <1>2, <1>3, FlattenConcat DEF U
<1> QED BY <1>5, <1>8, <1>9, Zenon DEF c

LEMMA FlatMapEmpty ==
  ASSUME NEW g
  PROVE  FlatMap(g, <<>>) = <<>>
<1> DEFINE q == [i \in DOMAIN <<>> |-> g[<<>>[i]]]
<1>1. q = <<>>
  OBVIOUS
<1>2. FlattenSeq(<<>>) = <<>>
  BY DEF FlattenSeq
<1> QED BY <1>1, <1>2 DEF FlatMap

LEMMA FlatMapOne ==
  ASSUME NEW S, NEW T, NEW g \in [S -> Seq(T)], NEW x \in S
  PROVE  FlatMap(g, <<x>>) = g[x]
<1> DEFINE b == <<x>>
           q == [i \in DOMAIN b |-> g[b[i]]]
           f == [i \in {0, 1} |-> IF i = 0 THEN <<>> ELSE g[x]]
<1>1. b \in Seq(S) /\ Len(b) = 1 /\ b[1] = x
  OBVIOUS
<1> HIDE DEF b
<1>2. q \in Seq(Seq(T)) /\ Len(q) = 1 /\ q[1] = g[x]
  <2>1. 1 \in 1..Len(b) /\ q = [i \in DOMAIN b |-> g[b[i]]]
    BY <1>1
  <2> HIDE DEF q
  <2>2. q \in Seq(Seq(T)) /\ Len(q) = Len(b) /\ q[1] = g[b[1]]
    BY <1>1, <2>1, FlatMapParts
  <2> QED BY <1>1, <2>2
<1>3. f[0] = <<>> /\ f[1] = g[x]
  OBVIOUS
<1> HIDE DEF f, q
<1>4. <<>> \o g[x] = g[x]
  <2>1. g[x] \in Seq(T)
    OBVIOUS
  <2> QED BY <2>1, ConcatEmptySeq
<1>5. \A i \in 1..Len(q) : f[i] = f[i - 1] \o q[i]
  <2> SUFFICES ASSUME NEW i \in 1..Len(q) PROVE f[i] = f[i - 1] \o q[i]
    OBVIOUS
  <2>1. i = 1 /\ i - 1 = 0
    BY <1>2
  <2> QED BY <1>2, <1>3, <1>4, <2>1, Zenon
<1>6. FlattenSeq(q) = f[Len(q)]
  BY <1>2, <1>3, <1>5, FlattenUnique
<1> QED BY <1>2, <1>3, <1>6 DEF FlatMap, b, q

LEMMA RawDiffers ==
  \A c, d : /\ Raw(c) = Raw(d) => c = d
            /\ Raw(c).form = "raw"
<1> SUFFICES ASSUME NEW c, NEW d PROVE (Raw(c) = Raw(d) => c = d) /\ Raw(c).form = "raw"
  OBVIOUS
<1>1. Raw(c).text = <<c>> /\ Raw(d).text = <<d>>
  BY Zenon DEF Raw
<1>2. <<c>> = <<d>> => c = d
  OBVIOUS
<1>3. Raw(c).form = "raw"
  BY Zenon DEF Raw
<1> QED BY <1>1, <1>2, <1>3, Zenon

LEMMA CharsParts ==
  ASSUME NEW t, t \in Seq(Symbols)
  PROVE  /\ Chars(t) \in Seq(OutputSymbols) /\ Len(Chars(t)) = Len(t)
         /\ DOMAIN Chars(t) = DOMAIN t
         /\ \A i \in 1..Len(t) : Chars(t)[i] = Raw(t[i])
<1>1. DOMAIN t = 1..Len(t) /\ Len(t) \in Nat
  OBVIOUS
<1>2. Chars(t) \in Seq(OutputSymbols)
  BY CharsType
<1>3. DOMAIN Chars(t) = DOMAIN t /\ \A i \in DOMAIN t : Chars(t)[i] = Raw(t[i])
  BY Zenon DEF Chars
<1> QED BY <1>1, <1>2, <1>3

LEMMA CharsConcat ==
  ASSUME NEW a, NEW b, a \in Seq(Symbols), b \in Seq(Symbols)
  PROVE  Chars(a \o b) = Chars(a) \o Chars(b)
<1> DEFINE c == a \o b
           x == Chars(a)
           y == Chars(b)
           z == Chars(c)
<1>0. \A u, v \in Seq(OutputSymbols) :
        /\ u \o v \in Seq(OutputSymbols) /\ Len(u \o v) = Len(u) + Len(v)
        /\ \A i \in 1..(Len(u) + Len(v)) : (u \o v)[i] = IF i <= Len(u) THEN u[i] ELSE v[i - Len(u)]
  BY ConcatProperties
<1>1. /\ c \in Seq(Symbols) /\ Len(c) = Len(a) + Len(b) /\ Len(a) \in Nat /\ Len(b) \in Nat
      /\ \A i \in 1..Len(c) : c[i] = IF i <= Len(a) THEN a[i] ELSE b[i - Len(a)]
  BY ConcatProperties
<1> HIDE DEF c
<1>2. x \in Seq(OutputSymbols) /\ Len(x) = Len(a) /\ \A i \in 1..Len(a) : x[i] = Raw(a[i])
  BY CharsParts
<1>3. y \in Seq(OutputSymbols) /\ Len(y) = Len(b) /\ \A i \in 1..Len(b) : y[i] = Raw(b[i])
  BY CharsParts
<1>4. z \in Seq(OutputSymbols) /\ Len(z) = Len(c) /\ \A i \in 1..Len(c) : z[i] = Raw(c[i])
  BY <1>1, CharsParts
<1> HIDE DEF x, y, z
<1>5. /\ x \o y \in Seq(OutputSymbols) /\ Len(x \o y) = Len(x) + Len(y)
      /\ \A i \in 1..(Len(x) + Len(y)) : (x \o y)[i] = IF i <= Len(x) THEN x[i] ELSE y[i - Len(x)]
  BY <1>0, <1>2, <1>3, Zenon
<1>6. \A i \in 1..Len(z) : z[i] = (x \o y)[i]
  <2> SUFFICES ASSUME NEW i \in 1..Len(c) PROVE z[i] = (x \o y)[i]
    BY <1>4
  <2>1. CASE i <= Len(a)
    <3>1. i \in 1..Len(a) /\ i \in 1..(Len(x) + Len(y))
      BY <1>1, <1>2, <1>3, <2>1
    <3>2. c[i] = a[i] /\ (x \o y)[i] = x[i]
      BY <1>1, <1>2, <1>5, <2>1, <3>1
    <3> QED BY <1>2, <1>4, <3>1, <3>2
  <2>2. CASE ~ (i <= Len(a))
    <3>1. i - Len(a) \in 1..Len(b) /\ i \in 1..(Len(x) + Len(y))
      BY <1>1, <1>2, <1>3, <2>2
    <3>2. c[i] = b[i - Len(a)] /\ (x \o y)[i] = y[i - Len(a)]
      BY <1>1, <1>2, <1>5, <2>2, <3>1
    <3> QED BY <1>3, <1>4, <3>1, <3>2
  <2> QED BY <2>1, <2>2
<1>7. Len(z) = Len(x \o y)
  BY <1>1, <1>2, <1>3, <1>4, <1>5
<1>8. z = x \o y
  BY <1>4, <1>5, <1>6, <1>7, SeqEqual
<1> QED BY <1>8 DEF x, y, z, c

LEMMA CharsOne ==
  ASSUME NEW c \in Symbols
  PROVE  Chars(<<c>>) = <<Raw(c)>>
<1>1. <<c>> \in Seq(Symbols) /\ Len(<<c>>) = 1 /\ <<c>>[1] = c /\ 1 \in 1..1
  OBVIOUS
<1>2. Chars(<<c>>) \in Seq(OutputSymbols) /\ Len(Chars(<<c>>)) = 1 /\ Chars(<<c>>)[1] = Raw(c)
  BY <1>1, CharsParts
<1> DEFINE x == Chars(<<c>>)
           y == Raw(c)
<1> HIDE DEF x, y
<1>3. x \in Seq(OutputSymbols) /\ Len(x) = 1 /\ x[1] = y
  BY <1>2 DEF x, y
<1>4. x = <<y>>
  BY <1>3
<1> QED BY <1>4 DEF x, y

LEMMA CharsEmpty == Chars(<<>>) = <<>>
BY DEF Chars

(* What InertDecode makes of a symbol, and what unmask prints for one when *)
(* every token has its row.                                                *)
Undone == [c \in Symbols |-> IF c = Inert THEN Chars(<<Left, Right>>) ELSE <<Raw(c)>>]
Shown == [x \in OutputSymbols |-> IF x.form = "token" THEN Chars(x.text) ELSE <<x>>]

LEMMA UndoType == Undone \in [Symbols -> Seq(OutputSymbols)]
<1> DEFINE T == Seq(OutputSymbols)
<1>1. Chars(<<Left, Right>>) \in T
  <2>1. <<Left, Right>> \in Seq(Symbols)
    BY MaskAssumption
  <2> QED BY <2>1, CharsType
<1>2. \A c \in Symbols : <<Raw(c)>> \in T
  BY RawType
<1> HIDE DEF T
<1>3. \A c \in Symbols : Undone[c] \in T
  BY <1>1, <1>2, Zenon DEF Undone
<1>4. Undone = [c \in Symbols |-> Undone[c]]
  BY Zenon DEF Undone
<1> QED BY <1>3, <1>4, Zenon DEF T

LEMMA ShowType == Shown \in [OutputSymbols -> Seq(OutputSymbols)]
<1> DEFINE T == Seq(OutputSymbols)
           X == OutputSymbols
<1>1. \A x \in X : x.form = "token" => Chars(x.text) \in T
  <2> SUFFICES ASSUME NEW x \in X, x.form = "token" PROVE Chars(x.text) \in T
    OBVIOUS
  <2>1. x.text \in Seq(Symbols)
    BY TokenType
  <2> QED BY <2>1, CharsType
<1>2. \A x \in X : <<x>> \in T
  OBVIOUS
<1>3. \A x \in X : Shown[x] = IF x.form = "token" THEN Chars(x.text) ELSE <<x>>
  BY Zenon DEF Shown
<1>4. Shown = [x \in X |-> Shown[x]]
  BY Zenon DEF Shown
<1> HIDE DEF T, X
<1>5. \A x \in X : Shown[x] \in T
  BY <1>1, <1>2, <1>3, Zenon
<1> QED BY <1>4, <1>5, Zenon DEF T, X

LEMMA DecodeIs ==
  ASSUME NEW e, e \in Seq(Symbols)
  PROVE  InertDecode(Chars(e)) = FlatMap(Undone, e)
<1> DEFINE b == Chars(e)
           p == [i \in DOMAIN b |-> IF b[i] = Raw(Inert) THEN Chars(<<Left, Right>>) ELSE <<b[i]>>]
           q == [i \in DOMAIN e |-> Undone[e[i]]]
<1>1. DOMAIN b = DOMAIN e /\ \A i \in DOMAIN e : b[i] = Raw(e[i])
  BY Zenon DEF Chars
<1>2. \A i \in DOMAIN e : e[i] \in Symbols
  OBVIOUS
<1>3. \A i \in DOMAIN e : p[i] = q[i]
  <2> SUFFICES ASSUME NEW i \in DOMAIN e PROVE p[i] = q[i]
    OBVIOUS
  <2>1. p[i] = IF b[i] = Raw(Inert) THEN Chars(<<Left, Right>>) ELSE <<b[i]>>
    BY <1>1, Zenon
  <2>2. q[i] = IF e[i] = Inert THEN Chars(<<Left, Right>>) ELSE <<Raw(e[i])>>
    BY <1>2, Zenon DEF Undone
  <2>3. b[i] = Raw(e[i]) /\ (b[i] = Raw(Inert) <=> e[i] = Inert)
    BY <1>1, RawDiffers, Zenon
  <2> QED BY <2>1, <2>2, <2>3, Zenon
<1>4. p = [i \in DOMAIN e |-> p[i]] /\ q = [i \in DOMAIN e |-> q[i]]
  BY <1>1, Zenon
<1> HIDE DEF p, q
<1>5. p = q
  BY <1>3, <1>4, Zenon
<1>6. InertDecode(b) = FlattenSeq(p)
  BY DEF InertDecode, p
<1>7. FlatMap(Undone, e) = FlattenSeq(q)
  BY DEF FlatMap, q
<1> QED BY <1>5, <1>6, <1>7, Zenon

-----------------------------------------------------------------------------
(* Literal tokens.                                                         *)

NoPair(e) == \A i \in 1..(Len(e) - 1) : ~ (e[i] = Left /\ e[i + 1] = Right)

LEMMA NoPairConcat ==
  ASSUME NEW a, NEW b, a \in Seq(Symbols), b \in Seq(Symbols), NoPair(a), NoPair(b),
         a # <<>> /\ b # <<>> => ~ (a[Len(a)] = Left /\ b[1] = Right)
  PROVE  NoPair(a \o b)
<1> DEFINE c == a \o b
<1>1. /\ c \in Seq(Symbols) /\ Len(c) = Len(a) + Len(b) /\ Len(a) \in Nat /\ Len(b) \in Nat
      /\ \A i \in 1..(Len(a) + Len(b)) : c[i] = IF i <= Len(a) THEN a[i] ELSE b[i - Len(a)]
  BY ConcatProperties
<1>2. (Len(a) # 0 => a # <<>>) /\ (Len(b) # 0 => b # <<>>)
  OBVIOUS
<1> HIDE DEF c
<1>3. ASSUME NEW i \in 1..(Len(c) - 1) PROVE ~ (c[i] = Left /\ c[i + 1] = Right)
  <2>1. i \in 1..(Len(a) + Len(b)) /\ i + 1 \in 1..(Len(a) + Len(b))
    BY <1>1
  <2>2. CASE i + 1 <= Len(a)
    <3>1. i \in 1..(Len(a) - 1) /\ c[i] = a[i] /\ c[i + 1] = a[i + 1]
      BY <1>1, <2>1, <2>2
    <3> QED BY <3>1 DEF NoPair
  <2>3. CASE i = Len(a)
    <3>1. c[i] = a[Len(a)] /\ c[i + 1] = b[1] /\ Len(a) # 0 /\ Len(b) # 0
      BY <1>1, <2>1, <2>3
    <3> QED BY <1>2, <3>1
  <2>4. CASE i > Len(a)
    <3>1. /\ i - Len(a) \in 1..(Len(b) - 1) /\ (i + 1) - Len(a) = (i - Len(a)) + 1
          /\ ~ (i <= Len(a)) /\ ~ (i + 1 <= Len(a))
      BY <1>1, <2>1, <2>4
    <3>2. c[i] = b[i - Len(a)] /\ c[i + 1] = b[(i - Len(a)) + 1]
      BY <1>1, <2>1, <3>1
    <3> QED BY <3>1, <3>2 DEF NoPair
  <2> QED BY <1>1, <2>1, <2>2, <2>3, <2>4
<1> QED BY <1>3 DEF NoPair, c

(* Where there is no literal token, none is looked up.                     *)
LEMMA ReplaceNothing ==
  ASSUME NEW e, e \in Seq(Symbols), NoPair(e), NEW by
  PROVE  ReplaceLiteral(Chars(e), Raw(Left), Raw(Right), by) = Chars(e)
<1> DEFINE b == Chars(e)
           here(i) == i \in 1..(Len(b) - 1) /\ b[i] = Raw(Left) /\ b[i + 1] = Raw(Right)
           q == [i \in DOMAIN b |->
                   IF here(i) THEN by ELSE IF here(i - 1) THEN <<>> ELSE <<b[i]>>]
<1>1. /\ b \in Seq(OutputSymbols) /\ Len(b) = Len(e) /\ Len(e) \in Nat
      /\ \A i \in 1..Len(e) : b[i] = Raw(e[i])
  BY CharsParts
<1> HIDE DEF b
<1>2. \A i : ~ here(i)
  <2> SUFFICES ASSUME NEW i, here(i) PROVE FALSE
    OBVIOUS
  <2>1. i \in 1..(Len(e) - 1) /\ i \in 1..Len(e) /\ i + 1 \in 1..Len(e)
    BY <1>1
  <2>2. e[i] = Left /\ e[i + 1] = Right
    <3>1. Raw(e[i]) = Raw(Left) /\ Raw(e[i + 1]) = Raw(Right)
      BY <1>1, <2>1
    <3> QED BY <3>1, RawDiffers, Zenon
  <2> QED BY <2>1, <2>2 DEF NoPair
<1>3. ReplaceLiteral(b, Raw(Left), Raw(Right), by) = FlattenSeq(q)
  BY DEF ReplaceLiteral
<1> HIDE DEF here
<1>4. q = [i \in DOMAIN b |-> <<b[i]>>]
  BY <1>2, Zenon
<1> HIDE DEF q
<1>5. FlattenSeq(q) = b
  BY <1>1, <1>4, FlattenSingles
<1> QED BY <1>3, <1>5 DEF b

LEMMA EscapeOne ==
  \A a, c, d :
    /\ a \in Seq(Symbols) /\ c \in Symbols /\ NoPair(a)
    /\ ~ (a # <<>> /\ a[Len(a)] = Left /\ c = Right)
    /\ d = a \o <<c>>
    => /\ d # <<>> /\ NoPair(d) /\ d[Len(d)] = c
       /\ d[1] = IF a = <<>> THEN c ELSE a[1]
       /\ FlatMap(Undone, d) = FlatMap(Undone, a) \o Undone[c]
<1> SUFFICES ASSUME NEW a, NEW c, NEW d, a \in Seq(Symbols), c \in Symbols, NoPair(a),
                    ~ (a # <<>> /\ a[Len(a)] = Left /\ c = Right),
                    d = a \o <<c>>
             PROVE  /\ d # <<>> /\ NoPair(d) /\ d[Len(d)] = c
                    /\ d[1] = IF a = <<>> THEN c ELSE a[1]
                    /\ FlatMap(Undone, d) = FlatMap(Undone, a) \o Undone[c]
  OBVIOUS
<1> DEFINE one == <<c>>
<1>1. one \in Seq(Symbols) /\ Len(one) = 1 /\ one[1] = c /\ one # <<>>
  OBVIOUS
<1>2. FlatMap(Undone, one) = Undone[c]
  BY UndoType, FlatMapOne
<1>3. d = a \o one
  OBVIOUS
<1> HIDE DEF one
<1>4. /\ d \in Seq(Symbols) /\ Len(d) = Len(a) + 1 /\ Len(a) \in Nat
      /\ \A i \in 1..(Len(a) + 1) : d[i] = IF i <= Len(a) THEN a[i] ELSE one[i - Len(a)]
  BY <1>1, <1>3, ConcatProperties
<1>5. NoPair(d)
  <2>1. NoPair(one)
    BY <1>1 DEF NoPair
  <2>2. a # <<>> /\ one # <<>> => ~ (a[Len(a)] = Left /\ one[1] = Right)
    BY <1>1
  <2> QED BY <1>1, <1>3, <2>1, <2>2, NoPairConcat
<1>6. FlatMap(Undone, d) = FlatMap(Undone, a) \o Undone[c]
  <2>1. FlatMap(Undone, a \o one) = FlatMap(Undone, a) \o FlatMap(Undone, one)
    BY <1>1, UndoType, FlatMapConcat
  <2> QED BY <1>2, <1>3, <2>1, Zenon
<1>7. d[Len(d)] = c
  <2>1. Len(d) \in 1..(Len(a) + 1) /\ ~ (Len(d) <= Len(a)) /\ Len(d) - Len(a) = 1
    BY <1>4
  <2> QED BY <1>1, <1>4, <2>1
<1>8. d[1] = IF a = <<>> THEN c ELSE a[1]
  <2>1. CASE a = <<>>
    <3>1. Len(a) = 0
      BY <2>1
    <3> QED BY <1>1, <1>4, <2>1, <3>1
  <2>2. CASE a # <<>>
    <3>1. Len(a) # 0
      BY <2>2
    <3> QED BY <1>4, <2>2, <3>1
  <2> QED BY <2>1, <2>2
<1>9. d # <<>>
  BY <1>4
<1> QED BY <1>4, <1>5, <1>6, <1>7, <1>8, <1>9

(* Escaping leaves no literal token, what it does is undone by decoding,   *)
(* and it makes no half of one at the ends of the text.                    *)
LEMMA EscapeUndone ==
  ASSUME NEW b, b \in Seq(Symbols), Inert \notin Range(b), NEW s, s = InertEscape(b)
  PROVE  /\ s \in Seq(Symbols) /\ NoPair(s)
         /\ FlatMap(Undone, s) = Chars(b)
         /\ b # <<>> => s # <<>>
         /\ s # <<>> /\ s[1] = Right => b[1] = Right
         /\ s # <<>> /\ s[Len(s)] = Left => b # <<>> /\ b[Len(b)] = Left
<1> DEFINE n == Len(b)
           here(i) == i \in 1..(n - 1) /\ b[i] = Left /\ b[i + 1] = Right
           q == [i \in DOMAIN b |->
                   IF here(i) THEN <<Inert>> ELSE IF here(i - 1) THEN <<>> ELSE <<b[i]>>]
           upTo(i) == IF here(i) THEN i + 1 ELSE i
<1>1. /\ n \in Nat /\ DOMAIN b = 1..n
      /\ \A i \in 1..n : b[i] \in Symbols /\ b[i] # Inert
  BY DEF Range
<1>2. s = FlattenSeq(q)
  BY DEF InertEscape, ReplaceLiteral
<1>3. \A i \in 1..n : q[i] = IF here(i) THEN <<Inert>> ELSE IF here(i - 1) THEN <<>> ELSE <<b[i]>>
  BY <1>1, Zenon
<1>4. q \in Seq(Seq(Symbols)) /\ Len(q) = n
  <2>1. \A i \in 1..n : q[i] \in Seq(Symbols)
    <3>1. <<Inert>> \in Seq(Symbols) /\ <<>> \in Seq(Symbols) /\ \A i \in 1..n : <<b[i]>> \in Seq(Symbols)
      BY <1>1, MaskAssumption
    <3> HIDE DEF q, here
    <3> QED BY <1>3, <3>1, Zenon
  <2>2. q = [i \in 1..n |-> q[i]]
    BY <1>1, Zenon
  <2> HIDE DEF q, here
  <2> QED BY <1>1, <2>1, <2>2
<1>5. \A i \in 1..n : here(i) => ~ here(i - 1) /\ i + 1 \in 1..n /\ b[i] = Left /\ b[i + 1] = Right
  BY <1>1, MaskAssumption
<1>6. \A i \in 1..n : here(i - 1) => ~ here(i) /\ i - 1 \in 1..n
  BY <1>1, MaskAssumption
<1>7. \A i \in 1..n : ~ here(i - 1) /\ i - 1 >= 1 /\ b[i - 1] = Left => b[i] # Right
  <2> SUFFICES ASSUME NEW i \in 1..n, ~ here(i - 1), i - 1 >= 1, b[i - 1] = Left, b[i] = Right PROVE FALSE
    OBVIOUS
  <2>1. i - 1 \in 1..(n - 1) /\ (i - 1) + 1 = i
    BY <1>1
  <2> QED BY <2>1
<1>8. ~ here(0) /\ ~ here(n)
  BY <1>1
<1> HIDE DEF q, here
<1>9. PICK f \in [0..n -> Seq(Symbols)] :
         /\ f[0] = <<>>
         /\ \A i \in 1..n : f[i] = f[i - 1] \o q[i]
         /\ s = f[n]
  <2>1. \E f \in [0..Len(q) -> Seq(Symbols)] :
            /\ f[0] = <<>>
            /\ \A i \in 1..Len(q) : f[i] = f[i - 1] \o q[i]
            /\ FlattenSeq(q) = f[Len(q)]
    BY <1>4, FlattenSteps
  <2> HIDE DEF n
  <2> QED BY <1>2, <1>4, <2>1, Zenon
<1>10. ASSUME NEW i \in 1..n PROVE f[i - 1] \in Seq(Symbols) /\ f[i] \in Seq(Symbols)
  <2>1. i - 1 \in 0..n /\ i \in 0..n
    BY <1>1
  <2> HIDE DEF n
  <2> QED BY <2>1, Zenon
<1> DEFINE Good(i) == /\ i >= 1 => f[i] # <<>>
                      /\ NoPair(f[i])
                      /\ f[i] # <<>> /\ f[i][1] = Right => b[1] = Right
                      /\ f[i] # <<>> /\ f[i][Len(f[i])] = Left => i >= 1 /\ b[i] = Left /\ ~ here(i)
                      /\ FlatMap(Undone, f[i]) = Chars(SubSeq(b, 1, upTo(i)))
           G == {i \in 0..n : Good(i)}
<1>11. 0 \in G
  <2>1. f[0] = <<>> /\ SubSeq(b, 1, upTo(0)) = <<>>
    BY <1>8, <1>9, SubSeqEmpty
  <2>2. FlatMap(Undone, <<>>) = <<>> /\ Chars(<<>>) = <<>>
    BY FlatMapEmpty, CharsEmpty
  <2>3. NoPair(<<>>)
    BY DEF NoPair
  <2>4. FlatMap(Undone, f[0]) = Chars(SubSeq(b, 1, upTo(0))) /\ NoPair(f[0])
    BY <2>1, <2>2, <2>3, Zenon
  <2> HIDE DEF upTo
  <2>5. 0 \in 0..n /\ ~ (0 >= 1)
    BY <1>1
  <2> QED BY <2>1, <2>4, <2>5
<1>12. ASSUME NEW i \in 1..n, i - 1 \in G PROVE i \in G
  <2> DEFINE x == f[i - 1]
             d == f[i]
  <2>a. Good(i - 1)
    BY <1>12
  <2>b. d = x \o q[i]
    BY <1>9
  <2>c. i \in 0..n /\ i >= 1 /\ x \in Seq(Symbols)
    BY <1>1, <1>10
  <2>1. /\ i - 1 >= 1 => x # <<>>
        /\ NoPair(x)
        /\ x # <<>> /\ x[1] = Right => b[1] = Right
        /\ x # <<>> /\ x[Len(x)] = Left => i - 1 >= 1 /\ b[i - 1] = Left /\ ~ here(i - 1)
        /\ FlatMap(Undone, x) = Chars(SubSeq(b, 1, upTo(i - 1)))
    BY <2>a, Zenon
  <2> SUFFICES /\ d # <<>>
               /\ NoPair(d)
               /\ d[1] = Right => b[1] = Right
               /\ d[Len(d)] = Left => b[i] = Left /\ ~ here(i)
               /\ FlatMap(Undone, d) = Chars(SubSeq(b, 1, upTo(i)))
    BY <2>c, Zenon
  <2> HIDE DEF G, Good, x, d
  <2>2. CASE here(i)
    <3>1. q[i] = <<Inert>> /\ upTo(i - 1) = i - 1 /\ upTo(i) = i + 1 /\ i + 1 \in 1..n
      BY <1>3, <1>5, <2>2
    <3>2. Inert # Left /\ Inert # Right /\ Inert \in Symbols
      BY <1>1, <1>5, <2>2, MaskAssumption
    <3>3. /\ d # <<>> /\ NoPair(d) /\ d[Len(d)] = Inert
          /\ d[1] = IF x = <<>> THEN Inert ELSE x[1]
          /\ FlatMap(Undone, d) = FlatMap(Undone, x) \o Undone[Inert]
      <4>1. d = x \o <<Inert>>
        BY <2>b, <3>1, Zenon
      <4> QED BY <2>1, <2>c, <3>2, <4>1, EscapeOne, Zenon
    <3>4. Undone[Inert] = Chars(<<Left, Right>>)
      BY <3>2, Zenon DEF Undone
    <3>5. SubSeq(b, 1, i - 1) \o <<Left, Right>> = SubSeq(b, 1, i + 1)
      <4>1. SubSeq(b, 1, i - 1) \o SubSeq(b, (i - 1) + 1, i + 1) = SubSeq(b, 1, i + 1)
        <5>1. 1 \in 1..(Len(b) + 1) /\ i - 1 \in (1 - 1)..Len(b) /\ i + 1 \in (i - 1)..Len(b)
          BY <1>1, <3>1
        <5> QED BY <5>1, ConcatAdjacentSubSeq
      <4>2. (i - 1) + 1 = i
        BY <1>1
      <4>3. SubSeq(b, i, i + 1) = <<Left, Right>>
        <5> DEFINE two == SubSeq(b, i, i + 1)
        <5>1. i \in Int /\ i + 1 \in Int /\ \A k \in i..(i + 1) : b[k] \in Symbols
          BY <1>1, <3>1
        <5>2. two \in Seq(Symbols) /\ Len(two) = 2 /\ two[1] = b[i] /\ two[2] = b[i + 1]
          <6>1. /\ two \in Seq(Symbols) /\ Len(two) = IF i <= i + 1 THEN (i + 1) - i + 1 ELSE 0
                /\ \A k \in 1..((i + 1) - i + 1) : two[k] = b[i + k - 1]
            BY <5>1, SubSeqProperties
          <6>2. i <= i + 1 /\ (i + 1) - i + 1 = 2 /\ i + 1 - 1 = i /\ i + 2 - 1 = i + 1
            BY <5>1
          <6> HIDE DEF two
          <6> QED BY <6>1, <6>2
        <5>3. two[1] = Left /\ two[2] = Right
          BY <1>5, <2>2, <5>2
        <5> HIDE DEF two
        <5>4. two = <<Left, Right>>
          BY <5>2, <5>3
        <5> QED BY <5>4 DEF two
      <4> QED BY <4>1, <4>2, <4>3, Zenon
    <3>6. Chars(SubSeq(b, 1, i - 1) \o <<Left, Right>>) = Chars(SubSeq(b, 1, i - 1)) \o Chars(<<Left, Right>>)
      <4>1. SubSeq(b, 1, i - 1) \in Seq(Symbols)
        <5>1. 1 \in Int /\ i - 1 \in Int /\ \A k \in 1..(i - 1) : b[k] \in Symbols
          BY <1>1
        <5> QED BY <5>1, SubSeqProperties
      <4>2. <<Left, Right>> \in Seq(Symbols)
        BY MaskAssumption
      <4> QED BY <4>1, <4>2, CharsConcat
    <3>7. FlatMap(Undone, d) = Chars(SubSeq(b, 1, upTo(i)))
      BY <2>1, <3>1, <3>3, <3>4, <3>5, <3>6, Zenon
    <3> HIDE DEF upTo
    <3> QED BY <2>1, <3>2, <3>3, <3>7
  <2>3. CASE here(i - 1)
    <3>1. ~ here(i) /\ q[i] = <<>> /\ upTo(i - 1) = (i - 1) + 1 /\ upTo(i) = i
      BY <1>3, <1>6, <2>3
    <3>2. d = x
      <4>1. x \o <<>> = x
        BY <2>c, ConcatEmptySeq
      <4> QED BY <2>b, <3>1, <4>1, Zenon
    <3>3. (i - 1) + 1 = i /\ i - 1 >= 1
      BY <1>1, <1>6, <2>3
    <3>4. FlatMap(Undone, d) = Chars(SubSeq(b, 1, upTo(i)))
      BY <2>1, <3>1, <3>2, <3>3, Zenon
    <3> HIDE DEF upTo
    <3> QED BY <2>1, <2>3, <3>2, <3>3, <3>4
  <2>4. CASE ~ here(i) /\ ~ here(i - 1)
    <3>1. q[i] = <<b[i]>> /\ upTo(i - 1) = i - 1 /\ upTo(i) = i
      BY <1>3, <2>4
    <3>2. ~ (x # <<>> /\ x[Len(x)] = Left /\ b[i] = Right)
      BY <1>7, <2>1, <2>4
    <3>3. /\ d # <<>> /\ NoPair(d) /\ d[Len(d)] = b[i]
          /\ d[1] = IF x = <<>> THEN b[i] ELSE x[1]
          /\ FlatMap(Undone, d) = FlatMap(Undone, x) \o Undone[b[i]]
      <4>1. d = x \o <<b[i]>> /\ b[i] \in Symbols
        BY <1>1, <2>b, <3>1, Zenon
      <4> QED BY <2>1, <2>c, <3>2, <4>1, EscapeOne, Zenon
    <3>4. Undone[b[i]] = Chars(<<b[i]>>)
      <4>1. Undone[b[i]] = <<Raw(b[i])>>
        BY <1>1, Zenon DEF Undone
      <4>2. Chars(<<b[i]>>) = <<Raw(b[i])>>
        BY <1>1, CharsOne
      <4> QED BY <4>1, <4>2, Zenon
    <3>5. SubSeq(b, 1, i) = SubSeq(b, 1, i - 1) \o <<b[i]>>
      <4>1. 1 \in 1..Len(b) /\ i \in 1..Len(b)
        BY <1>1
      <4> QED BY <4>1, SubSeqRecursiveSecond
    <3>6. Chars(SubSeq(b, 1, i - 1) \o <<b[i]>>) = Chars(SubSeq(b, 1, i - 1)) \o Chars(<<b[i]>>)
      <4>1. SubSeq(b, 1, i - 1) \in Seq(Symbols)
        <5>1. 1 \in Int /\ i - 1 \in Int /\ \A k \in 1..(i - 1) : b[k] \in Symbols
          BY <1>1
        <5> QED BY <5>1, SubSeqProperties
      <4>2. <<b[i]>> \in Seq(Symbols)
        BY <1>1
      <4> QED BY <4>1, <4>2, CharsConcat
    <3>7. FlatMap(Undone, d) = Chars(SubSeq(b, 1, upTo(i)))
      BY <2>1, <3>1, <3>3, <3>4, <3>5, <3>6, Zenon
    <3>8. x = <<>> => i = 1
      BY <1>1, <2>1
    <3> HIDE DEF upTo
    <3> QED BY <2>1, <2>4, <3>3, <3>7, <3>8
  <2> QED BY <2>2, <2>3, <2>4
<1>13. \A i \in 0..n : i \in G
  <2> HIDE DEF G
  <2> QED BY <1>1, <1>11, <1>12, Induct
<1>14. Good(n) /\ n \in 0..n
  BY <1>1, <1>13
<1>15. FlatMap(Undone, s) = Chars(b)
  <2>1. upTo(n) = n /\ SubSeq(b, 1, n) = b
    BY <1>8, SubSeqFull
  <2> QED BY <1>9, <1>14, <2>1, Zenon
<1>16. b # <<>> <=> n >= 1
  BY <1>1
<1> HIDE DEF upTo
<1> QED BY <1>9, <1>14, <1>15, <1>16

-----------------------------------------------------------------------------
(* What unmask prints for a rendered segment.                              *)

LEMMA PartType ==
  \A t \in Seq(Symbols) : \A m, n \in Int :
     1 <= m /\ n <= Len(t) => SubSeq(t, m, n) \in Seq(Symbols)
<1> SUFFICES ASSUME NEW t \in Seq(Symbols), NEW m \in Int, NEW n \in Int, 1 <= m, n <= Len(t)
             PROVE  SubSeq(t, m, n) \in Seq(Symbols)
  OBVIOUS
<1>1. \A i \in m..n : t[i] \in Symbols
  OBVIOUS
<1> QED BY <1>1, SubSeqProperties

LEMMA CharsPieces ==
  \A t \in Seq(Symbols) : \A m, k, n \in Int :
     1 <= m /\ m - 1 <= k /\ k <= n /\ n <= Len(t)
     => Chars(SubSeq(t, m, k)) \o Chars(SubSeq(t, k + 1, n)) = Chars(SubSeq(t, m, n))
<1> SUFFICES ASSUME NEW t \in Seq(Symbols), NEW m \in Int, NEW k \in Int, NEW n \in Int,
                    1 <= m, m - 1 <= k, k <= n, n <= Len(t)
             PROVE  Chars(SubSeq(t, m, k)) \o Chars(SubSeq(t, k + 1, n)) = Chars(SubSeq(t, m, n))
  OBVIOUS
<1>1. m \in 1..(Len(t) + 1) /\ k \in (m - 1)..Len(t) /\ n \in k..Len(t) /\ Len(t) \in Nat
  OBVIOUS
<1>2. SubSeq(t, m, k) \o SubSeq(t, k + 1, n) = SubSeq(t, m, n)
  BY <1>1, ConcatAdjacentSubSeq
<1>3. SubSeq(t, m, k) \in Seq(Symbols) /\ SubSeq(t, k + 1, n) \in Seq(Symbols)
  BY <1>1, PartType
<1>4. Chars(SubSeq(t, m, k) \o SubSeq(t, k + 1, n)) = Chars(SubSeq(t, m, k)) \o Chars(SubSeq(t, k + 1, n))
  BY <1>3, CharsConcat
<1> QED BY <1>2, <1>4, Zenon

LEMMA CharsPrefix ==
  \A t \in Seq(Symbols) : \A k, n \in Int :
     0 <= k /\ k <= n /\ n <= Len(t)
     => Chars(SubSeq(t, 1, k)) \o Chars(SubSeq(t, k + 1, n)) = Chars(SubSeq(t, 1, n))
<1> SUFFICES ASSUME NEW t \in Seq(Symbols), NEW k \in Int, NEW n \in Int, 0 <= k, k <= n, n <= Len(t)
             PROVE  Chars(SubSeq(t, 1, k)) \o Chars(SubSeq(t, k + 1, n)) = Chars(SubSeq(t, 1, n))
  OBVIOUS
<1>1. 1 \in Int /\ 1 <= 1 /\ 1 - 1 <= k
  OBVIOUS
<1> QED BY <1>1, CharsPieces, Zenon

LEMMA RawPartIs ==
  ASSUME segment \in Seq(Symbols), NEW s \in Int, NEW e \in Int, 1 <= s, e <= Len(segment)
  PROVE  RawPart(s, e) = Chars(SubSeq(segment, s, e))
<1> DEFINE t == SubSeq(segment, s, e)
           n == e - s + 1
<1>1. /\ t \in Seq(Symbols) /\ Len(t) = IF s <= e THEN n ELSE 0
      /\ \A i \in 1..n : t[i] = segment[s + i - 1]
  <2>1. \A i \in s..e : segment[i] \in Symbols
    OBVIOUS
  <2> QED BY <2>1, SubSeqProperties
<1> HIDE DEF t
<1>2. DOMAIN t = 1..n
  BY <1>1
<1>3. Chars(t) = [i \in 1..n |-> Raw(t[i])]
  BY <1>2, Zenon DEF Chars
<1>4. RawPart(s, e) = [i \in 1..n |-> Raw(segment[s + i - 1])]
  BY Zenon DEF RawPart
<1>5. \A i \in 1..n : Raw(t[i]) = Raw(segment[s + i - 1])
  BY <1>1, Zenon
<1>6. [i \in 1..n |-> Raw(t[i])] = [i \in 1..n |-> Raw(segment[s + i - 1])]
  <2> DEFINE N == 1..n
             f == [i \in N |-> Raw(t[i])]
             g == [i \in N |-> Raw(segment[s + i - 1])]
  <2>1. \A i \in N : f[i] = g[i]
    BY <1>5, Zenon
  <2>2. f = [i \in N |-> f[i]] /\ g = [i \in N |-> g[i]]
    BY Zenon
  <2> HIDE DEF f, g, N
  <2>3. f = g
    BY <2>1, <2>2, Zenon
  <2> QED BY <2>3 DEF f, g, N
<1> QED BY <1>3, <1>4, <1>6, Zenon DEF t

LEMMA ShownChars ==
  \A t \in Seq(Symbols) : FlatMap(Shown, Chars(t)) = Chars(t)
<1> SUFFICES ASSUME NEW t, t \in Seq(Symbols) PROVE FlatMap(Shown, Chars(t)) = Chars(t)
  OBVIOUS
<1> DEFINE b == Chars(t)
           q == [i \in DOMAIN b |-> Shown[b[i]]]
           p == [i \in DOMAIN b |-> <<b[i]>>]
<1>1. /\ b \in Seq(OutputSymbols) /\ DOMAIN b = 1..Len(t)
      /\ \A i \in 1..Len(t) : b[i] = Raw(t[i]) /\ b[i] \in OutputSymbols /\ t[i] \in Symbols
  <2>1. b \in Seq(OutputSymbols) /\ Len(b) = Len(t) /\ \A i \in 1..Len(t) : b[i] = Raw(t[i])
    BY CharsParts
  <2>2. \A i \in 1..Len(t) : t[i] \in Symbols
    OBVIOUS
  <2> HIDE DEF b
  <2>3. DOMAIN b = 1..Len(t) /\ \A i \in 1..Len(t) : b[i] \in OutputSymbols
    BY <2>1
  <2> QED BY <2>1, <2>2, <2>3
<1> HIDE DEF b
<1>2. \A i \in DOMAIN b : Shown[b[i]] = <<b[i]>>
  <2> SUFFICES ASSUME NEW i \in DOMAIN b PROVE Shown[b[i]] = <<b[i]>>
    OBVIOUS
  <2>1. b[i] \in OutputSymbols /\ b[i].form # "token"
    <3>1. Raw(t[i]).form = "raw"
      BY RawDiffers, Zenon
    <3> QED BY <1>1, <3>1
  <2> QED BY <2>1, Zenon DEF Shown
<1>3. q = p
  <2>1. \A i \in DOMAIN b : q[i] = p[i]
    BY <1>2, Zenon
  <2>2. q = [i \in DOMAIN b |-> q[i]] /\ p = [i \in DOMAIN b |-> p[i]]
    BY Zenon
  <2> HIDE DEF p, q
  <2> QED BY <2>1, <2>2, Zenon
<1>4. FlattenSeq(p) = b
  <2>1. p = [i \in DOMAIN b |-> <<b[i]>>]
    BY Zenon
  <2> HIDE DEF p
  <2> QED BY <1>1, <2>1, FlattenSingles
<1>5. FlatMap(Shown, b) = FlattenSeq(q)
  BY DEF FlatMap
<1> QED BY <1>3, <1>4, <1>5, Zenon DEF b

LEMMA ShownFlatten ==
  ASSUME NEW q, NEW h, q \in Seq(Seq(OutputSymbols)), h[0] = <<>>,
         \A i \in 1..Len(q) : h[i] = h[i - 1] \o FlatMap(Shown, q[i])
  PROVE  FlatMap(Shown, FlattenSeq(q)) = h[Len(q)]
<1>0. \A x, y \in Seq(OutputSymbols) : FlatMap(Shown, x \o y) = FlatMap(Shown, x) \o FlatMap(Shown, y)
  BY ShowType, FlatMapConcat
<1>1. PICK f \in [0..Len(q) -> Seq(OutputSymbols)] :
            /\ f[0] = <<>>
            /\ \A k \in 1..Len(q) : f[k] = f[k - 1] \o q[k]
            /\ FlattenSeq(q) = f[Len(q)]
  BY FlattenSteps
<1>2. Len(q) \in Nat
  OBVIOUS
<1> DEFINE G == {k \in 0..Len(q) : FlatMap(Shown, f[k]) = h[k]}
<1>3. 0 \in G
  <2>1. 0 \in 0..Len(q)
    BY <1>2
  <2>2. FlatMap(Shown, f[0]) = h[0]
    BY <1>1, FlatMapEmpty, Zenon
  <2> QED BY <2>1, <2>2
<1>4. ASSUME NEW k \in 1..Len(q), k - 1 \in G PROVE k \in G
  <2>1. k - 1 \in 0..Len(q) /\ k \in 0..Len(q) /\ q[k] \in Seq(OutputSymbols) /\ FlatMap(Shown, f[k - 1]) = h[k - 1]
    BY <1>2, <1>4
  <2>2. f[k - 1] \in Seq(OutputSymbols)
    BY <2>1
  <2>3. FlatMap(Shown, f[k - 1] \o q[k]) = FlatMap(Shown, f[k - 1]) \o FlatMap(Shown, q[k])
    BY <1>0, <2>1, <2>2, Zenon
  <2>4. f[k] = f[k - 1] \o q[k] /\ h[k] = h[k - 1] \o FlatMap(Shown, q[k])
    BY <1>1
  <2>5. FlatMap(Shown, f[k]) = h[k]
    BY <2>1, <2>3, <2>4, Zenon
  <2> QED BY <2>1, <2>5
<1>5. \A k \in 0..Len(q) : k \in G
  <2> HIDE DEF G
  <2> QED BY <1>2, <1>3, <1>4, Induct
<1>6. Len(q) \in 0..Len(q)
  BY <1>2
<1> QED BY <1>1, <1>5, <1>6

Clean(b) == \A x \in Range(b) : x.form # "redacted"

(* When nothing is destroyed, the values put for the tokens of a rendered  *)
(* segment give the segment.                                               *)
LEMMA RenderedShows ==
  ASSUME segment \in Seq(Symbols), picked \in Seq(Places), Clean(Rendered),
         \A i \in DOMAIN picked : picked[i].start <= picked[i].end,
         \A i, j \in DOMAIN picked : i < j => picked[i].end < picked[j].start
  PROVE  FlatMap(Shown, Rendered) = Chars(segment)
<1> DEFINE n == Len(picked)
           len == Len(segment)
           after(i) == IF i = 0 THEN 1 ELSE picked[i].end + 1
           start(i) == picked[i].start
           end(i) == picked[i].end
           sign(i) == IF Rules[picked[i].rule].destroy
                      THEN Redacted(Rules[picked[i].rule].type)
                      ELSE Token(ValueOf(picked[i]))
           piece(i) == Append(RawPart(after(i - 1), start(i) - 1), sign(i))
           q == [i \in DOMAIN picked |-> piece(i)]
           rest == RawPart(after(n), len)
<1>1. n \in Nat /\ DOMAIN picked = 1..n /\ len \in Nat
  OBVIOUS
<1>2. Rendered = FlattenSeq(q) \o rest
  BY Zenon DEF Rendered
<1>3. \A i \in 1..n : /\ picked[i] \in Places
                      /\ start(i) \in 1..len /\ end(i) \in 1..len /\ start(i) <= end(i)
                      /\ picked[i].rule \in DOMAIN Rules
  <2> SUFFICES ASSUME NEW i \in 1..n
               PROVE  /\ picked[i] \in Places
                      /\ start(i) \in 1..len /\ end(i) \in 1..len /\ start(i) <= end(i)
                      /\ picked[i].rule \in DOMAIN Rules
    OBVIOUS
  <2>1. picked[i] \in Places
    OBVIOUS
  <2>2. start(i) \in 1..len /\ end(i) \in 1..len /\ picked[i].rule \in DOMAIN Rules
    BY <2>1 DEF Places
  <2>3. start(i) <= end(i)
    BY <1>1
  <2> QED BY <2>1, <2>2, <2>3
<1>4. \A i \in 1..n : \/ i = 1 /\ after(i - 1) = 1
                      \/ i - 1 \in 1..n /\ after(i - 1) = end(i - 1) + 1 /\ end(i - 1) < start(i)
  <2> SUFFICES ASSUME NEW i \in 1..n, i # 1
               PROVE  i - 1 \in 1..n /\ after(i - 1) = end(i - 1) + 1 /\ end(i - 1) < start(i)
    OBVIOUS
  <2>1. i - 1 \in 1..n /\ i - 1 < i /\ i - 1 # 0
    BY <1>1
  <2> QED BY <1>1, <2>1
<1>5. \A i \in 1..n : after(i) = end(i) + 1
  BY <1>1
<1>6. after(0) = 1
  OBVIOUS
<1>7. n = 0 \/ n \in 1..n
  BY <1>1
<1>8. \A i \in 1..n : sign(i) = Redacted(Rules[picked[i].rule].type) \/ sign(i) = Token(ValueOf(picked[i]))
  OBVIOUS
<1>9. \A i \in 1..n : sign(i) \in OutputSymbols
  <2>1. \A i \in 1..n : Token(ValueOf(picked[i])) \in OutputSymbols
    BY <1>3, ValueType
  <2>2. \A i \in 1..n : Redacted(Rules[picked[i].rule].type) \in OutputSymbols
    BY <1>3 DEF OutputSymbols
  <2> QED BY <1>8, <2>1, <2>2, Zenon
<1> HIDE DEF sign, after, start, end
<1>10. \A i \in 1..n : /\ after(i - 1) \in Int /\ 1 <= after(i - 1) /\ after(i - 1) <= start(i)
                       /\ start(i) - 1 \in Int /\ start(i) - 1 <= len
  <2> SUFFICES ASSUME NEW i \in 1..n
               PROVE  /\ after(i - 1) \in Int /\ 1 <= after(i - 1) /\ after(i - 1) <= start(i)
                      /\ start(i) - 1 \in Int /\ start(i) - 1 <= len
    OBVIOUS
  <2>1. start(i) \in 1..len
    BY <1>3
  <2>2. CASE i = 1 /\ after(i - 1) = 1
    BY <1>1, <2>1, <2>2
  <2>3. CASE i - 1 \in 1..n /\ after(i - 1) = end(i - 1) + 1 /\ end(i - 1) < start(i)
    <3>1. end(i - 1) \in 1..len
      BY <1>3, <2>3
    <3> QED BY <1>1, <2>1, <2>3, <3>1
  <2> QED BY <1>4, <2>2, <2>3
<1> DEFINE raw(i) == SubSeq(segment, after(i - 1), start(i) - 1)
           text(i) == SubSeq(segment, start(i), end(i))
<1>11. ASSUME NEW i \in 1..n
       PROVE  /\ raw(i) \in Seq(Symbols) /\ text(i) \in Seq(Symbols)
              /\ piece(i) \in Seq(OutputSymbols)
              /\ piece(i) = Chars(raw(i)) \o <<sign(i)>>
              /\ sign(i) \in Range(piece(i))
  <2>1. after(i - 1) \in Int /\ 1 <= after(i - 1) /\ start(i) - 1 \in Int /\ start(i) - 1 <= len
    BY <1>10
  <2>2. RawPart(after(i - 1), start(i) - 1) = Chars(raw(i))
    BY <2>1, RawPartIs
  <2>3. raw(i) \in Seq(Symbols)
    BY <2>1, PartType
  <2>4. text(i) \in Seq(Symbols)
    <3>1. start(i) \in Int /\ end(i) \in Int /\ 1 <= start(i) /\ end(i) <= len
      BY <1>1, <1>3
    <3> QED BY <3>1, PartType
  <2> DEFINE c == Chars(raw(i))
             x == sign(i)
             d == Append(c, x)
  <2>5. c \in Seq(OutputSymbols) /\ x \in OutputSymbols
    BY <1>9, <2>3, CharsType
  <2>6. piece(i) = d
    BY <2>2, Zenon
  <2> HIDE DEF c, x, raw, text, piece
  <2>7. /\ d \in Seq(OutputSymbols) /\ d = c \o <<x>> /\ Len(d) = Len(c) + 1 /\ d[Len(c) + 1] = x
    BY <2>5, AppendProperties, AppendIsConcat
  <2>8. x \in Range(d)
    <3>1. Len(c) + 1 \in DOMAIN d
      BY <2>5, <2>7
    <3> QED BY <2>7, <3>1 DEF Range
  <2> QED BY <2>3, <2>4, <2>6, <2>7, <2>8, Zenon DEF c, x
<1> HIDE DEF piece
<1>12. q \in Seq(Seq(OutputSymbols)) /\ Len(q) = n /\ \A i \in 1..n : q[i] = piece(i)
  <2>1. \A i \in 1..n : q[i] = piece(i)
    BY <1>1, Zenon
  <2>2. \A i \in 1..n : q[i] \in Seq(OutputSymbols)
    BY <1>11, <2>1, Zenon
  <2>3. q = [i \in 1..n |-> q[i]]
    BY <1>1, Zenon
  <2> HIDE DEF q
  <2> QED BY <1>1, <2>1, <2>2, <2>3
<1> HIDE DEF q
<1>13. after(n) \in Int /\ 1 <= after(n) /\ after(n) - 1 <= len
  <2>1. CASE n = 0
    BY <1>1, <1>6, <2>1
  <2>2. CASE n \in 1..n
    <3>1. end(n) \in 1..len /\ after(n) = end(n) + 1
      BY <1>3, <1>5, <2>2
    <3> QED BY <1>1, <3>1
  <2> QED BY <1>7, <2>1, <2>2
<1>14. rest = Chars(SubSeq(segment, after(n), len)) /\ SubSeq(segment, after(n), len) \in Seq(Symbols)
  <2>1. len \in Int /\ len <= Len(segment)
    BY <1>1
  <2> QED BY <1>13, <2>1, RawPartIs, PartType
<1> HIDE DEF rest
<1>15. rest \in Seq(OutputSymbols) /\ FlattenSeq(q) \in Seq(OutputSymbols)
  BY <1>12, <1>14, CharsType, FlattenType
<1>16. ASSUME NEW i \in 1..n PROVE sign(i) = Token(ValueOf(picked[i]))
  <2>1. sign(i) \in Range(q[i])
    BY <1>11, <1>12, Zenon
  <2>2. sign(i) \in Range(FlattenSeq(q))
    <3>1. i \in 1..Len(q)
      BY <1>12
    <3> QED BY <1>12, <2>1, <3>1, FlattenHas
  <2>3. sign(i) \in Range(Rendered)
    <3>1. Range(FlattenSeq(q) \o rest) = Range(FlattenSeq(q)) \cup Range(rest)
      BY <1>15, RangeConcatenation
    <3> QED BY <1>2, <2>2, <3>1
  <2>4. sign(i).form # "redacted"
    BY <2>3 DEF Clean
  <2>5. Redacted(Rules[picked[i].rule].type).form = "redacted"
    BY Zenon DEF Redacted
  <2> QED BY <1>8, <2>4, <2>5, Zenon
<1>17. ASSUME NEW i \in 1..n PROVE FlatMap(Shown, q[i]) = Chars(SubSeq(segment, after(i - 1), end(i)))
  <2> DEFINE x == sign(i)
             a == Chars(raw(i))
             one == <<x>>
  <2>1. x \in OutputSymbols /\ a \in Seq(OutputSymbols) /\ one \in Seq(OutputSymbols)
    <3>1. a \in Seq(OutputSymbols)
      BY <1>11, CharsType
    <3> HIDE DEF x, a
    <3>2. x \in OutputSymbols
      BY <1>9 DEF x
    <3> QED BY <3>1, <3>2
  <2>2. q[i] = a \o one
    BY <1>11, <1>12, Zenon
  <2>3. FlatMap(Shown, a) = Chars(raw(i))
    BY <1>11, ShownChars, Zenon
  <2>4. Shown[x] = Chars(text(i))
    <3>1. x.form = "token" /\ x.text = text(i)
      <4>1. x = Token(ValueOf(picked[i]))
        BY <1>16
      <4>2. \A v : Token(v).form = "token" /\ Token(v).text = v.text
        BY Zenon DEF Token
      <4>3. ValueOf(picked[i]).text = text(i)
        BY Zenon DEF ValueOf, start, end
      <4> QED BY <4>1, <4>2, <4>3, Zenon
    <3> QED BY <2>1, <3>1, Zenon DEF Shown
  <2>5. FlatMap(Shown, one) = Shown[x]
    BY <2>1, ShowType, FlatMapOne
  <2> HIDE DEF a, x, one
  <2>6. FlatMap(Shown, a \o one) = FlatMap(Shown, a) \o FlatMap(Shown, one)
    BY <2>1, ShowType, FlatMapConcat
  <2>7. Chars(raw(i)) \o Chars(text(i)) = Chars(SubSeq(segment, after(i - 1), end(i)))
    <3>1. /\ start(i) \in Int /\ end(i) \in Int /\ (start(i) - 1) + 1 = start(i)
          /\ after(i - 1) - 1 <= start(i) - 1 /\ start(i) - 1 <= end(i) /\ end(i) <= len
      BY <1>1, <1>3, <1>10
    <3>2. Chars(SubSeq(segment, after(i - 1), start(i) - 1))
             \o Chars(SubSeq(segment, (start(i) - 1) + 1, end(i)))
          = Chars(SubSeq(segment, after(i - 1), end(i)))
      BY <1>10, <3>1, CharsPieces
    <3> QED BY <3>1, <3>2, Zenon
  <2> QED BY <2>2, <2>3, <2>4, <2>5, <2>6, <2>7, Zenon
<1> DEFINE h == [i \in 0..n |-> Chars(SubSeq(segment, 1, after(i) - 1))]
<1>18. \A i \in 0..n : h[i] = Chars(SubSeq(segment, 1, after(i) - 1))
  BY Zenon
<1> HIDE DEF h
<1>19. h[0] = <<>>
  <2>1. SubSeq(segment, 1, after(0) - 1) = <<>> /\ 0 \in 0..n
    BY <1>1, <1>6, SubSeqEmpty
  <2> QED BY <1>18, <2>1, CharsEmpty, Zenon
<1>20. ASSUME NEW i \in 1..n PROVE h[i] = h[i - 1] \o FlatMap(Shown, q[i])
  <2>1. /\ i \in 0..n /\ i - 1 \in 0..n /\ after(i) - 1 = end(i)
        /\ after(i - 1) - 1 \in Int /\ end(i) \in Int /\ (after(i - 1) - 1) + 1 = after(i - 1)
        /\ 0 <= after(i - 1) - 1 /\ after(i - 1) - 1 <= end(i) /\ end(i) <= len
    <3>1. start(i) \in 1..len /\ end(i) \in 1..len /\ start(i) <= end(i) /\ after(i) = end(i) + 1
      BY <1>3, <1>5
    <3>2. after(i - 1) \in Int /\ 1 <= after(i - 1) /\ after(i - 1) <= start(i)
      BY <1>10
    <3> QED BY <1>1, <3>1, <3>2
  <2>2. h[i] = Chars(SubSeq(segment, 1, end(i)))
    BY <1>18, <2>1, Zenon
  <2>3. h[i - 1] = Chars(SubSeq(segment, 1, after(i - 1) - 1))
    BY <1>18, <2>1, Zenon
  <2>4. Chars(SubSeq(segment, 1, after(i - 1) - 1))
           \o Chars(SubSeq(segment, (after(i - 1) - 1) + 1, end(i)))
        = Chars(SubSeq(segment, 1, end(i)))
    BY <2>1, CharsPrefix, Zenon
  <2> QED BY <1>17, <2>1, <2>2, <2>3, <2>4, Zenon
<1>21. FlatMap(Shown, FlattenSeq(q)) = h[n]
  <2>1. \A i \in 1..Len(q) : h[i] = h[i - 1] \o FlatMap(Shown, q[i])
    BY <1>12, <1>20
  <2>2. FlatMap(Shown, FlattenSeq(q)) = h[Len(q)]
    <3>1. q \in Seq(Seq(OutputSymbols))
      BY <1>12
    <3> QED BY <1>19, <2>1, <3>1, ShownFlatten, Zenon
  <2> QED BY <1>12, <2>2, Zenon
<1>22. h[n] = Chars(SubSeq(segment, 1, after(n) - 1))
  <2>1. n \in 0..n
    BY <1>1
  <2> QED BY <1>18, <2>1, Zenon
<1>23. FlatMap(Shown, rest) = Chars(SubSeq(segment, after(n), len))
  BY <1>14, ShownChars, Zenon
<1>24. FlatMap(Shown, FlattenSeq(q) \o rest) = FlatMap(Shown, FlattenSeq(q)) \o FlatMap(Shown, rest)
  BY <1>15, ShowType, FlatMapConcat
<1>25. Chars(SubSeq(segment, 1, after(n) - 1)) \o Chars(SubSeq(segment, after(n), len)) = Chars(segment)
  <2>1. /\ 0 <= after(n) - 1 /\ len <= Len(segment) /\ after(n) - 1 \in Int /\ after(n) - 1 <= len
        /\ len \in Int /\ (after(n) - 1) + 1 = after(n)
    BY <1>1, <1>13
  <2>2. Chars(SubSeq(segment, 1, after(n) - 1)) \o Chars(SubSeq(segment, (after(n) - 1) + 1, len))
        = Chars(SubSeq(segment, 1, len))
    BY <2>1, CharsPrefix, Zenon
  <2>3. SubSeq(segment, 1, len) = segment
    BY SubSeqFull
  <2> QED BY <2>1, <2>2, <2>3, Zenon
<1> QED BY <1>2, <1>21, <1>22, <1>23, <1>24, <1>25, Zenon

-----------------------------------------------------------------------------
(* The whole way, from mask to unmask.                                     *)

(* The texts RoundTrip speaks of: no escaped text of their own, and no     *)
(* literal token that a cut goes through.                                  *)
Quiet ==
    /\ Inert \notin Range(input)
    /\ ~ \E n \in cuts : input[n] = Left /\ input[n + 1] = Right

(* The output so far stands for the first n symbols of the input: with     *)
(* values for its tokens it is a text without literal tokens, which        *)
(* decodes to them, and which ends in half a token only if they do.        *)
Escaped(n) == \E e \in Seq(Symbols) :
    /\ FlatMap(Shown, masked) = Chars(e)
    /\ FlatMap(Undone, e) = Chars(SubSeq(input, 1, n))
    /\ NoPair(e)
    /\ e # <<>> /\ e[Len(e)] = Left => n > 0 /\ input[n] = Left

(* The segment in hand is what follows, from one cut to the next.          *)
InHand == \E p \in 0..(taken - 1) :
    /\ p = 0 \/ p \in cuts
    /\ segment = InertEscape(SubSeq(input, p + 1, taken))
    /\ Escaped(p)

RoundInv ==
    /\ Quiet /\ Clean(masked) =>
          /\ at \in {"read", "done", "canary"} => Escaped(taken)
          /\ at \in {"match", "write"} => InHand
    /\ taken = 0 \/ taken \in cuts \/ taken = Len(input)
    /\ at \in {"done", "canary"} => taken = Len(input)
    /\ RoundTrip

LEMMA RoundInit == Init => RoundInv
<1> SUFFICES ASSUME Init PROVE RoundInv
  OBVIOUS
<1>1. at = "read" /\ taken = 0 /\ masked = <<>>
  BY DEF Init
<1>2. Escaped(0)
  <2> DEFINE e == <<>>
  <2>1. e \in Seq(Symbols) /\ e = <<>>
    OBVIOUS
  <2>2. SubSeq(input, 1, 0) = <<>>
    BY SubSeqEmpty
  <2>3. FlatMap(Shown, masked) = Chars(e)
    BY <1>1, FlatMapEmpty, CharsEmpty, Zenon
  <2>4. FlatMap(Undone, e) = Chars(SubSeq(input, 1, 0))
    BY <2>2, FlatMapEmpty, CharsEmpty, Zenon
  <2>5. NoPair(e)
    BY DEF NoPair
  <2> HIDE DEF e
  <2> QED BY <2>1, <2>3, <2>4, <2>5, Zenon DEF Escaped
<1> QED BY <1>1, <1>2 DEF RoundInv, RoundTrip

LEMMA RoundSame ==
  ASSUME UNCHANGED <<input, cuts, masked>>
  PROVE  /\ (Quiet /\ Clean(masked))' <=> Quiet /\ Clean(masked)
         /\ \A n : Escaped(n)' <=> Escaped(n)
<1>1. input' = input /\ cuts' = cuts /\ masked' = masked
  OBVIOUS
<1>2. (Quiet /\ Clean(masked))' <=> Quiet /\ Clean(masked)
  BY <1>1 DEF Quiet, Clean, Range
<1>3. \A n : Escaped(n)' <=> Escaped(n)
  BY <1>1, Zenon DEF Escaped
<1> QED BY <1>2, <1>3, Zenon

LEMMA EndIsCut ==
  ASSUME NEW n \in Nat, NEW t \in Nat, t < n, NEW C, C \subseteq 1..(n - 1)
  PROVE  Min({c \in C : c > t} \union {n}) \in C \union {n}
<1> DEFINE E == {c \in C : c > t} \union {n}
<1>1. E \in SUBSET Nat /\ E # {}
  <2>1. \A c \in C : c \in Nat
    OBVIOUS
  <2> QED BY <2>1
<1>2. \E x \in E : \A y \in E : x <= y
  BY <1>1, LeastOf
<1> HIDE DEF E
<1>3. Min(E) \in E
  BY <1>2 DEF Min
<1> QED BY <1>3 DEF E

LEMMA RoundTake ==
  ASSUME TypeOK, RoundInv, TakeSegment
  PROVE  RoundInv'
<1> DEFINE end == Min({n \in cuts : n > taken} \union {Len(input)})
<1>1. /\ at = "read" /\ at' = "match" /\ taken < Len(input) /\ taken' = end
      /\ segment' = InertEscape(SubSeq(input, taken + 1, end))
      /\ input' = input /\ cuts' = cuts /\ masked' = masked
  BY DEF TakeSegment, given, deny
<1>2. end \in (taken + 1)..Len(input) /\ end \in cuts \union {Len(input)}
  <2>1. Len(input) \in Nat /\ taken \in Nat /\ cuts \subseteq 1..(Len(input) - 1)
    BY MaskAssumption DEF TypeOK
  <2>2. end \in (taken + 1)..Len(input)
    BY <1>1, <2>1, EndOfSegment
  <2>3. end \in cuts \union {Len(input)}
    BY <1>1, <2>1, EndIsCut
  <2> QED BY <2>2, <2>3
<1> HIDE DEF end
<1>3. taken \in 0..(taken' - 1)
  BY <1>1, <1>2 DEF TypeOK
<1>4. taken = 0 \/ taken \in cuts'
  BY <1>1 DEF RoundInv, TypeOK
<1>5. ASSUME (Quiet /\ Clean(masked))' PROVE InHand'
  <2>1. Escaped(taken)
    BY <1>1, <1>5, RoundSame DEF RoundInv
  <2>2. \A n : Escaped(n)' <=> Escaped(n)
    BY <1>1, RoundSame
  <2>3. segment' = InertEscape(SubSeq(input', taken + 1, taken'))
    BY <1>1
  <2>4. \E p \in 0..(taken' - 1) :
           /\ p = 0 \/ p \in cuts'
           /\ segment' = InertEscape(SubSeq(input', p + 1, taken'))
           /\ Escaped(p)'
    BY <1>3, <1>4, <2>1, <2>2, <2>3, Zenon
  <2> QED BY <2>4 DEF InHand
<1>6. taken' = 0 \/ taken' \in cuts' \/ taken' = Len(input')
  BY <1>1, <1>2
<1> QED BY <1>1, <1>5, <1>6 DEF RoundInv, RoundTrip

(* One more segment on the way.                                            *)
LEMMA RoundJoin ==
  ASSUME TypeOK, MatchInv, Quiet, at = "write", Clean(Rendered), InHand
  PROVE  \E e \in Seq(Symbols) :
            /\ FlatMap(Shown, masked \o Rendered) = Chars(e)
            /\ FlatMap(Undone, e) = Chars(SubSeq(input, 1, taken))
            /\ NoPair(e)
            /\ e # <<>> /\ e[Len(e)] = Left => taken > 0 /\ input[taken] = Left
<1>1. /\ input \in Seq(Symbols) /\ Len(input) \in Nat /\ taken \in 0..Len(input)
      /\ segment \in Seq(Symbols) /\ masked \in Seq(OutputSymbols)
  BY MaskAssumption DEF TypeOK
<1>2. PICK p \in 0..(taken - 1) :
         /\ p = 0 \/ p \in cuts
         /\ segment = InertEscape(SubSeq(input, p + 1, taken))
         /\ Escaped(p)
  BY DEF InHand
<1>3. PICK e \in Seq(Symbols) :
         /\ FlatMap(Shown, masked) = Chars(e)
         /\ FlatMap(Undone, e) = Chars(SubSeq(input, 1, p))
         /\ NoPair(e)
         /\ e # <<>> /\ e[Len(e)] = Left => p > 0 /\ input[p] = Left
  BY <1>2 DEF Escaped
<1>4. p \in Int /\ taken \in Int /\ 0 <= p /\ p < taken /\ taken <= Len(input)
  BY <1>1
<1> DEFINE b == SubSeq(input, p + 1, taken)
<1>5. /\ b \in Seq(Symbols) /\ Len(b) = taken - p /\ b # <<>>
      /\ \A i \in 1..(taken - p) : b[i] = input[p + i]
  <2>1. p + 1 \in Int /\ \A i \in (p + 1)..taken : input[i] \in Symbols
    BY <1>1, <1>4
  <2>2. /\ b \in Seq(Symbols) /\ Len(b) = IF p + 1 <= taken THEN taken - (p + 1) + 1 ELSE 0
        /\ \A i \in 1..(taken - (p + 1) + 1) : b[i] = input[(p + 1) + i - 1]
    BY <1>4, <2>1, SubSeqProperties
  <2> HIDE DEF b
  <2>3. Len(b) = taken - p /\ \A i \in 1..(taken - p) : b[i] = input[p + i]
    BY <1>4, <2>2
  <2> QED BY <1>4, <2>2, <2>3
<1> HIDE DEF b
<1>6. b[1] = input[p + 1] /\ b[Len(b)] = input[taken]
  <2>1. 1 \in 1..(taken - p) /\ taken - p \in 1..(taken - p) /\ p + (taken - p) = taken
    BY <1>4
  <2> QED BY <1>5, <2>1
<1>7. Inert \notin Range(b)
  <2>1. Inert \notin Range(input)
    BY DEF Quiet
  <2>2. \A i \in 1..(taken - p) : p + i \in DOMAIN input
    BY <1>1, <1>4
  <2>3. DOMAIN b = 1..(taken - p)
    BY <1>5
  <2> QED BY <1>5, <2>1, <2>2, <2>3 DEF Range
<1>8. /\ NoPair(segment)
      /\ FlatMap(Undone, segment) = Chars(b)
      /\ segment # <<>>
      /\ segment[1] = Right => b[1] = Right
      /\ segment[Len(segment)] = Left => b[Len(b)] = Left
  <2>1. segment = InertEscape(b)
    BY <1>2 DEF b
  <2>2. /\ NoPair(segment)
        /\ FlatMap(Undone, segment) = Chars(b)
        /\ b # <<>> => segment # <<>>
        /\ segment # <<>> /\ segment[1] = Right => b[1] = Right
        /\ segment # <<>> /\ segment[Len(segment)] = Left => b # <<>> /\ b[Len(b)] = Left
    BY <1>5, <1>7, <2>1, EscapeUndone, Zenon
  <2> QED BY <1>5, <2>2, Zenon
<1>9. Rendered \in Seq(OutputSymbols) /\ FlatMap(Shown, Rendered) = Chars(segment)
  <2>1. picked \in Seq(Places)
    BY TypeParts
  <2>2. Sifted(Candidates(segment), found, picked)
    BY DEF MatchInv
  <2>3. \A c \in Candidates(segment) : c.start <= c.end
    BY <1>1, CandidateType
  <2>4. \A i \in DOMAIN picked : picked[i].start <= picked[i].end
    BY <2>2, <2>3 DEF Sifted
  <2>5. \A i, j \in DOMAIN picked : i < j => picked[i].end < picked[j].start
    BY <2>2 DEF Sifted
  <2>6. FlatMap(Shown, Rendered) = Chars(segment)
    BY <1>1, <2>1, <2>4, <2>5, RenderedShows, Zenon
  <2>7. Rendered \in Seq(OutputSymbols)
    BY <1>1, <2>1, RenderedType
  <2> QED BY <2>6, <2>7
<1> DEFINE x == e \o segment
           r == Rendered
<1> HIDE DEF r
<1>10. FlatMap(Shown, masked \o r) = Chars(x)
  <2>1. FlatMap(Shown, masked \o r) = FlatMap(Shown, masked) \o FlatMap(Shown, r)
    <3>1. r \in Seq(OutputSymbols) /\ masked \in Seq(OutputSymbols)
      BY <1>1, <1>9 DEF r
    <3> QED BY <3>1, ShowType, FlatMapConcat
  <2>2. Chars(e \o segment) = Chars(e) \o Chars(segment)
    BY <1>1, CharsConcat
  <2> QED BY <1>3, <1>9, <2>1, <2>2, Zenon DEF r
<1>11. FlatMap(Undone, x) = Chars(SubSeq(input, 1, taken))
  <2>1. FlatMap(Undone, e \o segment) = FlatMap(Undone, e) \o FlatMap(Undone, segment)
    BY <1>1, UndoType, FlatMapConcat
  <2>2. Chars(SubSeq(input, 1, p)) \o Chars(SubSeq(input, p + 1, taken)) = Chars(SubSeq(input, 1, taken))
    <3>1. p <= taken
      BY <1>4
    <3> QED BY <1>1, <1>4, <3>1, CharsPrefix, Zenon
  <2> QED BY <1>3, <1>8, <2>1, <2>2, Zenon DEF b
<1>12. NoPair(x)
  <2>1. ~ (e # <<>> /\ e[Len(e)] = Left /\ segment[1] = Right)
    <3> SUFFICES ASSUME e # <<>>, e[Len(e)] = Left, segment[1] = Right PROVE FALSE
      OBVIOUS
    <3>1. p > 0 /\ input[p] = Left /\ input[p + 1] = Right
      BY <1>3, <1>6, <1>8
    <3>2. p \in cuts
      BY <1>2, <3>1
    <3> QED BY <3>1, <3>2 DEF Quiet
  <2> QED BY <1>1, <1>3, <1>8, <2>1, NoPairConcat
<1>13. x \in Seq(Symbols) /\ (x[Len(x)] = Left => taken > 0 /\ input[taken] = Left)
  <2>1. /\ x \in Seq(Symbols) /\ Len(x) = Len(e) + Len(segment)
        /\ \A i \in 1..(Len(e) + Len(segment)) : x[i] = IF i <= Len(e) THEN e[i] ELSE segment[i - Len(e)]
    BY <1>1, ConcatProperties
  <2>2. Len(segment) \in Nat /\ Len(segment) # 0 /\ Len(e) \in Nat
    BY <1>1, <1>8
  <2> HIDE DEF x
  <2>3. x[Len(x)] = segment[Len(segment)]
    <3>1. /\ Len(x) \in 1..(Len(e) + Len(segment)) /\ ~ (Len(x) <= Len(e))
          /\ Len(x) - Len(e) = Len(segment)
      BY <2>1, <2>2
    <3> QED BY <2>1, <3>1
  <2> QED BY <1>4, <1>6, <1>8, <2>1, <2>3
<1> HIDE DEF x
<1> QED BY <1>10, <1>11, <1>12, <1>13, Zenon DEF r

LEMMA RoundWrite ==
  ASSUME TypeOK, MatchInv, RoundInv, WriteMasked
  PROVE  RoundInv'
<1> DEFINE r == Rendered
<1>1. /\ at = "write" /\ at' = "read" /\ taken' = taken /\ input' = input /\ cuts' = cuts
      /\ masked' = masked \o r
  BY DEF WriteMasked, DenyWrite, given
<1>2. masked \in Seq(OutputSymbols) /\ r \in Seq(OutputSymbols)
  BY RenderedType, TypeParts
<1> HIDE DEF r
<1>3. ASSUME (Quiet /\ Clean(masked))' PROVE Escaped(taken)'
  <2>1. Quiet
    BY <1>1, <1>3 DEF Quiet
  <2>2. Clean(masked) /\ Clean(r)
    <3>1. Range(masked \o r) = Range(masked) \cup Range(r)
      BY <1>2, RangeConcatenation
    <3>2. \A x \in Range(masked \o r) : x.form # "redacted"
      BY <1>1, <1>3, Zenon DEF Clean
    <3> QED BY <3>1, <3>2 DEF Clean
  <2>3. InHand
    BY <1>1, <2>1, <2>2 DEF RoundInv
  <2>4. \E e \in Seq(Symbols) :
            /\ FlatMap(Shown, masked \o Rendered) = Chars(e)
            /\ FlatMap(Undone, e) = Chars(SubSeq(input, 1, taken))
            /\ NoPair(e)
            /\ e # <<>> /\ e[Len(e)] = Left => taken > 0 /\ input[taken] = Left
    BY <1>1, <2>1, <2>2, <2>3, RoundJoin DEF r
  <2> QED BY <1>1, <2>4, Zenon DEF Escaped, r
<1> QED BY <1>1, <1>3 DEF RoundInv, RoundTrip

LEMMA RoundUnmask ==
  ASSUME TypeOK, RoundInv, Unmask
  PROVE  RoundInv'
<1>1. /\ at \in {"done", "canary"} /\ at' = "unmasked" /\ taken' = taken
      /\ input' = input /\ cuts' = cuts /\ masked' = masked /\ rows' = rows
      /\ restored' = InertDecode(TokensReplaced(masked))
  BY DEF Unmask, given, deny
<1>2. ASSUME Quiet, Clean(masked),
             \A x \in Range(masked) : x.form = "token" => [type |-> x.type, text |-> x.text] \in rows
      PROVE  restored' = Chars(input)
  <2>1. Escaped(taken) /\ taken = Len(input)
    BY <1>1, <1>2 DEF RoundInv
  <2>2. PICK e \in Seq(Symbols) :
           /\ FlatMap(Shown, masked) = Chars(e)
           /\ FlatMap(Undone, e) = Chars(SubSeq(input, 1, taken))
           /\ NoPair(e)
    BY <2>1 DEF Escaped
  <2>3. SubSeq(input, 1, taken) = input
    <3>1. input \in Seq(Symbols)
      BY MaskAssumption DEF TypeOK
    <3> QED BY <2>1, <3>1, SubSeqFull
  <2> DEFINE q == [i \in DOMAIN masked |->
                     IF masked[i].form = "token" /\ [type |-> masked[i].type, text |-> masked[i].text] \in rows
                     THEN Chars(masked[i].text)
                     ELSE <<masked[i]>>]
             p == [i \in DOMAIN masked |-> Shown[masked[i]]]
  <2>4. q = p
    <3>1. \A i \in DOMAIN masked : masked[i] \in OutputSymbols /\ masked[i] \in Range(masked)
      <4>1. masked \in Seq(OutputSymbols)
        BY TypeParts
      <4> QED BY <4>1 DEF Range
    <3>2. \A i \in DOMAIN masked : q[i] = p[i]
      <4> SUFFICES ASSUME NEW i \in DOMAIN masked PROVE q[i] = p[i]
        OBVIOUS
      <4>1. p[i] = IF masked[i].form = "token" THEN Chars(masked[i].text) ELSE <<masked[i]>>
        BY <3>1, Zenon DEF Shown
      <4> QED BY <1>2, <3>1, <4>1, Zenon
    <3>3. q = [i \in DOMAIN masked |-> q[i]] /\ p = [i \in DOMAIN masked |-> p[i]]
      BY Zenon
    <3> HIDE DEF p, q
    <3> QED BY <3>2, <3>3, Zenon
  <2>5. FlatMap(Shown, masked) = FlattenSeq(p)
    BY DEF FlatMap
  <2> DEFINE known == FlattenSeq(q)
  <2>6. known = Chars(e)
    <3> HIDE DEF p, q
    <3> QED BY <2>2, <2>4, <2>5, Zenon
  <2>7. TokensReplaced(masked) =
          IF Literal \in rows
          THEN ReplaceLiteral(known, Raw(Left), Raw(Right), Chars(Literal.text))
          ELSE known
    BY Zenon DEF TokensReplaced
  <2> HIDE DEF known, p, q
  <2>8. ReplaceLiteral(Chars(e), Raw(Left), Raw(Right), Chars(Literal.text)) = Chars(e)
    BY <2>2, ReplaceNothing
  <2>9. TokensReplaced(masked) = Chars(e)
    BY <2>6, <2>7, <2>8, Zenon
  <2>10. InertDecode(Chars(e)) = FlatMap(Undone, e)
    BY DecodeIs
  <2> QED BY <1>1, <2>2, <2>3, <2>9, <2>10, Zenon
<1>3. RoundTrip'
  <2> SUFFICES ASSUME (\A x \in Range(masked) :
                          /\ x.form # "redacted"
                          /\ x.form = "token" => [type |-> x.type, text |-> x.text] \in rows),
                      Quiet
               PROVE  restored' = Chars(input)
    BY <1>1, Zenon DEF RoundTrip, Quiet
  <2> QED BY <1>2, Zenon DEF Clean
<1> QED BY <1>1, <1>3 DEF RoundInv

LEMMA RoundStep ==
  ASSUME TypeOK, MatchInv, RoundInv, [Next]_vars
  PROVE  RoundInv'
<1>1. CASE TakeSegment
  BY <1>1, RoundTake
<1>2. CASE WriteMasked
  BY <1>2, RoundWrite
<1>3. CASE Unmask
  BY <1>3, RoundUnmask
<1>4. CASE (\E m \in found : Pick(m)) \/ CommitPlans
  <2>1. /\ input' = input /\ cuts' = cuts /\ masked' = masked
        /\ taken' = taken /\ segment' = segment
        /\ at = "match" /\ at' \in {"match", "write", "failed"}
    BY <1>4 DEF Pick, CommitPlans, given, deny
  <2>2. InHand => InHand'
    <3>1. \A n : Escaped(n)' <=> Escaped(n)
      BY <2>1, RoundSame
    <3> QED BY <2>1, <3>1, Zenon DEF InHand
  <2>3. (Quiet /\ Clean(masked))' <=> Quiet /\ Clean(masked)
    BY <2>1, RoundSame
  <2> QED BY <2>1, <2>2, <2>3 DEF RoundInv, RoundTrip
<1>5. CASE Finish
  <2>1. /\ input' = input /\ cuts' = cuts /\ masked' = masked /\ taken' = taken
        /\ at = "read" /\ at' \in {"done", "canary"} /\ taken = Len(input)
    BY <1>5 DEF Finish, given, deny
  <2>2. Escaped(taken)' <=> Escaped(taken)
    BY <2>1, Zenon DEF Escaped
  <2>3. (Quiet /\ Clean(masked))' <=> Quiet /\ Clean(masked)
    BY <2>1, RoundSame
  <2> QED BY <2>1, <2>2, <2>3 DEF RoundInv, RoundTrip
<1>6. CASE (\E v \in rows : Prune(v)) \/ UNCHANGED vars
  <2>1. /\ input' = input /\ cuts' = cuts /\ masked' = masked
        /\ taken' = taken /\ segment' = segment /\ at' = at
    BY <1>6 DEF Prune, vars, given, deny
  <2>2. InHand => InHand'
    <3>1. \A n : Escaped(n)' <=> Escaped(n)
      BY <2>1, RoundSame
    <3> QED BY <2>1, <3>1, Zenon DEF InHand
  <2>3. Escaped(taken)' <=> Escaped(taken)
    BY <2>1, Zenon DEF Escaped
  <2>4. (Quiet /\ Clean(masked))' <=> Quiet /\ Clean(masked)
    BY <2>1, RoundSame
  <2>5. RoundTrip'
    <3>1. CASE \E v \in rows : Prune(v)
      BY <3>1 DEF Prune, RoundTrip
    <3>2. CASE UNCHANGED vars
      BY <3>2 DEF vars, given, deny, RoundInv, RoundTrip, Range
    <3> QED BY <1>6, <3>1, <3>2
  <2> QED BY <2>1, <2>2, <2>3, <2>4, <2>5 DEF RoundInv
<1> QED BY <1>1, <1>2, <1>3, <1>4, <1>5, <1>6 DEF Next

(* unmask(mask(x)) = x for every text without escaped text of its own,     *)
(* every set of rules, and all cuts that go through no literal token,      *)
(* when nothing was destroyed and no row was pruned.                       *)
THEOREM MaskRoundTrip == Spec => []RoundTrip
<1>1. TypeOK /\ MatchInv /\ RoundInv /\ [Next]_vars => (TypeOK /\ MatchInv /\ RoundInv)'
  BY TypeStep, MatchStep, RoundStep
<1>2. Init => TypeOK /\ MatchInv /\ RoundInv
  <2>1. Init => MatchInv
    BY DEF Init, MatchInv
  <2> QED BY <2>1, TypeInit, RoundInit
<1>3. RoundInv => RoundTrip
  BY DEF RoundInv
<1> QED BY <1>1, <1>2, <1>3, PTL DEF Spec
=============================================================================
