------------------------ MODULE StreamEngine_proofs ------------------------
(***************************************************************************)
(* Proofs about StreamEngine for every set of inputs, of any length, and   *)
(* every choice of the sizes that EngineAssumption allows.                 *)
(***************************************************************************)
EXTENDS StreamEngine, SequenceTheorems, WellFoundedInduction, TLAPS

-----------------------------------------------------------------------------
(* Blocks of consecutive positions: what they hold, how two of them join   *)
(* and what a part of one is.                                              *)

LEMMA Block ==
  ASSUME NEW i \in Nat, NEW j \in Nat, i <= j
  PROVE  /\ Positions(i + 1, j) \in Seq(1..j)
         /\ Len(Positions(i + 1, j)) = j - i
         /\ \A k \in 1..(j - i) : Positions(i + 1, j)[k] = i + k
<1>1. j - i \in Nat /\ j - (i + 1) + 1 = j - i
  OBVIOUS
<1>2. \A k \in 1..(j - i) : i + 1 + k - 1 = i + k /\ i + k \in 1..j
  OBVIOUS
<1>3. Positions(i + 1, j) = [k \in 1..(j - i) |-> i + k]
  BY <1>1, <1>2 DEF Positions
<1>4. Positions(i + 1, j) \in [1..(j - i) -> 1..j]
  BY <1>2, <1>3
<1>5. Positions(i + 1, j) \in Seq(1..j) /\ Len(Positions(i + 1, j)) = j - i
  BY <1>1, <1>4
<1>6. \A k \in 1..(j - i) : Positions(i + 1, j)[k] = i + k
  BY <1>3
<1> QED BY <1>5, <1>6

LEMMA NoBlock ==
  ASSUME NEW i \in Nat
  PROVE  Positions(i + 1, i) = <<>>
<1>1. Positions(i + 1, i) \in Seq(1..i) /\ Len(Positions(i + 1, i)) = 0
  BY Block
<1> QED BY <1>1, EmptySeq

LEMMA BlocksJoin ==
  ASSUME NEW i \in Nat, NEW j \in Nat, NEW k \in Nat, i <= j, j <= k
  PROVE  Positions(i + 1, j) \o Positions(j + 1, k) = Positions(i + 1, k)
<1> DEFINE p == Positions(i + 1, j)
           q == Positions(j + 1, k)
           r == Positions(i + 1, k)
<1>1. /\ p \in Seq(1..j) /\ Len(p) = j - i
      /\ \A n \in 1..(j - i) : p[n] = i + n
  BY Block
<1>2. /\ q \in Seq(1..k) /\ Len(q) = k - j
      /\ \A n \in 1..(k - j) : q[n] = j + n
  BY Block
<1>3. /\ r \in Seq(1..k) /\ Len(r) = k - i
      /\ \A n \in 1..(k - i) : r[n] = i + n
  BY Block
<1>4. p \in Seq(1..k)
  <2>1. 1..j \subseteq 1..k
    OBVIOUS
  <2> QED BY <1>1, <2>1, SeqMonotonic
<1> HIDE DEF p, q, r
<1>5. /\ p \o q \in Seq(1..k) /\ Len(p \o q) = Len(p) + Len(q)
      /\ \A n \in 1..(Len(p) + Len(q)) : (p \o q)[n] = IF n <= Len(p) THEN p[n] ELSE q[n - Len(p)]
  BY <1>2, <1>4, ConcatProperties
<1>6. Len(p) = j - i /\ Len(p) + Len(q) = k - i
  BY <1>1, <1>2
<1>7. \A n \in 1..(k - i) : (p \o q)[n] = r[n]
  <2>1. TAKE n \in 1..(k - i)
  <2>2. (p \o q)[n] = IF n <= j - i THEN p[n] ELSE q[n - (j - i)]
    BY <1>5, <1>6
  <2>3. r[n] = i + n
    BY <1>3
  <2>4. CASE n <= j - i
    <3>1. n \in 1..(j - i)
      BY <2>4
    <3> QED BY <1>1, <2>2, <2>3, <2>4, <3>1
  <2>5. CASE ~ (n <= j - i)
    <3>1. n - (j - i) \in 1..(k - j)
      BY <2>5
    <3>2. q[n - (j - i)] = j + (n - (j - i))
      BY <1>2, <3>1
    <3>3. j + (n - (j - i)) = i + n
      OBVIOUS
    <3> QED BY <2>2, <2>3, <2>5, <3>2, <3>3
  <2> QED BY <2>4, <2>5
<1>8. Len(p \o q) = Len(r)
  BY <1>3, <1>5, <1>6
<1>9. \A n \in 1..Len(r) : (p \o q)[n] = r[n]
  BY <1>3, <1>7
<1>10. p \o q = r
  BY <1>3, <1>5, <1>8, <1>9, SeqEqual
<1> QED BY <1>10 DEF p, q, r

(* The part of a block after x and up to y.                                *)
LEMMA BlockPart ==
  ASSUME NEW i \in Nat, NEW j \in Nat, NEW x \in Nat, NEW y \in Nat,
         i <= x, x <= y, y <= j,
         NEW m \in Int, m = x - i + 1,
         NEW n \in Int, n = y - i
  PROVE  SubSeq(Positions(i + 1, j), m, n) = Positions(x + 1, y)
<1> DEFINE p == Positions(i + 1, j)
           r == Positions(x + 1, y)
<1>1. \A k \in 1..(j - i) : p[k] = i + k
  BY Block
<1>2. /\ r \in Seq(1..y) /\ Len(r) = y - x
      /\ \A k \in 1..(y - x) : r[k] = x + k
  BY Block
<1>3. \A k \in m..n : p[k] \in 1..y
  <2>1. TAKE k \in m..n
  <2>2. k \in 1..(j - i) /\ i + k \in 1..y
    OBVIOUS
  <2> QED BY <1>1, <2>2
<1> HIDE DEF p, r
<1>4. /\ SubSeq(p, m, n) \in Seq(1..y)
      /\ Len(SubSeq(p, m, n)) = IF m <= n THEN n - m + 1 ELSE 0
      /\ \A k \in 1..(n - m + 1) : SubSeq(p, m, n)[k] = p[m + k - 1]
  BY <1>3, SubSeqProperties
<1>5. n - m + 1 = y - x
  OBVIOUS
<1>6. Len(SubSeq(p, m, n)) = Len(r)
  BY <1>2, <1>4, <1>5
<1>7. \A k \in 1..Len(r) : SubSeq(p, m, n)[k] = r[k]
  <2>1. TAKE k \in 1..Len(r)
  <2>2. k \in 1..(y - x)
    BY <1>2
  <2>3. SubSeq(p, m, n)[k] = p[m + k - 1]
    BY <1>4, <1>5, <2>2
  <2>4. m + k - 1 \in 1..(j - i) /\ i + (m + k - 1) = x + k
    BY <2>2
  <2>5. p[m + k - 1] = i + (m + k - 1)
    BY <1>1, <2>4
  <2>6. r[k] = x + k
    BY <1>2, <2>2
  <2> QED BY <2>3, <2>4, <2>5, <2>6
<1>8. SubSeq(p, m, n) = r
  BY <1>2, <1>4, <1>6, <1>7, SeqEqual
<1> QED BY <1>8 DEF p, r

LEMMA BlockIn ==
  ASSUME NEW i \in Nat, NEW j \in Nat, NEW g \in Nat, i <= j, j <= g
  PROVE  Positions(i + 1, j) \in Seq(1..g)
<1>1. Positions(i + 1, j) \in Seq(1..j) /\ 1..j \subseteq 1..g
  BY Block
<1> QED BY <1>1, SeqMonotonic

(* A block divided after x: its first m positions and those from u to v.   *)
Span(i, j, n) == n = j - i

LEMMA BlockSplits ==
  ASSUME NEW c \in Nat, NEW p \in Nat, NEW x \in Nat, c <= x, x <= p,
         NEW m \in Int, NEW u \in Int, NEW v \in Int,
         Span(c, x, m), Span(1, u, m), Span(c, p, v)
  PROVE  /\ SubSeq(Positions(c + 1, p), 1, m) = Positions(c + 1, x)
         /\ SubSeq(Positions(c + 1, p), u, v) = Positions(x + 1, p)
<1> USE DEF Span
<1>1. c <= p /\ c <= c /\ p <= p /\ 1 \in Int
  OBVIOUS
<1>2. 1 = c - c + 1 /\ u = x - c + 1
  OBVIOUS
<1>3. SubSeq(Positions(c + 1, p), 1, m) = Positions(c + 1, x)
  BY <1>1, <1>2, BlockPart
<1>4. SubSeq(Positions(c + 1, p), u, v) = Positions(x + 1, p)
  BY <1>1, <1>2, BlockPart
<1> QED BY <1>3, <1>4

(* The same for blocks that begin with the first byte.                     *)
LEMMA FirstBlock ==
  ASSUME NEW j \in Nat
  PROVE  /\ Positions(1, j) \in Seq(1..j)
         /\ Len(Positions(1, j)) = j
         /\ \A n \in 1..j : Positions(1, j)[n] = n
<1>1. PICK z \in Nat : z = 0
  OBVIOUS
<1> z <= j
  BY <1>1
<1>2. /\ Positions(z + 1, j) \in Seq(1..j)
      /\ Len(Positions(z + 1, j)) = j - z
      /\ \A n \in 1..(j - z) : Positions(z + 1, j)[n] = z + n
  BY Block
<1>3. z + 1 = 1 /\ j - z = j /\ \A n \in 1..j : z + n = n
  BY <1>1
<1> QED BY <1>2, <1>3

LEMMA FirstBlockJoins ==
  ASSUME NEW j \in Nat, NEW k \in Nat, j <= k
  PROVE  Positions(1, j) \o Positions(j + 1, k) = Positions(1, k)
<1>1. PICK z \in Nat : z = 0
  OBVIOUS
<1> z <= j
  BY <1>1
<1>2. Positions(z + 1, j) \o Positions(j + 1, k) = Positions(z + 1, k)
  BY BlocksJoin
<1>3. z + 1 = 1
  BY <1>1
<1> QED BY <1>2, <1>3

-----------------------------------------------------------------------------
(* The searches backwards for the start of a rune.                         *)

LEMMA LeastOfFour ==
  ASSUME NEW S \in SUBSET (0..3), S # {}
  PROVE  /\ (CHOOSE n \in S : \A k \in S : n <= k) \in S
         /\ \A k \in S : (CHOOSE n \in S : \A m \in S : n <= m) <= k
<1>1. \E n \in S : \A k \in S : n <= k
  <2>1. S \subseteq {0, 1, 2, 3}
    OBVIOUS
  <2>2. CASE 0 \in S
    BY <2>2
  <2>3. CASE 0 \notin S /\ 1 \in S
    BY <2>1, <2>3
  <2>4. CASE 0 \notin S /\ 1 \notin S /\ 2 \in S
    BY <2>1, <2>4
  <2>5. CASE 0 \notin S /\ 1 \notin S /\ 2 \notin S
    <3>1. PICK x \in S : TRUE
      OBVIOUS
    <3>2. \A k \in S : k = 3
      BY <2>1, <2>5
    <3> QED BY <3>1, <3>2
  <2> QED BY <2>2, <2>3, <2>4, <2>5
<1> QED BY <1>1

LEMMA CutOffBound ==
  ASSUME NEW b, Len(b) \in Nat
  PROVE  CutOff(b) \in 0..3 /\ (CutOff(b) = 0 \/ CutOff(b) < Len(b))
<1> DEFINE S == {n \in 1..3 : /\ n < Len(b)
                             /\ RuneStart(b[Len(b) - n + 1])
                             /\ ~ FullRune(SubSeq(b, Len(b) - n + 1, Len(b)))}
<1>1. S \in SUBSET (0..3) /\ \A n \in S : n < Len(b)
  OBVIOUS
<1>2. CutOff(b) = IF S = {} THEN 0 ELSE CHOOSE n \in S : \A k \in S : n <= k
  BY Zenon DEF CutOff
<1> HIDE DEF S
<1>3. CASE S = {}
  BY <1>2, <1>3
<1>4. CASE S # {}
  BY <1>1, <1>2, <1>4, LeastOfFour
<1> QED BY <1>3, <1>4

(* Where the engine may cut: what AlignUTF8Boundary looks for.             *)
Starts(b, cut) ==
    {n \in 0..3 : /\ cut - n > 0
                  /\ RuneStart(b[cut - n + 1])
                  /\ FullRune(SubSeq(b, cut - n + 1, Len(b)))}

LEMMA AlignIs ==
  ASSUME NEW b, Len(b) \in Nat, NEW cut \in Nat, 0 < cut, cut < Len(b)
  PROVE  \/ Starts(b, cut) = {} /\ AlignUTF8Boundary(b, cut) = cut
         \/ \E n \in Starts(b, cut) : AlignUTF8Boundary(b, cut) = cut - n
<1> DEFINE S == Starts(b, cut)
<1>1. S \in SUBSET (0..3)
  BY DEF Starts
<1>2. AlignUTF8Boundary(b, cut) =
        IF cut <= 0 \/ cut >= Len(b) \/ S = {} THEN cut
        ELSE cut - (CHOOSE n \in S : \A k \in S : n <= k)
  BY Zenon DEF AlignUTF8Boundary, Starts
<1>3. ~ (cut <= 0 \/ cut >= Len(b))
  OBVIOUS
<1> HIDE DEF S
<1>4. CASE S = {}
  BY <1>2, <1>4 DEF S
<1>5. CASE S # {}
  BY <1>1, <1>2, <1>3, <1>5, LeastOfFour DEF S
<1> QED BY <1>4, <1>5

LEMMA AlignBound ==
  ASSUME NEW b, Len(b) \in Nat, NEW cut \in Nat, 0 < cut, cut < Len(b)
  PROVE  AlignUTF8Boundary(b, cut) \in 1..cut /\ cut - AlignUTF8Boundary(b, cut) <= 3
<1>1. \A n \in Starts(b, cut) : n \in 0..3 /\ cut - n > 0
  BY DEF Starts
<1> QED BY <1>1, AlignIs

-----------------------------------------------------------------------------
(* A position has one line start.                                          *)
IsLineStart(q, p) == (q = 1 \/ Kind(q - 1) = "nl") /\ \A r \in q..(p - 1) : Kind(r) # "nl"

LEMMA OneLineStart ==
  ASSUME NEW p \in Nat, NEW q \in 1..p, IsLineStart(q, p)
  PROVE  LineStart(p) = q
<1>1. ASSUME NEW s \in 1..p, IsLineStart(s, p)
      PROVE  s = q
  <2>1. CASE s < q
    <3>1. q - 1 \in s..(p - 1) /\ q # 1
      BY <2>1
    <3> QED BY <1>1, <3>1 DEF IsLineStart
  <2>2. CASE q < s
    <3>1. s - 1 \in q..(p - 1) /\ s # 1
      BY <2>2
    <3> QED BY <1>1, <3>1 DEF IsLineStart
  <2> QED BY <2>1, <2>2
<1>2. LineStart(p) = CHOOSE s \in 1..p : IsLineStart(s, p)
  BY Zenon DEF LineStart, IsLineStart
<1> QED BY <1>1, <1>2

-----------------------------------------------------------------------------
(* The invariant.                                                          *)

(* The largest chunk Next returns.                                         *)
Chunk == Target - 1 + (3 + IF BufSize < MaxLine THEN BufSize ELSE MaxLine)

(* The buffers are three blocks that follow each other: up to a is gone,   *)
(* a to b is kept back by Process, b to c is what Next has gathered, and   *)
(* c to got is the chunker's unfinished rune.                              *)
Held(a, b, c) ==
    /\ a <= b /\ b <= c /\ c <= got
    /\ pending = Positions(a + 1, b)
    /\ out = Positions(b + 1, c)
    /\ ccarry = Positions(c + 1, got)
    /\ Len(written) <= a
    /\ sink = "open" => Len(written) = a
    /\ got - c <= 3 /\ c - b <= Chunk /\ b - a < Probe + Chunk
    /\ form = "?" => a = 0 /\ b < Probe
    /\ at = "done" => closed /\ a = got /\ got = fed

Gathered == at # "failed" => \E a, b, c \in Nat : Held(a, b, c)

Ends ==
    /\ closed => fed = Len(input)
    /\ Len(written) \in 0..got
    /\ written = Positions(1, Len(written))
    /\ form = "?" => ~ ASCIITokens

(* Up to n no byte is MaxLine or more behind the start of its line.        *)
Short(n) == \A p \in 1..n : \E q \in 1..p : IsLineStart(q, p) /\ p - q < MaxLine

(* lineLen counts the bytes since the last newline.                        *)
LineCount ==
    /\ lineLen <= got
    /\ got - lineLen = 0 \/ Kind(got - lineLen) = "nl"
    /\ \A r \in (got - lineLen + 1)..got : Kind(r) # "nl"

Lines ==
    /\ Short(Len(written))
    /\ at # "failed" => Short(got) /\ LineCount

StreamInv == TypeOK /\ Gathered /\ Ends /\ Lines /\ FormFromInput

LEMMA Sizes ==
  /\ {Carry, Probe, Target, BufSize, MaxLine} \subseteq Nat \ {0}
  /\ Carry < Probe /\ Probe < Target
  /\ 1 < Carry /\ Carry + 2 < Target
  /\ Chunk \in Nat /\ Target + 2 < Chunk
<1>1. /\ {Carry, Probe, Target, BufSize, MaxLine} \subseteq Nat \ {0}
      /\ 1 < Carry /\ Carry + 1 < Probe /\ Probe < Target
  BY EngineAssumption
<1> QED BY <1>1 DEF Chunk

LEMMA Sequences ==
  ASSUME TypeOK
  PROVE  /\ input \in Seq(Kinds) /\ Len(input) \in Nat
         /\ fed \in Nat /\ got \in Nat /\ got <= fed /\ fed <= Len(input) /\ lineLen \in Nat
         /\ Len(pending) \in Nat /\ Len(out) \in Nat /\ Len(ccarry) \in Nat /\ Len(written) \in Nat
BY DEF TypeOK

(* The lengths of the blocks.                                              *)
LEMMA HeldLengths ==
  ASSUME NEW a \in Nat, NEW b \in Nat, NEW c \in Nat, Held(a, b, c), got \in Nat
  PROVE  Len(pending) = b - a /\ Len(out) = c - b /\ Len(ccarry) = got - c
BY Block DEF Held

LEMMA TypeInit == ASSUME Init PROVE StreamInv
<1> USE DEF Init
<1>1. input \in Seq(Kinds) /\ Len(input) \in Nat
  BY EngineAssumption
<1>2. PICK z \in Nat : z = 0
  OBVIOUS
<1>3. Positions(1, 0) = <<>>
  BY NoBlock, <1>2
<1>4. TypeOK
  <2>1. {ccarry, out, pending, written} \subseteq Seq(1..got)
    OBVIOUS
  <2>2. fed \in 0..Len(input) /\ got \in 0..fed /\ cuts \subseteq 0..got
    BY <1>1
  <2>3. lineLen \in Nat /\ lineLen <= MaxLine
    BY Sizes
  <2> QED BY <1>1, <2>1, <2>2, <2>3 DEF TypeOK
<1>5. Gathered
  <2>1. /\ pending = Positions(z + 1, z) /\ out = Positions(z + 1, z)
        /\ ccarry = Positions(z + 1, got)
    BY <1>2, NoBlock
  <2>2. /\ Len(written) = z /\ got - z <= 3 /\ z - z <= Chunk /\ z - z < Probe + Chunk
        /\ z = 0 /\ z < Probe
    BY <1>2, Sizes
  <2>3. Held(z, z, z)
    BY <1>2, <2>1, <2>2 DEF Held
  <2> QED BY <2>3 DEF Gathered
<1>6. Ends
  BY <1>3 DEF Ends
<1>7. Lines
  BY <1>1 DEF Lines, Short, LineCount
<1>8. FormFromInput
  BY EngineAssumption DEF FormFromInput
<1> QED BY <1>4, <1>5, <1>6, <1>7, <1>8 DEF StreamInv

-----------------------------------------------------------------------------
(* Steps that move no byte.                                                *)

LEMMA FormStays ==
  ASSUME FormFromInput, UNCHANGED <<form, input>>
  PROVE  FormFromInput'
BY DEF FormFromInput, Kind

LEMMA ShortStays ==
  ASSUME NEW n, Short(n), input' = input
  PROVE  Short(n)'
BY DEF Short, IsLineStart, Kind

LEMMA Quiet ==
  ASSUME StreamInv,
         UNCHANGED <<input, chunkerVars, pending, written, cuts, sink>>,
         fed' \in fed..Len(input), closed' \in BOOLEAN, cancelled' \in BOOLEAN,
         closed' => fed' = Len(input),
         at' \in {"loop", "read", "failed"}, at' # "failed" => at # "failed",
         form' \in {"?", "ascii", "unicode"}, form' = "?" => form = "?",
         FormFromInput'
  PROVE  StreamInv'
<1> USE DEF chunkerVars
<1> TypeOK /\ Gathered /\ Ends /\ Lines
  BY DEF StreamInv
<1>1. TypeOK'
  <2>1. got \in 0..fed'
    BY Sequences
  <2>2. at' # "failed" => lineLen' <= MaxLine
    BY DEF TypeOK
  <2> QED BY <2>1, <2>2, Sequences DEF TypeOK
<1>2. Gathered'
  <2>1. SUFFICES ASSUME at' # "failed"
                 PROVE  \E a, b, c \in Nat : Held(a, b, c)'
    BY DEF Gathered
  <2>2. PICK a \in Nat, b \in Nat, c \in Nat : Held(a, b, c)
    BY <2>1 DEF Gathered
  <2>3. Held(a, b, c)'
    BY <2>2 DEF Held, Positions
  <2> QED BY <2>3
<1>3. Ends'
  BY DEF Ends, Positions
<1>4. Lines'
  <2>1. Short(Len(written))'
    BY ShortStays DEF Lines
  <2>2. at' # "failed" => Short(got)' /\ LineCount'
    BY ShortStays DEF Lines, LineCount, Kind
  <2> QED BY <2>1, <2>2 DEF Lines
<1> QED BY <1>1, <1>2, <1>3, <1>4 DEF StreamInv

LEMMA FeedStep == ASSUME StreamInv, Feed PROVE StreamInv'
<1> USE DEF Feed
<1>1. TypeOK /\ Ends /\ Gathered /\ FormFromInput
  BY DEF StreamInv
<1>2. at # "done"
  BY <1>1, Sequences DEF Gathered, Held, Ends
<1>3. ~ closed /\ fed' \in fed..Len(input)
  BY <1>1, Sequences DEF Ends
<1>4. FormFromInput'
  BY <1>1, FormStays
<1> QED BY <1>1, <1>2, <1>3, <1>4, Quiet DEF TypeOK

LEMMA CloseStep == ASSUME StreamInv, Close PROVE StreamInv'
<1> USE DEF Close
<1>1. TypeOK /\ Ends /\ Gathered /\ FormFromInput
  BY DEF StreamInv
<1>2. at # "done"
  BY <1>1 DEF Gathered, Held
<1>3. fed' \in fed..Len(input)
  BY <1>1, Sequences
<1>4. FormFromInput'
  BY <1>1, FormStays
<1> QED BY <1>1, <1>2, <1>3, <1>4, Quiet DEF TypeOK

LEMMA CancelStep == ASSUME StreamInv, Cancel PROVE StreamInv'
<1> USE DEF Cancel, producerVars
<1>1. TypeOK /\ Ends /\ FormFromInput
  BY DEF StreamInv
<1>2. fed' \in fed..Len(input)
  BY <1>1, Sequences
<1>3. FormFromInput'
  BY <1>1, FormStays
<1> QED BY <1>1, <1>2, <1>3, Quiet DEF TypeOK, Ends

LEMMA CheckCtxStep == ASSUME StreamInv, CheckCtx PROVE StreamInv'
<1> USE DEF CheckCtx, producerVars
<1>1. TypeOK /\ Ends /\ FormFromInput
  BY DEF StreamInv
<1>2. fed' \in fed..Len(input)
  BY <1>1, Sequences
<1>3. FormFromInput'
  BY <1>1, FormStays
<1> QED BY <1>1, <1>2, <1>3, Quiet DEF TypeOK, Ends

(* What is kept back at the end, when no form was chosen, is the input.    *)
LEMMA ProbeEOFStep == ASSUME StreamInv, ProbeEOF PROVE StreamInv'
<1> USE DEF ProbeEOF, producerVars
<1>1. TypeOK /\ Ends /\ Gathered /\ FormFromInput
  BY DEF StreamInv
<1>2. fed' \in fed..Len(input)
  BY <1>1, Sequences
<1>3. PICK a \in Nat, b \in Nat, c \in Nat : Held(a, b, c)
  BY <1>1 DEF Gathered
<1>4. pending = Positions(1, Len(input)) /\ Len(input) < Probe
  <2>1. ccarry = <<>> /\ out = <<>> /\ got = fed /\ fed = Len(input)
    BY <1>1 DEF AtEOF, Ends
  <2>2. c = got /\ b = c /\ a = 0 /\ b < Probe
    <3>1. Len(out) = c - b /\ Len(ccarry) = got - c
      BY <1>1, <1>3, HeldLengths, Sequences
    <3>2. got \in Nat /\ Len(<<>>) = 0
      BY <1>1, Sequences
    <3> QED BY <1>3, <2>1, <3>1, <3>2 DEF Held
  <2>3. pending = Positions(a + 1, b) /\ a + 1 = 1
    BY <1>3, <2>2 DEF Held
  <2> QED BY <2>1, <2>2, <2>3
<1>5. IsStrictASCIIPrefix(pending) <=> \A p \in 1..Len(input) : Kind(p) \in ASCII
  <2>1. Len(input) \in Nat
    BY <1>1, Sequences
  <2>2. Len(pending) = Len(input) /\ \A p \in 1..Len(input) : pending[p] = p
    BY <1>4, <2>1, FirstBlock
  <2> QED BY <2>2 DEF IsStrictASCIIPrefix, Kind
<1>6. FormFromInput'
  <2>1. form' = "ascii" <=> \A p \in 1..Len(input) : Kind(p) \in ASCII
    BY <1>5
  <2>2. ~ ASCIITokens
    BY <1>1 DEF Ends
  <2> QED BY <1>4, <2>1, <2>2 DEF FormFromInput, Kind
<1> QED BY <1>1, <1>2, <1>6, Quiet DEF TypeOK, Ends, chunkerVars

-----------------------------------------------------------------------------
(* Steps of the chunker.                                                   *)

LEMMA ReadFailsStep == ASSUME StreamInv, ReadFails PROVE StreamInv'
<1> USE DEF ReadFails, Reading, ReadUnchanged, producerVars
<1>1. TypeOK /\ Ends /\ Lines /\ FormFromInput
  BY DEF StreamInv
<1>2. TypeOK'
  <2>1. got' \in 0..fed /\ got <= got' /\ lineLen' \in Nat
    BY <1>1, Sequences
  <2>2. 1..got \subseteq 1..got' /\ 0..got \subseteq 0..got'
    BY <1>1, <2>1, Sequences
  <2>3. pending \in Seq(1..got') /\ written \in Seq(1..got') /\ <<>> \in Seq(1..got')
    BY <1>1, <2>2, SeqMonotonic DEF TypeOK
  <2> QED BY <1>1, <2>1, <2>2, <2>3 DEF TypeOK
<1>3. Gathered'
  BY DEF Gathered
<1>4. Ends'
  BY <1>1, Sequences DEF Ends, Positions
<1>5. Lines'
  BY <1>1, ShortStays DEF Lines
<1>6. FormFromInput'
  BY <1>1, FormStays
<1> QED BY <1>2, <1>3, <1>4, <1>5, <1>6 DEF StreamInv

LEMMA ReadCarryStep == ASSUME StreamInv, ReadCarry PROVE StreamInv'
<1> USE DEF ReadCarry, Reading, ReadUnchanged, producerVars
<1>1. TypeOK /\ Ends /\ Lines /\ FormFromInput /\ Gathered
  BY DEF StreamInv
<1>2. PICK a \in Nat, b \in Nat, c \in Nat : Held(a, b, c)
  BY <1>1 DEF Gathered
<1>3. got \in Nat
  BY <1>1, Sequences
<1>4. out' = Positions(b + 1, got) /\ ccarry' = Positions(got + 1, got)
  <2>1. out \o ccarry = Positions(b + 1, got)
    BY <1>2, <1>3, BlocksJoin DEF Held
  <2> QED BY <1>3, <2>1, NoBlock
<1>5. Held(a, b, got)'
  <2>1. got - b <= Chunk
    <3>1. Len(out) = c - b
      BY <1>2, <1>3, HeldLengths
    <3>2. got - c <= 3 /\ Target \in Nat /\ Chunk \in Nat /\ Target + 2 < Chunk
      BY <1>2, Sizes DEF Held
    <3>3. c - b < Target
      BY <3>1
    <3> QED BY <1>3, <3>2, <3>3
  <2> QED BY <1>2, <1>3, <1>4, <2>1 DEF Held, Positions
<1>6. TypeOK'
  <2>1. out' \in Seq(1..got) /\ ccarry' \in Seq(1..got)
    BY <1>2, <1>3, <1>4, BlockIn DEF Held
  <2> QED BY <1>1, <2>1 DEF TypeOK
<1>7. Gathered'
  BY <1>3, <1>5 DEF Gathered
<1>8. Ends'
  BY <1>1 DEF Ends, Positions
<1>9. Lines'
  BY <1>1, ShortStays DEF Lines, LineCount, Kind
<1>10. FormFromInput'
  BY <1>1, FormStays
<1> QED BY <1>6, <1>7, <1>8, <1>9, <1>10 DEF StreamInv

(* The slice ReadSlice returns, and the lines with it.                     *)
LEMMA SliceFacts ==
  ASSUME TypeOK, NEW p \in SliceEnds
  PROVE  /\ p \in Nat /\ got < p /\ p <= fed /\ p - got <= BufSize
         /\ \A q \in (got + 1)..(p - 1) : Kind(q) # "nl"
BY Sequences DEF SliceEnds

LEMMA LinesGrow ==
  ASSUME StreamInv, at = "read", NEW p \in SliceEnds, lineLen + p - got <= MaxLine
  PROVE  /\ Short(p)
         /\ LET n == IF Kind(p) = "nl" THEN 0 ELSE lineLen + p - got
            IN  /\ n <= p /\ n \in Nat /\ n <= MaxLine
                /\ p - n = 0 \/ Kind(p - n) = "nl"
                /\ \A r \in (p - n + 1)..p : Kind(r) # "nl"
<1>1. TypeOK /\ Short(got) /\ LineCount
  BY DEF StreamInv, Lines
<1>2. /\ p \in Nat /\ got < p /\ p <= fed
      /\ \A q \in (got + 1)..(p - 1) : Kind(q) # "nl"
  BY <1>1, SliceFacts
<1>3. got \in Nat /\ lineLen \in Nat /\ lineLen <= got /\ MaxLine \in Nat
  BY <1>1, Sequences, Sizes DEF LineCount
<1> DEFINE start == got - lineLen + 1
<1>4. start \in 1..(got + 1) /\ p - start < MaxLine
  BY <1>2, <1>3
<1>5. start = 1 \/ Kind(start - 1) = "nl"
  BY <1>1, <1>3 DEF LineCount
<1>6. \A r \in start..(p - 1) : Kind(r) # "nl"
  <2>1. TAKE r \in start..(p - 1)
  <2>2. r \in start..got \/ r \in (got + 1)..(p - 1)
    BY <1>2, <1>3, <2>1
  <2> QED BY <1>1, <1>2, <2>2 DEF LineCount
<1> HIDE DEF start
<1>7. Short(p)
  <2>1. SUFFICES ASSUME NEW x \in 1..p
                 PROVE  \E q \in 1..x : IsLineStart(q, x) /\ x - q < MaxLine
    BY DEF Short
  <2>2. CASE x <= got
    <3>1. x \in 1..got
      BY <1>3, <2>2
    <3> QED BY <1>1, <3>1 DEF Short
  <2>3. CASE x > got
    <3>1. start \in 1..x /\ x - start < MaxLine /\ \A r \in start..(x - 1) : r \in start..(p - 1)
      BY <1>2, <1>3, <1>4, <2>3
    <3>2. IsLineStart(start, x)
      BY <1>5, <1>6, <3>1 DEF IsLineStart
    <3> QED BY <3>1, <3>2
  <2> QED BY <1>2, <1>3, <2>2, <2>3
<1>8. CASE Kind(p) = "nl"
  <2>1. p - 0 = p /\ \A r \in (p - 0 + 1)..p : FALSE
    BY <1>2
  <2> QED BY <1>2, <1>3, <1>7, <1>8, <2>1
<1>9. CASE Kind(p) # "nl"
  <2> DEFINE n == lineLen + p - got
  <2>1. n \in Nat /\ n <= p /\ p - n = start - 1
    BY <1>2, <1>3 DEF start
  <2>2. \A r \in (p - n + 1)..p : Kind(r) # "nl"
    <3>1. TAKE r \in (p - n + 1)..p
    <3>2. r = p \/ r \in start..(p - 1)
      BY <1>2, <1>4, <2>1
    <3> QED BY <1>6, <1>9, <3>2
  <2>3. p - n = 0 \/ Kind(p - n) = "nl"
    BY <1>4, <1>5, <2>1
  <2> QED BY <1>7, <1>9, <2>1, <2>2, <2>3
<1> QED BY <1>8, <1>9

LEMMA ReadPartStep == ASSUME StreamInv, ReadPart PROVE StreamInv'
<1> USE DEF Reading, ReadUnchanged, producerVars
<1>1. TypeOK /\ Ends /\ Lines /\ FormFromInput /\ Gathered
  BY DEF StreamInv
<1>2. at = "read" /\ Len(out) < Target /\ ReadUnchanged
  BY DEF ReadPart
<1>3. PICK p \in SliceEnds : TakePart(p, lineLen + p - got)
  BY DEF ReadPart
<1>4. PICK a \in Nat, b \in Nat, c \in Nat : Held(a, b, c)
  BY <1>1, <1>2 DEF Gathered
<1>5. /\ got \in Nat /\ p \in Nat /\ got < p /\ p <= fed /\ p - got <= BufSize
      /\ lineLen \in Nat /\ c <= got /\ fed \in Nat
  BY <1>1, <1>4, Sequences, SliceFacts DEF Held
<1> DEFINE part == ccarry \o Positions(got + 1, p)
           full == Kind(p) # "nl" /\ p - got = BufSize
           keep == IF full THEN CutOff(part) ELSE 0
           length == lineLen + p - got
<1>6. part = Positions(c + 1, p) /\ Len(part) = p - c /\ Len(part) \in Nat
  <2> c <= p /\ got <= p
    BY <1>5
  <2>1. part = Positions(c + 1, got) \o Positions(got + 1, p)
    BY <1>4 DEF Held
  <2>2. part = Positions(c + 1, p)
    BY <1>5, <2>1, BlocksJoin
  <2> HIDE DEF part
  <2>3. Len(part) = p - c
    BY <1>5, <2>2, Block
  <2> QED BY <1>5, <2>2, <2>3
<1>7. keep \in 0..3 /\ (keep = 0 \/ keep < Len(part))
  <2> HIDE DEF part, full
  <2>1. CutOff(part) \in 0..3 /\ (CutOff(part) = 0 \/ CutOff(part) < Len(part))
    BY <1>6, CutOffBound
  <2>2. keep = CutOff(part) \/ keep = 0
    OBVIOUS
  <2> HIDE DEF keep
  <2> QED BY <2>1, <2>2
<1>8. /\ got' = p
      /\ lineLen' = IF Kind(p) = "nl" /\ length <= MaxLine THEN 0 ELSE length
      /\ length > MaxLine => at' = "failed" /\ out' = <<>> /\ ccarry' = ccarry
      /\ ~ (length > MaxLine) =>
           /\ out' = out \o SubSeq(part, 1, Len(part) - keep)
           /\ ccarry' = SubSeq(part, Len(part) - keep + 1, Len(part))
           /\ at' = at
  BY <1>3 DEF TakePart
<1> HIDE DEF part, full, keep
<1>9. /\ 1..got \subseteq 1..p /\ 0..got \subseteq 0..p /\ p \in 0..fed
      /\ length \in Nat /\ MaxLine \in Nat
  BY <1>5, Sizes
<1>10. {pending, written, ccarry} \subseteq Seq(1..p) /\ cuts \subseteq 0..p
  BY <1>1, <1>9, SeqMonotonic DEF TypeOK
<1>11. Ends'
  BY <1>1, <1>2, <1>5, <1>8 DEF Ends, Positions
<1>12. FormFromInput'
  BY <1>1, <1>2, FormStays
<1>13. CASE length > MaxLine
  <2>1. TypeOK'
    <3>1. out' \in Seq(1..p)
      BY <1>8, <1>13
    <3> QED BY <1>1, <1>2, <1>8, <1>9, <1>10, <1>13, <3>1 DEF TypeOK
  <2>2. Gathered' /\ Lines'
    BY <1>1, <1>2, <1>8, <1>13, ShortStays DEF Gathered, Lines
  <2> QED BY <1>11, <1>12, <2>1, <2>2 DEF StreamInv
<1>14. CASE length <= MaxLine
  <2>0. keep \in Nat /\ keep <= 3 /\ keep <= p - c
    BY <1>5, <1>6, <1>7
  <2>1. PICK d \in Nat : d = p - keep
    BY <1>5, <2>0
  <2>2. /\ c <= d /\ d <= p /\ p - d <= 3 /\ b <= c
        /\ out' = Positions(b + 1, d) /\ ccarry' = Positions(d + 1, p)
    <3>1. out' = out \o Positions(c + 1, d) /\ ccarry' = Positions(d + 1, p)
      <4>1. ~ (length > MaxLine)
        BY <1>9, <1>14
      <4>2. PICK m \in Int : m = Len(part) - keep
        BY <1>6, <1>7
      <4>3. PICK u \in Int : u = Len(part) - keep + 1
        BY <1>6, <1>7
      <4>4. PICK v \in Int : v = Len(part)
        BY <1>6
      <4> c <= d /\ d <= p /\ p \in Nat /\ Span(c, d, m) /\ Span(1, u, m) /\ Span(c, p, v)
        BY <1>5, <1>6, <2>0, <2>1, <4>2, <4>3, <4>4 DEF Span
      <4>5. /\ SubSeq(Positions(c + 1, p), 1, m) = Positions(c + 1, d)
            /\ SubSeq(Positions(c + 1, p), u, v) = Positions(d + 1, p)
        BY BlockSplits
      <4> QED BY <1>6, <1>8, <4>1, <4>2, <4>3, <4>4, <4>5
    <3>2. c <= d /\ d <= p /\ p - d <= 3
      BY <1>5, <2>0, <2>1
    <3>3. b <= c /\ out = Positions(b + 1, c)
      BY <1>4 DEF Held
    <3>4. out' = Positions(b + 1, d)
      BY <3>1, <3>2, <3>3, BlocksJoin
    <3> QED BY <3>1, <3>2, <3>3, <3>4
  <2>3. d - b <= Chunk
    <3>1. Len(out) = c - b /\ got - c <= 3
      BY <1>4, <1>5, HeldLengths DEF Held
    <3>2. p - got <= MaxLine
      BY <1>5, <1>14, <1>9
    <3>3. p - got <= IF BufSize < MaxLine THEN BufSize ELSE MaxLine
      BY <1>5, <3>2
    <3>4. /\ Target \in Nat /\ BufSize \in Nat /\ MaxLine \in Nat
      BY Sizes
    <3>5. c - b <= Target - 1
      BY <1>2, <3>1, <3>4
    <3> QED BY <1>5, <2>2, <3>1, <3>3, <3>4, <3>5 DEF Chunk
  <2>4. Held(a, b, d)'
    <3>1. at' = "read" /\ got' = p
      BY <1>2, <1>8, <1>9, <1>14
    <3> QED BY <1>2, <1>4, <1>5, <2>2, <2>3, <3>1 DEF Held, Positions
  <2>5. Gathered'
    BY <2>4 DEF Gathered
  <2>6. Lines'
    <3>1. /\ Short(p) /\ lineLen' <= p /\ lineLen' \in Nat /\ lineLen' <= MaxLine
          /\ p - lineLen' = 0 \/ Kind(p - lineLen') = "nl"
          /\ \A r \in (p - lineLen' + 1)..p : Kind(r) # "nl"
      BY <1>2, <1>8, <1>14, LinesGrow
    <3> QED BY <1>1, <1>2, <1>8, <3>1, ShortStays DEF Lines, LineCount, Kind
  <2>7. TypeOK'
    <3>1. lineLen' \in Nat /\ lineLen' <= MaxLine
      BY <1>2, <1>8, <1>9, <1>14
    <3>2. out' \in Seq(1..p) /\ ccarry' \in Seq(1..p)
      BY <1>5, <2>2, BlockIn
    <3> QED BY <1>1, <1>2, <1>8, <1>9, <1>10, <1>14, <3>1, <3>2 DEF TypeOK
  <2> QED BY <1>11, <1>12, <2>5, <2>6, <2>7 DEF StreamInv
<1> QED BY <1>9, <1>13, <1>14

-----------------------------------------------------------------------------
(* Steps of Process.                                                       *)

(* What is written stays a prefix of the input, whatever becomes of the    *)
(* segment that follows it.                                                *)
LEMMA Segment ==
  ASSUME TypeOK, Ends, NEW a \in Nat, NEW m \in Nat, a <= m, m <= got,
         Len(written) <= a, sink = "open" => Len(written) = a,
         NEW seg, seg = Positions(a + 1, m), NEW rest, NEW next,
         ProcessSegment(seg, rest, next)
  PROVE  /\ written' = Positions(1, Len(written')) /\ Len(written') \in 0..m
         /\ written' \in Seq(1..got) /\ cuts' \subseteq 0..got /\ sink' \in {"open", "closed"}
         /\ \/ at' = next /\ pending' = rest /\ (sink' = "open" => Len(written') = m)
            \/ at' = "failed" /\ pending' = pending
<1>1. /\ got \in Nat /\ written = Positions(1, Len(written)) /\ Len(written) \in 0..got
      /\ written \in Seq(1..got) /\ cuts \subseteq 0..got /\ sink \in {"open", "closed"}
  BY Sequences DEF Ends, TypeOK
<1>2. Len(written) \in 0..m
  BY <1>1
<1>3. CASE /\ sink = "open" /\ sink' = sink
           /\ written' = written \o seg /\ cuts' = cuts \union {Len(written)}
           /\ pending' = rest /\ at' = next
  <2>1. written' = Positions(1, m)
    BY <1>1, <1>3, FirstBlockJoins
  <2>2. Len(written') = m /\ written' \in Seq(1..m)
    BY <2>1, FirstBlock
  <2>3. written' \in Seq(1..got)
    <3>1. 1..m \subseteq 1..got
      BY <1>1
    <3> QED BY <2>2, <3>1, SeqMonotonic
  <2>4. written' = Positions(1, Len(written')) /\ Len(written') \in 0..m
    BY <2>1, <2>2
  <2>5. cuts' \subseteq 0..got
    BY <1>1, <1>3
  <2> QED BY <1>1, <1>3, <2>2, <2>3, <2>4, <2>5
<1>4. CASE written' = written /\ cuts' = cuts /\ sink' = "closed" /\ pending' = rest /\ at' = next
  BY <1>1, <1>2, <1>4
<1>5. CASE written' = written /\ cuts' = cuts /\ sink' = sink /\ pending' = pending /\ at' = "failed"
  BY <1>1, <1>2, <1>5
<1> QED BY <1>3, <1>4, <1>5 DEF ProcessSegment

LEMMA ShortDown ==
  ASSUME NEW n \in Nat, NEW k \in Nat, k <= n, Short(n)
  PROVE  Short(k)
BY DEF Short

(* The prefix is judged by the first Probe bytes of the input.             *)
LEMMA ProbeChunkStep == ASSUME StreamInv, ProbeChunk PROVE StreamInv'
<1> USE DEF ProbeChunk, producerVars
<1>1. TypeOK /\ Ends /\ Lines /\ FormFromInput /\ Gathered
  BY DEF StreamInv
<1>2. PICK a \in Nat, b \in Nat, c \in Nat : Held(a, b, c)
  BY <1>1 DEF Gathered, ChunkReady
<1>3. /\ got \in Nat /\ a = 0 /\ b < Probe /\ b <= c /\ c <= got /\ c - b <= Chunk /\ a + 1 = 1
      /\ a <= b /\ Probe \in Nat /\ Chunk \in Nat /\ a <= c
  BY <1>1, <1>2, Sequences, Sizes DEF Held
<1>4. pending \o out = Positions(a + 1, c)
  BY <1>2, <1>3, BlocksJoin DEF Held
<1> DEFINE all == pending \o out
<1>5. Len(all) = c
  <2>1. Len(all) = c - a
    BY <1>3, <1>4, Block
  <2> QED BY <1>3, <2>1
<1>6. /\ pending' = all /\ out' = <<>> /\ at' = "loop"
      /\ Len(all) < Probe => form' = form
      /\ ~ (Len(all) < Probe) => form' = IF IsStrictASCIIPrefix(SubSeq(all, 1, Probe)) THEN "ascii" ELSE "unicode"
  OBVIOUS
<1> HIDE DEF all
<1>7. Held(a, c, c)'
  <2>1. out' = Positions(c + 1, c)
    BY <1>6, NoBlock
  <2>2. form' = "?" => c < Probe
    BY <1>5, <1>6
  <2>3. pending' = Positions(a + 1, c)
    BY <1>4, <1>6 DEF all
  <2>4. c - a < Probe + Chunk /\ c - c <= Chunk
    BY <1>3
  <2> QED BY <1>2, <1>3, <1>6, <2>1, <2>2, <2>3, <2>4 DEF Held, Positions
<1>8. FormFromInput'
  <2>1. CASE c < Probe
    BY <1>1, <1>5, <1>6, <2>1, FormStays
  <2>2. CASE ~ (c < Probe)
    <3>1. SubSeq(all, 1, Probe) = Positions(1, Probe)
      <4>1. a <= c /\ a <= Probe /\ Probe <= c /\ Span(a, Probe, Probe)
        BY <1>3, <2>2 DEF Span
      <4>2. PICK u \in Int, v \in Int : Span(1, u, Probe) /\ Span(a, c, v)
        <5>1. Span(1, Probe + 1, Probe) /\ Span(a, c, c - a) /\ Probe + 1 \in Int /\ c - a \in Int
          BY <1>3 DEF Span
        <5> QED BY <5>1
      <4>3. SubSeq(Positions(a + 1, c), 1, Probe) = Positions(a + 1, Probe)
        BY <1>3, <4>1, <4>2, BlockSplits
      <4> QED BY <1>3, <1>4, <4>3 DEF all
    <3>2. Len(Positions(1, Probe)) = Probe /\ \A p \in 1..Probe : Positions(1, Probe)[p] = p
      BY <1>3, FirstBlock
    <3>3. IsStrictASCIIPrefix(SubSeq(all, 1, Probe)) <=> \A p \in 1..Probe : Kind(p) \in ASCII
      BY <3>1, <3>2 DEF IsStrictASCIIPrefix, Kind
    <3>4. form' = "ascii" <=> \A p \in 1..Probe : Kind(p) \in ASCII
      BY <1>5, <1>6, <2>2, <3>3
    <3>5. ~ (Len(input) < Probe) /\ ~ ASCIITokens
      BY <1>1, <1>3, <2>2, Sequences DEF Ends
    <3> QED BY <3>4, <3>5 DEF FormFromInput, Kind
  <2> QED BY <2>1, <2>2
<1>9. TypeOK'
  <2>1. pending' \in Seq(1..got) /\ out' \in Seq(1..got)
    <3>1. Positions(a + 1, c) \in Seq(1..got)
      BY <1>3, BlockIn
    <3>2. <<>> \in Seq(1..got)
      OBVIOUS
    <3> QED BY <1>4, <1>6, <3>1, <3>2 DEF all
  <2>2. form' \in {"?", "ascii", "unicode"}
    BY <1>1, <1>6 DEF TypeOK
  <2> QED BY <1>1, <1>6, <2>1, <2>2 DEF TypeOK, ChunkReady
<1>10. Gathered'
  BY <1>7 DEF Gathered
<1>11. Ends'
  BY <1>1, <1>6 DEF Ends, Positions
<1>12. Lines'
  BY <1>1, ShortStays DEF Lines, LineCount, Kind, ChunkReady
<1> QED BY <1>8, <1>9, <1>10, <1>11, <1>12 DEF StreamInv

(* Where the main loop cuts: a segment of n bytes, and the rest.           *)
LEMMA CutSplits ==
  ASSUME NEW a \in Nat, NEW c \in Nat, NEW x \in Nat, NEW n \in Nat,
         a <= x, x <= c, Span(a, x, n)
  PROVE  /\ SubSeq(Positions(a + 1, c), 1, n) = Positions(a + 1, x)
         /\ SubSeq(Positions(a + 1, c), n + 1, Len(Positions(a + 1, c))) = Positions(x + 1, c)
<1>1. PICK u \in Int : u = n + 1
  OBVIOUS
<1>2. PICK v \in Int : v = c - a
  OBVIOUS
<1>3. Span(1, u, n) /\ Span(a, c, v) /\ a <= c /\ n \in Int
  BY <1>1, <1>2 DEF Span
<1>4. /\ SubSeq(Positions(a + 1, c), 1, n) = Positions(a + 1, x)
      /\ SubSeq(Positions(a + 1, c), u, v) = Positions(x + 1, c)
  BY <1>3, BlockSplits
<1>5. Len(Positions(a + 1, c)) = v
  BY <1>2, <1>3, Block
<1> QED BY <1>1, <1>4, <1>5

LEMMA MainChunkStep == ASSUME StreamInv, MainChunk PROVE StreamInv'
<1> USE DEF producerVars
<1>1. TypeOK /\ Ends /\ Lines /\ FormFromInput /\ Gathered
  BY DEF StreamInv
<1>2. at = "read" /\ form # "?"
  BY DEF MainChunk, ChunkReady
<1>3. PICK a \in Nat, b \in Nat, c \in Nat : Held(a, b, c)
  BY <1>1, <1>2 DEF Gathered
<1>4. /\ got \in Nat /\ a <= b /\ b <= c /\ c <= got /\ a <= c /\ got - c <= 3
      /\ Len(written) <= a /\ (sink = "open" => Len(written) = a) /\ ccarry = Positions(c + 1, got)
      /\ Probe \in Nat /\ Chunk \in Nat /\ Carry \in Nat /\ 0 < Carry /\ Carry + 3 < Probe + Chunk
      /\ Carry < Probe
  <2>1. got \in Nat
    BY <1>1, Sequences
  <2>2. /\ Probe \in Nat /\ Chunk \in Nat /\ Carry \in Nat /\ 0 < Carry /\ Carry + 3 < Probe + Chunk
        /\ Carry < Probe
    BY Sizes
  <2> QED BY <1>3, <2>1, <2>2 DEF Held
<1> DEFINE all == pending \o out
           n == AlignUTF8Boundary(all, Len(all) - Carry)
<1>5. all = Positions(a + 1, c) /\ Len(all) = c - a
  <2>1. all = Positions(a + 1, c)
    BY <1>3, <1>4, BlocksJoin DEF Held
  <2> QED BY <1>4, <2>1, Block
<1>6. /\ out' = <<>>
      /\ Len(all) <= Carry => pending' = all /\ at' = "loop" /\ UNCHANGED <<written, cuts, sink>>
      /\ ~ (Len(all) <= Carry) => ProcessSegment(SubSeq(all, 1, n), SubSeq(all, n + 1, Len(all)), "loop")
      /\ UNCHANGED <<producerVars, got, lineLen, ccarry, form, cancelled>>
  BY DEF MainChunk, CutAt
<1> HIDE DEF all, n
<1>7. \/ /\ at' = "failed" /\ pending' = pending
         /\ written' = Positions(1, Len(written')) /\ Len(written') \in 0..got
         /\ written' \in Seq(1..got) /\ cuts' \subseteq 0..got /\ sink' \in {"open", "closed"}
      \/ /\ at' = "loop"
         /\ \E x \in Nat : /\ x <= c /\ c - x <= Carry + 3 /\ pending' = Positions(x + 1, c)
                            /\ Len(written') <= x /\ (sink' = "open" => Len(written') = x)
         /\ written' = Positions(1, Len(written')) /\ Len(written') \in 0..got
         /\ written' \in Seq(1..got) /\ cuts' \subseteq 0..got /\ sink' \in {"open", "closed"}
  <2>1. CASE Len(all) <= Carry
    <3>1. /\ written' = written /\ cuts' = cuts /\ sink' = sink /\ at' = "loop"
          /\ pending' = Positions(a + 1, c) /\ c - a <= Carry + 3
      BY <1>4, <1>5, <1>6, <2>1
    <3> QED BY <1>1, <1>4, <3>1 DEF Ends, TypeOK
  <2>2. CASE ~ (Len(all) <= Carry)
    <3>1. Len(all) \in Nat /\ Len(all) - Carry \in Nat /\ 0 < Len(all) - Carry /\ Len(all) - Carry < Len(all)
      BY <1>4, <1>5, <2>2
    <3>2. n \in 1..(Len(all) - Carry) /\ Len(all) - Carry - n <= 3
      BY <3>1, AlignBound DEF n
    <3>3. n \in Nat /\ a + n <= c
      BY <1>4, <1>5, <3>2
    <3>4. PICK x \in Nat : x = a + n
      BY <3>3
    <3>5. a <= x /\ x <= c /\ c - x <= Carry + 3 /\ x <= got /\ Span(a, x, n)
      BY <1>4, <1>5, <3>2, <3>3, <3>4 DEF Span
    <3>8. /\ SubSeq(all, 1, n) = Positions(a + 1, x)
          /\ SubSeq(all, n + 1, Len(all)) = Positions(x + 1, c)
      <4>1. /\ SubSeq(Positions(a + 1, c), 1, n) = Positions(a + 1, x)
            /\ SubSeq(Positions(a + 1, c), n + 1, Len(Positions(a + 1, c))) = Positions(x + 1, c)
        <5>1. a <= x /\ x <= c /\ Span(a, x, n) /\ n \in Nat
          BY <3>3, <3>5
        <5> QED BY <5>1, CutSplits
      <4> QED BY <1>5, <4>1
    <3>6. /\ written' = Positions(1, Len(written')) /\ Len(written') \in 0..x
          /\ written' \in Seq(1..got) /\ cuts' \subseteq 0..got /\ sink' \in {"open", "closed"}
          /\ \/ /\ at' = "loop" /\ pending' = SubSeq(all, n + 1, Len(all))
                /\ sink' = "open" => Len(written') = x
             \/ at' = "failed" /\ pending' = pending
      BY <1>1, <1>4, <1>6, <2>2, <3>5, <3>8, Segment
    <3>7. Len(written') \in 0..got /\ Len(written') <= x
      BY <1>4, <3>5, <3>6
    <3> QED BY <3>5, <3>6, <3>7, <3>8
  <2> QED BY <2>1, <2>2
<1>8. pending' \in Seq(1..got)
  <2>1. ASSUME NEW x \in Nat, x <= c
        PROVE  Positions(x + 1, c) \in Seq(1..got)
    BY <1>4, <2>1, BlockIn
  <2>2. pending \in Seq(1..got)
    BY <1>1 DEF TypeOK
  <2> QED BY <1>7, <2>1, <2>2
<1>9. TypeOK'
  <2>1. out' \in Seq(1..got)
    BY <1>6
  <2>2. lineLen <= MaxLine
    BY <1>1, <1>2 DEF TypeOK
  <2> QED BY <1>1, <1>6, <1>7, <1>8, <2>1, <2>2 DEF TypeOK
<1>10. Gathered'
  <2>1. SUFFICES ASSUME at' # "failed" PROVE \E x, y, z \in Nat : Held(x, y, z)'
    BY DEF Gathered
  <2>2. PICK x \in Nat : /\ x <= c /\ c - x <= Carry + 3 /\ pending' = Positions(x + 1, c)
                         /\ Len(written') <= x /\ (sink' = "open" => Len(written') = x)
    BY <1>7, <2>1
  <2>3. at' = "loop"
    BY <1>7, <2>1
  <2>4. out' = Positions(c + 1, c) /\ c - c <= Chunk /\ c - x < Probe + Chunk /\ c <= c
    BY <1>4, <1>6, <2>2, NoBlock
  <2>5. Held(x, c, c)'
    BY <1>2, <1>4, <1>6, <2>2, <2>3, <2>4 DEF Held, Positions
  <2> QED BY <2>5
<1>11. Ends'
  BY <1>1, <1>6, <1>7 DEF Ends, Positions
<1>12. Lines'
  <2>1. Short(got) /\ LineCount
    BY <1>1, <1>2 DEF Lines
  <2>2. Short(got)' /\ LineCount'
    BY <1>6, <2>1, ShortStays DEF LineCount, Kind
  <2>3. Short(Len(written'))
    <3>1. Len(written') \in Nat /\ Len(written') <= got
      BY <1>4, <1>7
    <3> QED BY <1>4, <2>1, <3>1, ShortDown
  <2>4. Short(Len(written))'
    BY <1>6, <2>3 DEF Short, IsLineStart, Kind
  <2> QED BY <2>2, <2>4 DEF Lines
<1>13. FormFromInput'
  BY <1>1, <1>6, FormStays
<1> QED BY <1>9, <1>10, <1>11, <1>12, <1>13 DEF StreamInv

LEMMA MainEOFStep == ASSUME StreamInv, MainEOF PROVE StreamInv'
<1> USE DEF producerVars, chunkerVars
<1>1. TypeOK /\ Ends /\ Lines /\ FormFromInput /\ Gathered
  BY DEF StreamInv
<1>2. /\ at = "read" /\ form # "?" /\ closed /\ got = fed /\ ccarry = <<>> /\ out = <<>>
      /\ UNCHANGED <<producerVars, chunkerVars, form, cancelled>>
  BY DEF MainEOF, AtEOF
<1>3. PICK a \in Nat, b \in Nat, c \in Nat : Held(a, b, c)
  BY <1>1, <1>2 DEF Gathered
<1>4. /\ got \in Nat /\ b = got /\ a <= got /\ pending = Positions(a + 1, got)
      /\ Len(pending) = got - a
      /\ Len(written) <= a /\ (sink = "open" => Len(written) = a)
  <2>1. got \in Nat
    BY <1>1, Sequences
  <2>2. Len(pending) = b - a /\ Len(out) = c - b /\ Len(ccarry) = got - c
    BY <1>3, <2>1, HeldLengths
  <2>3. Len(<<>>) = 0
    OBVIOUS
  <2> QED BY <1>2, <1>3, <2>1, <2>2, <2>3 DEF Held
<1>5. \/ /\ at' = "failed" /\ pending' = pending
         /\ written' = Positions(1, Len(written')) /\ Len(written') \in 0..got
         /\ written' \in Seq(1..got) /\ cuts' \subseteq 0..got /\ sink' \in {"open", "closed"}
      \/ /\ at' = "done" /\ pending' = <<>> /\ (sink' = "open" => Len(written') = got)
         /\ written' = Positions(1, Len(written')) /\ Len(written') \in 0..got
         /\ written' \in Seq(1..got) /\ cuts' \subseteq 0..got /\ sink' \in {"open", "closed"}
  <2>1. CASE pending # <<>>
    <3>1. ProcessSegment(pending, <<>>, "done")
      BY <2>1 DEF MainEOF
    <3> QED BY <1>1, <1>4, <3>1, Segment
  <2>2. CASE pending = <<>>
    <3>1. at' = "done" /\ written' = written /\ cuts' = cuts /\ pending' = pending /\ sink' = sink
      BY <2>2 DEF MainEOF
    <3>2. sink = "open" => Len(written) = got
      <4>1. Len(<<>>) = 0
        OBVIOUS
      <4> QED BY <1>4, <2>2, <4>1
    <3> QED BY <1>1, <2>2, <3>1, <3>2 DEF Ends, TypeOK
  <2> QED BY <2>1, <2>2
<1>6. TypeOK'
  <2>1. pending' \in Seq(1..got)
    <3>1. <<>> \in Seq(1..got) /\ pending \in Seq(1..got)
      BY <1>1 DEF TypeOK
    <3> QED BY <1>5, <3>1
  <2>2. lineLen <= MaxLine
    BY <1>1, <1>2 DEF TypeOK
  <2> QED BY <1>1, <1>2, <1>5, <2>1, <2>2 DEF TypeOK
<1>7. Gathered'
  <2>1. SUFFICES ASSUME at' # "failed" PROVE \E x, y, z \in Nat : Held(x, y, z)'
    BY DEF Gathered
  <2>2. /\ at' = "done" /\ pending' = <<>> /\ (sink' = "open" => Len(written') = got)
        /\ Len(written') <= got
    BY <1>4, <1>5, <2>1
  <2>3. Positions(got + 1, got) = <<>>
    BY <1>4, NoBlock
  <2>4. got - got <= 3 /\ got - got <= Chunk /\ got - got < Probe + Chunk /\ got <= got
    BY <1>4, Sizes
  <2>5. Held(got, got, got)'
    BY <1>2, <1>4, <2>2, <2>3, <2>4 DEF Held, Positions
  <2> QED BY <1>2, <1>4, <2>5
<1>8. Ends'
  BY <1>1, <1>2, <1>5 DEF Ends, Positions
<1>9. Lines'
  <2>1. Short(got) /\ LineCount
    BY <1>1, <1>2 DEF Lines
  <2>2. Short(got)' /\ LineCount'
    BY <1>2, <2>1, ShortStays DEF LineCount, Kind
  <2>3. Short(Len(written'))
    <3>1. Len(written') \in Nat /\ Len(written') <= got
      BY <1>4, <1>5
    <3> QED BY <1>4, <2>1, <3>1, ShortDown
  <2>4. Short(Len(written))'
    BY <1>2, <2>3 DEF Short, IsLineStart, Kind
  <2> QED BY <2>2, <2>4 DEF Lines
<1>10. FormFromInput'
  BY <1>1, <1>2, FormStays
<1> QED BY <1>6, <1>7, <1>8, <1>9, <1>10 DEF StreamInv

LEMMA StutterStep == ASSUME StreamInv, UNCHANGED vars PROVE StreamInv'
<1> USE DEF vars, producerVars, chunkerVars
<1>1. /\ TypeOK' /\ Ends' /\ FormFromInput'
  BY DEF StreamInv, TypeOK, Ends, FormFromInput, Positions, Kind
<1>2. Gathered'
  BY DEF StreamInv, Gathered, Held, Positions
<1>3. Lines'
  BY ShortStays DEF StreamInv, Lines, LineCount, Kind
<1> QED BY <1>1, <1>2, <1>3 DEF StreamInv

LEMMA StreamInductive == StreamInv /\ [Next]_vars => StreamInv'
<1>1. SUFFICES ASSUME StreamInv, [Next]_vars PROVE StreamInv'
  OBVIOUS
<1>2. CASE UNCHANGED vars
  BY <1>1, <1>2, StutterStep
<1>3. CASE Next
  <2>1. CASE EngineStep
    BY <1>1, <2>1, CheckCtxStep, ReadPartStep, ReadCarryStep, ProbeChunkStep, ProbeEOFStep,
       MainChunkStep, MainEOFStep DEF EngineStep
  <2> QED BY <1>1, <1>3, <2>1, FeedStep, CloseStep, CancelStep, ReadFailsStep DEF Next
<1> QED BY <1>1, <1>2, <1>3

LEMMA StreamInvHolds == Spec => []StreamInv
<1>1. Init => StreamInv
  BY TypeInit
<1> QED BY <1>1, StreamInductive, PTL DEF Spec

-----------------------------------------------------------------------------
(* The theorems.                                                           *)

(* The buffers of the chunker and of Process hold positions that were read *)
(* and a run goes on only while the line it reads is within --max-line.    *)
THEOREM StreamTyping == Spec => []TypeOK
BY StreamInvHolds, PTL DEF StreamInv

(* However the producer, the chunker and the loops of Process interleave,  *)
(* what is written is a prefix of the input, what follows it is in the     *)
(* buffers, and all is written when Process returns nil.                   *)
THEOREM StreamNothingLost == Spec => []NothingLost
<1>1. StreamInv => NothingLost
  <2>1. SUFFICES ASSUME StreamInv PROVE NothingLost
    OBVIOUS
  <2>2. TypeOK /\ Ends /\ Gathered
    BY <2>1 DEF StreamInv
  <2>3. got \in Nat /\ Len(written) \in Nat /\ written = Positions(1, Len(written)) /\ (closed => fed = Len(input))
    BY <2>2, Sequences DEF Ends
  <2>4. ASSUME at # "failed", sink = "open"
        PROVE  /\ written \o pending \o out \o ccarry = Positions(1, got)
               /\ at = "done" => Len(written) = Len(input)
    <3>1. PICK a \in Nat, b \in Nat, c \in Nat : Held(a, b, c)
      BY <2>2, <2>4 DEF Gathered
    <3>2. /\ a <= b /\ b <= c /\ c <= got /\ Len(written) = a
          /\ pending = Positions(a + 1, b) /\ out = Positions(b + 1, c) /\ ccarry = Positions(c + 1, got)
          /\ at = "done" => closed /\ a = got /\ got = fed
      BY <2>4, <3>1 DEF Held
    <3>3. Positions(1, a) \o Positions(a + 1, b) = Positions(1, b)
      BY <3>2, FirstBlockJoins
    <3>4. Positions(1, b) \o Positions(b + 1, c) = Positions(1, c)
      BY <3>2, FirstBlockJoins
    <3>5. Positions(1, c) \o Positions(c + 1, got) = Positions(1, got)
      BY <2>3, <3>2, FirstBlockJoins
    <3>6. written \o pending \o out \o ccarry = Positions(1, got)
      BY <2>3, <3>2, <3>3, <3>4, <3>5, Zenon
    <3> QED BY <2>3, <3>2, <3>6
  <2> QED BY <2>3, <2>4 DEF NothingLost
<1> QED BY <1>1, StreamInvHolds, PTL

(* The token form is a function of the options and of the first bytes of   *)
(* the input, at whatever pace and in whatever chunks they arrive.         *)
THEOREM StreamFormFromInput == Spec => []FormFromInput
BY StreamInvHolds, PTL DEF StreamInv

(* No byte beyond --max-line of its line is written, and what is held      *)
(* never exceeds two chunks and the bytes probed.                          *)
THEOREM StreamWithinLimits == Spec => []WithinLimits
<1>1. StreamInv => LineLimit
  <2>1. SUFFICES ASSUME StreamInv, NEW i \in 1..Len(written)
                 PROVE  written[i] - LineStart(written[i]) < MaxLine
    BY DEF LineLimit
  <2>2. /\ Len(written) \in Nat /\ written = Positions(1, Len(written)) /\ Short(Len(written))
    BY <2>1, Sequences DEF StreamInv, Ends, Lines
  <2>3. written[i] = i
    BY <2>2, FirstBlock
  <2>4. PICK q \in 1..i : IsLineStart(q, i) /\ i - q < MaxLine
    BY <2>2 DEF Short
  <2>5. LineStart(i) = q
    BY <2>2, <2>4, OneLineStart
  <2> QED BY <2>3, <2>4, <2>5
<1>2. StreamInv => BoundedBuffer
  <2>1. SUFFICES ASSUME StreamInv, sink = "open", at # "failed"
                 PROVE  got - Len(written) <= Probe + 2 * Chunk + 3
    BY Zenon DEF BoundedBuffer, Chunk
  <2>2. got \in Nat /\ Probe \in Nat /\ Chunk \in Nat
    BY <2>1, Sequences, Sizes DEF StreamInv
  <2>3. PICK a \in Nat, b \in Nat, c \in Nat : Held(a, b, c)
    BY <2>1 DEF StreamInv, Gathered
  <2>4. Len(written) = a /\ got - c <= 3 /\ c - b <= Chunk /\ b - a < Probe + Chunk
    BY <2>1, <2>3 DEF Held
  <2> QED BY <2>2, <2>4
<1>3. StreamInv => WithinLimits
  BY <1>1, <1>2 DEF WithinLimits
<1> QED BY <1>3, StreamInvHolds, PTL

-----------------------------------------------------------------------------
(* Cuts and runes.                                                         *)

(* Nothing more will be read: the last chunk has been taken.               *)
AtEnd == closed /\ got = Len(input) /\ out = <<>> /\ ccarry = <<>>

(* The segment that comes next begins where a rune does, or it is the last *)
(* one, of Carry bytes, after a segment that was shorter than a rune.      *)
NextSegment ==
    ValidUTF8 /\ sink = "open" /\ at \notin {"failed", "done"} /\ Len(written) < Len(input) =>
        \/ RuneStart(Len(written) + 1)
        \/ Len(written) = Len(input) - Carry /\ ShortSegmentBefore(Len(written)) /\ AtEnd

CutInv == RunesWhole /\ NextSegment

(* A cut that finds no rune to step back to lies in the rune with which    *)
(* the buffer begins.                                                      *)
IsCut(a, c, cut, all, n) ==
    /\ cut \in Nat /\ 0 < cut /\ cut = c - a - Carry
    /\ all = Positions(a + 1, c)
    /\ n = AlignUTF8Boundary(all, cut)

LEMMA CutAtRune ==
  ASSUME ValidUTF8, NEW a \in Nat, NEW c \in Nat, a <= c, c <= Len(input), Len(input) \in Nat,
         RuneStart(a + 1),
         NEW cut, NEW all, NEW n, IsCut(a, c, cut, all, n)
  PROVE  RuneStart(a + n + 1) \/ (n = cut /\ cut <= 2 /\ n < RuneLen(a + 1))
<1>1. /\ cut \in Nat /\ 0 < cut /\ cut = c - a - Carry
      /\ Carry \in Nat /\ 1 < Carry
  BY Sizes DEF IsCut
<1>2. Len(all) = c - a /\ \A k \in 1..(c - a) : all[k] \in 1..c /\ all[k] = a + k
  <2>1. all = Positions(a + 1, c)
    BY DEF IsCut
  <2>2. \A k \in 1..(c - a) : a + k \in 1..c
    OBVIOUS
  <2> QED BY <2>1, <2>2, Block
<1>3. Len(all) \in Nat /\ cut < Len(all)
  BY <1>1, <1>2
<1>4. \/ Starts(all, cut) = {} /\ n = cut
      \/ \E k \in Starts(all, cut) : n = cut - k
  BY <1>1, <1>3, AlignIs DEF IsCut
<1> HIDE DEF Starts
<1>5. ASSUME NEW k \in Starts(all, cut), n = cut - k
      PROVE  RuneStart(a + n + 1)
  <2>1. k \in 0..3 /\ cut - k > 0 /\ RuneStart(all[cut - k + 1])
    BY DEF Starts
  <2>2. cut - k + 1 \in 1..(c - a) /\ a + (cut - k + 1) = a + n + 1
    BY <1>1, <1>5, <2>1
  <2>3. all[cut - k + 1] = a + n + 1
    BY <1>2, <2>2
  <2> QED BY <2>1, <2>3
<1>6. ASSUME Starts(all, cut) = {}, n = cut, ~ RuneStart(a + n + 1)
      PROVE  n = cut /\ cut <= 2 /\ n < RuneLen(a + 1)
  <2>1. PICK x \in Nat : x = a + cut + 1
    BY <1>1
  <2>2. x \in 1..Len(input) /\ ~ RuneStart(x)
    BY <1>1, <1>6, <2>1
  <2>3. PICK k \in 1..2 : x - k > 0 /\ RuneStart(x - k) /\ k < RuneLen(x - k)
    BY <2>2 DEF ValidUTF8
  <2>4. cut - k <= 0
    <3>1. SUFFICES ASSUME cut - k > 0 PROVE k \in Starts(all, cut)
      BY <1>1, <1>6
    <3>2. cut - k + 1 \in 1..(c - a) /\ a + (cut - k + 1) = x - k
      BY <1>1, <2>1, <3>1
    <3>3. all[cut - k + 1] = x - k
      BY <1>2, <3>2
    <3>4. FullRune(SubSeq(all, cut - k + 1, Len(all)))
      <4>1. PICK u \in Int : u = cut - k + 1
        BY <1>1
      <4>2. PICK v \in Int : v = Len(all)
        BY <1>3
      <4>3. \A i \in u..v : all[i] \in 1..c
        <5>1. \A i \in u..v : i \in 1..(c - a)
          BY <1>2, <3>2, <4>1, <4>2
        <5> QED BY <1>2, <5>1
      <4>4. /\ Len(SubSeq(all, u, v)) = IF u <= v THEN v - u + 1 ELSE 0
            /\ \A i \in 1..(v - u + 1) : SubSeq(all, u, v)[i] = all[u + i - 1]
        BY <4>3, SubSeqProperties
      <4>5. v - u + 1 = Carry + k /\ u <= v
        BY <1>1, <1>2, <4>1, <4>2
      <4>6. Len(SubSeq(all, u, v)) >= 3
        BY <1>1, <4>4, <4>5
      <4>7. RuneLen(SubSeq(all, u, v)[1]) \in 1..3
        BY DEF RuneLen
      <4>8. FullRune(SubSeq(all, u, v))
        BY <1>1, <4>4, <4>5, <4>6, <4>7 DEF FullRune
      <4> QED BY <4>1, <4>2, <4>8
    <3>5. k \in 0..3 /\ cut - k > 0 /\ RuneStart(all[cut - k + 1])
      BY <2>3, <3>1, <3>3
    <3> QED BY <3>4, <3>5 DEF Starts
  <2>5. cut = k
    <3>1. SUFFICES ASSUME cut < k PROVE FALSE
      BY <1>1, <2>4
    <3>2. PICK p \in Nat : p = x - k
      BY <2>3, <2>1
    <3>3. RuneLen(p) \in 1..3 /\ RuneStart(p) /\ k < RuneLen(p) /\ p \in 1..Len(input)
      <4>1. RuneLen(p) \in 1..3
        BY DEF RuneLen
      <4>2. p \in 1..Len(input)
        BY <2>2, <2>3, <3>2
      <4> QED BY <2>3, <3>2, <4>1, <4>2
    <3>4. k - cut \in 1..(RuneLen(p) - 1) /\ p + (k - cut) = a + 1
      BY <1>1, <2>1, <3>1, <3>2, <3>3
    <3>5. ~ RuneStart(p + (k - cut))
      BY <3>3, <3>4 DEF ValidUTF8
    <3> QED BY <3>4, <3>5
  <2>6. x - k = a + 1
    BY <1>1, <2>1, <2>5
  <2> QED BY <1>6, <2>3, <2>5, <2>6
<1> QED BY <1>4, <1>5, <1>6

LEMMA RunesStay ==
  ASSUME UNCHANGED <<input, written, cuts>>, RunesWhole
  PROVE  RunesWhole'
BY DEF RunesWhole, ShortSegmentBefore, ValidUTF8, RuneStart, RuneLen, Kind

(* A segment that is written begins where the next one had to.             *)
LEMMA RunesGrow ==
  ASSUME StreamInv, CutInv, at \notin {"failed", "done"}, input' = input,
         \/ cuts' = cuts
         \/ sink = "open" /\ cuts' = cuts \union {Len(written)} /\ Len(written) < Len(input)
  PROVE  RunesWhole'
<1>1. SUFFICES ASSUME ValidUTF8, NEW n \in cuts'
               PROVE  RuneStart(n + 1) \/ (n = Len(input) - Carry /\ ShortSegmentBefore(n)')
  BY DEF RunesWhole, ValidUTF8, RuneStart, RuneLen, Kind
<1>2. ASSUME ShortSegmentBefore(n) PROVE ShortSegmentBefore(n)'
  BY <1>2 DEF ShortSegmentBefore, RuneStart, RuneLen, Kind
<1>3. CASE n \in cuts
  BY <1>1, <1>2, <1>3 DEF CutInv, RunesWhole
<1>4. CASE n \notin cuts
  <2>1. n = Len(written) /\ sink = "open" /\ Len(written) < Len(input)
    BY <1>4
  <2>2. \/ RuneStart(n + 1)
        \/ n = Len(input) - Carry /\ ShortSegmentBefore(n)
    BY <1>1, <2>1 DEF CutInv, NextSegment
  <2> QED BY <1>2, <2>2
<1> QED BY <1>3, <1>4

(* Steps that write nothing: at the end of the input they read nothing.    *)
LEMMA NextStays ==
  ASSUME CutInv, UNCHANGED <<input, written, cuts, sink>>,
         at \in {"failed", "done"} => at' \in {"failed", "done"},
         AtEnd /\ at \notin {"failed", "done"} => AtEnd' \/ at' = "failed"
  PROVE  CutInv'
<1>1. RunesWhole'
  BY RunesStay DEF CutInv
<1>2. NextSegment'
  BY DEF CutInv, NextSegment, ShortSegmentBefore, ValidUTF8, RuneStart, RuneLen, Kind
<1> QED BY <1>1, <1>2 DEF CutInv

LEMMA CutFrame ==
  ASSUME StreamInv, CutInv,
         Feed \/ Close \/ Cancel \/ ReadFails \/ CheckCtx \/ ReadPart \/ ReadCarry \/ ProbeChunk \/ ProbeEOF
  PROVE  CutInv'
<1> USE DEF producerVars, chunkerVars, AtEnd
<1>1. TypeOK /\ Ends /\ Gathered
  BY DEF StreamInv
<1>2. got \in Nat /\ fed \in Nat /\ got <= fed /\ fed <= Len(input) /\ Len(input) \in Nat /\ (closed => fed = Len(input))
  BY <1>1, Sequences DEF Ends
<1>3. CASE Feed
  BY <1>2, <1>3, NextStays DEF Feed
<1>4. CASE Close
  BY <1>4, NextStays DEF Close
<1>5. CASE Cancel
  BY <1>5, NextStays DEF Cancel
<1>6. CASE ReadFails
  BY <1>6, NextStays DEF ReadFails, ReadUnchanged
<1>7. CASE CheckCtx
  BY <1>7, NextStays DEF CheckCtx
<1>8. CASE ReadPart
  <2>1. PICK p \in SliceEnds : TRUE
    BY <1>8 DEF ReadPart
  <2>2. ~ AtEnd
    BY <1>1, <1>2, <2>1, SliceFacts
  <2>3. at = "read" /\ UNCHANGED <<input, written, cuts, sink>>
    BY <1>8 DEF ReadPart, ReadUnchanged, Reading
  <2> QED BY <2>2, <2>3, NextStays
<1>9. CASE ReadCarry
  BY <1>9, NextStays DEF ReadCarry, ReadUnchanged, Reading
<1>10. CASE ProbeChunk
  <2>1. ~ AtEnd
    BY <1>10, Sizes DEF ProbeChunk, ChunkReady
  <2> QED BY <1>10, <2>1, NextStays DEF ProbeChunk, ChunkReady
<1>11. CASE ProbeEOF
  BY <1>11, NextStays DEF ProbeEOF
<1> QED BY <1>3, <1>4, <1>5, <1>6, <1>7, <1>8, <1>9, <1>10, <1>11

LEMMA CutMainEOF == ASSUME StreamInv, CutInv, MainEOF PROVE CutInv'
<1> USE DEF producerVars, chunkerVars
<1>1. TypeOK /\ Gathered
  BY DEF StreamInv
<1>2. at = "read" /\ input' = input /\ at' \in {"done", "failed"}
  BY DEF MainEOF, ProcessSegment
<1>3. cuts' = cuts \/ (sink = "open" /\ cuts' = cuts \union {Len(written)} /\ Len(written) < Len(input))
  <2>1. SUFFICES ASSUME sink = "open", pending # <<>> PROVE Len(written) < Len(input)
    BY DEF MainEOF, ProcessSegment
  <2>2. PICK a \in Nat, b \in Nat, c \in Nat : Held(a, b, c)
    BY <1>1, <1>2 DEF Gathered
  <2>3. got \in Nat /\ got <= Len(input) /\ Len(input) \in Nat
    BY <1>1, Sequences
  <2>4. a # b
    <3>1. pending = Positions(a + 1, b)
      BY <2>2 DEF Held
    <3> QED BY <2>1, <3>1, NoBlock
  <2> QED BY <2>1, <2>2, <2>3, <2>4 DEF Held
<1>4. RunesWhole'
  BY <1>2, <1>3, RunesGrow
<1> QED BY <1>2, <1>4 DEF CutInv, NextSegment

LEMMA CutMainChunk == ASSUME StreamInv, CutInv, MainChunk PROVE CutInv'
<1> USE DEF producerVars
<1>1. TypeOK /\ Ends /\ Gathered
  BY DEF StreamInv
<1>2. /\ at = "read" /\ input' = input /\ out' = <<>> /\ ccarry' = ccarry /\ got' = got /\ closed' = closed
      /\ Len(out) >= Target \/ (AtEOF /\ out # <<>>)
  BY DEF MainChunk, ChunkReady, CutAt
<1>3. PICK a \in Nat, b \in Nat, c \in Nat : Held(a, b, c)
  BY <1>1, <1>2 DEF Gathered
<1>4. /\ got \in Nat /\ a <= b /\ b <= c /\ c <= got /\ a <= c /\ got <= Len(input) /\ Len(input) \in Nat
      /\ (sink = "open" => Len(written) = a) /\ Len(out) = c - b /\ Len(ccarry) = got - c
      /\ (closed => fed = Len(input))
  <2>1. got \in Nat /\ got <= Len(input) /\ Len(input) \in Nat
    BY <1>1, Sequences
  <2>2. Len(out) = c - b /\ Len(ccarry) = got - c
    BY <1>3, <2>1, HeldLengths
  <2>3. closed => fed = Len(input)
    BY <1>1 DEF Ends
  <2> QED BY <1>3, <2>1, <2>2, <2>3 DEF Held
<1> DEFINE all == pending \o out
           cut == Len(all) - Carry
           n == AlignUTF8Boundary(all, cut)
<1>5. all = Positions(a + 1, c) /\ Len(all) = c - a
  <2>1. all = Positions(a + 1, c)
    BY <1>3, <1>4, BlocksJoin DEF Held
  <2> QED BY <1>4, <2>1, Block
<1>6. \/ UNCHANGED <<written, cuts, sink>> /\ at' = "loop"
      \/ at' = "failed" /\ cuts' = cuts
      \/ sink' = "closed" /\ cuts' = cuts
      \/ /\ sink = "open" /\ ~ (Len(all) <= Carry)
         /\ written' = written \o SubSeq(all, 1, n) /\ cuts' = cuts \union {Len(written)}
  BY DEF MainChunk, CutAt, ProcessSegment
<1>7. ~ AtEnd
  BY <1>2, Sizes DEF AtEnd
<1> HIDE DEF all, cut, n
<1>8. CASE UNCHANGED <<written, cuts, sink>> /\ at' = "loop"
  BY <1>2, <1>7, <1>8, NextStays
<1>9. CASE (at' = "failed" \/ sink' = "closed") /\ cuts' = cuts
  <2>1. RunesWhole'
    BY <1>2, <1>9, RunesGrow
  <2> QED BY <1>9, <2>1 DEF CutInv, NextSegment
<1>10. CASE /\ sink = "open" /\ ~ (Len(all) <= Carry)
            /\ written' = written \o SubSeq(all, 1, n) /\ cuts' = cuts \union {Len(written)}
  <2>1. /\ Carry \in Nat /\ 1 < Carry /\ Target \in Nat /\ Carry + 2 < Target
    BY Sizes
  <2>2. cut \in Nat /\ 0 < cut /\ cut = c - a - Carry /\ cut < Len(all) /\ Len(all) \in Nat
    BY <1>4, <1>5, <1>10, <2>1 DEF cut
  <2>3. Len(written) = a /\ a < Len(input) /\ a < c
    BY <1>4, <1>10, <2>1, <2>2
  <2>4. RunesWhole'
    BY <1>2, <1>10, <2>3, RunesGrow
  <2>5. n \in 1..cut
    BY <2>2, AlignBound DEF n
  <2>6. PICK x \in Nat : x = a + n
    BY <2>5
  <2>7. a <= x /\ x < c /\ x <= c /\ Span(a, x, n) /\ n \in Nat
    BY <1>4, <2>1, <2>2, <2>5, <2>6 DEF Span
  <2>8. Len(written') = x
    <3>1. SubSeq(all, 1, n) = Positions(a + 1, x)
      <4>1. SubSeq(Positions(a + 1, c), 1, n) = Positions(a + 1, x)
        BY <2>7, CutSplits
      <4> QED BY <1>5, <4>1
    <3>2. written = Positions(1, a)
      BY <1>1, <2>3 DEF Ends
    <3>3. written' = Positions(1, x)
      BY <1>10, <2>7, <3>1, <3>2, FirstBlockJoins
    <3> QED BY <3>3, FirstBlock
  <2>9. ASSUME ValidUTF8
        PROVE  RuneStart(x + 1) \/ (n = cut /\ cut <= 2 /\ n < RuneLen(a + 1) /\ RuneStart(a + 1))
    <3>1. RuneStart(a + 1)
      BY <1>2, <1>7, <1>10, <2>3, <2>9 DEF CutInv, NextSegment
    <3>2. IsCut(a, c, cut, all, n)
      BY <1>5, <2>2 DEF IsCut, n
    <3>3. c <= Len(input)
      BY <1>4
    <3>4. RuneStart(a + n + 1) \/ (n = cut /\ cut <= 2 /\ n < RuneLen(a + 1))
      BY <1>4, <2>9, <3>1, <3>2, <3>3, CutAtRune
    <3> QED BY <2>6, <3>1, <3>4
  <2>10. ASSUME n = cut, cut <= 2, n < RuneLen(a + 1), RuneStart(a + 1)
         PROVE  x = Len(input) - Carry /\ ShortSegmentBefore(x)' /\ AtEnd'
    <3>1. ~ (Len(out) >= Target)
      BY <1>4, <2>1, <2>2, <2>10
    <3>2. closed /\ got = fed /\ ccarry = <<>>
      BY <1>2, <3>1 DEF AtEOF
    <3>3. got = Len(input) /\ c = got
      <4>1. Len(<<>>) = 0
        OBVIOUS
      <4> QED BY <1>4, <3>2, <4>1
    <3>4. x = Len(input) - Carry
      BY <1>4, <2>1, <2>2, <2>6, <2>10, <3>3
    <3>5. a \in cuts' /\ a < x /\ x < a + RuneLen(a + 1)
      <4>1. RuneLen(a + 1) \in Nat
        BY DEF RuneLen
      <4> QED BY <1>10, <2>3, <2>5, <2>6, <2>10, <4>1
    <3>6. ShortSegmentBefore(x)'
      BY <1>2, <2>10, <3>5 DEF ShortSegmentBefore, RuneStart, RuneLen, Kind
    <3>7. AtEnd'
      BY <1>2, <3>2, <3>3 DEF AtEnd
    <3> QED BY <3>4, <3>6, <3>7
  <2>11. NextSegment'
    <3>1. SUFFICES ASSUME ValidUTF8
                   PROVE  \/ RuneStart(x + 1)
                          \/ x = Len(input) - Carry /\ ShortSegmentBefore(x)' /\ AtEnd'
      BY <1>2, <2>8 DEF NextSegment, ShortSegmentBefore, ValidUTF8, RuneStart, RuneLen, Kind
    <3> QED BY <2>9, <2>10, <3>1
  <2> QED BY <2>4, <2>11 DEF CutInv
<1> QED BY <1>6, <1>8, <1>9, <1>10

LEMMA CutInit == ASSUME Init PROVE CutInv
<1>1. RunesWhole
  BY DEF Init, RunesWhole
<1>2. NextSegment
  <2>1. SUFFICES ASSUME ValidUTF8, 0 < Len(input) PROVE RuneStart(1)
    BY DEF Init, NextSegment
  <2>2. Len(input) \in Nat /\ 1 \in 1..Len(input)
    <3>1. input \in Seq(Kinds)
      BY EngineAssumption DEF Init
    <3> QED BY <2>1, <3>1
  <2>3. \A k \in 1..2 : ~ (1 - k > 0)
    OBVIOUS
  <2> QED BY <2>1, <2>2, <2>3 DEF ValidUTF8
<1> QED BY <1>1, <1>2 DEF CutInv

LEMMA CutInductive == StreamInv /\ CutInv /\ [Next]_vars => CutInv'
<1>1. SUFFICES ASSUME StreamInv, CutInv, [Next]_vars PROVE CutInv'
  OBVIOUS
<1>2. CASE UNCHANGED vars
  BY <1>1, <1>2, NextStays DEF vars, producerVars, chunkerVars, AtEnd
<1>3. CASE Next
  BY <1>1, <1>3, CutFrame, CutMainChunk, CutMainEOF DEF Next, EngineStep
<1> QED BY <1>1, <1>2, <1>3

(* In valid UTF-8 a segment begins in the middle of a rune in one case     *)
(* only: it is the last, of Carry bytes, and the segment before it is      *)
(* shorter than the rune with which that one begins.                       *)
THEOREM StreamRunesWhole == Spec => []RunesWhole
<1>1. Init => CutInv
  BY CutInit
<1>2. CutInv => RunesWhole
  BY DEF CutInv
<1> QED BY <1>1, <1>2, CutInductive, StreamInvHolds, PTL DEF Spec

-----------------------------------------------------------------------------
(* The end.                                                                *)

(* What is left to do, weighed so that each step of the engine takes more  *)
(* away than it adds: a byte to read, a rune to finish, a chunk to take,   *)
(* the token form to choose, a turn of the loop, the return.               *)
Unread == Len(input) - got
RuneLeft == IF ccarry = <<>> THEN 0 ELSE 4
ChunkLeft == IF out = <<>> THEN 0 ELSE 2
FormLeft == IF form = "?" THEN 2 ELSE 0
TurnLeft == IF at = "loop" THEN 1 ELSE 0
ReturnLeft == IF at \in {"loop", "read"} THEN 1 ELSE 0

Work == 8 * Unread + RuneLeft + ChunkLeft + FormLeft + TurnLeft + ReturnLeft

(* The guards of the engine's steps: the loop looks at ctx; Next has a     *)
(* slice to take, or the end of the input; a chunk or the end is handed on.*)
EngineCanStep ==
    \/ at = "loop"
    \/ Reading /\ SliceEnds # {}
    \/ Reading /\ closed /\ got = fed /\ ccarry # <<>>
    \/ ChunkReady
    \/ at = "read" /\ AtEOF /\ out = <<>>

(* A stream that its producer has closed never waits.                      *)
NeverStuck == closed /\ at \in {"loop", "read"} => EngineCanStep

(* Each step of the engine brings the end nearer, and no other moves it    *)
(* away: an input of n bytes is done or refused after 8 * n + 4 at most.   *)
Advances ==
    [][/\ Work \in 0..(8 * Len(input) + 4)
       /\ Work' <= Work
       /\ EngineStep => Work' < Work]_vars

LEMMA LeastPosition ==
  ASSUME NEW T, T \subseteq Nat, T # {}
  PROVE  \E x \in T : \A y \in T : x <= y
<1> DEFINE R == {ss \in Nat \X Nat : ss[1] < ss[2]}
<1>1. IsWellFoundedOn(R, Nat)
  BY NatLessThanWellFounded DEF OpToRel
<1>2. \E x \in T : \A y \in T : ~ (<<y, x>> \in R)
  <2> HIDE DEF R
  <2> QED BY <1>1, WFMin
<1>3. \A x, y \in T : ~ (<<y, x>> \in R) => x <= y
  OBVIOUS
<1> QED BY <1>2, <1>3

(* While there is input, ReadSlice has something to return: it stops at    *)
(* the first newline, at the end of its buffer or at the end of the input. *)
LEMMA SliceThere ==
  ASSUME TypeOK, closed, got < fed
  PROVE  SliceEnds # {}
<1> DEFINE T == {p \in (got + 1)..fed : Kind(p) = "nl" \/ p - got = BufSize \/ p = fed}
<1>1. got \in Nat /\ fed \in Nat /\ BufSize \in Nat \ {0}
  BY Sequences, Sizes
<1>2. T \subseteq Nat /\ fed \in T
  BY <1>1
<1>3. PICK p \in T : \A q \in T : p <= q
  <2> HIDE DEF T
  <2> QED BY <1>2, LeastPosition
<1>4. \A q \in (got + 1)..(p - 1) : Kind(q) # "nl"
  BY <1>1, <1>3
<1>5. p - got <= BufSize
  <2>1. CASE p - got > BufSize
    <3>1. got + BufSize \in (got + 1)..fed /\ (got + BufSize) - got = BufSize
      BY <1>1, <2>1
    <3>2. got + BufSize \in T
      BY <3>1
    <3> QED BY <1>1, <1>3, <2>1, <3>2
  <2> QED BY <1>1, <2>1
<1>6. p \in SliceEnds
  BY <1>3, <1>4, <1>5 DEF SliceEnds
<1> QED BY <1>6

(* A closed stream never waits: whatever the chunker holds back, the       *)
(* engine can take its next step.                                          *)
THEOREM StreamNeverStuck == Spec => []NeverStuck
<1>1. TypeOK => NeverStuck
  <2> SUFFICES ASSUME TypeOK, closed, at = "read" PROVE EngineCanStep
    BY DEF NeverStuck, EngineCanStep
  <2>1. got \in Nat /\ fed \in Nat /\ got <= fed /\ Len(out) \in Nat /\ Target \in Nat
    BY Sequences, Sizes
  <2>2. CASE Len(out) >= Target
    BY <2>2 DEF EngineCanStep, ChunkReady
  <2>3. CASE Len(out) < Target /\ got < fed
    BY <2>3, SliceThere DEF EngineCanStep, Reading
  <2>4. CASE Len(out) < Target /\ got = fed
    BY <2>4 DEF EngineCanStep, Reading, ChunkReady, AtEOF
  <2> QED BY <2>1, <2>2, <2>3, <2>4
<1> QED BY <1>1, StreamTyping, PTL

LEMMA PartsOfWork ==
  ASSUME TypeOK
  PROVE  /\ Unread \in Nat /\ RuneLeft \in {0, 4} /\ ChunkLeft \in {0, 2}
         /\ FormLeft \in {0, 2} /\ TurnLeft \in {0, 1} /\ ReturnLeft \in {0, 1}
<1>1. Unread \in Nat
  BY Sequences DEF Unread
<1>2. RuneLeft \in {0, 4} /\ ChunkLeft \in {0, 2}
  BY DEF RuneLeft, ChunkLeft
<1>3. FormLeft \in {0, 2} /\ TurnLeft \in {0, 1} /\ ReturnLeft \in {0, 1}
  BY DEF FormLeft, TurnLeft, ReturnLeft
<1> QED BY <1>1, <1>2, <1>3

LEMMA PartsOfWorkNext ==
  ASSUME TypeOK'
  PROVE  /\ Unread' \in Nat /\ RuneLeft' \in {0, 4} /\ ChunkLeft' \in {0, 2}
         /\ FormLeft' \in {0, 2} /\ TurnLeft' \in {0, 1} /\ ReturnLeft' \in {0, 1}
<1>1. Unread' \in Nat
  BY DEF Unread, TypeOK
<1>2. RuneLeft' \in {0, 4} /\ ChunkLeft' \in {0, 2}
  BY DEF RuneLeft, ChunkLeft
<1>3. FormLeft' \in {0, 2} /\ TurnLeft' \in {0, 1} /\ ReturnLeft' \in {0, 1}
  BY DEF FormLeft, TurnLeft, ReturnLeft
<1> QED BY <1>1, <1>2, <1>3

(* A slice is at least a byte: it pays for what it makes the chunker hold. *)
LEMMA ReadAdvances ==
  ASSUME TypeOK, TypeOK', ReadPart
  PROVE  Work' < Work
<1>1. PICK p \in SliceEnds : TakePart(p, lineLen + p - got)
  BY DEF ReadPart
<1>2. got' > got /\ input' = input /\ form' = form
  BY <1>1, Sequences DEF ReadPart, ReadUnchanged, producerVars, TakePart, SliceEnds
<1>3. at = "read" /\ at' \in {"read", "failed"}
  BY <1>1 DEF ReadPart, Reading, TakePart
<1>4. Unread' <= Unread - 1
  BY <1>2, Sequences DEF Unread, TypeOK
<1>5. FormLeft' = FormLeft /\ TurnLeft' = 0 /\ ReturnLeft' <= ReturnLeft
  BY <1>2, <1>3 DEF FormLeft, TurnLeft, ReturnLeft
<1> QED BY <1>4, <1>5, PartsOfWork, PartsOfWorkNext DEF Work

LEMMA ReadCarryAdvances ==
  ASSUME TypeOK, TypeOK', ReadCarry
  PROVE  Work' < Work
<1>1. Unread' = Unread /\ FormLeft' = FormLeft /\ TurnLeft' = TurnLeft /\ ReturnLeft' = ReturnLeft
  BY DEF ReadCarry, ReadUnchanged, producerVars, Unread, FormLeft, TurnLeft, ReturnLeft
<1>2. RuneLeft = 4 /\ RuneLeft' = 0
  BY DEF ReadCarry, RuneLeft
<1> QED BY <1>1, <1>2, PartsOfWork, PartsOfWorkNext DEF Work

(* A read that fails takes everything away.                                *)
LEMMA ReadFailsAdvances ==
  ASSUME TypeOK, TypeOK', ReadFails
  PROVE  Work' <= Work
<1>1. Unread' <= Unread
  BY Sequences DEF ReadFails, ReadUnchanged, producerVars, Unread, TypeOK
<1>2. RuneLeft' = 0 /\ ChunkLeft' = 0 /\ TurnLeft' = 0 /\ ReturnLeft' = 0 /\ FormLeft' = FormLeft
  BY DEF ReadFails, ReadUnchanged, RuneLeft, ChunkLeft, TurnLeft, ReturnLeft, FormLeft
<1> QED BY <1>1, <1>2, PartsOfWork, PartsOfWorkNext DEF Work

(* A chunk that is taken holds a byte at least, and pays for the turn.     *)
LEMMA ChunkAdvances ==
  ASSUME TypeOK, TypeOK', ProbeChunk \/ MainChunk
  PROVE  Work' < Work
<1>1. at = "read" /\ out # <<>>
  BY Sizes DEF ProbeChunk, MainChunk, ChunkReady
<1>2. Unread' = Unread /\ RuneLeft' = RuneLeft
  BY DEF ProbeChunk, MainChunk, CutAt, producerVars, Unread, RuneLeft
<1>3. ChunkLeft = 2 /\ ChunkLeft' = 0
  BY <1>1 DEF ProbeChunk, MainChunk, CutAt, ChunkLeft
<1>4. FormLeft' <= FormLeft
  BY DEF ProbeChunk, MainChunk, CutAt, FormLeft
<1>5. TurnLeft = 0 /\ ReturnLeft = 1
  BY <1>1 DEF TurnLeft, ReturnLeft
<1> QED BY <1>2, <1>3, <1>4, <1>5, PartsOfWork, PartsOfWorkNext DEF Work

(* At the end the token form is chosen, once, or Process returns.          *)
LEMMA EndAdvances ==
  ASSUME TypeOK, TypeOK', ProbeEOF \/ MainEOF
  PROVE  Work' < Work
<1>1. at = "read" /\ TurnLeft = 0 /\ ReturnLeft = 1
  BY DEF ProbeEOF, MainEOF, TurnLeft, ReturnLeft
<1>2. Unread' = Unread /\ RuneLeft' = RuneLeft /\ ChunkLeft' = ChunkLeft
  BY DEF ProbeEOF, MainEOF, producerVars, chunkerVars, Unread, RuneLeft, ChunkLeft
<1>3. CASE ProbeEOF
  <2>1. FormLeft = 2 /\ FormLeft' = 0
    BY <1>3 DEF ProbeEOF, FormLeft
  <2> QED BY <1>1, <1>2, <2>1, PartsOfWork, PartsOfWorkNext DEF Work
<1>4. CASE MainEOF
  <2>1. FormLeft' = FormLeft
    BY <1>4 DEF MainEOF, FormLeft
  <2>2. TurnLeft' = 0 /\ ReturnLeft' = 0
    BY <1>4 DEF MainEOF, ProcessSegment, TurnLeft, ReturnLeft
  <2> QED BY <1>1, <1>2, <2>1, <2>2, PartsOfWork, PartsOfWorkNext DEF Work
<1> QED BY <1>3, <1>4

LEMMA LoopAdvances ==
  ASSUME TypeOK, TypeOK', CheckCtx
  PROVE  Work' < Work
<1>1. Unread' = Unread /\ RuneLeft' = RuneLeft /\ ChunkLeft' = ChunkLeft /\ FormLeft' = FormLeft
  BY DEF CheckCtx, producerVars, chunkerVars, Unread, RuneLeft, ChunkLeft, FormLeft
<1>2. TurnLeft = 1 /\ TurnLeft' = 0 /\ ReturnLeft = 1
  BY DEF CheckCtx, TurnLeft, ReturnLeft
<1> QED BY <1>1, <1>2, PartsOfWork, PartsOfWorkNext DEF Work

(* Neither the producer nor the caller gives the engine more to do.        *)
LEMMA OthersLeaveWork ==
  ASSUME Feed \/ Close \/ Cancel \/ UNCHANGED vars
  PROVE  Work' = Work
BY DEF Feed, Close, Cancel, vars, producerVars, chunkerVars, Work, Unread, RuneLeft, ChunkLeft,
       FormLeft, TurnLeft, ReturnLeft

LEMMA EngineAdvances ==
  ASSUME TypeOK, TypeOK', EngineStep
  PROVE  Work' < Work
BY ReadAdvances, ReadCarryAdvances, ChunkAdvances, EndAdvances, LoopAdvances DEF EngineStep

LEMMA WorkShrinks ==
  ASSUME TypeOK, TypeOK', [Next]_vars
  PROVE  /\ Work' <= Work
         /\ EngineStep => Work' < Work
<1>1. Work \in Nat /\ Work' \in Nat
  BY PartsOfWork, PartsOfWorkNext DEF Work
<1>2. EngineStep => Work' < Work
  BY EngineAdvances
<1>3. Work' <= Work
  BY <1>1, <1>2, OthersLeaveWork, ReadFailsAdvances DEF Next
<1> QED BY <1>2, <1>3

(* The inductive invariant: no more is left than there was to begin with.  *)
WithinBudget == TypeOK /\ Work \in 0..(8 * Len(input) + 4)

LEMMA StreamWithinBudget == Spec => []WithinBudget
<1>1. Init => WithinBudget
  <2> SUFFICES ASSUME Init PROVE WithinBudget
    OBVIOUS
  <2>1. TypeOK
    BY TypeInit DEF StreamInv
  <2>2. Unread = Len(input) /\ RuneLeft = 0 /\ ChunkLeft = 0
    BY <2>1, Sequences DEF Init, Unread, RuneLeft, ChunkLeft
  <2> QED BY <2>1, <2>2, PartsOfWork DEF Work, WithinBudget
<1>2. WithinBudget /\ TypeOK' /\ [Next]_vars => WithinBudget'
  <2> SUFFICES ASSUME WithinBudget, TypeOK', [Next]_vars PROVE WithinBudget'
    OBVIOUS
  <2>1. Work' <= Work
    BY WorkShrinks DEF WithinBudget
  <2>2. Work' \in Nat
    BY PartsOfWorkNext DEF Work
  <2>3. input' = input
    BY DEF Next, vars, EngineStep, Feed, Close, Cancel, ReadFails, CheckCtx, ReadPart, ReadCarry,
           ProbeChunk, ProbeEOF, MainChunk, CutAt, MainEOF, ReadUnchanged, producerVars
  <2>4. Len(input) \in Nat
    BY Sequences DEF WithinBudget
  <2> QED BY <2>1, <2>2, <2>3, <2>4 DEF WithinBudget
<1> QED BY <1>1, <1>2, StreamTyping, PTL DEF Spec

(* An input of n bytes takes the engine 8 * n + 4 steps at most, whatever  *)
(* the pace of the producer and the cuts of the chunker.                   *)
THEOREM StreamAdvances == Spec => Advances
<1>1. WithinBudget /\ TypeOK' /\ [Next]_vars
         => [/\ Work \in 0..(8 * Len(input) + 4)
             /\ Work' <= Work
             /\ EngineStep => Work' < Work]_vars
  BY WorkShrinks DEF WithinBudget
<1> QED BY <1>1, StreamWithinBudget, StreamTyping, PTL DEF Spec, Advances
=============================================================================
