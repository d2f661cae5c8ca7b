---------------------------- MODULE StreamEngine ----------------------------
(***************************************************************************)
(* engine.Process (internal/engine/engine.go) over ioutil.Chunker          *)
(* (internal/ioutil/chunker.go): a producer feeds bytes at its own pace,   *)
(* the chunker gathers lines into chunks, and the loop cuts what it has    *)
(* into segments that are masked and written one by one, keeping the last  *)
(* bytes back for the next chunk.                                          *)
(*                                                                         *)
(* Bytes are named by their position in the input, so a buffer is a        *)
(* sequence of positions and a lost, repeated or reordered byte shows.     *)
(* What masking does to a segment is MaskPipeline's; here a segment is     *)
(* written or not.                                                         *)
(***************************************************************************)
EXTENDS Integers, Sequences

CONSTANTS
    Inputs,      \* the inputs to try: sequences of byte kinds
    ASCIITokens, \* Options.ASCIITokens
    Carry,       \* boundaryCarry, 4095 in the code
    Probe,       \* tokenProbe, 8 KiB
    Target,      \* targetChunk, 64 KiB
    BufSize,     \* size of the bufio.Reader, 16 MiB
    MaxLine      \* --max-line, 16 MiB unless set

(* Kinds of bytes: newline, other ASCII, ASCII that belongs to a value to  *)
(* mask, first byte of a two- or three-byte rune, continuation byte.       *)
Kinds == {"nl", "a", "s", "l2", "l3", "c"}
ASCII == {"nl", "a", "s"}

ASSUME EngineAssumption ==
    /\ Inputs \subseteq Seq(Kinds)
    /\ ASCIITokens \in BOOLEAN
    /\ {Carry, Probe, Target, BufSize, MaxLine} \subseteq Nat \ {0}
    /\ 1 < Carry /\ Carry + 1 < Probe /\ Probe < Target

VARIABLES
    input,      \* what the producer will have written when it closes
    fed,        \* bytes the producer has written
    closed,     \* the producer has closed its end
    got,        \* bytes ReadSlice has returned
    lineLen,    \* Chunker.lineLen
    ccarry,     \* Chunker.carry
    out,        \* the chunk Chunker.Next is gathering
    pending,    \* bytes Process keeps back
    form,       \* token form: "ascii", "unicode" or "?" while not chosen
    at,         \* "loop" (ctx check), "read" (in Next), "done" or "failed"
    written,    \* the bytes the consumer received
    cuts,       \* where each segment after the first began: bytes written before it
    sink,       \* "open", or "closed" once a write met EPIPE
    cancelled   \* ctx is done

producerVars == <<input, fed, closed>>
chunkerVars == <<got, lineLen, ccarry, out>>
vars == <<producerVars, chunkerVars, pending, form, at, written, cuts, sink, cancelled>>

Init ==
    /\ input \in Inputs
    /\ fed = 0
    /\ closed = FALSE
    /\ got = 0
    /\ lineLen = 0
    /\ ccarry = <<>>
    /\ out = <<>>
    /\ pending = <<>>
    /\ form = IF ASCIITokens THEN "ascii" ELSE "?"
    /\ at = "loop"
    /\ written = <<>>
    /\ cuts = {}
    /\ sink = "open"
    /\ cancelled = FALSE

Kind(p) == input[p]
Positions(i, j) == [k \in 1..(j - i + 1) |-> i + k - 1]

-----------------------------------------------------------------------------
(* Pure helpers.                                                           *)

RuneStart(p) == Kind(p) # "c"
RuneLen(p) == CASE Kind(p) = "l2" -> 2 [] Kind(p) = "l3" -> 3 [] OTHER -> 1

(* utf8.FullRune: an invalid encoding counts as full.                      *)
FullRune(b) == Len(b) >= RuneLen(b[1]) \/ \E j \in 2..Len(b) : j <= RuneLen(b[1]) /\ RuneStart(b[j])

(* Back up to three bytes from cut, to a place where a rune starts.        *)
AlignUTF8Boundary(b, cut) ==
    LET starts == {n \in 0..3 : /\ cut - n > 0
                                /\ RuneStart(b[cut - n + 1])
                                /\ FullRune(SubSeq(b, cut - n + 1, Len(b)))}
    IN  IF cut <= 0 \/ cut >= Len(b) \/ starts = {} THEN cut
        ELSE cut - (CHOOSE n \in starts : \A k \in starts : n <= k)

(* A rune cut off at the end of b waits for the next part: how many bytes. *)
CutOff(b) ==
    LET partial == {n \in 1..3 : /\ n < Len(b)
                              /\ RuneStart(b[Len(b) - n + 1])
                              /\ ~ FullRune(SubSeq(b, Len(b) - n + 1, Len(b)))}
    IN  IF partial = {} THEN 0 ELSE CHOOSE n \in partial : \A k \in partial : n <= k

IsStrictASCIIPrefix(b) == \A i \in 1..Len(b) : Kind(b[i]) \in ASCII

-----------------------------------------------------------------------------
(* The producer and the caller.                                            *)

Feed ==
    /\ fed < Len(input)
    /\ fed' = fed + 1
    /\ UNCHANGED <<input, closed, chunkerVars, pending, form, at, written, cuts, sink, cancelled>>

Close ==
    /\ fed = Len(input)
    /\ ~ closed
    /\ closed' = TRUE
    /\ UNCHANGED <<input, fed, chunkerVars, pending, form, at, written, cuts, sink, cancelled>>

Cancel ==
    /\ ~ cancelled
    /\ at \in {"loop", "read"}
    /\ cancelled' = TRUE
    /\ UNCHANGED <<producerVars, chunkerVars, pending, form, at, written, cuts, sink>>

-----------------------------------------------------------------------------
(* The chunker.                                                            *)

(* The bytes ReadSlice returns: up to a newline, a full buffer, or what is *)
(* left before EOF; 0 when it has to wait.                                 *)
SliceEnds ==
    {p \in (got + 1)..fed :
        /\ Kind(p) = "nl" \/ p - got = BufSize \/ (closed /\ p = fed)
        /\ \A q \in (got + 1)..(p - 1) : Kind(q) # "nl"
        /\ p - got <= BufSize}

AtEOF == closed /\ got = fed /\ ccarry = <<>>

(* nextPart: a slice of the input, after what the last part kept.  A line  *)
(* over the limit fails the run, and what Next had gathered is dropped.    *)
(* length is what c.lineLen becomes when the slice ends at p.              *)
TakePart(p, length) ==
    LET part == ccarry \o Positions(got + 1, p)
        full == Kind(p) # "nl" /\ p - got = BufSize
        keep == IF full THEN CutOff(part) ELSE 0
    IN  /\ got' = p
        /\ lineLen' = IF Kind(p) = "nl" /\ length <= MaxLine THEN 0 ELSE length
        /\ IF length > MaxLine
           THEN at' = "failed" /\ out' = <<>> /\ UNCHANGED ccarry
           ELSE /\ out' = out \o SubSeq(part, 1, Len(part) - keep)
                /\ ccarry' = SubSeq(part, Len(part) - keep + 1, Len(part))
                /\ UNCHANGED at

Reading == at = "read" /\ Len(out) < Target
ReadUnchanged == UNCHANGED <<producerVars, pending, form, written, cuts, sink, cancelled>>

(* Mutants of ReadPart: the length of a line is that of its last part; the *)
(* limit is tested before the part is added.                               *)
ReadPartForgetsLine ==
    /\ Reading
    /\ \E p \in SliceEnds : TakePart(p, p - got)
    /\ ReadUnchanged

ReadPartTestsEarly ==
    /\ Reading
    /\ lineLen <= MaxLine
    /\ \E p \in SliceEnds :
        /\ got' = p
        /\ lineLen' = IF Kind(p) = "nl" THEN 0 ELSE lineLen + p - got
        /\ out' = out \o ccarry \o Positions(got + 1, p)
        /\ ccarry' = <<>>
        /\ UNCHANGED at
    /\ ReadUnchanged

ReadPart ==
    /\ Reading
    /\ \E p \in SliceEnds : TakePart(p, lineLen + p - got)
    /\ ReadUnchanged

(* The read fails: what is buffered but ends no line is dropped as well.   *)
ReadFails ==
    /\ Reading
    /\ ~ closed
    /\ SliceEnds = {}
    /\ at' = "failed"
    /\ got' = fed
    /\ lineLen' = lineLen + fed - got
    /\ out' = <<>>
    /\ ccarry' = <<>>
    /\ ReadUnchanged

(* At EOF the carry itself is the last part.                               *)
ReadCarry ==
    /\ Reading
    /\ closed /\ got = fed /\ ccarry # <<>>
    /\ out' = out \o ccarry
    /\ ccarry' = <<>>
    /\ UNCHANGED <<got, lineLen, at>>
    /\ ReadUnchanged

-----------------------------------------------------------------------------
(* The loops of Process.                                                   *)

CheckCtx ==
    /\ at = "loop"
    /\ at' = IF cancelled THEN "failed" ELSE "read"
    /\ UNCHANGED <<producerVars, chunkerVars, pending, form, written, cuts, sink, cancelled>>

(* processSegment: masked and written; or the consumer is gone, which is   *)
(* no error; or ctx is done, the rows are not stored or the write fails,   *)
(* and Process returns.                                                    *)
ProcessSegment(seg, rest, next) ==
    \/ /\ ~ cancelled
       /\ sink = "open"
       /\ written' = written \o seg
       /\ cuts' = cuts \union {Len(written)}
       /\ pending' = rest
       /\ at' = next
       /\ UNCHANGED sink
    \/ /\ ~ cancelled
       /\ sink' = "closed"
       /\ pending' = rest
       /\ at' = next
       /\ UNCHANGED <<written, cuts>>
    \/ /\ at' = "failed"
       /\ UNCHANGED <<written, cuts, pending, sink>>

ChunkReady == at = "read" /\ (Len(out) >= Target \/ (AtEOF /\ out # <<>>))

(* Mutant of ProbeChunk: only the last chunk is looked at.                 *)
ProbeChunkLast ==
    /\ ChunkReady
    /\ form = "?"
    /\ pending' = pending \o out
    /\ IF Len(pending') < Probe THEN UNCHANGED form
       ELSE form' = IF IsStrictASCIIPrefix(out) THEN "ascii" ELSE "unicode"
    /\ out' = <<>>
    /\ at' = "loop"
    /\ UNCHANGED <<producerVars, got, lineLen, ccarry, written, cuts, sink, cancelled>>

(* The first loop gathers a prefix long enough to choose the token form.   *)
ProbeChunk ==
    /\ ChunkReady
    /\ form = "?"
    /\ LET all == pending \o out
       IN  /\ pending' = all
           /\ IF Len(all) < Probe THEN UNCHANGED form
              ELSE form' = IF IsStrictASCIIPrefix(SubSeq(all, 1, Probe)) THEN "ascii" ELSE "unicode"
    /\ out' = <<>>
    /\ at' = "loop"
    /\ UNCHANGED <<producerVars, got, lineLen, ccarry, written, cuts, sink, cancelled>>

ProbeEOF ==
    /\ at = "read" /\ AtEOF /\ out = <<>>
    /\ form = "?"
    /\ form' = IF IsStrictASCIIPrefix(pending) THEN "ascii" ELSE "unicode"
    /\ at' = "loop"
    /\ UNCHANGED <<producerVars, chunkerVars, pending, written, cuts, sink, cancelled>>

(* Mutants of MainChunk: the cut is not aligned; it is, but the bytes kept *)
(* back begin where it was not; nothing is ever cut.                       *)
CutAt(all, n, rest) ==
    /\ out' = <<>>
    /\ IF Len(all) <= Carry
       THEN pending' = all /\ at' = "loop" /\ UNCHANGED <<written, cuts, sink>>
       ELSE ProcessSegment(SubSeq(all, 1, n), rest, "loop")
    /\ UNCHANGED <<producerVars, got, lineLen, ccarry, form, cancelled>>

MainChunkUnaligned ==
    /\ ChunkReady
    /\ form # "?"
    /\ LET all == pending \o out
           n == Len(all) - Carry
       IN  CutAt(all, n, SubSeq(all, n + 1, Len(all)))

MainChunkKeepsUnaligned ==
    /\ ChunkReady
    /\ form # "?"
    /\ LET all == pending \o out
           n == AlignUTF8Boundary(all, Len(all) - Carry)
       IN  CutAt(all, n, SubSeq(all, Len(all) - Carry + 1, Len(all)))

MainChunkKeepsAll ==
    /\ ChunkReady
    /\ form # "?"
    /\ out' = <<>>
    /\ pending' = pending \o out
    /\ at' = "loop"
    /\ UNCHANGED <<producerVars, got, lineLen, ccarry, form, written, cuts, sink, cancelled>>

(* The main loop: all but the last Carry bytes go out as a segment.        *)
MainChunk ==
    /\ ChunkReady
    /\ form # "?"
    /\ LET all == pending \o out
           n == AlignUTF8Boundary(all, Len(all) - Carry)
       IN  CutAt(all, n, SubSeq(all, n + 1, Len(all)))

(* Mutants of MainEOF: the bytes kept back are not flushed; the loop goes  *)
(* on after the end.                                                       *)
MainEOFForgets ==
    /\ at = "read" /\ AtEOF /\ out = <<>>
    /\ form # "?"
    /\ at' = "done"
    /\ UNCHANGED <<producerVars, chunkerVars, pending, form, written, cuts, sink, cancelled>>

MainEOFLoops ==
    /\ at = "read" /\ AtEOF /\ out = <<>>
    /\ form # "?"
    /\ IF pending # <<>> THEN ProcessSegment(pending, <<>>, "loop")
       ELSE at' = "loop" /\ UNCHANGED <<written, cuts, pending, sink>>
    /\ UNCHANGED <<producerVars, chunkerVars, form, cancelled>>

MainEOF ==
    /\ at = "read" /\ AtEOF /\ out = <<>>
    /\ form # "?"
    /\ IF pending # <<>> THEN ProcessSegment(pending, <<>>, "done")
       ELSE at' = "done" /\ UNCHANGED <<written, cuts, pending, sink>>
    /\ UNCHANGED <<producerVars, chunkerVars, form, cancelled>>

EngineStep ==
    \/ CheckCtx
    \/ ReadPart
    \/ ReadCarry
    \/ ProbeChunk
    \/ ProbeEOF
    \/ MainChunk
    \/ MainEOF

Next == Feed \/ Close \/ Cancel \/ ReadFails \/ EngineStep

Spec == Init /\ [][Next]_vars

(* The goroutine that runs Process is scheduled; the producer may pause    *)
(* for ever, and a read need not fail.                                     *)
FairSpec == Spec /\ WF_vars(EngineStep)

-----------------------------------------------------------------------------
(* Properties.                                                             *)

(* Every variable has its type.                                            *)
TypeOK ==
    /\ input \in Seq(Kinds)
    /\ fed \in 0..Len(input)
    /\ closed \in BOOLEAN
    /\ got \in 0..fed
    /\ lineLen \in Nat /\ (at # "failed" => lineLen <= MaxLine)
    /\ {ccarry, out, pending, written} \subseteq Seq(1..got)
    /\ cuts \subseteq 0..got
    /\ form \in {"?", "ascii", "unicode"}
    /\ at \in {"loop", "read", "done", "failed"}
    /\ sink \in {"open", "closed"}
    /\ cancelled \in BOOLEAN

(* Across chunks, carries and cuts no byte is lost, repeated or moved: the *)
(* segments written and the four buffers are the input read so far.        *)
(* What is written is a prefix of the input, also in a run that fails or   *)
(* whose consumer left, and all of it when Process returns nil.            *)
NothingLost ==
    /\ at # "failed" /\ sink = "open" =>
          written \o pending \o out \o ccarry = Positions(1, got)
    /\ written = Positions(1, Len(written))
    /\ at = "done" /\ sink = "open" => Len(written) = Len(input)

(* Valid UTF-8: every rune has its continuation bytes and no others.       *)
ValidUTF8 ==
    \A p \in 1..Len(input) :
        /\ RuneStart(p) => \A k \in 1..(RuneLen(p) - 1) : p + k \in DOMAIN input /\ ~ RuneStart(p + k)
        /\ ~ RuneStart(p) => \E k \in 1..2 : p - k > 0 /\ RuneStart(p - k) /\ k < RuneLen(p - k)

(* In valid UTF-8 a segment begins where a rune does, whether the cut is   *)
(* the engine's or the chunker's, with one exception, see RunesAlways: the *)
(* last Carry bytes, after a segment that is shorter than its first rune.  *)
ShortSegmentBefore(n) == \E m \in cuts : m < n /\ RuneStart(m + 1) /\ n < m + RuneLen(m + 1)

RunesWhole ==
    ValidUTF8 => \A n \in cuts :
        RuneStart(n + 1) \/ (n = Len(input) - Carry /\ ShortSegmentBefore(n))

(* The token form is a function of the input and the options: the pace of  *)
(* the producer and the cuts of the chunker do not show in it.             *)
FormFromInput ==
    form # "?" =>
        LET n == IF Len(input) < Probe THEN Len(input) ELSE Probe
        IN  form = "ascii" <=> ASCIITokens \/ \A p \in 1..n : Kind(p) \in ASCII

(* No byte beyond --max-line of its line is ever written, although a long  *)
(* line reaches the engine in several parts.                               *)
LineStart(p) ==
    CHOOSE q \in 1..p : /\ q = 1 \/ Kind(q - 1) = "nl"
                       /\ \A r \in q..(p - 1) : Kind(r) # "nl"

LineLimit == \A i \in 1..Len(written) : written[i] - LineStart(written[i]) < MaxLine

(* Memory stays bounded whatever the length of the stream: what was read   *)
(* and not written is at most two chunks and the bytes probed.             *)
BoundedBuffer ==
    LET part == 3 + IF BufSize < MaxLine THEN BufSize ELSE MaxLine
        chunk == Target - 1 + part
    IN  sink = "open" /\ at # "failed" => got - Len(written) <= Probe + 2 * chunk + 3

(* --max-line is kept to, on what passes and on what is held.              *)
WithinLimits == LineLimit /\ BoundedBuffer

(* A stream that its producer closes is processed to its end, or refused.  *)
Finishes == closed ~> at \in {"done", "failed"}

(* engine_test.go:62 fails with "email spanning boundary was not masked":  *)
(* a value no longer than the bytes kept back is never divided between two *)
(* segments, each of which the detectors see alone.                        *)
Value(p, q) ==
    /\ \A r \in p..q : Kind(r) = "s"
    /\ p = 1 \/ Kind(p - 1) # "s"
    /\ q = Len(input) \/ Kind(q + 1) # "s"

ValuesWhole ==
    \A n \in cuts :
        \A p \in 1..n, q \in (n + 1)..Len(input) : Value(p, q) => q - p + 1 > Carry

(* The comment at engine.go:176-180: "the returned split never falls       *)
(* inside a multibyte rune".                                               *)
RunesAlways == ValidUTF8 => \A n \in cuts : RuneStart(n + 1)

(* Refuted only by a run of Process that refutes both of these.            *)
CutsClean == RunesAlways \/ ValuesWhole
=============================================================================
