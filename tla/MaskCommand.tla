---------------------------- MODULE MaskCommand -----------------------------
(***************************************************************************)
(* The text itself, from `opsmask mask` to `opsmask unmask`: a segment     *)
(* loses the tokens it contains literally (detect.InertEscape), is         *)
(* searched by the rules, its values become tokens, and the writer that    *)
(* watches for the words of the deny list (cli/mask.go) passes it on.      *)
(* Unmask puts values for tokens and decodes what was escaped.             *)
(*                                                                         *)
(* One literal token, in two halves Left and Right, stands for all that an *)
(* input may contain: a log that was masked before, for instance.          *)
(* A text has no binary bytes, which the engine replaces, and the deny     *)
(* list is one of literals.                                                *)
(***************************************************************************)
EXTENDS Detection

CONSTANTS
    Symbols,            \* what a text consists of
    Inputs,             \* bound: the texts
    Left, Right,        \* halves of a literal token
    Inert,              \* [OPSMASK_ESCAPED_SENTINEL:...] of that token
    Literal,            \* what that token stands for, if it has a row
    DenyList,           \* literals of deny_list
    Limit               \* bytes of output the deny writer remembers, 8192

ASSUME MaskAssumption ==
    /\ Inputs \subseteq Seq(Symbols)
    /\ Literal.text \in Seq(Symbols)
    /\ {Left, Right, Inert} \subseteq Symbols
    /\ Left # Right
    /\ Limit \in Nat
    /\ \A d \in DenyList : d # <<>>

VARIABLES
    input,      \* the text
    cuts,       \* where the engine cuts it (StreamEngine)
    taken,      \* how much of it was taken into segments
    segment,    \* the segment, escaped
    found,      \* the candidates nonOverlapping has not looked at
    picked,     \* the matches it has kept
    rows,       \* the values that have a row
    masked,     \* all that was given to the deny writer
    tail, hit,  \* denyWriter.tail and whether .hit is set
    at,         \* where the two commands are
    restored    \* what unmask prints

given == <<input, cuts>>
deny == <<masked, tail, hit>>
vars == <<given, taken, segment, found, picked, rows, deny, at, restored>>

(* Symbols of the output.                                                  *)
Raw(c) == [form |-> "raw", type |-> "", text |-> <<c>>]
Token(v) == [form |-> "token", type |-> v.type, text |-> v.text]
Redacted(typ) == [form |-> "redacted", type |-> typ, text |-> <<>>]

Init ==
    /\ input \in Inputs
    /\ cuts \in SUBSET (1..(Len(input) - 1))
    /\ rows \in {{}, {Literal}}
    /\ taken = 0
    /\ segment = <<>> /\ found = {} /\ picked = <<>>
    /\ masked = <<>> /\ tail = <<>> /\ hit = FALSE
    /\ restored = <<>>
    /\ at = "read"

-----------------------------------------------------------------------------
(* processSegment.                                                         *)

(* Where the literal token <<l, r>> lies in b, replaced by `by`.           *)
ReplaceLiteral(b, l, r, by) ==
    LET here(i) == i \in 1..(Len(b) - 1) /\ b[i] = l /\ b[i + 1] = r
    IN  FlattenSeq([i \in DOMAIN b |->
            IF here(i) THEN by ELSE IF here(i - 1) THEN <<>> ELSE <<b[i]>>])

InertEscape(b) == ReplaceLiteral(b, Left, Right, <<Inert>>)

(* The next segment is escaped and searched.                               *)
TakeSegment ==
    /\ at = "read"
    /\ taken < Len(input)
    /\ LET end == Min({n \in cuts : n > taken} \union {Len(input)})
       IN  /\ segment' = InertEscape(SubSeq(input, taken + 1, end))
           /\ taken' = end
    /\ found' = Candidates(segment')
    /\ picked' = <<>>
    /\ at' = "match"
    /\ UNCHANGED <<given, rows, deny, restored>>

(* One turn of the loop of nonOverlapping: the next match of the sorted    *)
(* list is kept unless it begins before the end of the last one kept.      *)
Pick(m) ==
    /\ at = "match"
    /\ \A n \in found \ {m} : Before(m, n)
    /\ found' = found \ {m}
    /\ picked' = IF picked # <<>> /\ m.start <= Last(picked).end
                 THEN picked
                 ELSE Append(picked, m)
    /\ UNCHANGED <<given, taken, segment, rows, deny, at, restored>>

ValueOf(m) == [type |-> Rules[m.rule].type, text |-> SubSeq(segment, m.start, m.end)]

(* CommitPlans for the matches whose rule does not destroy.                *)
CommitPlans ==
    /\ at = "match"
    /\ found = {}
    /\ \/ /\ rows' = rows \union {ValueOf(m) : m \in {n \in Range(picked) : ~ Rules[n.rule].destroy}}
          /\ at' = "write"
       \/ /\ \E m \in Range(picked) : ~ Rules[m.rule].destroy
          /\ at' = "failed"
          /\ UNCHANGED rows
    /\ UNCHANGED <<given, taken, segment, found, picked, deny, restored>>

(* What maskChunk renders: the text between the matches and, for each of   *)
(* them, a token or a redaction.                                           *)
RawPart(s, e) == [i \in 1..(e - s + 1) |-> Raw(segment[s + i - 1])]

Rendered ==
    LET after(i) == IF i = 0 THEN 1 ELSE picked[i].end + 1
        piece(i) == Append(RawPart(after(i - 1), picked[i].start - 1),
                           IF Rules[picked[i].rule].destroy
                           THEN Redacted(Rules[picked[i].rule].type)
                           ELSE Token(ValueOf(picked[i])))
    IN  FlattenSeq([i \in DOMAIN picked |-> piece(i)])
            \o RawPart(after(Len(picked)), Len(segment))

-----------------------------------------------------------------------------
(* denyWriter.                                                             *)

Hits(b) == \E d \in DenyList : d \in SubSeqs(b)

LastOf(b, n) == IF Len(b) <= n THEN b ELSE SubSeq(b, Len(b) - n + 1, Len(b))

(* Mutants of DenyWrite: the tail is that of this write alone; the tail    *)
(* grows without a limit.                                                  *)
DenyWriteForgets(p) ==
    /\ IF hit THEN UNCHANGED <<hit, tail>>
       ELSE /\ hit' = Hits(tail \o p)
            /\ tail' = LastOf(p, Limit)
    /\ masked' = masked \o p

DenyWriteKeeps(p) ==
    /\ IF hit THEN UNCHANGED <<hit, tail>>
       ELSE /\ hit' = Hits(tail \o p)
            /\ tail' = tail \o p
    /\ masked' = masked \o p

(* Write searches the remembered end of the output and the new part.       *)
DenyWrite(p) ==
    /\ IF hit THEN UNCHANGED <<hit, tail>>
       ELSE /\ hit' = Hits(tail \o p)
            /\ tail' = LastOf(tail \o p, Limit)
    /\ masked' = masked \o p

WriteMasked ==
    /\ at = "write"
    /\ DenyWrite(Rendered)
    /\ at' = "read"
    /\ UNCHANGED <<given, taken, segment, found, picked, rows, restored>>

(* EOF: RunE fails if the deny list was hit.                               *)
Finish ==
    /\ at = "read"
    /\ taken = Len(input)
    /\ at' = IF hit THEN "canary" ELSE "done"
    /\ UNCHANGED <<given, taken, segment, found, picked, rows, deny, restored>>

-----------------------------------------------------------------------------
(* unmask.                                                                 *)

Chars(text) == [i \in DOMAIN text |-> Raw(text[i])]

(* TokenRegexp sees rendered tokens and literal ones alike; what has no    *)
(* row stays.                                                              *)
TokensReplaced(b) ==
    LET known == FlattenSeq([i \in DOMAIN b |->
                     IF b[i].form = "token" /\ [type |-> b[i].type, text |-> b[i].text] \in rows
                     THEN Chars(b[i].text)
                     ELSE <<b[i]>>])
    IN  IF Literal \in rows
        THEN ReplaceLiteral(known, Raw(Left), Raw(Right), Chars(Literal.text))
        ELSE known

InertDecode(b) ==
    FlattenSeq([i \in DOMAIN b |-> IF b[i] = Raw(Inert) THEN Chars(<<Left, Right>>) ELSE <<b[i]>>])

(* Mutant of Unmask: what was escaped is decoded first.                    *)
UnmaskDecodesFirst ==
    /\ at \in {"done", "canary"}
    /\ restored' = TokensReplaced(InertDecode(masked))
    /\ at' = "unmasked"
    /\ UNCHANGED <<given, taken, segment, found, picked, rows, deny>>

(* Tokens first; what InertDecode yields is not searched again.            *)
Unmask ==
    /\ at \in {"done", "canary"}
    /\ restored' = InertDecode(TokensReplaced(masked))
    /\ at' = "unmasked"
    /\ UNCHANGED <<given, taken, segment, found, picked, rows, deny>>

(* `opsmask mapping prune` at any time before that.                        *)
Prune(v) ==
    /\ at # "unmasked"
    /\ rows' = rows \ {v}
    /\ UNCHANGED <<given, taken, segment, found, picked, deny, at, restored>>

Next ==
    \/ TakeSegment \/ CommitPlans \/ WriteMasked \/ Finish \/ Unmask
    \/ \E m \in found : Pick(m)
    \/ \E v \in rows : Prune(v)

Spec == Init /\ [][Next]_vars

-----------------------------------------------------------------------------
(* Properties.                                                             *)

(* Every variable has its type.                                            *)
Types == {Rules[n].type : n \in DOMAIN Rules}
OutputSymbols == {Raw(c) : c \in Symbols}
    \union {Redacted(Rules[n].type) : n \in DOMAIN Rules}
    \union [form : {"token"}, type : Types, text : Seq(Symbols)]

TypeOK ==
    /\ input \in Inputs
    /\ cuts \subseteq 1..(Len(input) - 1)
    /\ taken \in 0..Len(input)
    /\ segment \in Seq(Symbols)
    /\ found \subseteq [start : DOMAIN segment, end : DOMAIN segment, rule : DOMAIN Rules]
    /\ picked \in Seq([start : DOMAIN segment, end : DOMAIN segment, rule : DOMAIN Rules])
    /\ rows \subseteq [type : Types, text : Seq(Symbols)] \union {Literal}
    /\ {masked, tail, restored} \subseteq Seq(OutputSymbols)
    /\ Len(tail) <= Limit
    /\ hit \in BOOLEAN
    /\ at \in {"read", "match", "write", "failed", "done", "canary", "unmasked"}

(* README.md:478, an audit canary: it fires exactly when a word of the     *)
(* deny list is in the output, however the segments cut it, as long as the *)
(* writer can remember all of the word but its last byte.                  *)
CanaryComplete ==
    /\ hit => Hits(masked)
    /\ \A d \in DenyList : Len(d) <= Limit + 1 /\ d \in SubSeqs(masked) => hit

(* Windows, the order of the search, filters and overlaps lose nothing but *)
(* what Sought names: each other match in the whole segment is picked, or  *)
(* begins inside a match that begins before it or is at least as long; no  *)
(* two that are picked overlap.                                            *)
Disjoint == \A i, j \in DOMAIN picked : i < j => picked[i].end < picked[j].start

Covers(m, v) ==
    /\ m.start <= v.start /\ v.start <= m.end
    /\ m.start = v.start => v.end <= m.end

MatchesCover ==
    at = "write" =>
        /\ Disjoint
        /\ \A v \in Values(segment) : \E m \in Range(picked) : Covers(m, v)

(* unmask(mask(x)) = x when nothing was destroyed, no row was pruned, and  *)
(* x has no escaped text of its own; literal tokens come back as they were *)
(* and are not looked up, unless the engine cut one in two.                *)
RoundTrip ==
    /\ at = "unmasked"
    /\ \A s \in Range(masked) :
          /\ s.form # "redacted"
          /\ s.form = "token" => [type |-> s.type, text |-> s.text] \in rows
    /\ Inert \notin Range(input)
    /\ ~ \E n \in cuts : input[n] = Left /\ input[n + 1] = Right
    => restored = Chars(input)
=============================================================================
