----------------------------- MODULE Detection ------------------------------
(***************************************************************************)
(* What the detectors find in a segment (internal/detect/registry.go): a   *)
(* rule is applied to a window around each of its keywords, matches that   *)
(* are too long or fail the check of the rule are dropped, and of matches  *)
(* that overlap one is kept.                                               *)
(*                                                                         *)
(* A rule stands for a regular expression by its traits.  Most match the   *)
(* longest run of their symbols with one of their words in it.  Those for  *)
(* the k8s names (behind) match one of their words, separators, and the    *)
(* run behind them; only that run is the value, but the symbol before the  *)
(* word and the one behind the run belong to the match as well.  The words *)
(* are what the expression accepts, in any case if it has (?i); the        *)
(* keywords are spelled as they are.  An end of the text an expression is  *)
(* given counts as a boundary.  varied: the entropy threshold or the check *)
(* refuses a value of one repeated symbol.                                 *)
(***************************************************************************)
EXTENDS Integers, SequencesExt

CONSTANTS
    Rules,      \* sequence of [type, symbols, words, keys, behind, span, varied, destroy]
    Blank,      \* what may separate a noun from its name
    MinWindow   \* 256 in the code

(* The span of a k8s rule is what its expression takes, 63, which is       *)
(* stricter than its MaxMatchSpan.                                         *)
ASSUME RuleAssumption ==
    /\ MinWindow \in Nat
    /\ DOMAIN Rules \subseteq Nat
    /\ \A n \in DOMAIN Rules :
          /\ Rules[n].span \in Nat \ {0}
          /\ Rules[n].behind => (Rules[n].symbols \union Rules[n].words) \intersect Blank = {}

-----------------------------------------------------------------------------
(* How far a window reaches to each side of a keyword.                     *)
Reach(r) == Max({r.span, MinWindow})

Whole(b) == [lo |-> 1, hi |-> Len(b)]

(* The parts of text b that rule r is applied to.                          *)
Windows(r, b) ==
    IF r.keys = {} THEN {Whole(b)}
    ELSE {[lo |-> Max({1, p - Reach(r)}), hi |-> Min({Len(b), p + Reach(r)})] :
              p \in {q \in DOMAIN b : b[q] \in r.keys}}

(* Where the expression matches if it is given the window w: the value is  *)
(* b[start..end], and the head is its noun or, without one, its start.     *)
Occurrences(r, b, w) ==
    {o \in [head : w.lo..w.hi, start : w.lo..w.hi, end : w.lo..w.hi] :
        /\ o.start <= o.end
        /\ \A q \in o.start..o.end : b[q] \in r.symbols
        /\ o.head = w.lo \/ b[o.head - 1] \notin r.symbols \union r.words
        /\ o.end = w.hi \/ b[o.end + 1] \notin r.symbols \union r.words
        /\ IF r.behind
           THEN /\ b[o.head] \in r.words
                /\ o.head + 1 < o.start
                /\ \A q \in (o.head + 1)..(o.start - 1) : b[q] \in Blank
                /\ o.end - o.start < r.span
           ELSE /\ o.head = o.start
                /\ r.words = {} \/ \E q \in o.start..o.end : b[q] \in r.words}

(* The match p takes a symbol that o, which begins later, needs: a k8s     *)
(* match reaches from before its noun to behind its name.                  *)
Clash(r, p, o) == p.head < o.head /\ o.head <= p.end + IF r.behind THEN 2 ELSE 0

(* FindAllIndex goes from left to right and takes each match that begins   *)
(* behind the last one it took; just one set is closed in this way.        *)
FindAll(r, b, w) ==
    LET all == Occurrences(r, b, w)
        taken(S) == \A o \in all : o \in S <=> ~ \E p \in S : Clash(r, p, o)
    IN  {o \in all : \A S \in SUBSET all : taken(S) => o \in S}

(* MaxMatchSpan, MinEntropy and Check.                                     *)
Accepted(r, b, s, e) ==
    /\ e - s + 1 <= r.span
    /\ r.varied => \E q \in s..e : b[q] # b[s]

Placed(n, O) == {[start |-> o.start, end |-> o.end, rule |-> n] : o \in O}

(* All matches of all rules, as nonOverlapping gets them.                  *)
Candidates(b) ==
    {m \in UNION {Placed(n, UNION {FindAll(Rules[n], b, w) : w \in Windows(Rules[n], b)}) :
                     n \in DOMAIN Rules} :
        Accepted(Rules[m.rule], b, m.start, m.end)}

(* Mutant of Before: of two matches at one place the shorter goes first.   *)
BeforeShort(m, n) ==
    \/ m.start < n.start
    \/ m.start = n.start /\ m.end < n.end
    \/ m.start = n.start /\ m.end = n.end /\ m.rule < n.rule

(* The stable sort by start, longest first; the rules come in order.       *)
Before(m, n) ==
    \/ m.start < n.start
    \/ m.start = n.start /\ m.end > n.end
    \/ m.start = n.start /\ m.end = n.end /\ m.rule < n.rule

(* A match in the whole text that the search may not miss.  It does miss   *)
(* one without a word that is spelled like a keyword, a name further from  *)
(* its keyword than the window reaches, and a noun that begins in, or is   *)
(* one symbol behind, the name of an earlier noun (which need not be one   *)
(* itself, where the window happens to begin).                             *)
Sought(r, b, o) ==
    /\ \/ r.keys = {}
       \/ \E q \in o.head..o.end :
             /\ b[q] \in r.keys
             /\ r.behind => q - Reach(r) <= o.head /\ o.end <= q + Reach(r)
    /\ \A h \in 1..(o.head - 1) :
          \A p \in Occurrences(r, b, [lo |-> h, hi |-> Len(b)]) : ~ Clash(r, p, o)

(* What a reader of the rules expects to be found, wherever the windows    *)
(* end and whatever else is matched.                                       *)
Values(b) ==
    {m \in UNION {Placed(n, {o \in Occurrences(Rules[n], b, Whole(b)) : Sought(Rules[n], b, o)}) :
                     n \in DOMAIN Rules} :
        Accepted(Rules[m.rule], b, m.start, m.end)}
=============================================================================
