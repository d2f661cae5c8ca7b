--------------------------- MODULE MCHookInstall ---------------------------
(* Two projects, or one, that two processes install into and remove from.  *)
EXTENDS HookInstall, TLC

CONSTANTS a1, a2, p1, p2, lint

MCFile(kind, theirs) == [kind |-> kind, mine |-> FALSE, theirs |-> theirs]

MCEmpty == [local |-> MCFile("none", {}), shared |-> MCFile("none", {})]
MCBroken == [local |-> MCFile("bad", {}), shared |-> MCFile("hooks", {lint})]
MCPlain == [local |-> MCFile("hooks", {lint}), shared |-> MCFile("plain", {})]

(* One project without settings; in the other one, settings that are not   *)
(* JSON or have no hooks, beside hooks of the user's own.                  *)
MCInitSettings ==
    {[q \in {p1, p2} |-> IF q = p THEN MCEmpty ELSE s] : p \in {p1, p2}, s \in {MCBroken, MCPlain}}

MCSymmetry == Permutations({a1, a2}) \union Permutations({p1, p2})
=============================================================================
