---------------------------- MODULE PrefixMapping ----------------------------
(***************************************************************************)
(* Flag validation of cmd/bergrb, and what PrefixMapping of                  *)
(* internal/rewrite does, run after run, to one path of a table: the facts   *)
(* that let the other modules tell prefixes apart by a base.                 *)
(* A string is a sequence of characters.                                     *)
(***************************************************************************)
EXTENDS Naturals, Sequences

CONSTANTS
  Char, Slash,
  Prefixes,   \* values --source-prefix and --target-prefix may take
  Paths,      \* paths the metadata may hold
  MaxRuns     \* bound: runs over the same path

ASSUME StringsAssumption ==
  Slash \in Char /\ Prefixes \subseteq Seq(Char) /\ Paths \subseteq Seq(Char)
ASSUME MaxRunsAssumption == MaxRuns \in Nat

VARIABLES
  source, target,  \* the flags
  original, path,  \* the path before the first run, and now
  pc, runs

vars == <<source, target, original, path, pc, runs>>

-----------------------------------------------------------------------------
(* strings.HasPrefix, strings.HasSuffix(s, "/"), strings.CutPrefix *)

HasPrefix(s, p) == Len(p) <= Len(s) /\ \A n \in 1..Len(p) : s[n] = p[n]
Rest(s, p) == [n \in 1..(Len(s) - Len(p)) |-> s[n + Len(p)]]

\* validate(): "must end with '/'".
AnyEnding(s) == TRUE
EndsInSlash(s) == s # <<>> /\ s[Len(s)] = Slash

\* validate(): "must not be nested one under the other".
NestedUpward(s, t) == HasPrefix(s, t)
Nested(s, t) == HasPrefix(t, s) \/ HasPrefix(s, t)

Valid(s, t) ==
  /\ s # <<>> /\ t # <<>>
  /\ s # t
  /\ EndsInSlash(s) /\ EndsInSlash(t)
  /\ ~Nested(s, t)

\* PrefixMapping.
Matches(p) == HasPrefix(p, source)
ApplyToAll(p) == target \o Rest(p, source)
Apply(p) == IF Matches(p) THEN target \o Rest(p, source) ELSE p

-----------------------------------------------------------------------------
TypeOK ==
  /\ source \in Seq(Char) /\ target \in Seq(Char)
  /\ original \in Seq(Char) /\ path \in Seq(Char)
  /\ pc \in {"flags", "rejected", "run"}
  /\ runs \in Nat

Init ==
  /\ source \in Prefixes
  /\ target \in Prefixes
  /\ original \in Paths
  /\ path = original
  /\ pc = "flags"
  /\ runs = 0

Validate ==
  /\ pc = "flags"
  /\ pc' = IF Valid(source, target) THEN "run" ELSE "rejected"
  /\ UNCHANGED <<source, target, original, path, runs>>

\* A run that meets the path in metadata it rewrites.
Run ==
  /\ pc = "run"
  /\ runs < MaxRuns
  /\ path' = Apply(path)
  /\ runs' = runs + 1
  /\ UNCHANGED <<source, target, original, pc>>

Next == Validate \/ Run

Spec == Init /\ [][Next]_vars

-----------------------------------------------------------------------------
(* Correctness *)

\* Re-runs converge: only the first run can change a path (main.go:144).
RerunsChangeNothing == runs > 0 => ~Matches(path)

\* A path under the source prefix keeps its key, any other is left alone,
\* however many runs there were (design.md, D1: same key).
KeyKept ==
  runs > 0 =>
    IF Matches(original) THEN path = target \o Rest(original, source) ELSE path = original

\* A table of a sibling directory, whose name merely starts with the last
\* segment of the source prefix, is never rebased (main.go:135).
Sibling(p) ==
  LET n == Len(source)
  IN n > 0 /\ Len(p) >= n /\ p[n] # Slash /\ \A m \in 1..(n - 1) : p[m] = source[m]
SiblingsUntouched == Sibling(original) => path = original
=============================================================================
