------------------------------- MODULE Probe -------------------------------
(***************************************************************************)
(* The pure parts of the system (parsers, transforms, scoring, policies)   *)
(* have no state of their own.  Each of their modules extends this one and *)
(* states its laws as invariants over one variable: the input picked for   *)
(* the probe, a record whose kind says which function it is an input of.   *)
(***************************************************************************)
EXTENDS Integers, Sequences, FiniteSets, SequencesExt

CONSTANT Undefined    \* undefined or null in the code, a model value

VARIABLE probe

ProbeInit == probe = [kind |-> "none"]

\* One probe per behaviour.
Unprobed == probe.kind = "none"

\* A function of the code that throws returns this record instead of its result.
Throws == [threw |-> TRUE]
Threw(result) == "threw" \in DOMAIN result

-----------------------------------------------------------------------------
(* Array idioms of the code.                                               *)

MapSeq(s, Op(_)) == [i \in DOMAIN s |-> Op(s[i])]

\* array.find(...), or `otherwise`.
Find(s, Test(_), otherwise) ==
    LET found == {i \in DOMAIN s : Test(s[i])}
    IN  IF found = {} THEN otherwise ELSE s[CHOOSE i \in found : \A j \in found : i <= j]

SumSeq(s) == FoldLeft(LAMBDA a, b : a + b, 0, s)

\* The elements of a finite set in the order of R, a set of pairs that orders it strictly:
\* in the place of n stands the one that n - 1 others come before.
Ranked(S, R) ==
    [n \in 1..Cardinality(S) |-> CHOOSE e \in S : Cardinality({d \in S : <<d, e>> \in R}) = n - 1]

\* The entries of s at the places in I, a set of them, in the order of R.
Places(s, I, R) == LET at == Ranked(I, R) IN [n \in DOMAIN at |-> s[at[n]]]

\* array.filter(...)
Filter(s, Test(_)) ==
    LET I == {i \in DOMAIN s : Test(s[i])} IN Places(s, I, {p \in I \X I : p[1] < p[2]})

\* The first element of each key, in order: a loop with a `seen` set.
DedupBy(s, Key(_)) ==
    LET I == {i \in DOMAIN s : \A j \in DOMAIN s : Key(s[j]) = Key(s[i]) => i <= j}
    IN  Places(s, I, {p \in I \X I : p[1] < p[2]})

\* array.sort(...), which is stable.
SortBy(s, Before(_, _)) ==
    LET D == DOMAIN s
    IN  Places(s, D, {p \in D \X D : Before(s[p[1]], s[p[2]]) \/ (~Before(s[p[2]], s[p[1]]) /\ p[1] < p[2])})

=============================================================================
