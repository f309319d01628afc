----------------------------- MODULE RuleBase -----------------------------
(***************************************************************************)
(* What the rule modules share: reading a mapping with a default, a fixed  *)
(* alphabetical order of names, and the first failing check of a list.     *)
(***************************************************************************)
EXTENDS Integers, Sequences, FiniteSets, FiniteSetsExt, SequencesExt, TLC

CONSTANTS Empty,        \* the empty string
          None,         \* no value
          Wrong,        \* a value of a type that its field does not take
          Alphabet      \* the names of columns and parameters, in sorted() order

\* mapping.get(f, default).
Field(m, f, default) == IF f \in DOMAIN m THEN m[f] ELSE default

\* sorted(names).
Sorted(names) == SelectSeq(Alphabet, LAMBDA n : n \in names)

\* The code of the first check <<fails, code>>, in order, that fails.
FirstRefusal(checks) ==
    LET failed == {i \in DOMAIN checks : checks[i][1]}
    IN  IF failed = {} THEN "ok" ELSE checks[Min(failed)][2]

NoRepeats(s) == Cardinality(ToSet(s)) = Len(s)
=============================================================================
