-------------------------------- MODULE Text --------------------------------
(***************************************************************************)
(* SMT-LIB texts as JSON and back: smt2json and json2smt of                *)
(* server/utils.py, which Fixedpoint (server/framework.py) and             *)
(* dummy_solver.py use.  A text is a sequence of brackets, atoms, starts of *)
(* comments and ends of lines; a quoted symbol or string is an atom, as    *)
(* lines 172, 173 and 185 replace it by one and put it back (one with a ";" *)
(* in it is cut before, and not a text here).  JSON has the same brackets  *)
(* and atoms, and commas.                                                  *)
(***************************************************************************)
EXTENDS Integers, Sequences, FiniteSets
LOCAL INSTANCE SequencesExt

CONSTANTS Atom, MaxTokens      \* bound: tokens of a text
ASSUME TextAssumption == MaxTokens \in Nat /\ Atom \cap {"(", ")", ",", ";", "line"} = {}
-----------------------------------------------------------------------------
(* smt2json: regular expressions, one after the other over the whole text. *)

Following(s, k) == IF k < Len(s) THEN s[k + 1] ELSE "end"
Erase(s, Hit(_, _)) ==
  FlattenSeq([k \in 1..Len(s) |-> IF Hit(s, k) THEN <<>> ELSE <<s[k]>>])
AddComma(s, Hit(_, _)) ==
  FlattenSeq([k \in 1..Len(s) |-> IF Hit(s, k) THEN <<s[k], ",">> ELSE <<s[k]>>])

\* Lines 169-171: brackets around the text, and then out with the comments, each up
\* to the end of its line.
Wrapped(s) == <<"(">> \o s \o <<")">>
InComment(s, k) == \E c \in 1..k : s[c] = ";" /\ \A j \in c..k : s[j] # "line"
Skipped(s, k) == InComment(s, k) \/ s[k] = "line"
Uncommented(s) == Erase(s, Skipped)

\* Lines 174-179: a comma after each atom, but not before a bracket that closes; then
\* between brackets, after brackets, and not at the end.
IsAtom(s, k) == s[k] \in Atom
BeforeClosing(s, k) == s[k] = "," /\ Following(s, k) = ")"
BetweenBrackets(s, k) == s[k] = ")" /\ Following(s, k) = "("
Mut_AfterBracket(s, k) == s[k] = ")" /\ Following(s, k) # ","
AfterBracket(s, k) == s[k] = ")" /\ Following(s, k) \notin {",", ")"}
AtEnd(s, k) == s[k] = "," /\ k = Len(s)

Smt2json(s) ==
  LET items == Erase(AddComma(Uncommented(Wrapped(s)), IsAtom), BeforeClosing)
  IN Erase(AddComma(AddComma(items, BetweenBrackets), AfterBracket), AtEnd)

\* json2smt of a list: its items, one after the other.
IsComma(j, k) == j[k] = ","
Json2smt(j) == Erase(SubSeq(j, 2, Len(j) - 1), IsComma)
-----------------------------------------------------------------------------
Balanced(s) ==
  LET Count(k, t) == Cardinality({i \in 1..k : s[i] = t}) IN
  /\ \A k \in 1..Len(s) : Count(k, ")") <= Count(k, "(")
  /\ Count(Len(s), ")") = Count(Len(s), "(")
Texts == {s \in UNION {[1..n -> Atom \cup {"(", ")", ";", "line"}] : n \in 0..MaxTokens} :
            Balanced(Uncommented(s))}

\* JSON as it is defined: commas between the items of a list, and only there.
BetweenItems(s, k) == s[k] \in Atom \cup {")"} /\ Following(s, k) \in Atom \cup {"("}
Json(s) == AddComma(Wrapped(s), BetweenItems)

\* The JSON of a text is that of its items, however the brackets, atoms and comments
\* follow each other, and leads back to the text without its comments.  A text that ends
\* in a comment is left out: the bracket that line 169 puts behind it becomes part of it.
\* Here are the exceptions.
Misconverted ==
  {s \in Texts : /\ s = <<>> \/ ~InComment(s, Len(s))
                 /\ \/ Smt2json(s) # Json(Uncommented(s))
                    \/ Json2smt(Smt2json(s)) # Uncommented(s)}
=============================================================================
