---------------------------- MODULE ConditionSyntax ----------------------------
(***************************************************************************)
(* The scan that limits how deep a simple condition nests, before a        *)
(* recursive parser is given its text.  The scan knows parentheses,        *)
(* quotes and operators, not the grammar; here it reads every text of its  *)
(* alphabet, character by character, beside the grammar.                   *)
(***************************************************************************)
EXTENDS Integers, Sequences, FiniteSets, SequencesExt

CONSTANTS
  Alphabet,    (* "(", ")", "!", "=" and "&" for the operators, "'", "v"     *)
  Limit,       (* the deepest nesting that is accepted                       *)
  MaxLength    (* bound of this model: the longest text                      *)

ASSUME LimitAssumption == Limit \in Nat /\ MaxLength \in Nat

VARIABLES
  text,
  frames,      (* unary operators at work, per open group, the innermost last *)
  depth,       (* groups and unary operators that are open                    *)
  quoted,
  refused      (* where the nesting went too deep; 0 while it has not         *)

syntaxVars == <<text, frames, depth, quoted, refused>>

SyntaxInit == text = <<>> /\ frames = <<0>> /\ depth = 0 /\ quoted = FALSE /\ refused = 0

(***************************************************************************)
(* The scan                                                                *)
(***************************************************************************)
Operators == {"=", "&"}
Plain == Alphabet \ ({"(", ")", "!", "'"} \cup Operators)

Unchanged == UNCHANGED <<frames, depth, refused>>
TooDeep == refused' = Len(text') /\ UNCHANGED <<frames, depth>>

Quote == quoted' = ~quoted /\ Unchanged

Open ==
  IF depth + 1 > Limit THEN TooDeep
  ELSE depth' = depth + 1 /\ frames' = Append(frames, 0) /\ UNCHANGED refused

Negate ==
  IF depth + 1 > Limit THEN TooDeep
  ELSE /\ depth' = depth + 1
       /\ frames' = [frames EXCEPT ![Len(frames)] = @ + 1]
       /\ UNCHANGED refused

\* The operand of every unary operator at work ends.
EndOperand ==
  /\ depth' = depth - Last(frames)
  /\ frames' = [frames EXCEPT ![Len(frames)] = 0]
  /\ UNCHANGED refused

\* A group takes the operators at work in it along; one that was not open ends
\* an operand, and is left to the parser.
Close ==
  IF Len(frames) > 1
  THEN depth' = depth - (Last(frames) + 1) /\ frames' = Front(frames) /\ UNCHANGED refused
  ELSE EndOperand

\* The rest of a text that is refused is not read.
Skip(c) ==
  /\ refused # 0 /\ Len(text) < MaxLength
  /\ text' = Append(text, c)
  /\ UNCHANGED <<frames, depth, quoted, refused>>

\* One more character.  Two quotes within quotes are one, and change nothing.
Scan(c) ==
  /\ refused = 0 /\ Len(text) < MaxLength
  /\ text' = Append(text, c)
  /\ IF c = "'" THEN Quote
     ELSE /\ UNCHANGED quoted
          /\ \/ (quoted \/ c \in Plain) /\ Unchanged
             \/ ~quoted /\ c = "(" /\ Open
             \/ ~quoted /\ c = "!" /\ Negate
             \/ ~quoted /\ c = ")" /\ Close
             \/ ~quoted /\ c \in Operators /\ EndOperand

SyntaxNext == \E c \in Alphabet : Scan(c) \/ Skip(c)
SyntaxSpec == SyntaxInit /\ [][SyntaxNext]_syntaxVars

(***************************************************************************)
(* The grammar: where a rule that starts at a place ends, 0 if it fails,   *)
(* and how deep the parser that tries it is at its deepest                 *)
(***************************************************************************)
SyntaxAt(i) == IF i \in DOMAIN text THEN text[i] ELSE "end"
Fail == [ends |-> 0, deep |-> 0]
Higher(a, b) == IF a > b THEN a ELSE b
SyntaxBelow(r) == [r EXCEPT !.deep = @ + 1]
With(r, deep) == [r EXCEPT !.deep = Higher(r.deep, deep)]

RECURSIVE SyntaxOrExpr(_), SyntaxOperands(_, _), Unary(_), Comparison(_), Primary(_), SyntaxText(_)

\* What follows the opening quote of a text.
SyntaxText(i) ==
  CASE i > Len(text) -> Fail
    [] SyntaxAt(i) = "'" /\ SyntaxAt(i + 1) = "'" -> SyntaxText(i + 2)
    [] SyntaxAt(i) = "'" /\ SyntaxAt(i + 1) # "'" -> [ends |-> i + 1, deep |-> 0]
    [] OTHER -> SyntaxText(i + 1)

Primary(i) ==
  CASE SyntaxAt(i) = "v" -> [ends |-> i + 1, deep |-> 0]
    [] SyntaxAt(i) = "'" -> SyntaxText(i + 1)
    [] SyntaxAt(i) = "(" -> LET inner == SyntaxBelow(SyntaxOrExpr(i + 1))
                      IN  IF inner.ends # 0 /\ SyntaxAt(inner.ends) = ")" THEN [inner EXCEPT !.ends = @ + 1]
                                                                    ELSE [inner EXCEPT !.ends = 0]
    [] OTHER -> Fail

Comparison(i) ==
  LET left == Primary(i)
  IN  IF left.ends = 0 \/ SyntaxAt(left.ends) # "=" THEN left
      ELSE LET right == Primary(left.ends + 1)
           IN  IF right.ends = 0 THEN With(left, right.deep) ELSE With(right, left.deep)

Unary(i) == IF SyntaxAt(i) = "!" THEN SyntaxBelow(Primary(i + 1)) ELSE Comparison(i)

\* Operands joined by operators, as many as there are.
SyntaxOperands(sofar, i) ==
  IF SyntaxAt(i) # "&" THEN sofar
  ELSE LET more == Unary(i + 1)
       IN  IF more.ends = 0 THEN With(sofar, more.deep) ELSE SyntaxOperands(With(more, sofar.deep), more.ends)

SyntaxOrExpr(i) == LET first == Unary(i) IN IF first.ends = 0 THEN first ELSE SyntaxOperands(first, first.ends)

SyntaxParsed == SyntaxOrExpr(1)
Condition == SyntaxParsed.ends = Len(text) + 1

(***************************************************************************)
(* Properties                                                              *)
(***************************************************************************)
\* The depth is a count of what is open, at any text at all: it never goes
\* below zero, where the code's unsigned count would wrap, nor over the limit.
ScanTypeOK ==
  /\ text \in Seq(Alphabet) /\ frames # <<>> /\ quoted \in BOOLEAN
  /\ depth \in 0..Limit
  /\ depth = Len(frames) - 1 + FoldLeft(+, 0, frames)
  /\ refused \in 0..Len(text)

\* A text the scan lets through never takes the parser deeper than the limit,
\* whether it is a condition or not (check_nesting, parse_simple_condition).
ParserStaysWithin == refused = 0 => SyntaxParsed.deep <= Limit

\* A condition is only refused for its nesting: operands side by side and what
\* is within quotes do not count.
OnlyNestingCounts == Condition => (refused # 0 <=> SyntaxParsed.deep > Limit)

\* The scan and the recursive parser agree on every text, a condition or not, about
\* what nests too deep (check_nesting, parse_simple_condition).
NestingIsLimited == ScanTypeOK /\ ParserStaysWithin /\ OnlyNestingCounts
=================================================================================
