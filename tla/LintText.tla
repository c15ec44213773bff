------------------------------- MODULE LintText -------------------------------
(***************************************************************************)
(* What the style checker (cpplint.py, run by `make check') does to the    *)
(* text of a file before and while it looks for errors: comments and       *)
(* strings are blanked, braces and parentheses are counted.                *)
(*                                                                         *)
(* A line is a sequence of tokens: words, the punctuation the checker      *)
(* counts, and one " " for each blank at its start or its end; blanks      *)
(* between tokens are not represented. Line i of a file is its element i,  *)
(* as in the checker, which puts a marker line in front of the file.       *)
(***************************************************************************)
EXTENDS Integers, Sequences, FiniteSets, SequencesExt, FiniteSetsExt

Quote == "\""

Dummy == <<"//", "dummy">>
EndMarker == <<"//", "marker">>

TokenCount(line, t) == Cardinality({i \in DOMAIN line : line[i] = t})
Has(line, t) == t \in ToSet(line)
Strip(line) == SelectSeq(line, LAMBDA t : t # " ")

\* The numbers of a set in ascending order.
Ascending(S) == [k \in 1..Cardinality(S) |-> CHOOSE x \in S : Cardinality({y \in S : y <= x}) = k]
\* The tokens of a line at these places.
Pick(line, S) ==
  LET places == Ascending(S) IN [k \in DOMAIN places |-> line[places[k]]]

\* Where these tokens are one after the other.
Places(tokens, line) ==
  {k \in 1..(Len(line) - Len(tokens) + 1) : SubSeq(line, k, k + Len(tokens) - 1) = tokens}
Occurs(tokens, line) == Places(tokens, line) # {}
FirstPlace(tokens, line) == Min(Places(tokens, line))

\* The first and the last place of a token, 0 when it is not there.
FirstAt(line, t) == SelectInSeq(line, LAMBDA u : u = t)
LastAt(line, t) == SelectLastInSeq(line, LAMBDA u : u = t)

Indent(line) ==
  CHOOSE n \in 0..Len(line) : /\ \A i \in 1..n : line[i] = " "
                              /\ n < Len(line) => line[n + 1] # " "
RStrip(line) ==
  LET n == Max({0} \cup {i \in DOMAIN line : line[i] # " "})
  IN SubSeq(line, 1, n)

StartsWith(line, prefix) == IsPrefix(prefix, line)
EndsWith(line, t) == line # <<>> /\ Last(line) = t

IsBlankLine(line) == Strip(line) = <<>>

-------------------------------------------------------------------------------
(* Comments over several lines *)

\* A line that begins with a comment which goes beyond the line.
IsMultiLineCommentStart(lines, i) ==
  /\ StartsWith(Strip(lines[i]), <<"/*">>)
  /\ ~Has(Strip(lines[i]), "*/")

\* Only a line that ends with the end of a comment is taken for its end.
IsMultiLineCommentEnd(lines, i) == EndsWith(Strip(lines[i]), "*/")

\* Where the comment begins that goes on after line i, 0 if none does.
CommentAfter(lines) ==
  LET after[i \in 0..Len(lines)] ==
        IF i = 0 THEN 0
        ELSE LET begin == after[i - 1]
             IN IF IsMultiLineCommentEnd(lines, i) THEN 0
                ELSE IF begin = 0 /\ IsMultiLineCommentStart(lines, i) THEN i
                ELSE begin
  IN after

\* The lines without the comments, and the line of a comment that does not end, or 0: its
\* lines stay.
RemoveMultiLineComments(lines) ==
  LET after == CommentAfter(lines)
      open == after[Len(lines)]
      removed(i) == \E begin \in {after[i - 1], after[i]} : begin \notin {0, open}
  IN [lines |-> [i \in DOMAIN lines |-> IF removed(i) THEN Dummy ELSE lines[i]], open |-> open]

-------------------------------------------------------------------------------
(* Comments and strings in one line *)

\* Is the token after these ones inside of a string?
IsCppString(line) == TokenCount(line, Quote) % 2 = 1

\* The pattern of a comment is greedy: it ends with the last end on the line.
DropComment(line) ==
  LET a == FirstAt(line, "/*")
      b == LastAt(line, "*/")
      rest == SubSeq(line, 1, a - 1) \o SubSeq(line, b + 1, Len(line))
  IN IF a = 0 \/ b < a THEN line ELSE IF b = Len(line) THEN RStrip(rest) ELSE rest

CleanseComments(line) ==
  LET c == FirstAt(line, "//")
      before == SubSeq(line, 1, c - 1)
  IN DropComment(IF c # 0 /\ ~IsCppString(before) THEN RStrip(before) ELSE line)

\* #include <path> or #include "path"
IsInclude(line) ==
  LET l == Strip(line)
  IN /\ line # <<>> /\ Len(l) >= 4
     /\ l[1] = "#include" /\ l[2] \in {"<", Quote} /\ l[4] \in {">", Quote}
IncludedPath(line) == Strip(line)[3]
IsSystemInclude(line) == Strip(line)[2] = "<"

\* The text between two quotes is dropped, except on #include lines.
CollapseStrings(line) ==
  LET before(i) == Cardinality({j \in 1..(i - 1) : line[j] = Quote})
      inside(i) == /\ line[i] # Quote /\ before(i) % 2 = 1
                   /\ \E j \in (i + 1)..Len(line) : line[j] = Quote
  IN IF IsInclude(line) THEN line ELSE Pick(line, {i \in DOMAIN line : ~inside(i)})

\* The three views of a file: as it is, without comments, without comments and strings.
CleansedLines(lines) ==
  [raw |-> lines,
   lines |-> [i \in DOMAIN lines |-> CleanseComments(lines[i])],
   elided |-> [i \in DOMAIN lines |-> CleanseComments(CollapseStrings(lines[i]))]]

\* The line of the last line before i that is not blank; 0 when there is none.
GetPreviousNonBlankLine(elided, i) ==
  Max({0} \cup {k \in 1..(i - 1) : ~IsBlankLine(elided[k])})
PreviousNonBlank(elided, i) ==
  LET k == GetPreviousNonBlankLine(elided, i) IN IF k = 0 THEN <<>> ELSE elided[k]

-------------------------------------------------------------------------------
(* Brackets *)

Closing == [t \in {"(", "[", "{"} |-> CASE t = "(" -> ")" [] t = "[" -> "]" [] t = "{" -> "}"]

\* What is open after lines i to k, beginning with none.
Balance(lines, i, k, open) ==
  LET text == FlattenSeq(SubSeq(lines, i, k))
  IN TokenCount(text, open) - TokenCount(text, Closing[open])

\* The n-th place of a token from the right, 0 when there are not so many.
NthLastAt(line, t, n) ==
  LET places == Ascending({i \in DOMAIN line : line[i] = t})
  IN IF n \in DOMAIN places THEN places[Len(places) + 1 - n] ELSE 0

NeverCloses == [line |-> 0, past |-> 0]

\* Mistake: only this line is looked at.
CloseExpressionHere(elided, i, pos) ==
  LET open == elided[i][pos]
      n == Balance(elided, i, i, open) + 1
  IN IF n > 1 THEN NeverCloses
     ELSE [line |-> i, past |-> IF n <= 0 THEN Len(elided[i]) + 2 ELSE NthLastAt(elided[i], ")", n) + 1]

\* Lines are added until what they open is closed; then the place is looked for from the
\* right, and it is that of a ")" whatever was opened. When nothing closes the bracket,
\* the loop reads past the last line (IndexError): NeverCloses.
CloseExpression(elided, i, pos) ==
  LET open == elided[i][pos]
      even == {k \in i..Len(elided) : Balance(elided, i, k, open) <= 0}
      k == Min(even)
      n == Balance(elided, i, k, open) + 1
  IN IF even = {} THEN NeverCloses
     ELSE [line |-> k,
           past |-> IF n <= 0 THEN Len(elided[k]) + 2 ELSE NthLastAt(elided[k], ")", n) + 1]

\* From place from on, brackets are pushed and the one on top is popped where it is closed,
\* until the first is; when another closing one comes, none is.
InsideStep(line, from, s, at) ==
  IF at < from \/ s.stack = <<>> THEN s
  ELSE IF line[at] = Last(s.stack) THEN [stack |-> Front(s.stack), close |-> at]
  ELSE IF line[at] \in Range(Closing) THEN [stack |-> <<>>, close |-> 0]
  ELSE IF line[at] \in DOMAIN Closing THEN [s EXCEPT !.stack = Append(@, Closing[line[at]])]
  ELSE s
\* The text inside of the bracket at place from - 1.
GetTextInside(line, from) ==
  LET end == FoldLeftDomain(LAMBDA s, at : InsideStep(line, from, s, at),
                            [stack |-> <<Closing[line[from - 1]]>>, close |-> 0], line)
  IN IF end.stack # <<>> \/ end.close = 0 THEN <<>> ELSE SubSeq(line, from, end.close - 1)
=============================================================================
