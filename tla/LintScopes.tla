------------------------------ MODULE LintScopes ------------------------------
(***************************************************************************)
(* What the style checker remembers from line to line: the function it is  *)
(* in and how long it is (_FunctionState), and the classes it is in        *)
(* (_ClassState). An operator Check... gives the next state and the errors *)
(* that the line causes, each with its category, confidence and line.      *)
(***************************************************************************)
EXTENDS LintText

CONSTANTS Macros,         \* words in capitals
          TestNames,      \* function names that begin with TEST or Test
          NormalTrigger,  \* lines of a function that are too many at level 0: 250
          TestTrigger     \* and of a test: 400

ASSUME TriggerAssumption == NormalTrigger \in Nat \ {0} /\ TestTrigger \in Nat \ {0}

Err(category, confidence, line) == [cat |-> category, conf |-> confidence, line |-> line]
If(condition, error) == IF condition THEN <<error>> ELSE <<>>

Directives == {"#include", "#ifndef", "#define", "#endif", "#else"}
Punctuation == {" ", "(", ")", "{", "}", "[", "]", ";", ":", "::", ",", "*", "&", "~", "=", "<",
                ">", ".", "->", "++", "--", Quote, "//", "/*", "*/"} \cup Directives
IsWord(t) == t \notin Punctuation

-------------------------------------------------------------------------------
(* Functions *)

NoFunction == [in |-> FALSE, count |-> 0, name |-> ""]

Begin(name) == [in |-> TRUE, count |-> 0, name |-> name]
Count(fn) == IF fn.in THEN [fn EXCEPT !.count = @ + 1] ELSE fn
\* The count and the name stay.
End(fn) == [fn EXCEPT !.in = FALSE]

PowerOf2(n) ==
  LET power[k \in 0..n] == IF k = 0 THEN 1 ELSE 2 * power[k - 1]
  IN power[n]
Log2(n) == Max({k \in 0..n : PowerOf2(k) <= n})

BaseTrigger(fn) == IF fn.name \in TestNames THEN TestTrigger ELSE NormalTrigger

\* Too many lines for this level of verbosity; the confidence grows with the length.
CheckLength(fn, line, verbose) ==
  LET base == BaseTrigger(fn)
  IN If(fn.count > base * PowerOf2(verbose),
        Err(<<"readability", "fn", "size">>, Min({5, Log2(fn.count \div base)}), line))

\* A head: names and * & :: up to a parenthesis, at the start of the line.
HeadEnd(line) == FirstAt(line, "(")
IsHead(line) ==
  LET k == HeadEnd(line)
  IN /\ k > 1 /\ IsWord(line[1])
     /\ \A j \in 2..(k - 1) : IsWord(line[j]) \/ line[j] \in {"::", "*", "&"}

\* A macro is not a function, unless it is TEST or TEST_F.
StartsFunction(line) ==
  LET k == HeadEnd(line)
  IN /\ IsHead(line)
     /\ \/ line[k - 1] \notin Macros \ TestNames
        \/ k > 2 /\ line[k - 2] = "::"

\* The name begins after the last word that another word follows.
FunctionName(line) ==
  LET k == HeadEnd(line)
  IN line[Min({j \in 1..(k - 1) : \A m \in j..(k - 2) : (line[m] = "::") # (line[m + 1] = "::")})]

\* The line where the head that begins on line i gets its body or its end; 0 for none.
BodyLine(lines, i) ==
  LET ends == {s \in i..Len(lines) : \E t \in {";", "}", "{"} : Has(lines[s], t)}
  IN IF ends = {} THEN 0 ELSE Min(ends)

CheckForFunctionLengths(clean, i, fn, verbose) ==
  LET line == clean.lines[i]
      body == BodyLine(clean.lines, i)
      trivial == Has(clean.lines[body], ";") \/ Has(clean.lines[body], "}")
  IN IF StartsFunction(line)
       THEN [fn |-> IF body = 0 \/ trivial THEN fn ELSE Begin(FunctionName(line)),
             errs |-> If(body = 0, Err(<<"readability", "fn", "size">>, 5, i))]
     ELSE IF RStrip(line) = <<"}">>
       THEN [fn |-> End(fn), errs |-> CheckLength(fn, i, verbose)]
     ELSE [fn |-> IF IsBlankLine(line) THEN fn ELSE Count(fn), errs |-> <<>>]

-------------------------------------------------------------------------------
(* Classes *)

\* The line where the braces of lines i to k are even for the first time; 0 for none.
LastLine(lines, i) ==
  LET even == {k \in i..Len(lines) : Balance(lines, i, k, "{") = 0}
  IN IF even = {} THEN 0 ELSE Min(even)

ClassInfo(name, lines, i) ==
  [name |-> name, line |-> i, last |-> LastLine(lines, i), opened |-> FALSE,
   derived |-> FALSE, virtual |-> 0, dtor |-> FALSE, depth |-> 0]

\* class or struct, macros, a name that may be qualified: what comes after the macros.
ClassWords(line) ==
  LET words == Tail(Strip(line))
      skips == {n \in 0..(Len(words) - 1) : /\ \A m \in 1..n : words[m] \in Macros
                                           /\ IsWord(words[n + 1])}
  IN IF skips = {} THEN <<>> ELSE SubSeq(words, Max(skips) + 1, Len(words))
DeclaresClass(line) ==
  /\ Strip(line) # <<>> /\ Strip(line)[1] \in {"class", "struct"}
  /\ ClassWords(line) # <<>>
\* The name without its qualifiers.
ClassName(line) ==
  LET words == ClassWords(line)
      qualified(j) == \A m \in 1..j : IF m % 2 = 1 THEN IsWord(words[m]) ELSE words[m] = "::"
  IN words[Max({j \in DOMAIN words : j % 2 = 1 /\ qualified(j)})]

\* A constructor of one argument, that is not a copy constructor, without explicit.
ImplicitConstructor(line, name) ==
  LET l == Strip(line)
      from == IF l # <<>> /\ l[1] = "inline" THEN 2 ELSE 1
      close == FirstAt(l, ")")
      args == SubSeq(l, from + 2, close - 1)
      const == IF args # <<>> /\ args[1] = "const" THEN 2 ELSE 1
  IN /\ Indent(line) > 0
     /\ Len(l) > from /\ l[from] = name /\ l[from + 1] = "("
     /\ close > from + 2 /\ ToSet(args) \cap {"(", ","} = {}
     /\ args # <<"void">>
     /\ ~StartsWith(SubSeq(args, const, Len(args)), <<name, "&">>)

\* Mistake: a forward declaration is kept.
NeverForward(line) == FALSE

\* A line with a semicolon declares a class and does not define one.
IsForward(line) == Has(line, ";")

\* The top class reads the line: its opening, then its members, then its end.
ReadsOpening(info, line) ==
  [info EXCEPT !.opened = @ \/ Has(line, "{"),
               !.derived = @ \/ (~info.opened /\ Has(line, ":"))]
ReadsMember(info, line, i) ==
  [info EXCEPT !.virtual = IF Has(line, "virtual") THEN i ELSE @,
               !.dtor = @ \/ (Has(line, "virtual") /\ Occurs(<<"~", info.name, "(">>, line)),
               !.depth = @ + TokenCount(line, "{") - TokenCount(line, "}")]

NeedsVirtualDestructor(info) == info.virtual # 0 /\ ~info.dtor /\ ~info.derived

\* The part of CheckForNonStandardConstructs that keeps state.
CheckForNonStandardConstructs(clean, i, classes) ==
  LET line == clean.elided[i]
      entered == IF DeclaresClass(line)
                   THEN Append(classes, ClassInfo(ClassName(line), clean.lines, i))
                   ELSE classes
      top == Last(entered)
      opening == ReadsOpening(top, line)
      member == ReadsMember(opening, line, i)
      ctor == If(ImplicitConstructor(line, top.name), Err(<<"runtime", "explicit">>, 5, i))
  IN IF entered = <<>> THEN [classes |-> <<>>, errs |-> <<>>]
     ELSE IF ~top.opened /\ IsForward(line) THEN [classes |-> Front(entered), errs |-> <<>>]
     ELSE IF ~opening.opened THEN [classes |-> Append(Front(entered), opening), errs |-> <<>>]
     ELSE IF member.depth <= 0
       THEN [classes |-> Front(entered),
             errs |-> ctor \o If(NeedsVirtualDestructor(member),
                                 Err(<<"runtime", "virtual">>, 4, top.line))]
     ELSE [classes |-> Append(Front(entered), member), errs |-> ctor]

\* All lines were read.
CheckFinished(classes) ==
  If(classes # <<>>, Err(<<"build", "class">>, 5, classes[1].line))

\* public:, protected: or private: in a class of more than SmallClass lines, after a line
\* that is neither blank nor the head of a class.
SectionKeywords == {"public", "protected", "private"}
CheckSectionSpacing(clean, i, info, smallClass) ==
  LET line == Strip(clean.lines[i])
      prev == clean.lines[i - 1]
      heads == {k \in info.line..(i - 1) : EndsWith(Strip(clean.lines[k]), "{")}
      headEnd == IF heads = {} THEN info.line ELSE Min(heads)
  IN If(/\ info.last - info.line >= smallClass /\ i > info.line
        /\ Len(line) >= 2 /\ line[1] \in SectionKeywords /\ line[2] = ":"
        /\ ~IsBlankLine(prev) /\ ~Has(prev, "class") /\ ~Has(prev, "struct")
        /\ headEnd < i - 1,
        Err(<<"whitespace", "blank", "line">>, 3, i))
=============================================================================
