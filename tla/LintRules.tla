------------------------------- MODULE LintRules -------------------------------
(***************************************************************************)
(* The rules of the style checker that remember nothing: those that look   *)
(* at a line and its neighbours, and those that look at the file as a      *)
(* whole. Left out are the rules about the blanks inside of a line and the *)
(* length of a line, and the patterns for a CHECK that could be replaced,  *)
(* for arrays of variable length, memset, references and strings.          *)
(***************************************************************************)
EXTENDS LintIncludes

CONSTANTS GuardOf,     \* the name of a header's guard: [flat path in the repository -> token]
          OldGuardOf,  \* the same with another _, which is allowed
          Wordings     \* errors that one token sets off: [token -> [cat, conf]]

\* A word sets off no error about the order of includes or the length of a function.
ASSUME WordingsAssumption ==
  \A t \in DOMAIN Wordings :
    /\ Wordings[t].cat \in Seq(STRING) /\ Wordings[t].conf \in 0..5
    /\ Wordings[t].cat \notin {<<"build", "include", "order">>, <<"build", "include", "alpha">>,
                               <<"readability", "fn", "size">>}

ErrIf(condition, category, confidence, i) ==
  If(condition, Err(category, confidence, i))

-------------------------------------------------------------------------------
(* The file as a whole *)

\* In one of the first ten lines.
CheckForCopyright(lines) ==
  If(\A i \in 1..Min({Len(lines), 10}) : ~Has(lines[i], "Copyright"),
     Err(<<"legal", "copyright">>, 5, 0))

\* The lines of the first #ifndef and #define with a name, and of the last #endif.
FirstDirective(lines, d) ==
  Min({Len(lines) + 1} \cup {i \in DOMAIN lines : /\ Len(Strip(lines[i])) >= 2
                                                  /\ Strip(lines[i])[1] = d})
LastEndif(lines) == Max({0} \cup {i \in DOMAIN lines : StartsWith(lines[i], <<"#endif">>)})

\* The lines whose NOLINT is read for the guard, and the errors.
CheckForHeaderGuard(file, lines) ==
  LET path == Flat(RepositoryName(file))
      ifndef == FirstDirective(lines, "#ifndef")
      define == FirstDirective(lines, "#define")
      endif == LastEndif(lines)
      name == Strip(lines[ifndef])[2]
      guard(confidence, i) == Err(<<"build", "header", "guard">>, confidence, i)
      endifSays(n) == endif # 0 /\ RStrip(lines[endif]) = <<"#endif", "//", n>>
      wrongIfndef == name # GuardOf[path]
      unlike == Strip(lines[define])[2] # name
      wrongEndif == ~unlike /\ ~endifSays(GuardOf[path])
  IN IF ifndef > Len(lines) \/ define > Len(lines)
       THEN [reads |-> {}, errs |-> <<guard(5, 0)>>]
       ELSE [reads |-> (IF wrongIfndef THEN {ifndef} ELSE {})
                       \cup (IF wrongEndif THEN {endif} \ {0} ELSE {}),
             errs |-> If(wrongIfndef, guard(IF name = OldGuardOf[path] THEN 0 ELSE 5, ifndef))
                      \o If(unlike, guard(5, 0))
                      \o If(wrongEndif, guard(IF endifSays(OldGuardOf[path]) THEN 0 ELSE 5, endif))]

\* In every line with a character that could not be decoded.
CheckForUnicodeReplacementCharacters(lines) ==
  LET bad == Ascending({i \in DOMAIN lines : Has(lines[i], "U+FFFD")})
  IN [k \in DOMAIN bad |-> Err(<<"readability", "utf8">>, 5, bad[k])]

\* The last line before the marker is empty when the file ends with a newline.
CheckForNewlineAtEOF(lines) ==
  If(lines[Len(lines) - 1] # <<>>, Err(<<"whitespace", "ending", "newline">>, 5, Len(lines) - 1))

-------------------------------------------------------------------------------
(* Braces *)

\* A line that is a table, indented, with its semicolon.
IsTable(line) ==
  /\ Indent(line) > 0 /\ StartsWith(Strip(line), <<"{">>) /\ Occurs(<<"}", ";">>, line)

\* A table is read with the line before it, if that has no semicolon.
JoinsTable(elided, t) == IsTable(t.line) /\ ~Has(PreviousNonBlank(elided, t.from), ";")

\* The line with the lines before it, as long as they are joined. Before the first line of the
\* file comes an empty line, again and again.
JoinTable(elided, i) ==
  LET join[n \in 0..i] ==
        IF n = 0 THEN [line |-> elided[i], from |-> i]
        ELSE LET t == join[n - 1]
             IN IF JoinsTable(elided, t)
                  THEN [line |-> PreviousNonBlank(elided, t.from) \o t.line,
                        from |-> GetPreviousNonBlankLine(elided, t.from)]
                  ELSE t
  IN [ends |-> ~JoinsTable(elided, join[i]), line |-> join[i].line]

\* Tokens after the first place where these are found.
After(tokens, line) ==
  LET at == FirstPlace(tokens, line) IN SubSeq(line, at + Len(tokens), Len(line))

\* An else with a brace on one side only, on this line.
HalfBracedElse(line) ==
  \/ Occurs(<<"}", "else">>, line) /\ ~Has(After(<<"}", "else">>, line), "{")
  \/ /\ Occurs(<<"else", "{">>, line)
     /\ ~Has(SubSeq(line, 1, FirstPlace(<<"else", "{">>, line)), "}")
\* The if of an else may go on after this line.
OpenElseIf(line) ==
  Occurs(<<"}", "else", "if">>, line) /\ ~Has(After(<<"}", "else", "if">>, line), "{")
ConditionAt(line) ==
  LET from == FirstPlace(<<"else", "if">>, line)
  IN SelectInSubSeq(line, from, Len(line), LAMBDA t : t = "(")

\* Where the condition of the open else if ends; NeverCloses when it does not.
ElseIfEnd(elided, i) == CloseExpression(elided, i, ConditionAt(elided[i]))

\* The errors, and what becomes of the checker: it may end with an exception, or never.
CheckBraces(elided, i) ==
  LET line == elided[i]
      l == Strip(line)
      prev == Strip(PreviousNonBlank(elided, i))
      asksIf == HalfBracedElse(line) /\ OpenElseIf(line) /\ ConditionAt(line) # 0
      end == ElseIfEnd(elided, i)
      rest == SubSeq(elided[end.line], end.past, Len(elided[end.line]))
      joined == JoinTable(elided, i)
      first == ErrIf(l = <<"{">> /\ (prev = <<>> \/ Last(prev) \notin {";", ":", "{", "}"}),
                     <<"whitespace", "braces">>, 4, i)
               \o ErrIf(StartsWith(l, <<"else">>) /\ prev = <<"}">>, <<"whitespace", "newline">>, 4, i)
      second == ErrIf(HalfBracedElse(line) /\ IF OpenElseIf(line) THEN asksIf /\ ~Has(rest, "{") ELSE TRUE,
                      <<"readability", "braces">>, 5, i)
                \o ErrIf(/\ \E k \in 1..(Len(l) - 1) : l[k] = "else" /\ l[k + 1] # "{"
                         /\ ~Occurs(<<"else", "if">>, l),
                         <<"whitespace", "newline">>, 4, i)
                \o ErrIf(Len(l) > 1 /\ l[1] = "do" /\ l[2] # "{", <<"whitespace", "newline">>, 4, i)
      table == joined.line
      third == ErrIf(/\ Has(table, "{") /\ Occurs(<<"}", ";">>, After(<<"{">>, table))
                     /\ TokenCount(table, "{") = TokenCount(table, "}")
                     /\ ToSet(table) \cap {"struct", "class", "enum"} = {}
                     /\ ~Occurs(<<"=", "{">>, Strip(table)),
                     <<"readability", "braces">>, 4, i)
  IN IF asksIf /\ end = NeverCloses THEN [fate |-> "crashed", errs |-> first]
     ELSE IF ~joined.ends THEN [fate |-> "hung", errs |-> first \o second]
     ELSE [fate |-> "ok", errs |-> first \o second \o third]

-------------------------------------------------------------------------------
(* Lines and their neighbours *)

\* The last line of the parameters of a function, four blanks in: its parenthesis closes.
EndsParameters(line) ==
  LET c == FirstAt(line, ")")
      tail == SubSeq(line, c + 1, Len(line))
      rest == IF StartsWith(tail, <<"const">>) THEN Tail(tail) ELSE tail
  IN /\ Indent(line) = 4 /\ c > 5 /\ IsWord(line[5]) /\ ~Has(SubSeq(line, 1, c), "(")
     /\ RStrip(rest) = <<"{">> \/ StartsWith(rest, <<":">>)

\* Six blanks and a word: it may be one of a list of initializers.
IsInitializer(line) == Indent(line) = 6 /\ Len(line) > 6 /\ IsWord(line[7])
FollowsInitializers(elided, i) ==
  LET k == Max({0} \cup {j \in 1..(i - 1) : ~IsInitializer(elided[j])})
  IN k # 0 /\ Indent(elided[k]) = 4 /\ Len(elided[k]) > 4 /\ elided[k][5] = ":"

\* Blank lines at the start and the end of a block, and after a section's keyword.
CheckSpacing(clean, i) ==
  LET prev == IF i = 1 THEN <<>> ELSE clean.elided[i - 1]
      brace == LastAt(prev, "{")
      exception == IF IsInitializer(prev) THEN FollowsInitializers(clean.elided, i - 1)
                   ELSE EndsParameters(prev) \/ (Indent(prev) = 4 /\ Len(prev) > 4 /\ prev[5] = ":")
      next == clean.raw[i + 1]
  IN IF ~IsBlankLine(clean.raw[i]) THEN <<>>
     ELSE ErrIf(/\ brace # 0 /\ ~Has(SubSeq(prev, brace, Len(prev)), "}")
                /\ ~Has(SubSeq(prev, 1, brace), "namespace") /\ ~exception,
                <<"whitespace", "blank", "line">>, 2, i)
          \o ErrIf(/\ i < Len(clean.raw) /\ StartsWith(Strip(next), <<"}">>)
                   /\ ~Has(next, "namespace")
                   /\ \A k \in Places(<<"}", "else">>, next) : k + 1 = Len(next),
                   <<"whitespace", "blank", "line">>, 3, i)
          \o ErrIf(/\ Len(Strip(prev)) > 1 /\ Strip(prev)[1] \in SectionKeywords
                   /\ Strip(prev)[2] = ":",
                   <<"whitespace", "blank", "line">>, 3, i)

\* Comments and strings that go on in the next line.
CheckForMultilineCommentsAndStrings(clean, i) ==
  LET line == clean.elided[i]
  IN ErrIf(TokenCount(line, "/*") > TokenCount(line, "*/"),
           <<"readability", "multiline", "comment">>, 5, i)
     \o ErrIf(TokenCount(line, Quote) % 2 = 1, <<"readability", "multiline", "string">>, 5, i)

\* Several commands on one line, but for a head of for and a short case.
SeveralCommands(elided, i) ==
  LET line == elided[i]
      prev == PreviousNonBlank(elided, i)
  IN /\ TokenCount(line, ";") > 1 /\ ~Has(line, "for")
     /\ ~Has(prev, "for") \/ Has(prev, ";")
     /\ ~(/\ Has(line, "case") \/ Occurs(<<"default", ":">>, line)
          /\ Occurs(<<"break", ";">>, line))

\* Tabs, blanks at the end, one or three blanks at the start, labels; then the braces, the
\* blank lines and the sections of the class the line is in.
CheckStyle(clean, i, classes, smallClass) ==
  LET line == clean.raw[i]
      shape == Strip(clean.elided[i])
      label == Len(shape) = 2 /\ IsWord(shape[1]) /\ shape[2] = ":"
      indent == IF EndsWith(line, " ") THEN <<Err(<<"whitespace", "end", "of", "line">>, 4, i)>>
                ELSE IF Indent(line) \in {1, 3} /\ ~label
                  THEN <<Err(<<"whitespace", "indent">>, 3, i)>>
                ELSE ErrIf(/\ Indent(line) = 0 /\ ~StartsWith(line, <<"//">>)
                           /\ Len(line) > 1 /\ EndsWith(line, ":"),
                           <<"whitespace", "labels">>, 4, i)
      before == ErrIf(Has(line, "\t"), <<"whitespace", "tab">>, 1, i) \o indent
                \o ErrIf(SeveralCommands(clean.elided, i), <<"whitespace", "newline">>, 4, i)
      braces == CheckBraces(clean.elided, i)
  IN [fate |-> braces.fate,
      errs |-> before \o braces.errs
               \o (IF braces.fate # "ok" THEN <<>> ELSE CheckSpacing(clean, i))
               \o (IF braces.fate # "ok" \/ classes = <<>> THEN <<>>
                   ELSE CheckSectionSpacing(clean, i, Last(classes), smallClass))]

-------------------------------------------------------------------------------
(* The language *)

BasicTypes == {"int", "float", "double", "bool", "char", "int16", "int32", "int64"}

\* (type) before something that is no function: a cast; after sizeof, or before the end of a
\* declaration, it is not.
CheckCStyleCast(line, raw, types, stars, i) ==
  LET found == {k \in 1..(Len(line) - 2 - Len(stars)) :
                  /\ line[k] = "(" /\ line[k + 1] \in types
                  /\ SubSeq(line, k + 2, k + 2 + Len(stars)) = Append(stars, ")")}
      k == Min(found)
      rest == SubSeq(line, k + 3 + Len(stars), Len(line))
      tail == IF StartsWith(rest, <<"const">>) THEN Tail(rest) ELSE rest
      declares == \/ StartsWith(rest, <<")">>) \/ StartsWith(rest, <<"=">>)
                  \/ \E t \in {";", "{", ">"} : StartsWith(tail, <<t>>)
      named == Has(raw, "/*") /\ \E t \in {"{", ">"} : StartsWith(tail, <<t>>)
  IN IF found = {} THEN <<>>
     ELSE IF k > 1 /\ line[k - 1] = "sizeof" THEN <<Err(<<"runtime", "sizeof">>, 1, i)>>
     ELSE IF declares THEN If(~named, Err(<<"readability", "function">>, 3, i))
     ELSE <<Err(<<"readability", "casting">>, 4, i)>>

DisallowMacros == {"DISALLOW_COPY_AND_ASSIGN", "DISALLOW_EVIL_CONSTRUCTORS",
                   "DISALLOW_IMPLICIT_CONSTRUCTORS"}

\* printf with one argument that is not a string.
FormatBug(line) ==
  LET at == FirstPlace(<<"printf", "(">>, line)
      args == GetTextInside(line, at + 2)
  IN /\ Occurs(<<"printf", "(">>, line) /\ args # <<>>
     /\ \A k \in DOMAIN args : IsWord(args[k]) \/ args[k] \in {".", "->", "(", ")"}

\* Casts in the style of C, of basic types and of pointers.
CastErrors(clean, i) ==
  LET line == clean.elided[i]
  IN CheckCStyleCast(line, clean.raw[i], BasicTypes, <<>>, i)
     \o CheckCStyleCast(line, clean.raw[i], {t \in ToSet(line) : IsWord(t)}, <<"*">>, i)

\* Types and functions that are not to be used.
WordErrors(file, line, i) ==
  LET words == Pick(line, {k \in DOMAIN line : line[k] \in DOMAIN Wordings})
  IN ErrIf(Has(line, "dynamic_cast") /\ ~IsTestFilename(file), <<"runtime", "rtti">>, 5, i)
     \o [k \in DOMAIN words |-> Err(Wordings[words[k]].cat, Wordings[words[k]].conf, i)]

\* An if after a brace, formats, and using.
UsageErrors(line, i) ==
  ErrIf(Occurs(<<"}", "if", "(">>, line), <<"readability", "braces">>, 4, i)
  \o ErrIf(FormatBug(line), <<"runtime", "printf">>, 4, i)
  \o ErrIf(Occurs(<<"using", "namespace">>, line), <<"build", "namespaces">>, 5, i)

\* The macros that end a class, and namespaces without a name in a header.
PlacementErrors(file, elided, i) ==
  LET line == elided[i]
      next == elided[i + 1]
  IN ErrIf(/\ i < Len(elided) /\ Strip(line) # <<>> /\ Strip(line)[1] \in DisallowMacros
           /\ EndsWith(line, ";")
           /\ ~(StartsWith(Strip(next), <<"}">>) /\ Has(next, ";")),
           <<"readability", "constructors">>, 3, i)
     \o ErrIf(file.ext = "h" /\ Occurs(<<"namespace", "{">>, line) /\ Last(line) # "\\",
              <<"build", "namespaces">>, 4, i)

CheckLanguage(file, clean, i, inc) ==
  IF clean.elided[i] = <<>> THEN [inc |-> inc, errs |-> <<>>]
  ELSE IF IsInclude(clean.elided[i]) THEN CheckIncludeLine(file, clean, i, inc)
  ELSE [inc |-> inc,
        errs |-> CastErrors(clean, i) \o WordErrors(file, clean.elided[i], i)
                 \o UsageErrors(clean.elided[i], i) \o PlacementErrors(file, clean.elided, i)]

TypeWords == {"const", "volatile", "void", "char", "short", "int", "long", "float", "double",
              "signed", "unsigned", "int64", "uint64"}
StorageWords == {"auto", "register", "static", "extern", "typedef"}

\* The part of CheckForNonStandardConstructs that looks at one line.
CheckForNonStandardLine(clean, i) ==
  LET line == clean.elided[i]
      l == Strip(line)
  IN ErrIf(\E k \in 1..(Len(line) - 1) : line[k] \in TypeWords /\ line[k + 1] \in StorageWords,
           <<"build", "storage", "class">>, 5, i)
     \o ErrIf(Len(l) > 1 /\ l[1] = "#endif" /\ l[2] # "//", <<"build", "endif", "comment">>, 5, i)
     \o ErrIf(Len(l) > 4 /\ l[1] = "class" /\ l[3] = "::" /\ Last(l) = ";"
              /\ \A k \in 2..(Len(l) - 1) : IF k % 2 = 0 THEN IsWord(l[k]) ELSE l[k] = "::",
              <<"build", "forward", "decl">>, 5, i)

ThreadUnsafe == {"asctime", "ctime", "getgrgid", "getgrnam", "getlogin", "getpwnam", "getpwuid",
                 "gmtime", "localtime", "rand", "readdir", "strtok", "ttyname"}

\* The first call of each of these functions, if it is not a member.
CheckPosixThreading(clean, i) ==
  LET line == clean.elided[i]
      calls(f) == {k \in 1..(Len(line) - 1) : line[k] = f /\ line[k + 1] = "("}
      found == {f \in ThreadUnsafe : /\ calls(f) # {}
                                     /\ LET k == Min(calls(f))
                                        IN k = 1 \/ line[k - 1] \notin {".", "->"}}
  IN [k \in 1..Cardinality(found) |-> Err(<<"runtime", "threadsafe", "fn">>, 2, i)]

CheckInvalidIncrement(clean, i) ==
  LET l == Strip(clean.elided[i])
  IN ErrIf(Len(l) > 3 /\ l[1] = "*" /\ IsWord(l[2]) /\ l[3] \in {"++", "--"} /\ l[4] = ";",
           <<"runtime", "invalid", "increment">>, 5, i)

CheckMakePairUsesDeduction(clean, i) ==
  ErrIf(Occurs(<<"make_pair", "<">>, clean.raw[i]), <<"build", "explicit", "make", "pair">>, 4, i)
=============================================================================
