-------------------------------- MODULE CppLint --------------------------------
(***************************************************************************)
(* A run of the style checker: the command line is read, each file is gone *)
(* through line by line, each error passes the NOLINT comments, the level  *)
(* and the filters, or not, and is counted; the exit status says whether   *)
(* there was one.                                                          *)
(***************************************************************************)
EXTENDS LintRules

CONSTANTS Commands,      \* command lines: [opts, files], opts a sequence of [opt] or, for
                         \* an option with a value, of records like [opt |-> "verbose", verbose |-> 3]
          Disk,          \* files that can be read: [name -> lines], the last one empty when
                         \* the file ends with a newline
          FileOf,        \* [name -> [dir, name, ext]]
          Categories,    \* the list of categories, each one a sequence of its parts
          Nolint,        \* what a NOLINT token suppresses: [token -> category or AllCategories]
          SmallClass     \* lines of a class whose sections are looked at: 25

\* The usage text asks for a level from 0 to 5; a file is read as lines of tokens; what
\* is written in place of the lines of a comment is no NOLINT.
ASSUME CommandsAssumption ==
  \A c \in Commands :
    /\ c.files \in Seq(DOMAIN FileOf)
    /\ c.opts \in Seq(ToSet(c.opts))
    /\ \A i \in DOMAIN c.opts :
         /\ c.opts[i].opt = "verbose" => c.opts[i].verbose \in Nat
         /\ c.opts[i].opt = "filter" => c.opts[i].filter \in Seq([sign : STRING, prefix : Seq(STRING)])
ASSUME DiskAssumption == \A f \in DOMAIN Disk : Disk[f] \in Seq(Seq(STRING))
ASSUME NolintAssumption == \A t \in ToSet(Dummy) : t \notin DOMAIN Nolint

VARIABLES command,   \* what was typed
          pc,        \* "args", "file", "line", "exit"; "crashed" by an exception, or "hung"
          verbose, filters, counting,  \* _cpplint_state
          errors,    \* error_count
          byCategory,\* errors_by_category
          todo,      \* the files that are left, the current one first
          clean,     \* the views of the current file
          ln,        \* the next line of it
          fn, classes, inc,  \* the states of the current file
          suppressed,\* _error_suppressions: pairs of a category and a line
          log,       \* every error, with its file and whether it was printed
          status     \* the exit status, or -1

options == <<verbose, filters, counting>>
counts == <<errors, byCategory, log>>
scopes == <<fn, classes, inc>>
vars == <<command, pc, options, counts, todo, clean, ln, scopes, suppressed, status>>

AllCategories == <<>>
DefaultFilters == <<[sign |-> "-", prefix |-> <<"build", "include", "alpha">>]>>
NoFile == CleansedLines(<<>>)

Init == /\ command \in Commands
        /\ pc = "args" /\ todo = <<>> /\ status = -1
        /\ verbose = 1 /\ filters = DefaultFilters /\ counting = "total"
        /\ errors = 0 /\ byCategory = [c \in {} |-> 0] /\ log = <<>>
        /\ clean = NoFile /\ ln = 1
        /\ fn = NoFunction /\ classes = <<>> /\ inc = NoIncludes
        /\ suppressed = {}

-------------------------------------------------------------------------------
(* The options *)

Opts(name) == {i \in DOMAIN command.opts : command.opts[i].opt = name}
LastOpt(name, default) ==
  IF Opts(name) = {} THEN default ELSE command.opts[Max(Opts(name))][name]

\* The exit status of an option that ends the program, 2 for the others.
ExitOf(o) == CASE o.opt = "help" -> 1
               [] o.opt = "output" /\ o.output \notin {"emacs", "vs7"} -> 1
               [] o.opt = "filter" /\ o.filter = <<>> -> 0
               [] o.opt = "counting" /\ o.counting \notin {"total", "toplevel", "detailed"} -> 1
               [] OTHER -> 2
Ending == {i \in DOMAIN command.opts : ExitOf(command.opts[i]) # 2}

SetFilters(given) == DefaultFilters \o given

ParseArguments ==
  /\ pc = "args"
  /\ LET given == LastOpt("filter", <<>>)
     IN CASE Ending # {} -> /\ pc' = "exit" /\ status' = ExitOf(command.opts[Min(Ending)])
                            /\ UNCHANGED <<options, todo>>
          [] Ending = {} /\ command.files = <<>> -> /\ pc' = "exit" /\ status' = 1
                                                    /\ UNCHANGED <<options, todo>>
          [] Ending = {} /\ command.files # <<>> ->
               /\ verbose' = LastOpt("verbose", verbose)
               /\ filters' = SetFilters(given)
               /\ \/ /\ \A i \in DOMAIN given : given[i].sign \in {"+", "-"}
                     /\ counting' = LastOpt("counting", "")
                     /\ todo' = command.files
                     /\ pc' = "file" /\ status' = status
                  \/ /\ \E i \in DOMAIN given : given[i].sign \notin {"+", "-"}
                     /\ pc' = "crashed" /\ status' = 1
                     /\ UNCHANGED <<counting, todo>>
  /\ UNCHANGED <<command, counts, clean, ln, scopes, suppressed>>

-------------------------------------------------------------------------------
(* Errors *)

\* What the first NOLINT of line i suppresses.
NolintsOn(line, i) ==
  LET k == SelectInSeq(line, LAMBDA t : t \in DOMAIN Nolint)
  IN IF k = 0 THEN {} ELSE {<<Nolint[line[k]], i>>}
ParseNolintSuppressions(line, i) ==
  {s \in NolintsOn(line, i) : s[1] = AllCategories \/ s[1] \in Categories}
\* The errors of the NOLINTs of these lines.
NolintErrors(lines, read) ==
  LET bad == Ascending({i \in read : NolintsOn(lines[i], i) # ParseNolintSuppressions(lines[i], i)})
  IN [k \in DOMAIN bad |-> Err(<<"readability", "nolint">>, 5, bad[k])]

IsErrorSuppressedByNolint(category, i) ==
  <<category, i>> \in suppressed' \/ <<AllCategories, i>> \in suppressed'

\* The filters are gone through from left to right, and each changes what was decided.
FilteredBy(category) ==
  LET out[k \in 0..Len(filters)] ==
        IF k = 0 THEN FALSE
        ELSE IF IsPrefix(filters[k].prefix, category) THEN filters[k].sign = "-"
        ELSE out[k - 1]
  IN out

\* What was decided after the last one.
Filtered(category) == FilteredBy(category)[Len(filters)]

ShouldPrintError(e) ==
  /\ ~IsErrorSuppressedByNolint(e.cat, e.line)
  /\ e.conf >= verbose
  /\ ~Filtered(e.cat)

\* Mistake: a detailed count holds the top category too.
CountedAsBoth(category) ==
  CASE counting = "toplevel" -> {<<category[1]>>}
    [] counting = "detailed" -> {<<category[1]>>, category}
    [] OTHER -> {}

CountedAs(category) ==
  CASE counting = "toplevel" -> {<<category[1]>>}
    [] counting = "detailed" -> {category}
    [] OTHER -> {}

\* Error, for each of these: it is logged, and counted when it is printed.
Error(es) ==
  LET new == [k \in DOMAIN es |-> [file |-> todo[1], error |-> es[k], printed |-> ShouldPrintError(es[k])]]
      printed == {k \in DOMAIN es : new[k].printed}
      kinds == UNION {CountedAs(es[k].cat) : k \in printed}
      before(c) == IF c \in DOMAIN byCategory THEN byCategory[c] ELSE 0
  IN /\ log' = log \o new
     /\ errors' = errors + Cardinality(printed)
     /\ byCategory' = [c \in DOMAIN byCategory \cup kinds |->
                         before(c) + Cardinality({k \in printed : c \in CountedAs(es[k].cat)})]

-------------------------------------------------------------------------------
(* The files *)

Linted == {"cc", "h", "cpp"}

\* Mistake: the suppressions of the last file stay.
KeepNolintSuppressions == suppressed

ResetNolintSuppressions == {}

\* A file that cannot be read, or is not C++.
SkipFile ==
  /\ pc = "file" /\ todo # <<>>
  /\ todo[1] \notin DOMAIN Disk \/ FileOf[todo[1]].ext \notin Linted
  /\ todo' = Tail(todo)
  /\ UNCHANGED <<command, pc, options, counts, clean, ln, scopes, suppressed, status>>

WithoutReturn(line) == IF EndsWith(line, "\r") THEN Front(line) ELSE line

\* Mistakes: the function, or the classes, of the last file are not forgotten.
KeepFunction == /\ fn' = fn /\ classes' = <<>> /\ inc' = NoIncludes
KeepClasses == /\ fn' = NoFunction /\ classes' = classes /\ inc' = NoIncludes

FileState == /\ fn' = NoFunction /\ classes' = <<>> /\ inc' = NoIncludes

\* The lines of a file as they are read.
LinesOf(name) ==
  Append([i \in DOMAIN Disk[name] |-> WithoutReturn(Disk[name][i])], EndMarker)

\* Its text without the comments over several lines, in three views.
Text(name) == CleansedLines(RemoveMultiLineComments(LinesOf(name)).lines)

\* A path is known of every header that is included.
ASSUME IncludesAssumption ==
  \A name \in DOMAIN Disk :
    LET text == Text(name)
    IN \A i \in DOMAIN text.elided :
         IsInclude(text.elided[i]) => IncludedPath(text.lines[i]) \in DOMAIN PathOf

\* Only a header has a guard.
HeaderGuard(name) ==
  IF FileOf[name].ext = "h" THEN CheckForHeaderGuard(FileOf[name], LinesOf(name))
  ELSE [reads |-> {}, errs |-> <<>>]

\* The checks of the whole file come first; the guard's lines are searched for NOLINT. Then
\* the comments over several lines are blanked.
StartFile ==
  /\ pc = "file" /\ todo # <<>>
  /\ todo[1] \in DOMAIN Disk /\ FileOf[todo[1]].ext \in Linted
  /\ LET lines == LinesOf(todo[1])
         guard == HeaderGuard(todo[1])
         open == RemoveMultiLineComments(lines).open
     IN /\ suppressed' = ResetNolintSuppressions
                         \cup UNION {ParseNolintSuppressions(lines[i], i) : i \in guard.reads}
        /\ Error(CheckForCopyright(lines)
                 \o NolintErrors(lines, guard.reads)
                 \o guard.errs
                 \o If(open # 0, Err(<<"readability", "multiline", "comment">>, 5, open + 1)))
        /\ clean' = Text(todo[1])
  /\ ln' = 1 /\ FileState
  /\ pc' = "line"
  /\ UNCHANGED <<command, options, todo, status>>

\* One line goes through all the checks, in their order. The class is looked at before this
\* line enters or leaves it.
ProcessLine ==
  /\ pc = "line" /\ ln <= Len(clean.raw)
  /\ LET file == FileOf[todo[1]]
         lengths == CheckForFunctionLengths(clean, ln, fn, verbose)
         style == CheckStyle(clean, ln, classes, SmallClass)
         language == CheckLanguage(file, clean, ln, inc)
         nonStandard == CheckForNonStandardConstructs(clean, ln, classes)
         first == NolintErrors(clean.raw, {ln}) \o lengths.errs
                  \o CheckForMultilineCommentsAndStrings(clean, ln) \o style.errs
         rest == language.errs
                 \o CheckForNonStandardLine(clean, ln) \o nonStandard.errs
                 \o CheckPosixThreading(clean, ln) \o CheckInvalidIncrement(clean, ln)
                 \o CheckMakePairUsesDeduction(clean, ln)
     IN /\ suppressed' = suppressed \cup ParseNolintSuppressions(clean.raw[ln], ln)
        /\ fn' = lengths.fn
        /\ IF style.fate = "ok"
             THEN /\ Error(first \o rest)
                  /\ inc' = language.inc /\ classes' = nonStandard.classes
                  /\ ln' = ln + 1 /\ UNCHANGED <<pc, status>>
             ELSE /\ Error(first)
                  /\ pc' = style.fate
                  /\ status' = IF style.fate = "crashed" THEN 1 ELSE status
                  /\ UNCHANGED <<inc, classes, ln>>
  /\ UNCHANGED <<command, options, todo, clean>>

\* After the last line: the classes, the includes, the characters and the end of the file,
\* and, in ProcessFile, the carriage returns.
FinishFile ==
  /\ pc = "line" /\ ln > Len(clean.raw)
  /\ suppressed' = suppressed
  /\ LET file == FileOf[todo[1]]
         returns == \E i \in DOMAIN Disk[todo[1]] : EndsWith(Disk[todo[1]][i], "\r")
     IN Error(CheckFinished(classes)
              \o CheckForIncludeWhatYouUse(file, clean, inc)
              \o CheckForUnicodeReplacementCharacters(clean.raw)
              \o CheckForNewlineAtEOF(clean.raw)
              \o If(returns, Err(<<"whitespace", "newline">>, 1, 0)))
  /\ todo' = Tail(todo)
  /\ pc' = "file"
  /\ UNCHANGED <<command, options, clean, ln, scopes, status>>

\* main: the exit status says whether an error was printed.
Exit ==
  /\ pc = "file" /\ todo = <<>>
  /\ pc' = "exit"
  /\ status' = IF errors > 0 THEN 1 ELSE 0
  /\ UNCHANGED <<command, options, counts, todo, clean, ln, scopes, suppressed>>

Next == ParseArguments \/ SkipFile \/ StartFile \/ ProcessLine \/ FinishFile \/ Exit

Spec == Init /\ [][Next]_vars
\* Weak fairness of Next, which is enabled until the checker has ended or hangs.
Ended == pc \in {"exit", "crashed", "hung"}
FairSpec == Spec /\ ([]<>Ended \/ []<><<Next>>_vars)

-------------------------------------------------------------------------------
(* What the checker promises *)

\* Types. todo is what is left of the command line; a class on the stack was declared on a
\* line that was read.
LintTypeOK ==
  /\ pc \in {"args", "file", "line", "exit", "crashed", "hung"}
  /\ IsSuffix(todo, command.files)
  /\ pc = "line" => todo # <<>> /\ ln \in 1..(Len(clean.raw) + 1)
  /\ status \in {-1, 0, 1} /\ (status = -1 <=> pc \notin {"exit", "crashed"})
  /\ fn.count \in Nat /\ fn.in \in BOOLEAN
  /\ inc.section \in INITIAL_SECTION..OTHER_H_SECTION
  /\ \A k \in DOMAIN classes : classes[k].line < ln
  /\ \A k \in DOMAIN log : log[k].error.conf \in 0..5 /\ log[k].error.line \in Nat

\* A comment on line i of this file asks for silence about this category. What is inside of a
\* comment over several lines asks for nothing, unless the line is one of a header's guard.
Covered(file, category, i) ==
  LET lines == IF i \in HeaderGuard(file).reads THEN LinesOf(file)
               ELSE RemoveMultiLineComments(LinesOf(file)).lines
  IN /\ i \in DOMAIN lines
     /\ \E s \in ParseNolintSuppressions(lines[i], i) : s[1] \in {AllCategories, category}

\* The last filter that matches wants the category out.
Unwanted(category) ==
  LET given == DefaultFilters \o LastOpt("filter", <<>>)
      matching == {k \in DOMAIN given : IsPrefix(given[k].prefix, category)}
  IN matching # {} /\ given[Max(matching)].sign = "-"

\* The error of a comment that never ends, which is placed one line too far and comes before
\* the NOLINT of that line is read.
IsUnclosedComment(file, e) ==
  LET open == RemoveMultiLineComments(LinesOf(file)).open
  IN open # 0 /\ e.line = open + 1 /\ e.cat = <<"readability", "multiline", "comment">>

\* An error is printed exactly when it is as severe as was asked for, the last filter that
\* matches it lets it through, and its own line in its own file has no NOLINT for it: not
\* that of the same line in the file before (Error, ProcessFileData).
PrintedExactly ==
  \A k \in DOMAIN log :
    LET e == log[k].error
    IN IsUnclosedComment(log[k].file, e)
       \/ (log[k].printed <=> /\ e.conf >= LastOpt("verbose", 1)
                              /\ ~Unwanted(e.cat)
                              /\ ~Covered(log[k].file, e.cat, e.line))

\* The errors that were printed, and those of them that are told of under this category.
Printed == {k \in DOMAIN log : log[k].printed}
Under(category) ==
  {k \in Printed : category = IF counting = "toplevel" THEN <<log[k].error.cat[1]>> ELSE log[k].error.cat}

\* The number of errors, their number by category and the exit status agree with what was
\* printed: each of the categories of the printed errors has its own count, and there are no
\* other counts (IncrementErrorCount, PrintErrorCounts, main).
CountsAgree ==
  /\ errors = Cardinality(Printed)
  /\ \A c \in DOMAIN byCategory : byCategory[c] = Cardinality(Under(c)) /\ Under(c) # {}
  /\ counting \in {"toplevel", "detailed"} => \A k \in Printed : \E c \in DOMAIN byCategory : k \in Under(c)
  /\ pc = "exit" /\ log # <<>> => (status = 1 <=> Printed # {})

\* The lines of the current file that were read, and those of them with an error.
Read == 1..(ln - 1)
LinesWith(category) ==
  {log[k].error.line : k \in {j \in DOMAIN log : log[j].file = todo[1] /\ log[j].error.cat = category}}

\* The classes that are open by the text, each with the braces that are open in its body. A
\* class head is pending until its brace or a semicolon. closed: a class ended on this line;
\* odd: a layout the checker is not made for.
ByText(s, t) ==
  LET top == Len(s.open)
      inner(n) == IF top = 0 THEN s.open ELSE [s.open EXCEPT ![top].inner = @ + n]
      ends == top # 0 /\ s.open[top].inner = 0
  IN CASE t = "{" -> [s EXCEPT !.open = IF s.pending = <<>> THEN inner(1) ELSE @ \o s.pending,
                               !.pending = <<>>, !.odd = @ \/ s.closed]
       [] t = "}" -> [s EXCEPT !.open = IF ends THEN Front(@) ELSE inner(-1),
                               !.closed = @ \/ ends,
                               !.odd = @ \/ s.pending # <<>> \/ (s.closed /\ top # 0)]
       [] t = ";" -> [s EXCEPT !.pending = <<>>]
       [] OTHER -> s
HeadByText(s, line) ==
  [s EXCEPT !.pending = IF DeclaresClass(line) THEN <<[name |-> ClassName(line), inner |-> 0]>> ELSE @,
            !.odd = @ \/ (DeclaresClass(line) /\ s.pending # <<>>),
            !.closed = FALSE]
TokensByText(s, line) ==
  LET read[k \in 0..Len(line)] == IF k = 0 THEN s ELSE ByText(read[k - 1], line[k])
  IN read
LineByText(s, line) ==
  LET head == HeadByText(s, line)
      after == TokensByText(head, line)[Len(line)]
  IN [after EXCEPT !.odd = @ \/ (head.pending # <<>> /\ Has(line, ";") /\ after.open # head.open)]
NothingOpen == [open |-> <<>>, pending |-> <<>>, closed |-> FALSE, odd |-> FALSE]
OpenByText(lines) ==
  LET read[k \in 0..Len(lines)] ==
        IF k = 0 THEN NothingOpen ELSE LineByText(read[k - 1], lines[k])
  IN read

\* The stack of classes, which each line changes by counting what the class on top sees, is
\* that of the classes the text has open (CheckForNonStandardConstructs).
ClassesAreOpen ==
  pc = "line" =>
    LET text == OpenByText(clean.elided)[ln - 1]
        open == text.open \o text.pending
    IN text.odd \/ [k \in DOMAIN classes |-> classes[k].name] = [k \in DOMAIN open |-> open[k].name]

\* The includes of a text, the first of each header, by line.
Includes(text) ==
  {i \in DOMAIN text.elided :
     /\ IsInclude(text.elided[i])
     /\ \A j \in 1..(i - 1) : IsInclude(text.elided[j])
                               => IncludedPath(text.lines[j]) # IncludedPath(text.lines[i])}
KindAt(name, text, i) ==
  ClassifyInclude(FileOf[name], IncludedPath(text.lines[i]), IsSystemInclude(text.lines[i]))
OwnKinds == {LIKELY_MY, POSSIBLE_MY}
\* The place of an include in the order: its own header first, if it does come first.
RankAt(name, text, i) ==
  IF KindAt(name, text, i) \in OwnKinds
    THEN IF \A j \in Includes(text) : j < i => KindAt(name, text, j) \in OwnKinds
           THEN MY_H_SECTION ELSE OTHER_H_SECTION
    ELSE SectionOf(KindAt(name, text, i))
Late(name, text, i) ==
  /\ KindAt(name, text, i) \in {C_SYS, CPP_SYS}
  /\ \E j \in Includes(text) : j < i /\ RankAt(name, text, j) > RankAt(name, text, i)
\* The greatest place up to line i.
TopRank(name, text, i) == Max({RankAt(name, text, j) : j \in {k \in Includes(text) : k <= i}})
\* Between j and i no include is late, and none is of another place in the order.
OneRun(name, text, j, i) ==
  /\ \A k \in Includes(text) : j < k /\ k <= i => ~Late(name, text, k)
  /\ TopRank(name, text, j) = TopRank(name, text, i)
AlphaAt(text, i) == Alpha[CanonicalizeAlphabeticalOrder(PathOf[IncludedPath(text.lines[i])])]
Unsorted(name, text, i) ==
  \E j \in Includes(text) : j < i /\ OneRun(name, text, j, i) /\ AlphaAt(text, j) > AlphaAt(text, i)

\* An include of the system is reported when, and only when, something that belongs after it
\* comes before it; an include is out of the alphabet when, and only when, a greater one of
\* its run comes before it (CheckNextIncludeOrder, IsInAlphabeticalOrder).
IncludeOrder ==
  pc = "line" =>
    LET read == Includes(clean) \cap Read
    IN /\ LinesWith(<<"build", "include", "order">>) \cap Read = {i \in read : Late(todo[1], clean, i)}
       /\ LinesWith(<<"build", "include", "alpha">>) \cap Read = {i \in read : Unsorted(todo[1], clean, i)}

\* Lines that end a function, and heads of functions with a body.
Ends(text, i) == RStrip(text.lines[i]) = <<"}">>
HasBody(text, i) ==
  /\ StartsFunction(text.lines[i])
  /\ \E k \in i..Len(text.lines) :
       /\ Has(text.lines[k], "{")
       /\ \A m \in i..k : ~Has(text.lines[m], ";") /\ ~Has(text.lines[m], "}")
\* Lines that count; those of the function whose head is line i, up to its brace.
IsBodyLine(text, i) == ~IsBlankLine(text.lines[i]) /\ ~StartsFunction(text.lines[i])
LengthOf(text, i) ==
  LET end == Min({k \in DOMAIN text.lines : k > i /\ Ends(text, k)})
  IN Cardinality({k \in (i + 1)..(end - 1) : IsBodyLine(text, k)})
\* The last function with a body before the brace of line i is too long.
EndsLong(text, i) ==
  LET heads == {k \in 1..(i - 1) : HasBody(text, k)}
      name == FunctionName(text.lines[Max(heads)])
  IN /\ Ends(text, i) /\ heads # {}
     /\ LengthOf(text, Max(heads))
          > (IF name \in TestNames THEN TestTrigger ELSE NormalTrigger) * PowerOf2(verbose)

\* At a brace at the start of a line a function is reported when, and only when, the last one
\* that began in this file has too many lines for the level, and then with a confidence that
\* is not below the level, or the greatest one (_FunctionState). Also at a second brace: End
\* keeps the count.
LongFunctions ==
  pc = "line" =>
    LET sized == LinesWith(<<"readability", "fn", "size">>) \cap Read
    IN /\ {i \in sized : Ends(clean, i)} = {i \in Read : EndsLong(clean, i)}
       /\ \A k \in DOMAIN log :
            log[k].file = todo[1] /\ log[k].error.cat = <<"readability", "fn", "size">>
              => log[k].error.conf >= Min({5, verbose})

\* The first line of the file that is not blank is a row of a table.
TableOnTop ==
  LET text == {i \in DOMAIN clean.elided : ~IsBlankLine(clean.elided[i])}
      top == clean.elided[Min(text)]
  IN text # {} /\ Indent(top) > 0 /\ Strip(top)[1] = "{"
\* The parentheses of the else if on the current line are never closed.
NeverClosed ==
  /\ Occurs(<<"}", "else", "if">>, clean.elided[ln])
  /\ \A k \in ln..Len(clean.elided) : Balance(clean.elided, ln, k, "(") > 0
SignMissing == \E f \in ToSet(LastOpt("filter", <<>>)) : f.sign \notin {"+", "-"}

\* Every run comes to its exit status, whatever files cannot be read, but for three kinds of
\* input: a filter without a sign, a table on top of a file, an else if that is not closed.
EveryFileLinted ==
  <>(\/ pc = "exit"
     \/ pc = "crashed" /\ (SignMissing \/ NeverClosed)
     \/ pc = "hung" /\ TableOnTop)
=============================================================================
