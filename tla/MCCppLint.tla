------------------------------- MODULE MCCppLint -------------------------------
(***************************************************************************)
(* Command lines and files for the style checker. Besides those written    *)
(* out, a file is made of every sequence of Includes #include lines, of    *)
(* ClassLines lines about classes and of FunctionLines lines about         *)
(* functions.                                                              *)
(***************************************************************************)
EXTENDS CppLint

CONSTANTS IncludeLines, ClassLines, FunctionLines

in(line) == <<" ", " ">> \o line
own(h) == <<"#include", Quote, h, Quote>>
sys(h) == <<"#include", "<", h, ">">>
copyright == <<"//", "Copyright">>

IncludeKinds == {own("a.h"), own("b.h"), own("c.h"), sys("stdio.h"), sys("zlib.h"), sys("map"), sys("string")}
ClassKinds == {<<"class", "A", "{">>, <<"struct", "B">>, <<"{">>, <<"}", ";">>, <<"class", "C", ";">>,
               in(<<"virtual", "f", "(", ")", ";">>), <<":", "public", "D", "{">>, <<"}", "}">>,
               <<"class", "E", ";", "}">>, <<"struct", "F", "{", "}">>, <<"}", "{">>}
FunctionKinds == {<<"int", "f", "(", ")", "{">>, <<"TEST", "(", ")", "{">>, in(<<"x", ";">>), <<"}">>, <<>>,
                  <<"void", "g", "(", ")", ";">>}

Generated == ({"includes"} \X [1..IncludeLines -> IncludeKinds])
             \cup ({"classes"} \X [1..ClassLines -> ClassKinds])
             \cup ({"functions"} \X [1..FunctionLines -> FunctionKinds])

Written == [
  clean |-> <<copyright, own("a.h"), sys("stdio.h"), sys("string"), own("b.h"),
              <<"int", "main", "(", ")", "{">>, in(<<"string", "s", ";">>), in(<<"map<", "int", ",", "vector<", "int", ">", ">", "m", ";">>), <<"}">>, <<>>>>,
  nolint |-> <<copyright, in(in(<<"rand", "(", ")", ";", "//", "NOLINT">>)),
               in(<<"ctime", "(", ")", ";", "//", "NOLINT(fn)">>),
               in(<<"*", "p", "++", ";", "//", "NOLINT(fn)">>), in(<<"rand", "(", ")", ";">>),
               <<"//", "NOLINT(none)">>, <<>>>>,
  after |-> <<copyright, in(<<"rand", "(", ")", ";">>), in(<<"ctime", "(", ")", ";">>), in(<<"*", "p", "++", ";">>), <<"x">>>>,
  header |-> <<<<"#ifndef", "B_H", "//", "NOLINT">>, <<"#define", "B_H">>,
               <<"class", "A", ":", "public", "B", "{">>, <<" ", "public", ":">>, in(<<"explicit", "A", "(", "int", ")", ";">>),
               in(<<"A", "(", "int", "x", ")", ";">>), in(<<"virtual", "f", "(", ")", ";">>), <<"}", ";">>,
               <<"class", "E", "{">>, in(<<"virtual", "f", "(", ")", ";">>), in(<<>>), <<" ", "private", ":">>, <<"}", ";">>,
               <<"#endif", "//", "NOLINT(none)">>, <<>>>>,
  noguard |-> <<copyright, <<"int", "x", ";", "\r">>, <<"namespace", "{">>, <<"}">>, <<>>>>,
  comments |-> <<copyright, <<"/*", "Comment">>, <<"rand", "(", ")", ";">>, <<"*/">>,
                 <<"s", "=", Quote, "//", "*/", Quote, ";", "//", "rand">>, <<"/*", "a", "*/", "x", ";">>,
                 <<"int", "t", "(", ")">>, <<"/*", "never">>, <<"NOLINT">>, <<>>>>,
  hidden |-> <<copyright, <<"/*", "Comment">>, <<"NOLINT", "*/">>>>,
  table |-> <<copyright, in(<<"{", "1", "}", ";">>), <<>>>>,
  second |-> <<copyright, <<"int", "t", "[", "]", "=">>, in(<<"{", "1", "}", ";">>), <<>>>>,
  open |-> <<copyright, <<"if", "(", "a", ")", "{">>, <<"}", "else", "if", "(", "b">>, <<>>>>,
  closed |-> <<copyright, <<"if", "(", "a", ")", "{">>, <<"}", "else", "if", "(", "b">>, in(<<"&&", "c", ")", "{">>), <<"}">>, <<>>>>,
  elses |-> <<copyright, <<"if", "(", "a", ")">>, <<"{">>, <<"}">>, <<"else", "{">>, <<>>, <<"}", "else", "f", "(", ")", ";">>,
              <<"do", "f", "(", ")", ";">>, <<"f", "(", ")", ";", "g", "(", ")", ";">>, <<"label", "x", ":">>,
              <<" ", "x", "=", "(", "int", ")", "y", ";">>, <<"x", " ">>, <<"\t", "x">>, <<"U+FFFD">>,
              <<"printf", "(", "s", ")", ";">>, <<"make_pair", "<", "int", ">">>, <<"using", "namespace", "std", ";">>,
              <<"dynamic_cast", "<", "A", ">">>, <<"strcpy", "(", "s", ")", ";">>, <<"unsigned", "static", "x", ";">>, <<>>>> ]

MCDisk == [f \in Generated \cup ({"written"} \X {<<<<n>>>> : n \in DOMAIN Written}) |->
             IF f[1] = "written" THEN Written[f[2][1][1]] ELSE <<copyright>> \o f[2] \o <<<<>>>>]

w(n) == <<"written", <<<<n>>>>>>
Missing == w("missing")
Script == w("script")
CppNames == DOMAIN MCDisk \cup {Missing}
MCFileOf == [f \in CppNames \cup {Script} |->
               [dir |-> <<"root", "src">>,
                name |-> IF f \in {w("header"), w("noguard")} THEN <<"b">> ELSE <<"a">>,
                ext |-> IF f = Script THEN "py" ELSE IF f \in {w("header"), w("noguard")} THEN "h" ELSE "cc"]]

path(dir, name) == [dir |-> dir, name |-> <<name>>, ext |-> "h"]
MCPathOf == [h \in {"a.h", "b.h", "c.h", "stdio.h", "zlib.h", "map", "string"} |->
               CASE h = "a.h" -> path(<<"src">>, "a") [] h = "b.h" -> path(<<"src">>, "b")
                 [] h = "c.h" -> path(<<>>, "c") [] h = "stdio.h" -> path(<<>>, "stdio")
                 [] h = "zlib.h" -> path(<<>>, "zlib")
                 [] OTHER -> [dir |-> <<>>, name |-> <<h>>, ext |-> ""]]
MCAlpha == [p \in {Flat(MCPathOf[h]) : h \in DOMAIN MCPathOf} |->
              CASE p = <<"c">> -> 1 [] p = <<"map">> -> 2 [] p = <<"src", "a">> -> 3 [] p = <<"src", "b">> -> 4
                [] p = <<"stdio">> -> 5 [] p = <<"string">> -> 6 [] p = <<"zlib">> -> 7]
MCVcsDirs == {<<"root">>}
MCHeaders == [p \in {<<"root", "src", "a">>} |-> <<sys("map")>>]
MCNeeds == [t \in {"map<", "vector<"} |-> IF t = "map<" THEN "map" ELSE "vector"]
MCNolint == [t \in {"NOLINT", "NOLINT(fn)", "NOLINT(none)"} |->
               CASE t = "NOLINT" -> <<>> [] t = "NOLINT(fn)" -> <<"runtime", "threadsafe", "fn">> [] OTHER -> <<"none">>]
MCCategories == {<<"runtime", "threadsafe", "fn">>}
MCGuardOf == [p \in {<<"src", "b">>} |-> "SRC_B_H_"]
MCOldGuardOf == [p \in {<<"src", "b">>} |-> "SRC_B_H__"]
MCWordings == [t \in {"strcpy"} |-> [cat |-> <<"runtime", "printf">>, conf |-> 4]]

o(name, val) == ("opt" :> name) @@ (name :> val)
filter(sign, prefix) == [sign |-> sign, prefix |-> prefix]
cmd(opts, files) == [opts |-> opts, files |-> files]
detailed == <<o("counting", "detailed")>>
fewer == <<o("filter", <<filter("-", <<"runtime">>), filter("+", <<"runtime", "threadsafe">>), filter("+", <<"build", "include", "alpha">>)>>),
           o("counting", "toplevel"), o("verbose", 3)>>
files == <<w("nolint"), w("after"), Missing, Script, w("header"), w("elses")>>

MCCommands ==
  {cmd(<<o("verbose", v)>>, <<f>>) : v \in {0, 1}, f \in {g \in Generated : g[1] = "functions"}}
  \cup {cmd(detailed, <<f>>) : f \in Generated}
  \cup {cmd(opts, <<w(n)>>) : opts \in {<<>>, detailed, fewer}, n \in DOMAIN Written}
  \cup {cmd(opts, files) : opts \in {<<>>, detailed, fewer}}
  \cup {cmd(<<>>, <<Missing, w("clean")>>), cmd(<<>>, <<>>), cmd(<<[opt |-> "help"]>>, files),
        cmd(<<o("output", "xml")>>, files), cmd(<<o("filter", <<>>)>>, <<>>),
        cmd(<<o("counting", "all")>>, files), cmd(<<o("output", "vs7")>>, <<w("clean")>>),
        cmd(<<o("filter", <<filter("", <<"build">>)>>)>>, files)}
  \cup {cmd(<<>>, <<<<"functions", [k \in 1..FunctionLines |-> IF k = 1 THEN <<"int", "f", "(", ")", "{">> ELSE in(<<"x", ";">>)]>>,
                    w("noguard")>>),
         cmd(<<>>, <<<<"classes", [k \in 1..ClassLines |-> <<"class", "A", "{">>]>>, w("after")>>)}
=============================================================================
