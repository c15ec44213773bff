----------------------------- MODULE LintIncludes -----------------------------
(***************************************************************************)
(* What the style checker knows of a file's #include lines: their order    *)
(* (_IncludeState), what kind of header each is, and which ones the file   *)
(* would need (CheckForIncludeWhatYouUse).                                 *)
(*                                                                         *)
(* An include is written with one token for its path. PathOf gives what    *)
(* the token says: the directories, the parts of the name between - and _, *)
(* the extension; <<"foo", "inl">> and <<"foo", "unittest">> are foo-inl   *)
(* and foo_unittest. Name, without the extension, is compared in sequence. *)
(***************************************************************************)
EXTENDS LintScopes

CONSTANTS PathOf,       \* [token -> [dir, name, ext]]
          Alpha,        \* the place of a canonical path in the alphabetical order
          CppHeaders,   \* tokens of the headers of C++
          Streams,      \* those of the stream classes
          Needs,        \* [a name with its < or its (, one token -> its header]
          SvnDirs,      \* directories with a .svn
          VcsDirs,      \* directories with a .git, a .hg or a .svn
          Headers       \* the header files that can be read: [flat path -> lines]

\* Directories and name in one sequence.
Flat(path) == path.dir \o path.name

FirstOf(paths) == CHOOSE d \in paths : \A e \in paths : Len(d) <= Len(e)
LongestOf(paths) == CHOOSE d \in paths : \A e \in paths : Len(d) >= Len(e)

\* The path without that of the working copy the file is in: the top one of the directories
\* with a .svn, else the nearest one with any mark.
RepositoryName(path) ==
  LET d == path.dir
      above == {SubSeq(d, 1, n) : n \in 0..Len(d)}
      inSvn == {r \in above : \A e \in above : Len(e) >= Len(r) => e \in SvnDirs}
      marked == above \cap VcsDirs
      root == IF d \in SvnDirs THEN FirstOf(inSvn) ELSE LongestOf(marked)
  IN IF d \notin SvnDirs /\ marked = {} THEN path
     ELSE [path EXCEPT !.dir = SubSeq(d, Len(root) + 1, Len(d))]

CommonSuffixes == {<<"test", "cc">>, <<"regtest", "cc">>, <<"unittest", "cc">>,
                   <<"inl", "h">>, <<"impl", "h">>, <<"internal", "h">>}

DropCommonSuffixes(path) ==
  IF Len(path.name) > 1 /\ <<Last(path.name), path.ext>> \in CommonSuffixes
    THEN Front(path.name) ELSE path.name

IsTestFilename(path) ==
  /\ Len(path.name) > 1 /\ path.ext = "cc"
  /\ Last(path.name) \in {"test", "unittest", "regtest"}

-------------------------------------------------------------------------------
(* The kinds of headers and their order *)

C_SYS == 1
CPP_SYS == 2
LIKELY_MY == 3
POSSIBLE_MY == 4
OTHER_HEADER == 5

ClassifyInclude(file, include, isSystem) ==
  LET target == RepositoryName(file)
      header == PathOf[include]
      base == DropCommonSuffixes(target)
      includeBase == DropCommonSuffixes(header)
      public == IF target.dir = <<>> THEN {} ELSE {Append(Front(target.dir), "public")}
  IN CASE isSystem -> IF include \in CppHeaders THEN CPP_SYS ELSE C_SYS
       [] ~isSystem /\ base = includeBase /\ header.dir \in {target.dir} \cup public -> LIKELY_MY
       [] ~isSystem /\ ~(base = includeBase /\ header.dir \in {target.dir} \cup public)
          /\ base[1] = includeBase[1] -> POSSIBLE_MY
       [] OTHER -> OTHER_HEADER

INITIAL_SECTION == 0
MY_H_SECTION == 1
C_SECTION == 2
CPP_SECTION == 3
OTHER_H_SECTION == 4

\* seen: the paths that were included; last: the place of the last header, 0 for ''.
NoIncludes == [seen |-> {}, section |-> INITIAL_SECTION, last |-> 0]

CanonicalizeAlphabeticalOrder(path) ==
  IF path.ext = "h" /\ Last(path.name) = "inl" THEN Front(Flat(path)) ELSE Flat(path)

\* Every path has its place.
ASSUME AlphaAssumption ==
  \A h \in DOMAIN PathOf : Alpha[CanonicalizeAlphabeticalOrder(PathOf[h])] \in Nat \ {0}

IsInAlphabeticalOrder(inc, include) ==
  inc.last <= Alpha[CanonicalizeAlphabeticalOrder(PathOf[include])]
\* A header that is out of order is not remembered.
RememberHeader(inc, include) ==
  IF IsInAlphabeticalOrder(inc, include)
    THEN [inc EXCEPT !.last = Alpha[CanonicalizeAlphabeticalOrder(PathOf[include])]]
    ELSE inc

\* The section a header of this kind opens when none after it was opened.
SectionOf(type) == CASE type = C_SYS -> C_SECTION
                     [] type = CPP_SYS -> CPP_SECTION
                     [] type \in {LIKELY_MY, POSSIBLE_MY} -> MY_H_SECTION
                     [] type = OTHER_HEADER -> OTHER_H_SECTION

InOrder(inc, type) == type \in {C_SYS, CPP_SYS} => inc.section <= SectionOf(type)

\* Mistake: a header of the system that comes too late moves the section back.
NextSectionAnyway(inc, type) ==
  LET section == IF inc.section <= SectionOf(type) \/ type \in {C_SYS, CPP_SYS}
                   THEN SectionOf(type) ELSE OTHER_H_SECTION
  IN [inc EXCEPT !.section = section, !.last = IF section # inc.section THEN 0 ELSE @]

\* The file's own header is one of the others when it does not come first. The alphabet
\* begins anew in a new section, and after an error.
NextSection(inc, type) ==
  LET section == IF inc.section <= SectionOf(type) THEN SectionOf(type)
                 ELSE IF InOrder(inc, type) THEN OTHER_H_SECTION
                 ELSE inc.section
  IN [inc EXCEPT !.section = section,
                 !.last = IF section # inc.section \/ ~InOrder(inc, type) THEN 0 ELSE @]

CheckIncludeLine(file, clean, i, inc) ==
  LET include == IncludedPath(clean.lines[i])
      isSystem == IsSystemInclude(clean.lines[i])
      path == PathOf[include]
      type == ClassifyInclude(file, include, isSystem)
      ordered == NextSection(inc, type)
      again == include \in inc.seen
      style == If(~isSystem /\ path.dir = <<>> /\ path.ext = "h", Err(<<"build", "include">>, 4, i))
      stream == If(include \in Streams /\ ~IsTestFilename(file),
                   Err(<<"readability", "streams">>, 3, i))
  IN IF again
       THEN [inc |-> inc, errs |-> style \o <<Err(<<"build", "include">>, 4, i)>> \o stream]
       ELSE [inc |-> [RememberHeader(ordered, include) EXCEPT !.seen = @ \cup {include}],
             errs |-> style
                      \o If(~InOrder(inc, type), Err(<<"build", "include", "order">>, 4, i))
                      \o If(~IsInAlphabeticalOrder(ordered, include),
                            Err(<<"build", "include", "alpha">>, 4, i))
                      \o stream]

-------------------------------------------------------------------------------
(* Include what you use *)

\* Directories in the middle of a path that do not tell modules apart.
Internal == {"public", "internal"}
WithoutInternal(dir, first) ==
  Pick(dir, {k \in DOMAIN dir : k < first \/ dir[k] \notin Internal})

\* The .cc file without its extension and _test, the header without -inl.
ModuleOfSource(cc) ==
  WithoutInternal(cc.dir, 1)
  \o (IF Len(cc.name) > 1 /\ Last(cc.name) \in {"unittest", "test"} THEN Front(cc.name) ELSE cc.name)
ModuleOfHeader(h) ==
  WithoutInternal(h.dir, 2)
  \o (IF Len(h.name) > 1 /\ Last(h.name) = "inl" THEN Front(h.name) ELSE h.name)

FilesBelongToSameModule(cc, h) ==
  cc.ext = "cc" /\ h.ext = "h" /\ IsSuffix(ModuleOfHeader(h), ModuleOfSource(cc))

\* Where the header of the same module is looked for.
HeaderFile(cc, h) ==
  SubSeq(ModuleOfSource(cc), 1, Len(ModuleOfSource(cc)) - Len(ModuleOfHeader(h))) \o Flat(h)

\* The includes of a header file, without the comments of one line.
IncludesOf(lines) ==
  {IncludedPath(CleanseComments(lines[i])) : i \in {k \in DOMAIN lines : IsInclude(CleanseComments(lines[k]))}}

\* string, but not that of another namespace; the first one of a line counts.
UsesString(line) ==
  LET k == FirstAt(line, "string")
  IN k # 0 /\ (k = 1 \/ line[k - 1] # "::" \/ (k > 2 /\ line[k - 2] = "std"))
Uses(line) ==
  IF line = <<>> \/ line[1] \in Directives THEN {}
  ELSE {Needs[line[k]] : k \in {j \in DOMAIN line : line[j] \in DOMAIN Needs}}
       \cup (IF UsesString(line) THEN {"string"} ELSE {})

\* The paths included by the file or by a header of its own.
Known(file, seen) ==
  seen \cup UNION {IncludesOf(Headers[HeaderFile(file, PathOf[h])]) :
                   h \in {g \in seen : /\ FilesBelongToSameModule(file, PathOf[g])
                                       /\ HeaderFile(file, PathOf[g]) \in DOMAIN Headers}}

HeaderFound(file, seen) ==
  \E h \in seen : /\ FilesBelongToSameModule(file, PathOf[h])
                  /\ HeaderFile(file, PathOf[h]) \in DOMAIN Headers

\* One error for each header that a line needs, at the last such line. Nothing is said of a
\* .cc file whose header was not found.
CheckForIncludeWhatYouUse(file, clean, inc) ==
  LET lines == DOMAIN clean.elided
      required == UNION {Uses(clean.elided[i]) : i \in lines}
      lastUse(h) == Max({i \in lines : h \in Uses(clean.elided[i])})
      missing == SetToSeq(required \ Known(file, inc.seen))
  IN IF file.ext = "cc" /\ ~HeaderFound(file, inc.seen) THEN <<>>
     ELSE [k \in DOMAIN missing |->
             Err(<<"build", "include", "what", "you", "use">>, 4, lastUse(missing[k]))]
=============================================================================
