----------------------------- MODULE CppLintProofs -----------------------------
(***************************************************************************)
(* What TLAPS proves of the style checker, for every file, command line,   *)
(* list of categories and table of words: the types of what the rules      *)
(* return, which errors are printed, how they are counted, that those      *)
(* about the order of includes and the length of functions are right, and  *)
(* that the stack of classes is that of the text.                          *)
(***************************************************************************)
EXTENDS CppLint, DataInduction, FiniteSetTheorems, SequenceTheorems, TLAPS

-------------------------------------------------------------------------------
(* Numbers of lines and places *)

\* A nonempty set of natural numbers has a least member.
LEMMA MinOf ==
  ASSUME NEW S, S \subseteq Nat, S # {}
  PROVE  Min(S) \in S /\ \A x \in S : Min(S) <= x
<1>1. \E n \in S : \A m \in S : n <= m
  BY Least
<1> QED
  BY <1>1 DEF Min

\* A nonempty bounded set of them has a greatest member.
LEMMA MaxOf ==
  ASSUME NEW n \in Nat, NEW S, S \subseteq 0..n, S # {}
  PROVE  Max(S) \in S /\ \A x \in S : x <= Max(S)
<1> DEFINE T == {n - x : x \in S}
<1>0. \A x \in S : x \in 0..n
  OBVIOUS
<1>1. T \subseteq Nat /\ T # {}
  <2>1. \A x \in S : n - x \in Nat
    BY <1>0
  <2>2. PICK x : x \in S
    OBVIOUS
  <2>3. n - x \in T
    BY <2>2
  <2> QED
    BY <2>1, <2>3
<1>2. PICK t \in T : \A m \in T : t <= m
  <2> HIDE DEF T
  <2> QED
    BY <1>1, Least
<1>3. PICK s \in S : t = n - s
  BY <1>2
<1>4. \A x \in S : n - x \in T
  OBVIOUS
<1>5. ASSUME NEW x \in S PROVE s >= x
  <2>1. n - s <= n - x
    BY <1>2, <1>3, <1>4
  <2> QED
    BY <2>1
<1> QED
  BY <1>3, <1>5 DEF Max

\* So is the number of members up to one of them: it takes every value.
LEMMA CountUpTo ==
  ASSUME NEW n \in Nat, NEW S, S \subseteq 1..n, NEW k \in 1..Cardinality(S)
  PROVE  \E x \in S : Cardinality({y \in S : y <= x}) = k
<1> DEFINE Upto(m) == {y \in S : y <= m}
           T == {m \in 0..n : Cardinality(Upto(m)) >= k}
<1>0. \A x \in S : x \in 1..n
  OBVIOUS
<1>1. ASSUME NEW m \in 0..n PROVE IsFiniteSet(Upto(m)) /\ Cardinality(Upto(m)) \in Nat
  <2>1. IsFiniteSet(1..n)
    BY FS_Interval
  <2>2. Upto(m) \in SUBSET (1..n)
    OBVIOUS
  <2> HIDE DEF Upto
  <2> QED
    BY <2>1, <2>2, FS_Subset, FS_CardinalityType
<1>2. Upto(n) = S
  <2>1. \A x \in S : x <= n
    BY <1>0
  <2> QED
    BY <2>1
<1>3. Upto(0) = {}
  <2>1. \A x \in S : ~(x <= 0)
    BY <1>0
  <2> QED
    BY <2>1
<1>4. n \in T
  BY <1>1, <1>2
<1>5. PICK m \in T : \A j \in T : m <= j
  <2>1. T \subseteq Nat
    OBVIOUS
  <2> HIDE DEF T
  <2> QED
    BY <1>4, <2>1, Least
<1>6. m # 0
  BY <1>3, FS_EmptySet
<1>7. m - 1 \in 0..n /\ Cardinality(Upto(m - 1)) < k
  <2>1. m - 1 \in 0..n /\ ~(m <= m - 1)
    BY <1>6
  <2>2. m - 1 \notin T
    BY <1>5, <2>1
  <2>3. Cardinality(Upto(m - 1)) \in Nat
    BY <1>1, <2>1
  <2>4. ~(Cardinality(Upto(m - 1)) >= k)
    BY <2>1, <2>2
  <2> HIDE DEF Upto
  <2> QED
    BY <2>1, <2>3, <2>4
<1>8. Upto(m) = Upto(m - 1) \cup (S \cap {m})
  <2>1. \A x \in S : x <= m <=> x <= m - 1 \/ x = m
    BY <1>0
  <2> QED
    BY <2>1
<1>9. m \in S
  <2>1. ASSUME m \notin S PROVE FALSE
    <3>1. Upto(m) = Upto(m - 1)
      BY <1>8, <2>1
    <3>2. Cardinality(Upto(m)) >= k /\ Cardinality(Upto(m)) \in Nat
      BY <1>1, <1>5
    <3>3. Cardinality(Upto(m - 1)) \in Nat
      BY <1>1, <1>7
    <3> HIDE DEF Upto
    <3> QED
      BY <3>1, <3>2, <3>3, <1>7
  <2> QED
    BY <2>1
<1>10. Cardinality(Upto(m)) = Cardinality(Upto(m - 1)) + 1
  <2>1. Upto(m) = Upto(m - 1) \cup {m} /\ m \notin Upto(m - 1)
    BY <1>8, <1>9
  <2>2. IsFiniteSet(Upto(m - 1))
    BY <1>1, <1>7
  <2> HIDE DEF Upto
  <2> QED
    BY <2>1, <2>2, FS_AddElement
<1>11. Cardinality(Upto(m)) = k
  <2>1. Cardinality(Upto(m)) >= k /\ Cardinality(Upto(m - 1)) \in Nat
    BY <1>1, <1>5, <1>7
  <2> HIDE DEF Upto
  <2> QED
    BY <2>1, <1>7, <1>10
<1> QED
  BY <1>9, <1>11

\* A set of places in ascending order.
LEMMA AscendingType ==
  ASSUME NEW n \in Nat, NEW S, S \subseteq 1..n
  PROVE  Cardinality(S) \in Nat /\ Ascending(S) \in [1..Cardinality(S) -> S]
<1>1. IsFiniteSet(S) /\ Cardinality(S) \in Nat
  <2>1. IsFiniteSet(1..n)
    BY FS_Interval
  <2> QED
    BY <2>1, FS_Subset, FS_CardinalityType
<1>2. \A k \in 1..Cardinality(S) : \E x \in S : Cardinality({y \in S : y <= x}) = k
  BY CountUpTo
<1> QED
  BY <1>1, <1>2 DEF Ascending

LEMMA PickType ==
  ASSUME NEW X, NEW line \in Seq(X), NEW S, S \subseteq DOMAIN line
  PROVE  Pick(line, S) \in Seq(X)
<1>1. S \subseteq 1..Len(line) /\ Len(line) \in Nat
  OBVIOUS
<1>2. Cardinality(S) \in Nat /\ Ascending(S) \in [1..Cardinality(S) -> S]
  BY <1>1, AscendingType
<1>3. DOMAIN Ascending(S) = 1..Cardinality(S)
  BY <1>2
<1>4. \A k \in 1..Cardinality(S) : line[Ascending(S)[k]] \in X
  BY <1>1, <1>2
<1>5. Pick(line, S) = [k \in 1..Cardinality(S) |-> line[Ascending(S)[k]]]
  BY <1>3 DEF Pick
<1> QED
  BY <1>2, <1>4, <1>5

\* A finite set as a sequence.
LEMMA SetToSeqType ==
  ASSUME NEW S, IsFiniteSet(S)
  PROVE  Cardinality(S) \in Nat /\ SetToSeq(S) \in [1..Cardinality(S) -> S]
<1>1. Cardinality(S) \in Nat /\ ExistsBijection(1..Cardinality(S), S)
  BY FS_CardinalityType
<1>2. PICK f : f \in Bijection(1..Cardinality(S), S)
  BY <1>1 DEF ExistsBijection
<1>3. f \in [1..Cardinality(S) -> S] /\ IsInjective(f)
  BY <1>2 DEF Bijection, Injection
<1> QED
  BY <1>1, <1>3 DEF SetToSeq

-------------------------------------------------------------------------------
(* Lines *)

\* A function on 1..m is a sequence.
LEMMA SequenceOver ==
  ASSUME NEW S, NEW m \in Nat, NEW f \in [1..m -> S]
  PROVE  f \in Seq(S)
BY SeqDef

Token == STRING \cup ToSet(Dummy) \cup ToSet(EndMarker)
Line == Seq(Token)

LEMMA MarksType == Dummy \in Line /\ EndMarker \in Line
<1>1. DOMAIN Dummy = 1..2 /\ DOMAIN EndMarker = 1..2
  BY DEF Dummy, EndMarker
<1>2. Dummy \in [1..2 -> ToSet(Dummy)] /\ EndMarker \in [1..2 -> ToSet(EndMarker)]
  <2>1. Dummy = [i \in 1..2 |-> Dummy[i]] /\ EndMarker = [i \in 1..2 |-> EndMarker[i]]
    BY <1>1 DEF Dummy, EndMarker
  <2> QED
    BY <1>1, <2>1 DEF ToSet
<1>3. Dummy \in [1..2 -> Token] /\ EndMarker \in [1..2 -> Token]
  BY <1>2 DEF Token
<1> HIDE DEF Token
<1>4. Dummy \in Seq(Token) /\ EndMarker \in Seq(Token)
  <2>1. 2 \in Nat
    OBVIOUS
  <2> QED
    BY <1>3, <2>1, SequenceOver, Zenon
<1> QED
  BY <1>4 DEF Line

LEMMA FirstAtType ==
  ASSUME NEW line \in Line, NEW t
  PROVE  FirstAt(line, t) \in 0..Len(line)
<1> DEFINE I == {i \in 1..Len(line) : line[i] = t}
<1>1. I \subseteq Nat
  OBVIOUS
<1>2. FirstAt(line, t) = IF I # {} THEN Min(I) ELSE 0
  BY DEF FirstAt, SelectInSeq
<1>3. I # {} => Min(I) \in I
  <2> HIDE DEF I
  <2> QED
    BY <1>1, MinOf
<1>4. Len(line) \in Nat
  BY LenProperties DEF Line
<1> QED
  BY <1>2, <1>3, <1>4

LEMMA LastAtType ==
  ASSUME NEW line \in Line, NEW t
  PROVE  LastAt(line, t) \in 0..Len(line)
<1> DEFINE I == {i \in 1..Len(line) : line[i] = t}
<1>1. I \subseteq 0..Len(line)
  OBVIOUS
<1>2. LastAt(line, t) = IF I # {} THEN Max(I) ELSE 0
  BY DEF LastAt, SelectLastInSeq
<1>3. Len(line) \in Nat
  BY LenProperties DEF Line
<1>4. I # {} => Max(I) \in I
  <2> HIDE DEF I
  <2> QED
    BY <1>1, <1>3, MaxOf
<1> QED
  BY <1>2, <1>3, <1>4

\* A part of a line is a line.
LEMMA PartType ==
  ASSUME NEW line \in Line, NEW a \in 1..Len(line) + 1, NEW b \in 0..Len(line)
  PROVE  SubSeq(line, a, b) \in Line
<1>1. \A i \in 1..Len(line) : line[i] \in Token
  BY ElementOfSeq DEF Line
<1>2. Len(line) \in Nat
  BY LenProperties DEF Line
<1>3. \A i \in a..b : line[i] \in Token
  BY <1>1, <1>2
<1> QED
  BY <1>2, <1>3, SubSeqProperties DEF Line

LEMMA RStripType ==
  ASSUME NEW line \in Line
  PROVE  RStrip(line) \in Line
<1> DEFINE S == {0} \cup {i \in DOMAIN line : line[i] # " "}
<1>1. Len(line) \in Nat /\ DOMAIN line = 1..Len(line)
  BY LenProperties DEF Line
<1>2. S \subseteq 0..Len(line) /\ S # {}
  <2>1. 0 \in S /\ \A x \in S : x = 0 \/ x \in 1..Len(line)
    BY <1>1
  <2> HIDE DEF S
  <2>2. \A x \in S : x \in 0..Len(line)
    BY <1>1, <2>1
  <2> QED
    BY <2>1, <2>2
<1>3. RStrip(line) = SubSeq(line, 1, Max(S))
  BY DEF RStrip
<1>4. Max(S) \in 0..Len(line)
  <2> HIDE DEF S
  <2> QED
    BY <1>1, <1>2, MaxOf
<1> HIDE DEF S
<1> QED
  BY <1>1, <1>3, <1>4, PartType

LEMMA DropCommentType ==
  ASSUME NEW line \in Line
  PROVE  DropComment(line) \in Line
<1> DEFINE a == FirstAt(line, "/*")
           b == LastAt(line, "*/")
           rest == SubSeq(line, 1, a - 1) \o SubSeq(line, b + 1, Len(line))
<1>1. a \in 0..Len(line) /\ b \in 0..Len(line) /\ Len(line) \in Nat
  BY FirstAtType, LastAtType, LenProperties DEF Line
<1>2. DropComment(line) = IF a = 0 \/ b < a THEN line
                          ELSE IF b = Len(line) THEN RStrip(rest) ELSE rest
  BY DEF DropComment
<1>3. CASE a = 0
  BY <1>2, <1>3
<1>4. CASE a # 0
  <2> HIDE DEF a, b
  <2>1. SubSeq(line, 1, a - 1) \in Line
    <3>1. 1 \in 1..Len(line) + 1 /\ a - 1 \in 0..Len(line)
      BY <1>1, <1>4
    <3> QED
      BY <3>1, PartType
  <2>2. SubSeq(line, b + 1, Len(line)) \in Line
    <3>1. b + 1 \in 1..Len(line) + 1 /\ Len(line) \in 0..Len(line)
      BY <1>1
    <3> QED
      BY <3>1, PartType
  <2>3. rest \in Line
    BY <2>1, <2>2, ConcatProperties DEF Line
  <2> HIDE DEF rest
  <2>4. RStrip(rest) \in Line
    BY <2>3, RStripType
  <2> QED
    BY <1>2, <2>3, <2>4
<1> QED
  BY <1>3, <1>4

LEMMA CleanseCommentsType ==
  ASSUME NEW line \in Line
  PROVE  CleanseComments(line) \in Line
<1> DEFINE c == FirstAt(line, "//")
           before == SubSeq(line, 1, c - 1)
           kept == IF c # 0 /\ ~IsCppString(before) THEN RStrip(before) ELSE line
<1>1. c \in 0..Len(line) /\ Len(line) \in Nat
  BY FirstAtType, LenProperties DEF Line
<1>2. CleanseComments(line) = DropComment(kept)
  BY DEF CleanseComments
<1>3. kept \in Line
  <2>1. CASE c = 0
    BY <2>1
  <2>2. CASE c # 0
    <3> HIDE DEF c
    <3>1. 1 \in 1..Len(line) + 1 /\ c - 1 \in 0..Len(line)
      BY <1>1, <2>2
    <3>2. before \in Line
      BY <3>1, PartType
    <3> HIDE DEF before
    <3>3. RStrip(before) \in Line
      BY <3>2, RStripType
    <3> QED
      BY <3>3
  <2> QED
    BY <2>1, <2>2
<1> HIDE DEF kept
<1> QED
  BY <1>2, <1>3, DropCommentType

LEMMA CollapseStringsType ==
  ASSUME NEW line \in Line
  PROVE  CollapseStrings(line) \in Line
<1> DEFINE before(i) == Cardinality({j \in 1..(i - 1) : line[j] = Quote})
           inside(i) == /\ line[i] # Quote /\ before(i) % 2 = 1
                        /\ \E j \in (i + 1)..Len(line) : line[j] = Quote
           S == {i \in DOMAIN line : ~inside(i)}
<1>1. CollapseStrings(line) = IF IsInclude(line) THEN line ELSE Pick(line, S)
  BY DEF CollapseStrings
<1>2. S \subseteq DOMAIN line
  OBVIOUS
<1> HIDE DEF S
<1>3. Pick(line, S) \in Line
  BY <1>2, PickType DEF Line
<1> QED
  BY <1>1, <1>3

\* The three views of a file are as long as the file, and made of lines.
Views(clean_) ==
  /\ clean_.raw \in Seq(Line) /\ clean_.lines \in Seq(Line) /\ clean_.elided \in Seq(Line)
  /\ Len(clean_.lines) = Len(clean_.raw) /\ Len(clean_.elided) = Len(clean_.raw)

LEMMA CleansedType ==
  ASSUME NEW lines \in Seq(Line)
  PROVE  Views(CleansedLines(lines)) /\ CleansedLines(lines).raw = lines
<1> DEFINE c == CleansedLines(lines)
<1>1. Len(lines) \in Nat /\ DOMAIN lines = 1..Len(lines)
  BY LenProperties
<1>2. \A i \in 1..Len(lines) : lines[i] \in Line
  BY ElementOfSeq
<1>3. \A i \in 1..Len(lines) : CleanseComments(lines[i]) \in Line
  BY <1>2, CleanseCommentsType
<1>4. \A i \in 1..Len(lines) : CleanseComments(CollapseStrings(lines[i])) \in Line
  BY <1>2, CleanseCommentsType, CollapseStringsType
<1>5. /\ c.raw = lines
      /\ c.lines = [i \in 1..Len(lines) |-> CleanseComments(lines[i])]
      /\ c.elided = [i \in 1..Len(lines) |-> CleanseComments(CollapseStrings(lines[i]))]
  BY <1>1 DEF CleansedLines
<1>6. c.lines \in [1..Len(lines) -> Line] /\ c.elided \in [1..Len(lines) -> Line]
  BY <1>3, <1>4, <1>5
<1>7. c.lines \in Seq(Line) /\ c.elided \in Seq(Line)
  BY <1>1, <1>6
<1>8. Len(c.lines) = Len(lines) /\ Len(c.elided) = Len(lines)
  BY <1>1, <1>6
<1> QED
  BY <1>5, <1>7, <1>8 DEF Views

-------------------------------------------------------------------------------
(* Comments over several lines *)

LEMMA CommentAfterType ==
  ASSUME NEW lines \in Seq(Line)
  PROVE  \A i \in 0..Len(lines) : CommentAfter(lines)[i] \in 0..Len(lines)
<1> DEFINE n == Len(lines)
           Next1(i, b) == IF IsMultiLineCommentEnd(lines, i) THEN 0
                          ELSE IF b = 0 /\ IsMultiLineCommentStart(lines, i) THEN i ELSE b
           Solves(f) == f = [i \in 0..n |-> IF i = 0 THEN 0 ELSE Next1(i, f[i - 1])]
           F == [p \in (1..n) \X (0..n) |-> Next1(p[1], p[2])]
<1>1. n \in Nat
  BY LenProperties
<1> HIDE DEF n
<1>2. \A i \in 1..n, b \in 0..n : Next1(i, b) \in 0..n
  BY <1>1
<1>3. CommentAfter(lines) = CHOOSE f : Solves(f)
  BY Zenon DEF CommentAfter, n
<1> HIDE DEF Next1
<1>4. F \in [(1..n) \X (0..n) -> 0..n]
  <2>1. \A p \in (1..n) \X (0..n) : Next1(p[1], p[2]) \in 0..n
    BY <1>2
  <2> QED
    BY <2>1
<1>5. \A i \in 1..n, b \in 0..n : F[<<i, b>>] = Next1(i, b)
  OBVIOUS
<1> HIDE DEF F
<1>6. PICK g \in [0..n -> 0..n] : g[0] = 0 /\ \A i \in 1..n : g[i] = F[<<i, g[i - 1]>>]
  <2>1. 0 \in 0..n
    BY <1>1
  <2>2. \E f : Recurs(f, n, 0..n, 0, F)
    BY <1>1, <1>4, <2>1, Recursion
  <2> QED
    BY <2>2 DEF Recurs
<1>7. \A i \in 1..n : g[i] = Next1(i, g[i - 1])
  <2> SUFFICES ASSUME NEW i \in 1..n PROVE g[i] = Next1(i, g[i - 1])
    OBVIOUS
  <2>1. g[i - 1] \in 0..n
    BY <1>1
  <2> QED
    BY <1>5, <1>6, <2>1
<1>8. Solves(g)
  <2>1. ASSUME NEW i \in 0..n
        PROVE  g[i] = IF i = 0 THEN 0 ELSE Next1(i, g[i - 1])
    <3>1. i = 0 \/ i \in 1..n
      BY <1>1
    <3> QED
      BY <3>1, <1>6, <1>7
  <2> QED
    BY <2>1
<1> DEFINE C == CommentAfter(lines)
<1>9. Solves(C)
  <2> HIDE DEF Solves
  <2> QED
    BY <1>3, <1>8, Zenon
<1> HIDE DEF C
<1>10. C[0] = 0 /\ \A i \in 1..n : C[i] = Next1(i, C[i - 1])
  <2>1. C[0] = 0
    BY <1>1, <1>9
  <2>2. \A i \in 1..n : i \in 0..n /\ i # 0
    BY <1>1
  <2> QED
    BY <2>1, <2>2, <1>9
<1> DEFINE T == {i \in 0..n : C[i] \in 0..n}
<1>11. 0 \in T
  BY <1>1, <1>10
<1>12. ASSUME NEW i \in 0..n - 1, i \in T PROVE i + 1 \in T
  <2>1. i + 1 \in 1..n /\ (i + 1) - 1 = i
    BY <1>1
  <2>2. C[i + 1] = Next1(i + 1, C[i])
    BY <1>10, <2>1
  <2> QED
    BY <1>2, <1>12, <2>1, <2>2
<1>13. \A i \in 0..n : i \in T
  <2> HIDE DEF T
  <2> QED
    BY <1>1, <1>11, <1>12, Upward
<1> QED
  BY <1>13 DEF C, n

\* A file keeps its length, and a line is kept or replaced.
LEMMA RemovedType ==
  ASSUME NEW lines \in Seq(Line)
  PROVE  LET r == RemoveMultiLineComments(lines)
         IN /\ r.open \in 0..Len(lines)
            /\ r.lines \in Seq(Line) /\ Len(r.lines) = Len(lines)
            /\ \A i \in 1..Len(lines) : r.lines[i] \in {lines[i], Dummy}
<1> DEFINE r == RemoveMultiLineComments(lines)
           after == CommentAfter(lines)
           removed(i) == \E begin \in {after[i - 1], after[i]} : begin \notin {0, after[Len(lines)]}
<1>1. Len(lines) \in Nat /\ DOMAIN lines = 1..Len(lines)
  BY LenProperties
<1>2. \A i \in 1..Len(lines) : lines[i] \in Line
  BY ElementOfSeq
<1>3. Dummy \in Line
  BY MarksType
<1>4. r.open = after[Len(lines)] /\ r.lines = [i \in 1..Len(lines) |-> IF removed(i) THEN Dummy ELSE lines[i]]
  BY <1>1 DEF RemoveMultiLineComments
<1>5. r.open \in 0..Len(lines)
  BY <1>1, <1>4, CommentAfterType
<1> HIDE DEF removed, r
<1>6. \A i \in 1..Len(lines) : r.lines[i] \in {lines[i], Dummy}
  BY <1>4
<1>7. r.lines \in [1..Len(lines) -> Line]
  BY <1>2, <1>3, <1>4
<1>8. r.lines \in Seq(Line) /\ Len(r.lines) = Len(lines)
  BY <1>1, <1>7
<1> QED
  BY <1>5, <1>6, <1>8 DEF r

-------------------------------------------------------------------------------
(* Errors *)

\* A sequence of errors whose confidence is from 0 to 5 and whose lines are in S.
Errors(es, S) ==
  /\ es \in Seq(ToSet(es))
  /\ \A k \in DOMAIN es : es[k].conf \in 0..5 /\ es[k].line \in S

LEMMA Confidences == 0 \in 0..5 /\ 1 \in 0..5 /\ 2 \in 0..5 /\ 3 \in 0..5 /\ 4 \in 0..5 /\ 5 \in 0..5
OBVIOUS

LEMMA NoErrors ==
  ASSUME NEW S
  PROVE  Errors(<<>>, S)
BY EmptySeq DEF Errors

LEMMA OneError ==
  ASSUME NEW S, NEW cat, NEW conf \in 0..5, NEW i \in S
  PROVE  Errors(<<Err(cat, conf, i)>>, S)
<1> DEFINE e == Err(cat, conf, i)
<1>1. e.conf = conf /\ e.line = i
  BY DEF Err
<1> HIDE DEF e
<1>2. <<e>> \in Seq({e}) /\ DOMAIN <<e>> = 1..1 /\ <<e>>[1] = e
  OBVIOUS
<1>3. ToSet(<<e>>) = {e}
  BY <1>2 DEF ToSet
<1>4. Errors(<<e>>, S)
  BY <1>1, <1>2, <1>3 DEF Errors
<1> QED
  BY <1>4 DEF e

LEMMA ErrorsIf ==
  ASSUME NEW S, NEW cond, NEW cat, NEW conf \in 0..5, NEW i \in S
  PROVE  Errors(If(cond, Err(cat, conf, i)), S) /\ Errors(ErrIf(cond, cat, conf, i), S)
BY NoErrors, OneError, Zenon DEF If, ErrIf

LEMMA MoreErrors ==
  ASSUME NEW S, NEW s, NEW t, Errors(s, S), Errors(t, S)
  PROVE  Errors(s \o t, S)
<1> DEFINE R == ToSet(s) \cup ToSet(t)
<1>1. s \in Seq(R) /\ t \in Seq(R)
  BY SeqMonotonic DEF Errors
<1>2. Len(s) \in Nat /\ Len(t) \in Nat /\ DOMAIN s = 1..Len(s) /\ DOMAIN t = 1..Len(t)
  BY LenProperties DEF Errors
<1> HIDE DEF R
<1>3. /\ s \o t \in Seq(R)
      /\ DOMAIN (s \o t) = 1..Len(s) + Len(t)
      /\ \A k \in 1..Len(s) + Len(t) : (s \o t)[k] = IF k <= Len(s) THEN s[k] ELSE t[k - Len(s)]
  BY <1>1, ConcatProperties, LenProperties
<1>4. ASSUME NEW k \in 1..Len(s) + Len(t)
      PROVE  (s \o t)[k].conf \in 0..5 /\ (s \o t)[k].line \in S
  <2>1. CASE k <= Len(s)
    <3>1. k \in DOMAIN s /\ (s \o t)[k] = s[k]
      BY <1>2, <1>3, <2>1
    <3> QED
      BY <3>1 DEF Errors
  <2>2. CASE ~(k <= Len(s))
    <3>1. k - Len(s) \in DOMAIN t /\ (s \o t)[k] = t[k - Len(s)]
      BY <1>2, <1>3, <2>2
    <3> QED
      BY <3>1 DEF Errors
  <2> QED
    BY <2>1, <2>2
<1>5. s \o t \in Seq(ToSet(s \o t))
  <2>1. Len(s) + Len(t) \in Nat
    BY <1>2
  <2>2. s \o t \in [1..Len(s) + Len(t) -> R]
    BY <1>3, LenProperties
  <2>3. \A k \in 1..Len(s) + Len(t) : (s \o t)[k] \in ToSet(s \o t)
    BY <1>3 DEF ToSet
  <2>4. s \o t \in [1..Len(s) + Len(t) -> ToSet(s \o t)]
    BY <2>2, <2>3
  <2> QED
    BY <2>1, <2>4, SequenceOver, Zenon
<1> QED
  BY <1>3, <1>4, <1>5 DEF Errors

LEMMA ErrorsIn ==
  ASSUME NEW S, NEW T, NEW es, Errors(es, S), S \subseteq T
  PROVE  Errors(es, T)
BY DEF Errors

\* One error for each number up to m.
LEMMA SeveralErrors ==
  ASSUME NEW S, NEW m \in Nat, NEW es, DOMAIN es = 1..m, es = [k \in 1..m |-> es[k]],
         \A k \in 1..m : es[k].conf \in 0..5 /\ es[k].line \in S
  PROVE  Errors(es, S)
<1>1. \A k \in 1..m : es[k] \in ToSet(es)
  BY DEF ToSet
<1>2. es \in [1..m -> ToSet(es)]
  BY <1>1
<1>3. es \in Seq(ToSet(es))
  BY <1>2, SequenceOver, Zenon
<1> QED
  BY <1>3 DEF Errors

-------------------------------------------------------------------------------
(* What the rules return *)

LEMMA CopyrightErrors ==
  ASSUME NEW lines, NEW S, 0 \in S
  PROVE  Errors(CheckForCopyright(lines), S)
BY Confidences, ErrorsIf, Zenon DEF CheckForCopyright

LEMMA CommentsAndStringsErrors ==
  ASSUME NEW c, NEW S, NEW i \in S
  PROVE  Errors(CheckForMultilineCommentsAndStrings(c, i), S)
BY Confidences, ErrorsIf, MoreErrors, Zenon DEF CheckForMultilineCommentsAndStrings

LEMMA NonStandardLineErrors ==
  ASSUME NEW c, NEW S, NEW i \in S
  PROVE  Errors(CheckForNonStandardLine(c, i), S)
BY Confidences, ErrorsIf, MoreErrors, Zenon DEF CheckForNonStandardLine

LEMMA InvalidIncrementErrors ==
  ASSUME NEW c, NEW S, NEW i \in S
  PROVE  Errors(CheckInvalidIncrement(c, i), S)
BY Confidences, ErrorsIf, Zenon DEF CheckInvalidIncrement

LEMMA MakePairErrors ==
  ASSUME NEW c, NEW S, NEW i \in S
  PROVE  Errors(CheckMakePairUsesDeduction(c, i), S)
BY Confidences, ErrorsIf, Zenon DEF CheckMakePairUsesDeduction

LEMMA SpacingErrors ==
  ASSUME NEW c, NEW S, NEW i \in S
  PROVE  Errors(CheckSpacing(c, i), S)
BY Confidences, NoErrors, ErrorsIf, MoreErrors, Zenon DEF CheckSpacing

LEMMA SectionSpacingErrors ==
  ASSUME NEW c, NEW S, NEW i \in S, NEW info, NEW small
  PROVE  Errors(CheckSectionSpacing(c, i, info, small), S)
BY Confidences, ErrorsIf, Zenon DEF CheckSectionSpacing

LEMMA BracesErrors ==
  ASSUME NEW elided, NEW S, NEW i \in S
  PROVE  /\ Errors(CheckBraces(elided, i).errs, S)
         /\ CheckBraces(elided, i).fate \in {"ok", "crashed", "hung"}
BY Confidences, ErrorsIf, MoreErrors, Zenon DEF CheckBraces

LEMMA StyleErrors ==
  ASSUME NEW c, NEW S, NEW i \in S, NEW stack, NEW small
  PROVE  /\ Errors(CheckStyle(c, i, stack, small).errs, S)
         /\ CheckStyle(c, i, stack, small).fate \in {"ok", "crashed", "hung"}
<1> DEFINE braces == CheckBraces(c.elided, i)
<1>1. Errors(braces.errs, S) /\ braces.fate \in {"ok", "crashed", "hung"}
  BY BracesErrors
<1>2. Errors(IF braces.fate # "ok" THEN <<>> ELSE CheckSpacing(c, i), S)
  BY NoErrors, SpacingErrors, Zenon
<1>3. Errors(IF braces.fate # "ok" \/ stack = <<>> THEN <<>>
             ELSE CheckSectionSpacing(c, i, Last(stack), small), S)
  BY NoErrors, SectionSpacingErrors, Zenon
<1> HIDE DEF braces
<1> QED
  BY <1>1, <1>2, <1>3, Confidences, OneError, ErrorsIf, MoreErrors, Zenon DEF CheckStyle, braces

LEMMA CastsErrors ==
  ASSUME NEW c, NEW S, NEW i \in S
  PROVE  Errors(CastErrors(c, i), S)
<1>1. ASSUME NEW line, NEW raw, NEW types, NEW stars
      PROVE  Errors(CheckCStyleCast(line, raw, types, stars, i), S)
  BY Confidences, NoErrors, OneError, ErrorsIf, Zenon DEF CheckCStyleCast
<1> QED
  BY <1>1, MoreErrors, Zenon DEF CastErrors

LEMMA UsagesErrors ==
  ASSUME NEW line, NEW S, NEW i \in S
  PROVE  Errors(UsageErrors(line, i), S)
BY Confidences, ErrorsIf, MoreErrors, Zenon DEF UsageErrors

LEMMA PlacementsErrors ==
  ASSUME NEW file, NEW elided, NEW S, NEW i \in S
  PROVE  Errors(PlacementErrors(file, elided, i), S)
BY Confidences, ErrorsIf, MoreErrors, Zenon DEF PlacementErrors

LEMMA IncludeLineErrors ==
  ASSUME NEW file, NEW c, NEW S, NEW i \in S, NEW state
  PROVE  Errors(CheckIncludeLine(file, c, i, state).errs, S)
BY Confidences, OneError, ErrorsIf, MoreErrors, Zenon DEF CheckIncludeLine

\* One error for each of some places, in ascending order.
LEMMA ErrorsAtPlaces ==
  ASSUME NEW S, NEW m \in Nat, NEW P, P \subseteq 1..m, P \subseteq S, NEW cat, NEW conf \in 0..5
  PROVE  Errors([k \in DOMAIN Ascending(P) |-> Err(cat, conf, Ascending(P)[k])], S)
<1> DEFINE a == Ascending(P)
           es == [k \in DOMAIN a |-> Err(cat, conf, a[k])]
<1>1. Cardinality(P) \in Nat /\ a \in [1..Cardinality(P) -> P]
  BY AscendingType
<1> HIDE DEF a
<1>2. DOMAIN es = 1..Cardinality(P) /\ es = [k \in 1..Cardinality(P) |-> es[k]]
  BY <1>1
<1>3. ASSUME NEW k \in 1..Cardinality(P) PROVE es[k].conf \in 0..5 /\ es[k].line \in S
  <2>1. a[k] \in S
    BY <1>1
  <2>2. es[k] = Err(cat, conf, a[k])
    BY <1>1
  <2> QED
    BY <2>1, <2>2 DEF Err
<1> HIDE DEF es
<1>4. Errors(es, S)
  BY <1>1, <1>2, <1>3, SeveralErrors, Zenon
<1> QED
  BY <1>4 DEF es, a

LEMMA UnicodeErrors ==
  ASSUME NEW lines \in Seq(Line), NEW S, 1..Len(lines) \subseteq S
  PROVE  Errors(CheckForUnicodeReplacementCharacters(lines), S)
<1> DEFINE P == {i \in DOMAIN lines : Has(lines[i], "U+FFFD")}
<1>1. Len(lines) \in Nat /\ P \subseteq 1..Len(lines) /\ P \subseteq S
  BY LenProperties
<1> HIDE DEF P
<1>2. Errors([k \in DOMAIN Ascending(P) |-> Err(<<"readability", "utf8">>, 5, Ascending(P)[k])], S)
  BY <1>1, Confidences, ErrorsAtPlaces, Zenon
<1> QED
  BY <1>2, Zenon DEF CheckForUnicodeReplacementCharacters, P

LEMMA NolintsErrors ==
  ASSUME NEW lines \in Seq(Line), NEW read, read \subseteq 1..Len(lines), NEW S, read \subseteq S
  PROVE  Errors(NolintErrors(lines, read), S)
<1> DEFINE P == {i \in read : NolintsOn(lines[i], i) # ParseNolintSuppressions(lines[i], i)}
<1>1. Len(lines) \in Nat /\ P \subseteq 1..Len(lines) /\ P \subseteq S
  BY LenProperties
<1> HIDE DEF P
<1>2. Errors([k \in DOMAIN Ascending(P) |-> Err(<<"readability", "nolint">>, 5, Ascending(P)[k])], S)
  BY <1>1, Confidences, ErrorsAtPlaces, Zenon
<1> QED
  BY <1>2, Zenon DEF NolintErrors, P

LEMMA WordsErrors ==
  ASSUME NEW file, NEW line \in Line, NEW S, NEW i \in S
  PROVE  Errors(WordErrors(file, line, i), S)
<1> DEFINE P == {k \in DOMAIN line : line[k] \in DOMAIN Wordings}
           words == Pick(line, P)
           es == [k \in DOMAIN words |-> Err(Wordings[words[k]].cat, Wordings[words[k]].conf, i)]
<1>1. Len(line) \in Nat /\ DOMAIN line = 1..Len(line)
  BY LenProperties DEF Line
<1>2. P \subseteq 1..Len(line)
  BY <1>1
<1>3. \A k \in P : line[k] \in DOMAIN Wordings
  OBVIOUS
<1> HIDE DEF P
<1>4. Cardinality(P) \in Nat /\ Ascending(P) \in [1..Cardinality(P) -> P]
  BY <1>1, <1>2, AscendingType
<1>5. words = [k \in 1..Cardinality(P) |-> line[Ascending(P)[k]]]
  BY <1>4 DEF Pick
<1>6. DOMAIN words = 1..Cardinality(P) /\ \A k \in 1..Cardinality(P) : words[k] \in DOMAIN Wordings
  BY <1>3, <1>4, <1>5
<1> HIDE DEF words
<1>7. DOMAIN es = 1..Cardinality(P) /\ es = [k \in 1..Cardinality(P) |-> es[k]]
  BY <1>6
<1>8. ASSUME NEW k \in 1..Cardinality(P) PROVE es[k].conf \in 0..5 /\ es[k].line \in S
  <2>1. es[k] = Err(Wordings[words[k]].cat, Wordings[words[k]].conf, i)
    BY <1>6
  <2>2. Wordings[words[k]].conf \in 0..5
    BY <1>6, WordingsAssumption
  <2> QED
    BY <2>1, <2>2 DEF Err
<1> HIDE DEF es
<1>9. Errors(es, S)
  BY <1>4, <1>7, <1>8, SeveralErrors, Zenon
<1>10. Errors(ErrIf(Has(line, "dynamic_cast") /\ ~IsTestFilename(file), <<"runtime", "rtti">>, 5, i), S)
  BY Confidences, ErrorsIf, Zenon
<1> QED
  BY <1>9, <1>10, MoreErrors, Zenon DEF WordErrors, es, words, P

LEMMA LanguageErrors ==
  ASSUME NEW file, NEW c, NEW S, NEW i \in S, c.elided[i] \in Line, NEW state
  PROVE  Errors(CheckLanguage(file, c, i, state).errs, S)
<1>1. Errors(CastErrors(c, i) \o WordErrors(file, c.elided[i], i)
             \o UsageErrors(c.elided[i], i) \o PlacementErrors(file, c.elided, i), S)
  BY CastsErrors, WordsErrors, UsagesErrors, PlacementsErrors, MoreErrors, Zenon
<1>2. Errors(CheckIncludeLine(file, c, i, state).errs, S)
  BY IncludeLineErrors
<1>3. CASE c.elided[i] = <<>>
  BY <1>3, NoErrors, Zenon DEF CheckLanguage
<1>4. CASE c.elided[i] # <<>> /\ IsInclude(c.elided[i])
  BY <1>2, <1>4, Zenon DEF CheckLanguage
<1>5. CASE c.elided[i] # <<>> /\ ~IsInclude(c.elided[i])
  BY <1>1, <1>5, Zenon DEF CheckLanguage
<1> QED
  BY <1>3, <1>4, <1>5

LEMMA PosixErrors ==
  ASSUME NEW c, NEW S, NEW i \in S
  PROVE  Errors(CheckPosixThreading(c, i), S)
<1> DEFINE line == c.elided[i]
           calls(f) == {k \in 1..(Len(line) - 1) : line[k] = f /\ line[k + 1] = "("}
           found == {f \in ThreadUnsafe : /\ calls(f) # {}
                                          /\ LET k == Min(calls(f))
                                             IN k = 1 \/ line[k - 1] \notin {".", "->"}}
           es == [k \in 1..Cardinality(found) |-> Err(<<"runtime", "threadsafe", "fn">>, 2, i)]
<1>1. CheckPosixThreading(c, i) = es
  BY Zenon DEF CheckPosixThreading
<1>2. found \subseteq ThreadUnsafe
  OBVIOUS
<1> HIDE DEF found
<1>3. IsFiniteSet(ThreadUnsafe)
  <2> DEFINE A == {} \cup {"asctime"} \cup {"ctime"} \cup {"getgrgid"}
             B == A \cup {"getgrnam"} \cup {"getlogin"} \cup {"getpwnam"}
             C == B \cup {"getpwuid"} \cup {"gmtime"} \cup {"localtime"}
             D == C \cup {"rand"} \cup {"readdir"} \cup {"strtok"} \cup {"ttyname"}
  <2>1. ASSUME NEW X, IsFiniteSet(X), NEW a, NEW b, NEW d
        PROVE  IsFiniteSet(X \cup {a} \cup {b} \cup {d})
    BY <2>1, FS_AddElement, Zenon
  <2>2. IsFiniteSet(D)
    <3>1. IsFiniteSet(A)
      BY <2>1, FS_EmptySet, Zenon
    <3> HIDE DEF A
    <3>2. IsFiniteSet(B)
      BY <2>1, <3>1, Zenon
    <3> HIDE DEF B
    <3>3. IsFiniteSet(C)
      BY <2>1, <3>2, Zenon
    <3> HIDE DEF C
    <3>4. IsFiniteSet(C \cup {"rand"} \cup {"readdir"} \cup {"strtok"})
      BY <2>1, <3>3, Zenon
    <3> QED
      BY <3>4, FS_AddElement, Zenon
  <2>3. ThreadUnsafe = D
    BY DEF ThreadUnsafe
  <2> QED
    BY <2>2, <2>3, Zenon
<1>4. Cardinality(found) \in Nat
  BY <1>2, <1>3, FS_Subset, FS_CardinalityType
<1>5. DOMAIN es = 1..Cardinality(found) /\ es = [k \in 1..Cardinality(found) |-> es[k]]
  OBVIOUS
<1>6. \A k \in 1..Cardinality(found) : es[k].conf \in 0..5 /\ es[k].line \in S
  BY DEF Err
<1> HIDE DEF es
<1> QED
  BY <1>1, <1>4, <1>5, <1>6, SeveralErrors, Zenon

LEMMA NewlineErrors ==
  ASSUME NEW lines, NEW S, Len(lines) - 1 \in S
  PROVE  Errors(CheckForNewlineAtEOF(lines), S)
BY Confidences, ErrorsIf, Zenon DEF CheckForNewlineAtEOF

LEMMA FirstDirectiveType ==
  ASSUME NEW lines \in Seq(Line), NEW d
  PROVE  FirstDirective(lines, d) \in 1..Len(lines) + 1
<1> DEFINE T == {Len(lines) + 1} \cup {i \in DOMAIN lines : /\ Len(Strip(lines[i])) >= 2
                                                            /\ Strip(lines[i])[1] = d}
<1>1. Len(lines) \in Nat /\ DOMAIN lines = 1..Len(lines)
  BY LenProperties
<1>2. Len(lines) + 1 \in T /\ \A x \in T : x = Len(lines) + 1 \/ x \in 1..Len(lines)
  BY <1>1
<1>3. FirstDirective(lines, d) = Min(T)
  BY DEF FirstDirective
<1> HIDE DEF T
<1>4. T \subseteq Nat /\ T # {}
  <2>1. \A x \in T : x \in Nat
    BY <1>1, <1>2
  <2> QED
    BY <1>2, <2>1
<1>5. Min(T) \in T
  BY <1>4, MinOf
<1> QED
  BY <1>1, <1>2, <1>3, <1>5

LEMMA LastEndifType ==
  ASSUME NEW lines \in Seq(Line)
  PROVE  LastEndif(lines) \in 0..Len(lines)
<1> DEFINE T == {0} \cup {i \in DOMAIN lines : StartsWith(lines[i], <<"#endif">>)}
<1>1. Len(lines) \in Nat /\ DOMAIN lines = 1..Len(lines)
  BY LenProperties
<1>2. 0 \in T /\ \A x \in T : x = 0 \/ x \in 1..Len(lines)
  BY <1>1
<1>3. LastEndif(lines) = Max(T)
  BY DEF LastEndif
<1> HIDE DEF T
<1>4. T \subseteq 0..Len(lines) /\ T # {}
  <2>1. \A x \in T : x \in 0..Len(lines)
    BY <1>1, <1>2
  <2> QED
    BY <1>2, <2>1
<1> QED
  BY <1>1, <1>3, <1>4, MaxOf

\* The errors of a guard are on line 0 or on the lines whose NOLINT was read for them.
LEMMA GuardErrors ==
  ASSUME NEW file, NEW lines \in Seq(Line)
  PROVE  LET guard == CheckForHeaderGuard(file, lines)
         IN guard.reads \subseteq 1..Len(lines) /\ Errors(guard.errs, {0} \cup guard.reads)
<1> DEFINE path == Flat(RepositoryName(file))
           ifndef == FirstDirective(lines, "#ifndef")
           define == FirstDirective(lines, "#define")
           endif == LastEndif(lines)
           name == Strip(lines[ifndef])[2]
           cat == <<"build", "header", "guard">>
           endifSays(n) == endif # 0 /\ RStrip(lines[endif]) = <<"#endif", "//", n>>
           wrongIfndef == name # GuardOf[path]
           unlike == Strip(lines[define])[2] # name
           wrongEndif == ~unlike /\ ~endifSays(GuardOf[path])
           none == ifndef > Len(lines) \/ define > Len(lines)
           reads == (IF wrongIfndef THEN {ifndef} ELSE {}) \cup (IF wrongEndif THEN {endif} \ {0} ELSE {})
           c1 == IF name = OldGuardOf[path] THEN 0 ELSE 5
           c2 == IF endifSays(OldGuardOf[path]) THEN 0 ELSE 5
           errs == If(wrongIfndef, Err(cat, c1, ifndef)) \o If(unlike, Err(cat, 5, 0))
                   \o If(wrongEndif, Err(cat, c2, endif))
           guard == CheckForHeaderGuard(file, lines)
<1>1. guard = IF none THEN [reads |-> {}, errs |-> <<Err(cat, 5, 0)>>] ELSE [reads |-> reads, errs |-> errs]
  BY Zenon DEF CheckForHeaderGuard
<1>2. Len(lines) \in Nat /\ ifndef \in 1..Len(lines) + 1 /\ endif \in 0..Len(lines)
  BY LenProperties, FirstDirectiveType, LastEndifType
<1>3. c1 \in 0..5 /\ c2 \in 0..5
  BY Confidences, Zenon
<1> HIDE DEF c1, c2, wrongIfndef, unlike, wrongEndif, ifndef, endif, cat
<1>4. CASE none
  <2>1. guard.reads = {} /\ guard.errs = <<Err(cat, 5, 0)>>
    <3>1. guard = [reads |-> {}, errs |-> <<Err(cat, 5, 0)>>]
      BY <1>1, <1>4, Zenon
    <3> HIDE DEF guard
    <3> QED
      BY <3>1
  <2>2. Errors(<<Err(cat, 5, 0)>>, {0} \cup {})
    BY Confidences, OneError, Zenon
  <2> QED
    BY <2>1, <2>2
<1>5. CASE ~none
  <2>1. guard.reads = reads /\ guard.errs = errs
    <3>1. guard = [reads |-> reads, errs |-> errs]
      BY <1>1, <1>5, Zenon
    <3> HIDE DEF guard, reads, errs
    <3> QED
      BY <3>1
  <2>2. reads \subseteq 1..Len(lines)
    <3>1. wrongIfndef => ifndef \in 1..Len(lines)
      BY <1>2, <1>5
    <3>2. \A x \in {endif} \ {0} : x \in 1..Len(lines)
      BY <1>2
    <3> QED
      BY <3>1, <3>2
  <2> DEFINE S == {0} \cup reads
  <2>3. 0 \in S /\ (wrongIfndef => ifndef \in S) /\ (wrongEndif => endif \in S)
    OBVIOUS
  <2> HIDE DEF S
  <2>4. Errors(If(wrongIfndef, Err(cat, c1, ifndef)), S)
    BY <1>3, <2>3, NoErrors, OneError, Zenon DEF If
  <2>5. Errors(If(unlike, Err(cat, 5, 0)), S)
    BY <2>3, Confidences, ErrorsIf, Zenon
  <2>6. Errors(If(wrongEndif, Err(cat, c2, endif)), S)
    BY <1>3, <2>3, NoErrors, OneError, Zenon DEF If
  <2>7. Errors(errs, S)
    BY <2>4, <2>5, <2>6, MoreErrors, Zenon
  <2> HIDE DEF errs, guard, reads
  <2> QED
    BY <2>1, <2>2, <2>7 DEF S, guard
<1> QED
  BY <1>4, <1>5

\* What a line needs is a finite set of headers.
LEMMA UsesFinite ==
  ASSUME NEW line \in Line
  PROVE  IsFiniteSet(Uses(line))
<1> DEFINE K == {j \in DOMAIN line : line[j] \in DOMAIN Needs}
           f == [j \in K |-> Needs[line[j]]]
           T == {Needs[line[k]] : k \in K}
           U == IF UsesString(line) THEN {"string"} ELSE {}
<1>1. IsFiniteSet(K)
  <2>1. DOMAIN line = 1..Len(line) /\ Len(line) \in Nat
    BY LenProperties DEF Line
  <2>2. IsFiniteSet(DOMAIN line)
    BY <2>1, FS_Interval
  <2>3. K \in SUBSET (DOMAIN line)
    OBVIOUS
  <2> HIDE DEF K
  <2> QED
    BY <2>2, <2>3, FS_Subset
<1> HIDE DEF K
<1>2. f \in Surjection(K, T)
  BY DEF Surjection
<1> HIDE DEF f
<1>3. IsFiniteSet(T)
  <2> HIDE DEF T
  <2> QED
    BY <1>1, <1>2, FS_Surjection
<1>4. IsFiniteSet(U)
  BY FS_EmptySet, FS_Singleton, Zenon
<1>5. IsFiniteSet(T \cup U)
  <2> HIDE DEF T, U
  <2> QED
    BY <1>3, <1>4, FS_Union
<1>6. Uses(line) = {} \/ Uses(line) = T \cup U
  BY Zenon DEF Uses, K
<1> QED
  BY <1>5, <1>6, FS_EmptySet, Zenon

LEMMA IncludeWhatYouUseErrors ==
  ASSUME NEW file, NEW c, c.elided \in Seq(Line), NEW state, NEW S, 1..Len(c.elided) \subseteq S
  PROVE  Errors(CheckForIncludeWhatYouUse(file, c, state), S)
<1> DEFINE lines == DOMAIN c.elided
           required == UNION {Uses(c.elided[i]) : i \in lines}
           lastUse(h) == Max({i \in lines : h \in Uses(c.elided[i])})
           M == required \ Known(file, state.seen)
           missing == SetToSeq(M)
           cat == <<"build", "include", "what", "you", "use">>
           es == [k \in DOMAIN missing |-> Err(cat, 4, lastUse(missing[k]))]
<1>1. CheckForIncludeWhatYouUse(file, c, state) = <<>> \/ CheckForIncludeWhatYouUse(file, c, state) = es
  BY Zenon DEF CheckForIncludeWhatYouUse
<1>2. lines = 1..Len(c.elided) /\ Len(c.elided) \in Nat /\ \A i \in lines : c.elided[i] \in Line
  BY LenProperties, ElementOfSeq
<1>3. IsFiniteSet(required)
  <2> DEFINE T == {Uses(c.elided[i]) : i \in lines}
             f == [i \in lines |-> Uses(c.elided[i])]
  <2>1. IsFiniteSet(lines)
    BY <1>2, FS_Interval
  <2>2. f \in Surjection(lines, T)
    BY DEF Surjection
  <2>3. \A u \in T : IsFiniteSet(u)
    BY <1>2, UsesFinite
  <2> HIDE DEF f
  <2>4. IsFiniteSet(T)
    <3> HIDE DEF T
    <3> QED
      BY <2>1, <2>2, FS_Surjection
  <2> HIDE DEF T
  <2>5. IsFiniteSet(UNION T)
    BY <2>3, <2>4, FS_UNION
  <2> QED
    BY <2>5 DEF T
<1>4. ASSUME NEW h \in required PROVE lastUse(h) \in 1..Len(c.elided)
  <2> DEFINE P == {i \in lines : h \in Uses(c.elided[i])}
  <2>1. P # {}
    OBVIOUS
  <2>2. \A x \in P : x \in 1..Len(c.elided)
    BY <1>2
  <2> HIDE DEF P
  <2>3. P \subseteq 0..Len(c.elided)
    BY <1>2, <2>2
  <2>4. Max(P) \in P
    BY <1>2, <2>1, <2>3, MaxOf
  <2> QED
    BY <2>2, <2>4 DEF P
<1> HIDE DEF required, lastUse
<1>5. Cardinality(M) \in Nat /\ missing \in [1..Cardinality(M) -> M]
  <2>1. IsFiniteSet(M)
    <3>1. M \in SUBSET required
      OBVIOUS
    <3> HIDE DEF M
    <3> QED
      BY <1>3, <3>1, FS_Subset
  <2> HIDE DEF M
  <2> QED
    BY <2>1, SetToSeqType
<1>6. M \subseteq required
  OBVIOUS
<1> HIDE DEF missing, M
<1>7. DOMAIN es = 1..Cardinality(M) /\ es = [k \in 1..Cardinality(M) |-> es[k]]
  BY <1>5
<1>8. ASSUME NEW k \in 1..Cardinality(M) PROVE es[k].conf \in 0..5 /\ es[k].line \in S
  <2>1. missing[k] \in required
    BY <1>5, <1>6
  <2>2. es[k] = Err(cat, 4, lastUse(missing[k]))
    BY <1>5
  <2>3. lastUse(missing[k]) \in S
    BY <1>4, <2>1
  <2> QED
    BY <2>2, <2>3, Confidences DEF Err
<1> HIDE DEF es
<1>9. Errors(es, S)
  BY <1>5, <1>7, <1>8, SeveralErrors, Zenon
<1> QED
  BY <1>1, <1>9, NoErrors

-------------------------------------------------------------------------------
(* The states of a file *)

\* A power of two is above its exponent.
LEMMA PowerOf2Type ==
  ASSUME NEW n \in Nat
  PROVE  PowerOf2(n) \in Nat \ {0} /\ PowerOf2(n) > n /\ PowerOf2(0) = 1
<1> DEFINE X == Nat \ {0}
           Solves(m, f) == f = [k \in 0..m |-> IF k = 0 THEN 1 ELSE 2 * f[k - 1]]
           f(m) == CHOOSE h : Solves(m, h)
           F(m) == [p \in (1..m) \X X |-> 2 * p[2]]
<1>1. ASSUME NEW m \in Nat PROVE f(m)[m] \in X /\ f(m)[m] > m /\ (m = 0 => f(m)[m] = 1)
  <2>1. F(m) \in [(1..m) \X X -> X]
    <3>1. \A p \in (1..m) \X X : 2 * p[2] \in X
      OBVIOUS
    <3> QED
      BY <3>1
  <2>2. \A i \in 1..m, x \in X : F(m)[<<i, x>>] = 2 * x
    OBVIOUS
  <2> HIDE DEF F, X
  <2>3. 1 \in X
    BY DEF X
  <2>4. PICK g \in [0..m -> X] : g[0] = 1 /\ \A i \in 1..m : g[i] = F(m)[<<i, g[i - 1]>>]
    <3>1. \E h : Recurs(h, m, X, 1, F(m))
      BY <2>1, <2>3, Recursion
    <3> QED
      BY <3>1 DEF Recurs
  <2>5. \A i \in 1..m : g[i] = 2 * g[i - 1]
    <3> SUFFICES ASSUME NEW i \in 1..m PROVE g[i] = 2 * g[i - 1]
      OBVIOUS
    <3>1. g[i - 1] \in X
      OBVIOUS
    <3> QED
      BY <2>2, <2>4, <3>1
  <2>6. Solves(m, g)
    <3>1. ASSUME NEW i \in 0..m PROVE g[i] = IF i = 0 THEN 1 ELSE 2 * g[i - 1]
      <4>1. i = 0 \/ i \in 1..m
        OBVIOUS
      <4> QED
        BY <4>1, <2>4, <2>5
    <3> QED
      BY <3>1
  <2> DEFINE G == f(m)
  <2>7. Solves(m, G)
    <3> HIDE DEF Solves
    <3> QED
      BY <2>6, Zenon
  <2> HIDE DEF G, f
  <2>8. G[0] = 1
    BY <2>7
  <2>9. \A i \in 1..m : G[i] = 2 * G[i - 1]
    <3>1. \A i \in 1..m : i \in 0..m /\ i # 0
      OBVIOUS
    <3> QED
      BY <3>1, <2>7
  <2> DEFINE T == {i \in 0..m : G[i] \in X /\ G[i] > i}
  <2>10. 0 \in T
    BY <2>3, <2>8
  <2>11. ASSUME NEW i \in 0..m - 1, i \in T PROVE i + 1 \in T
    <3>1. i + 1 \in 1..m /\ (i + 1) - 1 = i
      OBVIOUS
    <3>2. G[i + 1] = 2 * G[i]
      BY <2>9, <3>1
    <3> QED
      BY <2>11, <3>1, <3>2 DEF X
  <2>12. \A i \in 0..m : i \in T
    <3> HIDE DEF T
    <3> QED
      BY <2>10, <2>11, Upward
  <2> QED
    BY <2>8, <2>12 DEF G
<1>2. PowerOf2(n) = f(n)[n] /\ PowerOf2(0) = f(0)[0]
  BY Zenon DEF PowerOf2
<1> HIDE DEF f
<1> QED
  BY <1>1, <1>2

\* The confidence of a function that is too long.
LEMMA LengthErrors ==
  ASSUME NEW f, f.count \in Nat, NEW verb \in Nat, NEW S, NEW i \in S
  PROVE  Errors(CheckLength(f, i, verb), S)
<1> DEFINE base == BaseTrigger(f)
           n == f.count \div base
           long == f.count > base * PowerOf2(verb)
           conf == Min({5, Log2(n)})
<1>1. base \in Nat \ {0} /\ PowerOf2(verb) \in Nat \ {0} /\ PowerOf2(0) = 1
  BY TriggerAssumption, PowerOf2Type DEF BaseTrigger
<1>2. ASSUME long PROVE conf \in 0..5
  <2>1. f.count >= base
    <3>1. base * PowerOf2(verb) >= base
      <4> DEFINE q == PowerOf2(verb)
      <4>1. \A b \in Nat, r \in Nat \ {0} : b * r >= b
        OBVIOUS
      <4> HIDE DEF base, q
      <4> QED
        BY <1>1, <4>1 DEF q
    <3>2. base * PowerOf2(verb) \in Nat
      BY <1>1
    <3> HIDE DEF base
    <3> QED
      BY <1>1, <1>2, <3>1, <3>2
  <2>2. n \in Nat /\ n >= 1
    <3> HIDE DEF base
    <3> QED
      BY <1>1, <2>1
  <2> HIDE DEF n
  <2> DEFINE P == {k \in 0..n : PowerOf2(k) <= n}
  <2>3. 0 \in P /\ P \subseteq 0..n
    BY <1>1, <2>2
  <2>4. Log2(n) = Max(P)
    BY DEF Log2
  <2> HIDE DEF P
  <2>5. Log2(n) \in Nat
    <3>1. P # {}
      BY <2>3
    <3>2. Max(P) \in P
      BY <2>2, <2>3, <3>1, MaxOf
    <3>3. Max(P) \in 0..n
      BY <2>3, <3>2
    <3> QED
      BY <2>2, <2>4, <3>3
  <2> DEFINE l == Log2(n)
             Q == {5, l}
  <2>6. Q \subseteq Nat /\ Q # {} /\ 5 \in Q
    BY <2>5
  <2> HIDE DEF Q
  <2>7. Min(Q) \in Q /\ Min(Q) <= 5
    BY <2>6, MinOf
  <2> QED
    BY <2>6, <2>7 DEF Q
<1>3. CheckLength(f, i, verb) = If(long, Err(<<"readability", "fn", "size">>, conf, i))
  BY Zenon DEF CheckLength
<1> HIDE DEF long, conf
<1> QED
  BY <1>2, <1>3, NoErrors, OneError, Zenon DEF If

\* The function the checker is in.
FunctionOK(f) ==
  {"in", "count"} \subseteq DOMAIN f /\ f.in \in BOOLEAN /\ f.count \in Nat

\* The function after a line, and the error about its length.
LEMMA FunctionLengths ==
  ASSUME NEW c, NEW S, NEW i \in S, NEW f, FunctionOK(f), NEW verb \in Nat
  PROVE  LET r == CheckForFunctionLengths(c, i, f, verb)
         IN FunctionOK(r.fn) /\ Errors(r.errs, S)
<1> DEFINE r == CheckForFunctionLengths(c, i, f, verb)
           line == c.lines[i]
           body == BodyLine(c.lines, i)
           cat == <<"readability", "fn", "size">>
<1>1. f.count \in Nat
  BY DEF FunctionOK
<1>2. FunctionOK(Begin(FunctionName(line))) /\ FunctionOK(Count(f)) /\ FunctionOK(End(f))
  BY DEF FunctionOK, Begin, Count, End
<1>3. Errors(If(body = 0, Err(cat, 5, i)), S) /\ Errors(CheckLength(f, i, verb), S) /\ Errors(<<>>, S)
  BY <1>1, Confidences, ErrorsIf, LengthErrors, NoErrors, Zenon
<1>4. CASE StartsFunction(line)
  <2>1. r.errs = If(body = 0, Err(cat, 5, i)) /\ r.fn \in {f, Begin(FunctionName(line))}
    BY <1>4, Zenon DEF CheckForFunctionLengths
  <2> HIDE DEF r
  <2> QED
    BY <1>2, <1>3, <2>1, Zenon DEF r
<1>5. CASE ~StartsFunction(line) /\ RStrip(line) = <<"}">>
  <2>1. r.errs = CheckLength(f, i, verb) /\ r.fn = End(f)
    BY <1>5, Zenon DEF CheckForFunctionLengths
  <2> HIDE DEF r
  <2> QED
    BY <1>2, <1>3, <2>1, Zenon DEF r
<1>6. CASE ~StartsFunction(line) /\ RStrip(line) # <<"}">>
  <2>1. r.errs = <<>> /\ r.fn \in {f, Count(f)}
    BY <1>6, Zenon DEF CheckForFunctionLengths
  <2> HIDE DEF r
  <2> QED
    BY <1>2, <1>3, <2>1, Zenon DEF r
<1> QED
  BY <1>4, <1>5, <1>6

\* A class on the stack was declared on a line of S.
ClassOK(info, S) == "line" \in DOMAIN info /\ info.line \in S
ClassesOK(stack, S) == stack \in Seq(ToSet(stack)) /\ \A k \in DOMAIN stack : ClassOK(stack[k], S)

LEMMA PushClass ==
  ASSUME NEW S, NEW stack, ClassesOK(stack, S), NEW info, ClassOK(info, S)
  PROVE  ClassesOK(Append(stack, info), S) /\ Append(stack, info) # <<>> /\ Last(Append(stack, info)) = info
<1> DEFINE X == ToSet(stack) \cup {info}
           new == Append(stack, info)
           m == Len(stack) + 1
<1>1. stack \in Seq(X) /\ Len(stack) \in Nat /\ DOMAIN stack = 1..Len(stack)
  BY SeqMonotonic, LenProperties DEF ClassesOK
<1>2. info \in X
  OBVIOUS
<1> HIDE DEF X
<1>3. /\ new \in Seq(X) /\ new # <<>> /\ Len(new) = m /\ DOMAIN new = 1..m
      /\ \A i \in 1..Len(stack) : new[i] = stack[i]
      /\ new[m] = info
  BY <1>1, <1>2, AppendProperties, LenProperties
<1>4. m \in Nat /\ \A i \in 1..m : i \in 1..Len(stack) \/ i = m
  BY <1>1
<1> HIDE DEF new, m
<1>5. \A k \in DOMAIN new : ClassOK(new[k], S)
  BY <1>1, <1>3, <1>4 DEF ClassesOK
<1>6. new \in Seq(ToSet(new))
  <2>1. new \in [1..m -> X]
    BY <1>3, LenProperties
  <2>2. \A i \in 1..m : new[i] \in ToSet(new)
    BY <1>3 DEF ToSet
  <2>3. new \in [1..m -> ToSet(new)]
    BY <2>1, <2>2
  <2> QED
    BY <1>4, <2>3, SequenceOver, Zenon
<1> QED
  BY <1>3, <1>5, <1>6 DEF ClassesOK, Last, new

LEMMA PopClass ==
  ASSUME NEW S, NEW stack, ClassesOK(stack, S), stack # <<>>
  PROVE  ClassesOK(Front(stack), S) /\ ClassOK(Last(stack), S) /\ ClassOK(stack[1], S)
<1> DEFINE new == Front(stack)
           m == Len(stack) - 1
<1>1. Len(stack) \in Nat \ {0} /\ DOMAIN stack = 1..Len(stack)
  BY EmptySeq, LenProperties DEF ClassesOK
<1>2. \A i \in 1..m : stack[i] \in ToSet(stack)
  BY <1>1 DEF ToSet
<1>3. m \in Nat
  BY <1>1
<1>4. /\ new \in Seq(ToSet(stack)) /\ Len(new) = m /\ DOMAIN new = 1..m
      /\ \A i \in 1..m : new[i] = stack[i]
  <2>1. /\ SubSeq(stack, 1, m) \in Seq(ToSet(stack))
        /\ Len(SubSeq(stack, 1, m)) = IF 1 <= m THEN m - 1 + 1 ELSE 0
        /\ \A i \in 1..m - 1 + 1 : SubSeq(stack, 1, m)[i] = stack[1 + i - 1]
    BY <1>2, <1>3, SubSeqProperties
  <2>2. \A i \in 1..m : i \in 1..m - 1 + 1 /\ 1 + i - 1 = i
    BY <1>3
  <2>3. (IF 1 <= m THEN m - 1 + 1 ELSE 0) = m
    <3> HIDE DEF m
    <3> QED
      BY <1>3
  <2>4. new = SubSeq(stack, 1, m)
    BY DEF Front
  <2> HIDE DEF new
  <2>5. \A i \in 1..m : new[i] = stack[i]
    <3> SUFFICES ASSUME NEW i \in 1..m PROVE new[i] = stack[i]
      OBVIOUS
    <3>1. i \in 1..m - 1 + 1 /\ 1 + i - 1 = i
      BY <2>2
    <3> QED
      BY <2>1, <2>4, <3>1
  <2> QED
    BY <2>1, <2>3, <2>4, <2>5, LenProperties
<1>5. \A i \in 1..m : i \in DOMAIN stack
  BY <1>1
<1> HIDE DEF new, m
<1>6. \A k \in DOMAIN new : ClassOK(new[k], S)
  BY <1>4, <1>5 DEF ClassesOK
<1>7. new \in Seq(ToSet(new))
  <2>1. new \in [1..m -> ToSet(stack)]
    BY <1>4, LenProperties
  <2>2. \A i \in 1..m : new[i] \in ToSet(new)
    BY <1>4 DEF ToSet
  <2>3. new \in [1..m -> ToSet(new)]
    BY <2>1, <2>2
  <2> QED
    BY <1>3, <2>3, SequenceOver, Zenon
<1>8. 1 \in DOMAIN stack /\ Len(stack) \in DOMAIN stack
  BY <1>1
<1> QED
  BY <1>6, <1>7, <1>8 DEF ClassesOK, Last, new

LEMMA ClassesInMore ==
  ASSUME NEW S, NEW T, S \subseteq T, NEW stack, ClassesOK(stack, S)
  PROVE  ClassesOK(stack, T)
BY DEF ClassesOK, ClassOK

LEMMA NonStandardConstructs ==
  ASSUME NEW c, NEW S, NEW i \in S, NEW stack, ClassesOK(stack, S)
  PROVE  LET r == CheckForNonStandardConstructs(c, i, stack)
         IN ClassesOK(r.classes, S) /\ Errors(r.errs, S)
<1> DEFINE r == CheckForNonStandardConstructs(c, i, stack)
           line == c.elided[i]
           info == ClassInfo(ClassName(line), c.lines, i)
           entered == IF DeclaresClass(line) THEN Append(stack, info) ELSE stack
           top == Last(entered)
           opening == ReadsOpening(top, line)
           member == ReadsMember(opening, line, i)
           ctor == If(ImplicitConstructor(line, top.name), Err(<<"runtime", "explicit">>, 5, i))
           dtor == If(NeedsVirtualDestructor(member), Err(<<"runtime", "virtual">>, 4, top.line))
<1>1. ClassOK(info, S)
  BY DEF ClassOK, ClassInfo
<1>2. ClassesOK(entered, S)
  BY <1>1, PushClass, Zenon
<1> HIDE DEF info
<1>3. CASE entered = <<>>
  <2>1. r = [classes |-> <<>>, errs |-> <<>>]
    BY <1>3, Zenon DEF CheckForNonStandardConstructs, info
  <2>2. ClassesOK(<<>>, S)
    BY <1>2, <1>3, Zenon
  <2> HIDE DEF r
  <2>3. r.classes = <<>> /\ r.errs = <<>>
    BY <2>1
  <2> QED
    BY <2>2, <2>3, NoErrors, Zenon DEF r
<1>4. CASE entered # <<>>
  <2>1. ClassesOK(Front(entered), S) /\ ClassOK(top, S)
    <3> HIDE DEF entered
    <3> QED
      BY <1>2, <1>4, PopClass
  <2>2. r \in {[classes |-> Front(entered), errs |-> <<>>],
               [classes |-> Append(Front(entered), opening), errs |-> <<>>],
               [classes |-> Front(entered), errs |-> ctor \o dtor],
               [classes |-> Append(Front(entered), member), errs |-> ctor]}
    BY <1>4, Zenon DEF CheckForNonStandardConstructs, info
  <2> HIDE DEF entered, r
  <2>3. ClassOK(opening, S)
    <3> HIDE DEF top
    <3> QED
      BY <2>1 DEF ClassOK, ReadsOpening
  <2>4. ClassOK(member, S)
    <3> HIDE DEF opening
    <3> QED
      BY <2>3 DEF ClassOK, ReadsMember
  <2>5. ClassesOK(Append(Front(entered), opening), S) /\ ClassesOK(Append(Front(entered), member), S)
    <3> HIDE DEF opening, member
    <3> QED
      BY <2>1, <2>3, <2>4, PushClass, Zenon
  <2>6. top.line \in S
    BY <2>1 DEF ClassOK
  <2>7. Errors(ctor, S) /\ Errors(dtor, S)
    <3> HIDE DEF top, member
    <3> QED
      BY <2>6, Confidences, ErrorsIf, Zenon
  <2>8. Errors(ctor \o dtor, S)
    <3> HIDE DEF ctor, dtor
    <3> QED
      BY <2>7, MoreErrors
  <2> HIDE DEF top, opening, member, ctor, dtor
  <2>9. /\ r.classes \in {Front(entered), Append(Front(entered), opening), Append(Front(entered), member)}
        /\ r.errs \in {<<>>, ctor, ctor \o dtor}
    BY <2>2
  <2> QED
    BY <2>1, <2>5, <2>7, <2>8, <2>9, NoErrors DEF r
<1> QED
  BY <1>3, <1>4

LEMMA FinishedErrors ==
  ASSUME NEW stack, NEW S, ClassesOK(stack, S)
  PROVE  Errors(CheckFinished(stack), S)
<1>1. CASE stack = <<>>
  BY <1>1, NoErrors, Zenon DEF CheckFinished, If
<1>2. CASE stack # <<>>
  <2>1. stack[1].line \in S
    BY <1>2, PopClass DEF ClassOK
  <2> QED
    BY <2>1, Confidences, ErrorsIf, Zenon DEF CheckFinished
<1> QED
  BY <1>1, <1>2

\* What is known of the includes.
IncludesOK(state) ==
  {"seen", "section", "last"} \subseteq DOMAIN state /\ state.section \in INITIAL_SECTION..OTHER_H_SECTION

LEMMA SectionKept ==
  ASSUME NEW file, NEW c, NEW i, NEW state, IncludesOK(state)
  PROVE  IncludesOK(CheckLanguage(file, c, i, state).inc)
<1> USE DEF INITIAL_SECTION, MY_H_SECTION, C_SECTION, CPP_SECTION, OTHER_H_SECTION
<1> DEFINE include == IncludedPath(c.lines[i])
           type == ClassifyInclude(file, include, IsSystemInclude(c.lines[i]))
           ordered == NextSection(state, type)
           remembered == RememberHeader(ordered, include)
           r == CheckIncludeLine(file, c, i, state)
           l == CheckLanguage(file, c, i, state)
<1>1. type \in {C_SYS, CPP_SYS, LIKELY_MY, POSSIBLE_MY, OTHER_HEADER}
  BY Zenon DEF ClassifyInclude
<1> HIDE DEF type, include
<1>2. SectionOf(type) \in 0..4
  BY <1>1 DEF SectionOf, C_SYS, CPP_SYS, LIKELY_MY, POSSIBLE_MY, OTHER_HEADER
<1>3. IncludesOK(ordered)
  <2> DEFINE section == IF state.section <= SectionOf(type) THEN SectionOf(type)
                        ELSE IF InOrder(state, type) THEN OTHER_H_SECTION
                        ELSE state.section
             last == IF section # state.section \/ ~InOrder(state, type) THEN 0 ELSE state.last
  <2>1. ordered = [state EXCEPT !.section = section, !.last = last]
    BY DEF NextSection
  <2>2. section \in 0..4
    BY <1>2 DEF IncludesOK
  <2> HIDE DEF section, last, ordered
  <2> QED
    BY <2>1, <2>2 DEF IncludesOK
<1> HIDE DEF ordered
<1>4. IncludesOK(remembered)
  BY <1>3 DEF RememberHeader, IncludesOK
<1> HIDE DEF remembered
<1>5. IncludesOK([remembered EXCEPT !.seen = @ \cup {include}])
  BY <1>4 DEF IncludesOK
<1>6. r.inc \in {state, [remembered EXCEPT !.seen = @ \cup {include}]}
  BY Zenon DEF CheckIncludeLine, remembered, ordered, type, include
<1>7. l.inc = state \/ l = r
  BY Zenon DEF CheckLanguage
<1> HIDE DEF r, l
<1>8. IncludesOK(l.inc)
  BY <1>5, <1>6, <1>7
<1> QED
  BY <1>8 DEF l

-------------------------------------------------------------------------------
(* The files and their lines *)

LEMMA SuffixIs ==
  ASSUME NEW X, NEW s \in Seq(X), NEW t \in Seq(X)
  PROVE  IsSuffix(s, t) <=> /\ Len(s) <= Len(t)
                            /\ \A i \in 1..Len(s) : s[(Len(s) - i) + 1] = t[(Len(t) - i) + 1]
<1> DEFINE rs == Reverse(s)
           rt == Reverse(t)
<1>1. Len(s) \in Nat /\ Len(t) \in Nat
  BY LenProperties
<1>2. /\ rs \in [1..Len(s) -> X] /\ \A i \in 1..Len(s) : rs[i] = s[(Len(s) - i) + 1]
      /\ rt \in [1..Len(t) -> X] /\ \A i \in 1..Len(t) : rt[i] = t[(Len(t) - i) + 1]
  <2>1. \A i \in 1..Len(s) : (Len(s) - i) + 1 \in 1..Len(s)
    BY <1>1
  <2>2. \A i \in 1..Len(t) : (Len(t) - i) + 1 \in 1..Len(t)
    BY <1>1
  <2> QED
    BY <2>1, <2>2, ElementOfSeq DEF Reverse
<1> HIDE DEF rs, rt
<1>3. rs \in Seq(X) /\ rt \in Seq(X) /\ Len(rs) = Len(s) /\ Len(rt) = Len(t)
  <2>1. rs \in Seq(X) /\ rt \in Seq(X)
    BY <1>1, <1>2, SequenceOver, Zenon
  <2> QED
    BY <1>1, <1>2, <2>1
<1>4. IsSuffix(s, t) <=> Len(s) <= Len(t) /\ rs = SubSeq(rt, 1, Len(s))
  BY <1>3, SubSeqFull DEF IsSuffix, IsPrefix, rs, rt
<1>5. ASSUME Len(s) <= Len(t)
      PROVE  rs = SubSeq(rt, 1, Len(s)) <=> \A i \in 1..Len(s) : rs[i] = rt[i]
  <2> DEFINE u == SubSeq(rt, 1, Len(s))
  <2>1. \A i \in 1..Len(s) : rt[i] \in X
    BY <1>1, <1>2, <1>5
  <2>2. /\ u \in Seq(X)
        /\ Len(u) = IF 1 <= Len(s) THEN Len(s) - 1 + 1 ELSE 0
        /\ \A i \in 1..Len(s) - 1 + 1 : u[i] = rt[1 + i - 1]
    BY <1>1, <2>1, SubSeqProperties
  <2>3. Len(u) = Len(s)
    BY <1>1, <2>2
  <2>4. ASSUME NEW i \in 1..Len(s) PROVE u[i] = rt[i]
    <3>1. i \in 1..Len(s) - 1 + 1 /\ 1 + i - 1 = i
      BY <1>1
    <3> QED
      BY <2>2, <3>1
  <2> HIDE DEF u
  <2>5. rs = u <=> \A i \in 1..Len(s) : rs[i] = u[i]
    BY <1>3, <2>2, <2>3, SeqEqual
  <2> QED
    BY <2>4, <2>5 DEF u
<1>6. Len(s) <= Len(t) => \A i \in 1..Len(s) : i \in 1..Len(t)
  BY <1>1
<1>7. ASSUME Len(s) <= Len(t)
      PROVE  (\A i \in 1..Len(s) : rs[i] = rt[i])
             <=> \A i \in 1..Len(s) : s[(Len(s) - i) + 1] = t[(Len(t) - i) + 1]
  <2>1. \A i \in 1..Len(s) : /\ rs[i] = s[(Len(s) - i) + 1]
                             /\ rt[i] = t[(Len(t) - i) + 1]
    BY <1>2, <1>6, <1>7
  <2>2. \A i \in 1..Len(s) : rs[i] = rt[i] <=> s[(Len(s) - i) + 1] = t[(Len(t) - i) + 1]
    BY <2>1
  <2> QED
    BY <2>2
<1> QED
  BY <1>4, <1>5, <1>7, Zenon

LEMMA SuffixTail ==
  ASSUME NEW X, NEW s \in Seq(X), NEW t \in Seq(X), s # <<>>, IsSuffix(s, t)
  PROVE  Tail(s) \in Seq(X) /\ IsSuffix(Tail(s), t)
<1> DEFINE u == Tail(s)
<1>1. /\ u \in Seq(X) /\ Len(u) = Len(s) - 1
      /\ \A i \in 1..Len(u) : u[i] = s[i + 1]
  BY HeadTailProperties
<1>2. Len(s) \in Nat \ {0} /\ Len(t) \in Nat
  BY EmptySeq, LenProperties
<1> HIDE DEF u
<1>3. /\ Len(s) <= Len(t)
      /\ \A i \in 1..Len(s) : s[(Len(s) - i) + 1] = t[(Len(t) - i) + 1]
  BY SuffixIs
<1>4. Len(u) <= Len(t)
  BY <1>1, <1>2, <1>3
<1>5. ASSUME NEW i \in 1..Len(u) PROVE u[(Len(u) - i) + 1] = t[(Len(t) - i) + 1]
  <2>1. (Len(u) - i) + 1 \in 1..Len(u) /\ ((Len(u) - i) + 1) + 1 = (Len(s) - i) + 1 /\ i \in 1..Len(s)
    BY <1>1, <1>2
  <2> QED
    BY <1>1, <1>3, <2>1
<1>6. IsSuffix(u, t)
  BY <1>1, <1>4, <1>5, SuffixIs
<1> QED
  BY <1>1, <1>6 DEF u

LEMMA SuffixEnds ==
  ASSUME NEW X, NEW t \in Seq(X)
  PROVE  IsSuffix(t, t) /\ IsSuffix(<<>>, t)
<1>1. IsSuffix(t, t)
  BY LenProperties, SuffixIs
<1>2. <<>> \in Seq(X) /\ Len(<<>>) = 0 /\ Len(t) \in Nat
  BY EmptySeq, LenProperties
<1>3. Len(<<>>) <= Len(t) /\ \A i \in 1..Len(<<>>) : FALSE
  BY <1>2
<1>4. IsSuffix(<<>>, t)
  BY <1>2, <1>3, SuffixIs, Zenon
<1> QED
  BY <1>1, <1>4

\* A file that is read is a sequence of lines, and it is not empty.
LEMMA LinesOfType ==
  ASSUME NEW f \in DOMAIN Disk
  PROVE  LinesOf(f) \in Seq(Line) /\ LinesOf(f) # <<>>
<1> DEFINE d == Disk[f]
           lines == [i \in DOMAIN d |-> WithoutReturn(d[i])]
<1>1. d \in Seq(Seq(STRING))
  BY DiskAssumption
<1>2. Len(d) \in Nat /\ DOMAIN d = 1..Len(d) /\ \A i \in 1..Len(d) : d[i] \in Seq(STRING)
  BY <1>1, LenProperties, ElementOfSeq
<1>3. \A line \in Seq(STRING) : line \in Line
  BY SeqMonotonic DEF Line, Token
<1>4. ASSUME NEW line \in Line PROVE WithoutReturn(line) \in Line
  <2>1. CASE EndsWith(line, "\r")
    <3>1. Len(line) \in Nat \ {0}
      BY <2>1, EmptySeq DEF EndsWith, Line
    <3>2. 1 \in 1..Len(line) + 1 /\ Len(line) - 1 \in 0..Len(line)
      BY <3>1
    <3>3. SubSeq(line, 1, Len(line) - 1) \in Line
      BY <3>2, PartType
    <3> QED
      BY <2>1, <3>3 DEF WithoutReturn, Front
  <2>2. CASE ~EndsWith(line, "\r")
    BY <2>2 DEF WithoutReturn
  <2> QED
    BY <2>1, <2>2
<1> HIDE DEF d
<1>5. \A i \in 1..Len(d) : WithoutReturn(d[i]) \in Line
  BY <1>2, <1>3, <1>4
<1>6. lines \in [1..Len(d) -> Line]
  BY <1>2, <1>5
<1> HIDE DEF lines
<1>7. lines \in Seq(Line)
  BY <1>2, <1>6, SequenceOver, Zenon
<1>8. Append(lines, EndMarker) \in Seq(Line) /\ Append(lines, EndMarker) # <<>>
  BY <1>7, MarksType, AppendProperties
<1> QED
  BY <1>8 DEF LinesOf, lines, d

LEMMA HeaderGuardErrors ==
  ASSUME NEW f \in DOMAIN Disk
  PROVE  /\ HeaderGuard(f).reads \subseteq 1..Len(LinesOf(f))
         /\ Errors(HeaderGuard(f).errs, {0} \cup HeaderGuard(f).reads)
<1>1. LinesOf(f) \in Seq(Line)
  BY LinesOfType
<1>2. CASE FileOf[f].ext = "h"
  BY <1>1, <1>2, GuardErrors DEF HeaderGuard
<1>3. CASE FileOf[f].ext # "h"
  <2>1. HeaderGuard(f) = [reads |-> {}, errs |-> <<>>]
    BY <1>3 DEF HeaderGuard
  <2>2. HeaderGuard(f).reads = {} /\ HeaderGuard(f).errs = <<>>
    BY <2>1
  <2> QED
    BY <2>2, NoErrors
<1> QED
  BY <1>2, <1>3

\* The lines of a file that are looked at one by one.
RawOf(f) == RemoveMultiLineComments(LinesOf(f)).lines

LEMMA RawOfType ==
  ASSUME NEW f \in DOMAIN Disk
  PROVE  /\ RawOf(f) \in Seq(Line) /\ RawOf(f) # <<>> /\ Len(RawOf(f)) = Len(LinesOf(f))
         /\ \A i \in 1..Len(LinesOf(f)) : RawOf(f)[i] \in {LinesOf(f)[i], Dummy}
         /\ RemoveMultiLineComments(LinesOf(f)).open \in Nat
<1>1. LinesOf(f) \in Seq(Line) /\ LinesOf(f) # <<>>
  BY LinesOfType
<1>2. Len(LinesOf(f)) \in Nat \ {0}
  BY <1>1, EmptySeq
<1>3. /\ RemoveMultiLineComments(LinesOf(f)).open \in 0..Len(LinesOf(f))
      /\ RawOf(f) \in Seq(Line) /\ Len(RawOf(f)) = Len(LinesOf(f))
      /\ \A i \in 1..Len(LinesOf(f)) : RawOf(f)[i] \in {LinesOf(f)[i], Dummy}
  BY <1>1, RemovedType DEF RawOf
<1> QED
  BY <1>2, <1>3, EmptySeq

-------------------------------------------------------------------------------
(* The errors of a step *)

\* What StartFile, ProcessLine and FinishFile give to Error.
StartErrors ==
  LET guard == HeaderGuard(todo[1])
      removed == RemoveMultiLineComments(LinesOf(todo[1]))
  IN CheckForCopyright(LinesOf(todo[1])) \o NolintErrors(LinesOf(todo[1]), guard.reads) \o guard.errs
     \o If(removed.open # 0, Err(<<"readability", "multiline", "comment">>, 5, removed.open + 1))
FirstErrors ==
  NolintErrors(clean.raw, {ln}) \o CheckForFunctionLengths(clean, ln, fn, verbose).errs
  \o CheckForMultilineCommentsAndStrings(clean, ln) \o CheckStyle(clean, ln, classes, SmallClass).errs
RestErrors ==
  CheckLanguage(FileOf[todo[1]], clean, ln, inc).errs
  \o CheckForNonStandardLine(clean, ln) \o CheckForNonStandardConstructs(clean, ln, classes).errs
  \o CheckPosixThreading(clean, ln) \o CheckInvalidIncrement(clean, ln)
  \o CheckMakePairUsesDeduction(clean, ln)
FinishErrors ==
  LET returns == \E i \in DOMAIN Disk[todo[1]] : EndsWith(Disk[todo[1]][i], "\r")
  IN CheckFinished(classes) \o CheckForIncludeWhatYouUse(FileOf[todo[1]], clean, inc)
     \o CheckForUnicodeReplacementCharacters(clean.raw) \o CheckForNewlineAtEOF(clean.raw)
     \o If(returns, Err(<<"whitespace", "newline">>, 1, 0))

\* A line's errors are on this line or before it.
LEMMA LineErrors ==
  ASSUME Views(clean), ln \in 1..Len(clean.raw), FunctionOK(fn), ClassesOK(classes, 0..ln - 1),
         verbose \in Nat
  PROVE  Errors(FirstErrors, 0..ln) /\ Errors(FirstErrors \o RestErrors, 0..ln)
<1> DEFINE S == 0..ln
<1>1. Len(clean.raw) \in Nat /\ ln \in Nat
  BY LenProperties DEF Views
<1>2. ln \in S /\ {ln} \subseteq S /\ {ln} \subseteq 1..Len(clean.raw) /\ 0..ln - 1 \subseteq S
  BY <1>1
<1>3. clean.raw \in Seq(Line) /\ clean.elided[ln] \in Line
  BY ElementOfSeq DEF Views
<1> HIDE DEF S
<1>4. ClassesOK(classes, S)
  BY <1>2, ClassesInMore
<1>5. Errors(NolintErrors(clean.raw, {ln}), S)
  BY <1>2, <1>3, NolintsErrors
<1>6. Errors(CheckForFunctionLengths(clean, ln, fn, verbose).errs, S)
  BY <1>2, FunctionLengths
<1>7. Errors(CheckStyle(clean, ln, classes, SmallClass).errs, S)
  BY <1>2, StyleErrors
<1>8. Errors(CheckForMultilineCommentsAndStrings(clean, ln), S)
  BY <1>2, CommentsAndStringsErrors
<1>9. Errors(FirstErrors, S)
  BY <1>5, <1>6, <1>7, <1>8, MoreErrors, Zenon DEF FirstErrors
<1>10. Errors(CheckLanguage(FileOf[todo[1]], clean, ln, inc).errs, S)
  BY <1>2, <1>3, LanguageErrors
<1>11. Errors(CheckForNonStandardConstructs(clean, ln, classes).errs, S)
  BY <1>2, <1>4, NonStandardConstructs
<1>12. /\ Errors(CheckForNonStandardLine(clean, ln), S) /\ Errors(CheckPosixThreading(clean, ln), S)
       /\ Errors(CheckInvalidIncrement(clean, ln), S) /\ Errors(CheckMakePairUsesDeduction(clean, ln), S)
  BY <1>2, NonStandardLineErrors, PosixErrors, InvalidIncrementErrors, MakePairErrors
<1>13. Errors(RestErrors, S)
  BY <1>10, <1>11, <1>12, MoreErrors, Zenon DEF RestErrors
<1> QED
  BY <1>9, <1>13, MoreErrors DEF S

\* Those at the end of a file are on one of its lines, or on line 0.
LEMMA LastErrors ==
  ASSUME Views(clean), clean.raw # <<>>, ln = Len(clean.raw) + 1, ClassesOK(classes, 0..ln - 1)
  PROVE  Errors(FinishErrors, 0..Len(clean.raw))
<1> DEFINE n == Len(clean.raw)
           S == 0..n
           returns == \E i \in DOMAIN Disk[todo[1]] : EndsWith(Disk[todo[1]][i], "\r")
<1>1. n \in Nat \ {0} /\ clean.raw \in Seq(Line) /\ clean.elided \in Seq(Line) /\ Len(clean.elided) = n
  BY EmptySeq DEF Views
<1>2. ln - 1 = n
  BY <1>1
<1> HIDE DEF n
<1>3. 1..n \subseteq S /\ 0 \in S /\ n - 1 \in S
  BY <1>1
<1>4. ClassesOK(classes, S)
  BY <1>2
<1> HIDE DEF S
<1>5. Errors(CheckFinished(classes), S)
  BY <1>4, FinishedErrors
<1>6. Errors(CheckForIncludeWhatYouUse(FileOf[todo[1]], clean, inc), S)
  BY <1>1, <1>3, IncludeWhatYouUseErrors
<1>7. Errors(CheckForUnicodeReplacementCharacters(clean.raw), S)
  BY <1>1, <1>3, UnicodeErrors DEF n
<1>8. Errors(CheckForNewlineAtEOF(clean.raw), S)
  BY <1>3, NewlineErrors DEF n
<1>9. Errors(If(returns, Err(<<"whitespace", "newline">>, 1, 0)), S)
  BY <1>3, Confidences, ErrorsIf, Zenon
<1>10. Errors(FinishErrors, S)
  BY <1>5, <1>6, <1>7, <1>8, <1>9, MoreErrors, Zenon DEF FinishErrors
<1> QED
  BY <1>10 DEF S, n

\* Those at its start are on line 0 or on the lines of its guard, but for that of a comment
\* that never ends, which is the last one.
LEMMA FirstLinesErrors ==
  ASSUME todo[1] \in DOMAIN Disk
  PROVE  LET open == RemoveMultiLineComments(LinesOf(todo[1])).open
             unclosed == Err(<<"readability", "multiline", "comment">>, 5, open + 1)
         IN \E es : /\ Errors(es, {0} \cup HeaderGuard(todo[1]).reads)
                    /\ StartErrors = es \o If(open # 0, unclosed)
<1> DEFINE f == todo[1]
           guard == HeaderGuard(f)
           S == {0} \cup guard.reads
           es == CheckForCopyright(LinesOf(f)) \o NolintErrors(LinesOf(f), guard.reads) \o guard.errs
           open == RemoveMultiLineComments(LinesOf(f)).open
<1>1. guard.reads \subseteq 1..Len(LinesOf(f)) /\ Errors(guard.errs, S) /\ LinesOf(f) \in Seq(Line)
  BY HeaderGuardErrors, LinesOfType
<1>2. Errors(NolintErrors(LinesOf(f), guard.reads), S)
  <2>1. guard.reads \subseteq S
    OBVIOUS
  <2> HIDE DEF S, guard
  <2> QED
    BY <1>1, <2>1, NolintsErrors
<1>3. Errors(CheckForCopyright(LinesOf(f)), S)
  BY CopyrightErrors
<1>4. Errors(es, S)
  <2> HIDE DEF S
  <2> QED
    BY <1>1, <1>2, <1>3, MoreErrors, Zenon
<1>5. StartErrors = es \o If(open # 0, Err(<<"readability", "multiline", "comment">>, 5, open + 1))
  BY Zenon DEF StartErrors
<1> HIDE DEF es
<1> QED
  BY <1>4, <1>5, Zenon

\* The errors of a step and the lines they are on.
LEMMA StartErrorsType ==
  ASSUME todo[1] \in DOMAIN Disk
  PROVE  Errors(StartErrors, Nat)
<1> DEFINE open == RemoveMultiLineComments(LinesOf(todo[1])).open
           unclosed == Err(<<"readability", "multiline", "comment">>, 5, open + 1)
<1>1. PICK es : /\ Errors(es, {0} \cup HeaderGuard(todo[1]).reads)
                /\ StartErrors = es \o If(open # 0, unclosed)
  BY FirstLinesErrors, Zenon
<1>2. {0} \cup HeaderGuard(todo[1]).reads \subseteq Nat /\ open + 1 \in Nat
  <2>1. HeaderGuard(todo[1]).reads \subseteq 1..Len(LinesOf(todo[1])) /\ open \in Nat
    BY HeaderGuardErrors, RawOfType
  <2>2. \A x \in HeaderGuard(todo[1]).reads : x \in Nat
    BY <2>1
  <2> QED
    BY <2>1, <2>2
<1>3. Errors(es, Nat)
  BY <1>1, <1>2, ErrorsIn
<1> HIDE DEF open
<1>4. Errors(If(open # 0, unclosed), Nat)
  BY <1>2, Confidences, ErrorsIf, Zenon
<1> QED
  BY <1>1, <1>3, <1>4, MoreErrors

\* The log is a sequence of entries.
LogOK ==
  /\ log \in Seq(ToSet(log))
  /\ \A k \in DOMAIN log : log[k].error.conf \in 0..5 /\ log[k].error.line \in Nat

Entry(e) == [file |-> todo[1], error |-> e, printed |-> ShouldPrintError(e)]

\* What Error does to the log.
LEMMA Logged ==
  ASSUME LogOK, NEW S, NEW es, Errors(es, S), Error(es)
  PROVE  /\ Len(log) \in Nat /\ Len(es) \in Nat
         /\ DOMAIN log = 1..Len(log) /\ DOMAIN es = 1..Len(es)
         /\ DOMAIN log' = 1..Len(log) + Len(es)
         /\ log' \in Seq(ToSet(log'))
         /\ \A k \in 1..Len(log) : log'[k] = log[k]
         /\ \A k \in 1..Len(es) : log'[Len(log) + k] = Entry(es[k])
<1> DEFINE m == Len(log)
           n == Len(es)
           new == [k \in 1..n |-> Entry(es[k])]
           X == ToSet(log) \cup ToSet(new)
<1>1. m \in Nat /\ n \in Nat /\ DOMAIN log = 1..m /\ DOMAIN es = 1..n
  BY LenProperties DEF LogOK, Errors
<1>2. log' = log \o new
  BY <1>1 DEF Error, Entry
<1> HIDE DEF m, n
<1>3. new \in [1..n -> X]
  BY DEF ToSet
<1>4. DOMAIN new = 1..n /\ \A k \in 1..n : new[k] = Entry(es[k])
  OBVIOUS
<1> HIDE DEF new
<1>5. new \in Seq(X)
  BY <1>1, <1>3, SequenceOver, Zenon
<1>6. log \in Seq(X)
  BY SeqMonotonic DEF LogOK
<1>7. Len(new) = n
  BY <1>1, <1>4, <1>5
<1> HIDE DEF X
<1>8. /\ log' \in Seq(X) /\ DOMAIN log' = 1..m + n
      /\ \A k \in 1..m + n : log'[k] = IF k <= m THEN log[k] ELSE new[k - m]
  BY <1>2, <1>5, <1>6, <1>7, ConcatProperties, LenProperties DEF m
<1>9. log' \in Seq(ToSet(log'))
  <2>1. m + n \in Nat
    BY <1>1
  <2>2. log' \in [1..m + n -> ToSet(log')]
    <3>1. \A k \in 1..m + n : log'[k] \in ToSet(log')
      BY <1>8 DEF ToSet
    <3>2. log' \in [1..m + n -> X]
      BY <1>8, LenProperties
    <3> QED
      BY <3>1, <3>2
  <2> QED
    BY <2>1, <2>2, SequenceOver, Zenon
<1>10. \A k \in 1..m : log'[k] = log[k]
  <2>1. \A k \in 1..m : k \in 1..m + n /\ k <= m
    BY <1>1
  <2> QED
    BY <1>8, <2>1
<1>11. \A k \in 1..n : log'[m + k] = Entry(es[k])
  <2>1. \A k \in 1..n : m + k \in 1..m + n /\ ~(m + k <= m) /\ (m + k) - m = k
    BY <1>1
  <2> QED
    BY <1>4, <1>8, <2>1
<1> QED
  BY <1>1, <1>8, <1>9, <1>10, <1>11 DEF m, n

LEMMA LogKept ==
  ASSUME LogOK, NEW es, Errors(es, Nat), Error(es)
  PROVE  LogOK'
<1>1. /\ Len(log) \in Nat /\ Len(es) \in Nat
      /\ DOMAIN log = 1..Len(log) /\ DOMAIN es = 1..Len(es)
      /\ DOMAIN log' = 1..Len(log) + Len(es)
      /\ log' \in Seq(ToSet(log'))
      /\ \A k \in 1..Len(log) : log'[k] = log[k]
      /\ \A k \in 1..Len(es) : log'[Len(log) + k] = Entry(es[k])
  BY Logged
<1>2. ASSUME NEW k \in DOMAIN log' PROVE log'[k].error.conf \in 0..5 /\ log'[k].error.line \in Nat
  <2>1. CASE k \in 1..Len(log)
    BY <1>1, <2>1 DEF LogOK
  <2>2. CASE k \notin 1..Len(log)
    <3> DEFINE i == k - Len(log)
    <3>1. i \in 1..Len(es) /\ Len(log) + i = k
      BY <1>1, <2>2
    <3> HIDE DEF i
    <3>2. log'[k].error = es[i]
      <4>1. log'[k] = Entry(es[i])
        BY <1>1, <3>1
      <4> QED
        BY <4>1 DEF Entry
    <3> QED
      BY <1>1, <3>1, <3>2 DEF Errors
  <2> QED
    BY <2>1, <2>2
<1> QED
  BY <1>1, <1>2 DEF LogOK

-------------------------------------------------------------------------------
(* What the steps do *)

LEMMA StartFileDoes ==
  ASSUME StartFile
  PROVE  /\ pc = "file" /\ pc' = "line" /\ todo # <<>> /\ todo[1] \in DOMAIN Disk
         /\ Error(StartErrors)
         /\ clean' = CleansedLines(RawOf(todo[1])) /\ ln' = 1
         /\ fn' = NoFunction /\ classes' = <<>> /\ inc' = NoIncludes
         /\ suppressed' = UNION {ParseNolintSuppressions(LinesOf(todo[1])[i], i) : i \in HeaderGuard(todo[1]).reads}
         /\ UNCHANGED <<command, options, todo, status>>
<1>1. UNION {ParseNolintSuppressions(LinesOf(todo[1])[i], i) : i \in HeaderGuard(todo[1]).reads}
        = {} \cup UNION {ParseNolintSuppressions(LinesOf(todo[1])[i], i) : i \in HeaderGuard(todo[1]).reads}
  OBVIOUS
<1> QED
  BY <1>1, Zenon DEF StartFile, StartErrors, RawOf, Text, FileState, ResetNolintSuppressions

LEMMA ProcessLineDoes ==
  ASSUME ProcessLine
  PROVE  LET style == CheckStyle(clean, ln, classes, SmallClass)
         IN /\ pc = "line" /\ ln <= Len(clean.raw)
            /\ suppressed' = suppressed \cup ParseNolintSuppressions(clean.raw[ln], ln)
            /\ fn' = CheckForFunctionLengths(clean, ln, fn, verbose).fn
            /\ \/ /\ style.fate = "ok"
                  /\ Error(FirstErrors \o RestErrors)
                  /\ inc' = CheckLanguage(FileOf[todo[1]], clean, ln, inc).inc
                  /\ classes' = CheckForNonStandardConstructs(clean, ln, classes).classes
                  /\ ln' = ln + 1 /\ UNCHANGED <<pc, status>>
               \/ /\ style.fate # "ok"
                  /\ Error(FirstErrors)
                  /\ pc' = style.fate
                  /\ status' = IF style.fate = "crashed" THEN 1 ELSE status
                  /\ UNCHANGED <<inc, classes, ln>>
            /\ UNCHANGED <<command, options, todo, clean>>
BY Zenon DEF ProcessLine, FirstErrors, RestErrors

LEMMA FinishFileDoes ==
  ASSUME FinishFile
  PROVE  /\ pc = "line" /\ ln > Len(clean.raw) /\ pc' = "file"
         /\ Error(FinishErrors)
         /\ todo' = Tail(todo)
         /\ UNCHANGED <<suppressed, command, options, clean, ln, scopes, status>>
BY Zenon DEF FinishFile, FinishErrors

-------------------------------------------------------------------------------
(* Types *)

\* The files that are left are the end of those on the command line; in a file, its lines are
\* those that are read.
FilesInv ==
  /\ command \in Commands
  /\ pc \in {"args", "file", "line", "exit", "crashed", "hung"}
  /\ todo \in Seq(DOMAIN FileOf) /\ IsSuffix(todo, command.files)
  /\ Views(clean) /\ ln \in Nat \ {0}
  /\ pc = "line" => /\ todo # <<>> /\ todo[1] \in DOMAIN Disk /\ clean.raw = RawOf(todo[1])
                    /\ ln \in 1..(Len(clean.raw) + 1)
  /\ status \in {-1, 0, 1} /\ (status = -1 <=> pc \notin {"exit", "crashed"})

\* The states of the current file; a class was declared on a line that was read.
ScopesInv ==
  /\ verbose \in Nat
  /\ FunctionOK(fn) /\ IncludesOK(inc) /\ ClassesOK(classes, 0..ln - 1)

TypesInv == FilesInv /\ ScopesInv /\ LogOK

LEMMA OptionsType ==
  ASSUME command \in Commands
  PROVE  /\ command.files \in Seq(DOMAIN FileOf)
         /\ \A name : Opts(name) # {} => Max(Opts(name)) \in Opts(name)
         /\ Ending # {} => Min(Ending) \in Ending
<1>0. command.opts \in Seq(ToSet(command.opts))
  BY CommandsAssumption
<1>1. PICK n \in Nat : DOMAIN command.opts = 1..n
  BY <1>0
<1>2. ASSUME NEW name, Opts(name) # {} PROVE Max(Opts(name)) \in Opts(name)
  <2>1. \A i \in Opts(name) : i \in 0..n
    BY <1>1 DEF Opts
  <2> DEFINE S == Opts(name)
  <2>2. S # {}
    BY <1>2
  <2> HIDE DEF S
  <2>3. Max(S) \in S
    BY <2>1, <2>2, MaxOf DEF S
  <2> QED
    BY <2>3 DEF S
<1>3. ASSUME Ending # {} PROVE Min(Ending) \in Ending
  <2>1. \A i \in Ending : i \in Nat
    BY <1>1 DEF Ending
  <2> DEFINE S == Ending
  <2>2. S # {}
    BY <1>3
  <2> HIDE DEF S
  <2>3. Min(S) \in S
    BY <2>1, <2>2, MinOf DEF S
  <2> QED
    BY <2>3 DEF S
<1> QED
  BY <1>2, <1>3, CommandsAssumption

LEMMA VerboseType ==
  ASSUME command \in Commands, NEW default \in Nat
  PROVE  LastOpt("verbose", default) \in Nat
<1>1. CASE Opts("verbose") = {}
  BY <1>1 DEF LastOpt
<1>2. CASE Opts("verbose") # {}
  <2> DEFINE i == Max(Opts("verbose"))
  <2>1. i \in Opts("verbose")
    BY <1>2, OptionsType
  <2> HIDE DEF i
  <2>2. i \in DOMAIN command.opts /\ command.opts[i].opt = "verbose"
    BY <2>1 DEF Opts
  <2>3. command.opts[i].verbose \in Nat
    BY <2>2, CommandsAssumption
  <2>4. LastOpt("verbose", default) = command.opts[i].verbose
    BY <1>2 DEF LastOpt, i
  <2> QED
    BY <2>3, <2>4
<1> QED
  BY <1>1, <1>2

LEMMA NewFileOK ==
  FunctionOK(NoFunction) /\ IncludesOK(NoIncludes) /\ \A S : ClassesOK(<<>>, S)
BY EmptySeq DEF FunctionOK, NoFunction, IncludesOK, NoIncludes, INITIAL_SECTION, OTHER_H_SECTION, ClassesOK

\* The checker starts with its types,
LEMMA TypesInit == Init => TypesInv
<1> SUFFICES ASSUME Init PROVE TypesInv
  OBVIOUS
<1>1. NoFile.raw = <<>> /\ Views(NoFile)
  <2>1. <<>> \in Seq(Line)
    BY EmptySeq
  <2> QED
    BY <2>1, CleansedType DEF NoFile
<1>2. <<>> \in Seq(DOMAIN FileOf) /\ IsSuffix(<<>>, command.files)
  <2>1. command.files \in Seq(DOMAIN FileOf)
    BY CommandsAssumption DEF Init
  <2> QED
    BY <2>1, EmptySeq, SuffixEnds
<1>3. FilesInv
  BY <1>1, <1>2 DEF Init, FilesInv
<1>4. ScopesInv
  BY NewFileOK DEF Init, ScopesInv
<1>5. LogOK
  BY EmptySeq DEF Init, LogOK
<1> QED
  BY <1>3, <1>4, <1>5 DEF TypesInv

LEMMA ParseArgumentsDoes ==
  ASSUME ParseArguments
  PROVE  /\ pc = "args"
         /\ UNCHANGED <<command, counts, clean, ln, scopes, suppressed>>
         /\ \/ /\ pc' = "exit" /\ UNCHANGED <<options, todo>>
               /\ \/ Ending # {} /\ status' = ExitOf(command.opts[Min(Ending)])
                  \/ status' = 1
            \/ /\ verbose' = LastOpt("verbose", verbose)
               /\ filters' = SetFilters(LastOpt("filter", <<>>))
               /\ \/ todo' = command.files /\ pc' = "file" /\ status' = status
                  \/ pc' = "crashed" /\ status' = 1 /\ UNCHANGED <<counting, todo>>
<1>1. pc = "args" /\ UNCHANGED <<command, counts, clean, ln, scopes, suppressed>>
  BY Zenon DEF ParseArguments
<1>2. CASE Ending # {}
  BY <1>1, <1>2, Zenon DEF ParseArguments
<1>3. CASE Ending = {} /\ command.files = <<>>
  BY <1>1, <1>3, Zenon DEF ParseArguments
<1>4. CASE Ending = {} /\ command.files # <<>>
  BY <1>1, <1>4, Zenon DEF ParseArguments
<1> QED
  BY <1>2, <1>3, <1>4

LEMMA ParseArgumentsTypes ==
  ASSUME TypesInv, ParseArguments
  PROVE  TypesInv'
<1>1. /\ pc = "args"
      /\ UNCHANGED <<command, counts, clean, ln, scopes, suppressed>>
      /\ \/ /\ pc' = "exit" /\ UNCHANGED <<options, todo>>
            /\ \/ Ending # {} /\ status' = ExitOf(command.opts[Min(Ending)])
               \/ status' = 1
         \/ /\ verbose' = LastOpt("verbose", verbose)
            /\ \/ todo' = command.files /\ pc' = "file" /\ status' = status
               \/ pc' = "crashed" /\ status' = 1 /\ UNCHANGED todo
  BY ParseArgumentsDoes
<1>2. verbose' \in Nat
  BY <1>1, VerboseType DEF TypesInv, FilesInv, ScopesInv, options
<1>3. Ending # {} => ExitOf(command.opts[Min(Ending)]) \in {0, 1}
  <2>1. Ending # {} => Min(Ending) \in Ending
    BY OptionsType DEF TypesInv, FilesInv
  <2>2. \A o : ExitOf(o) \in {0, 1, 2}
    BY DEF ExitOf
  <2> QED
    BY <2>1, <2>2 DEF Ending
<1>4. command.files \in Seq(DOMAIN FileOf) /\ IsSuffix(command.files, command.files)
  <2>1. command.files \in Seq(DOMAIN FileOf)
    BY CommandsAssumption DEF TypesInv, FilesInv
  <2> QED
    BY <2>1, SuffixEnds
<1>5. FilesInv'
  BY <1>1, <1>3, <1>4 DEF TypesInv, FilesInv, Views
<1>6. ScopesInv'
  BY <1>1, <1>2 DEF TypesInv, ScopesInv, scopes
<1>7. LogOK'
  BY <1>1 DEF TypesInv, LogOK, counts
<1> QED
  BY <1>5, <1>6, <1>7 DEF TypesInv

LEMMA SkipFileTypes ==
  ASSUME TypesInv, SkipFile
  PROVE  TypesInv'
<1>1. /\ pc = "file" /\ todo # <<>> /\ todo' = Tail(todo)
      /\ UNCHANGED <<command, pc, options, counts, clean, ln, scopes, suppressed, status>>
  BY DEF SkipFile
<1>2. Tail(todo) \in Seq(DOMAIN FileOf) /\ IsSuffix(Tail(todo), command.files)
  BY <1>1, OptionsType, SuffixTail DEF TypesInv, FilesInv
<1>3. FilesInv'
  BY <1>1, <1>2 DEF TypesInv, FilesInv, Views
<1>4. ScopesInv'
  BY <1>1 DEF TypesInv, ScopesInv, options, scopes
<1>5. LogOK'
  BY <1>1 DEF TypesInv, LogOK, counts
<1> QED
  BY <1>3, <1>4, <1>5 DEF TypesInv

LEMMA StartFileTypes ==
  ASSUME TypesInv, StartFile
  PROVE  TypesInv'
<1>1. /\ pc = "file" /\ pc' = "line" /\ todo # <<>> /\ todo[1] \in DOMAIN Disk
      /\ Error(StartErrors)
      /\ clean' = CleansedLines(RawOf(todo[1])) /\ ln' = 1
      /\ fn' = NoFunction /\ classes' = <<>> /\ inc' = NoIncludes
      /\ UNCHANGED <<command, options, todo, status>>
  BY StartFileDoes
<1>2. RawOf(todo[1]) \in Seq(Line) /\ Len(RawOf(todo[1])) \in Nat
  BY <1>1, RawOfType
<1>3. Views(CleansedLines(RawOf(todo[1]))) /\ CleansedLines(RawOf(todo[1])).raw = RawOf(todo[1])
  BY <1>2, CleansedType
<1>4. FilesInv'
  <2>1. Views(clean') /\ clean'.raw = RawOf(todo[1])
    BY <1>1, <1>3, Zenon
  <2>2. Views(clean)'
    BY <2>1 DEF Views
  <2>3. ln' \in Nat \ {0} /\ ln' \in 1..(Len(clean'.raw) + 1)
    BY <1>1, <1>2, <2>1
  <2> QED
    BY <1>1, <2>1, <2>2, <2>3, Zenon DEF TypesInv, FilesInv
<1>5. ScopesInv'
  <2>1. FunctionOK(fn)' /\ IncludesOK(inc)' /\ ClassesOK(classes, 0..ln - 1)'
    BY <1>1, NewFileOK DEF FunctionOK, IncludesOK
  <2> QED
    BY <1>1, <2>1 DEF TypesInv, ScopesInv, options
<1>6. LogOK'
  BY <1>1, StartErrorsType, LogKept DEF TypesInv
<1> QED
  BY <1>4, <1>5, <1>6 DEF TypesInv

LEMMA LineErrorsType ==
  ASSUME TypesInv, ProcessLine
  PROVE  Errors(FirstErrors, Nat) /\ Errors(FirstErrors \o RestErrors, Nat)
<1>1. pc = "line" /\ ln <= Len(clean.raw)
  BY ProcessLineDoes
<1>2. ln \in 1..Len(clean.raw) /\ Len(clean.raw) \in Nat
  BY <1>1, LenProperties DEF TypesInv, FilesInv, Views
<1>3. Errors(FirstErrors, 0..ln) /\ Errors(FirstErrors \o RestErrors, 0..ln)
  BY <1>2, LineErrors DEF TypesInv, FilesInv, ScopesInv
<1>4. 0..ln \subseteq Nat
  BY <1>2
<1> QED
  BY <1>3, <1>4, ErrorsIn

LEMMA FinishErrorsType ==
  ASSUME TypesInv, FinishFile
  PROVE  Errors(FinishErrors, Nat)
<1>1. pc = "line" /\ ln > Len(clean.raw)
  BY FinishFileDoes
<1>2. todo[1] \in DOMAIN Disk /\ clean.raw = RawOf(todo[1]) /\ ln \in 1..Len(clean.raw) + 1
  BY <1>1 DEF TypesInv, FilesInv
<1>3. Len(clean.raw) \in Nat
  BY LenProperties DEF TypesInv, FilesInv, Views
<1>4. clean.raw # <<>>
  BY <1>2, RawOfType
<1>5. Errors(FinishErrors, 0..Len(clean.raw))
  BY <1>1, <1>2, <1>3, <1>4, LastErrors DEF TypesInv, FilesInv, ScopesInv
<1>6. 0..Len(clean.raw) \subseteq Nat
  BY <1>3
<1> QED
  BY <1>5, <1>6, ErrorsIn

LEMMA ProcessLineTypes ==
  ASSUME TypesInv, ProcessLine
  PROVE  TypesInv'
<1> DEFINE style == CheckStyle(clean, ln, classes, SmallClass)
<1>1. /\ pc = "line" /\ ln <= Len(clean.raw)
      /\ fn' = CheckForFunctionLengths(clean, ln, fn, verbose).fn
      /\ \/ /\ style.fate = "ok"
            /\ Error(FirstErrors \o RestErrors)
            /\ inc' = CheckLanguage(FileOf[todo[1]], clean, ln, inc).inc
            /\ classes' = CheckForNonStandardConstructs(clean, ln, classes).classes
            /\ ln' = ln + 1 /\ UNCHANGED <<pc, status>>
         \/ /\ style.fate # "ok"
            /\ Error(FirstErrors)
            /\ pc' = style.fate
            /\ status' = IF style.fate = "crashed" THEN 1 ELSE status
            /\ UNCHANGED <<inc, classes, ln>>
      /\ UNCHANGED <<command, options, todo, clean>>
  BY ProcessLineDoes, Zenon
<1>2. style.fate \in {"ok", "crashed", "hung"}
  BY StyleErrors
<1> HIDE DEF style
<1>3. ln \in 1..Len(clean.raw) /\ Len(clean.raw) \in Nat
  BY <1>1, LenProperties DEF TypesInv, FilesInv, Views
<1>4. /\ Views(clean) /\ FunctionOK(fn) /\ ClassesOK(classes, 0..ln - 1) /\ IncludesOK(inc)
      /\ verbose \in Nat
  BY DEF TypesInv, FilesInv, ScopesInv
<1>5. FilesInv'
  <2>1. Views(clean)'
    BY <1>1, <1>4 DEF Views
  <2>2. CASE style.fate = "ok"
    <3>1. ln' \in Nat \ {0} /\ ln' \in 1..(Len(clean'.raw) + 1)
      BY <1>1, <1>3, <2>2
    <3> QED
      BY <1>1, <2>1, <2>2, <3>1, Zenon DEF TypesInv, FilesInv
  <2>3. CASE style.fate # "ok"
    BY <1>1, <1>2, <2>1, <2>3 DEF TypesInv, FilesInv
  <2> QED
    BY <2>2, <2>3
<1>6. ScopesInv'
  <2>1. FunctionOK(fn)'
    <3>1. FunctionOK(CheckForFunctionLengths(clean, ln, fn, verbose).fn)
      BY <1>4, FunctionLengths
    <3> QED
      BY <1>1, <3>1 DEF FunctionOK
  <2>2. CASE style.fate = "ok"
    <3>1. IncludesOK(inc)'
      <4>1. IncludesOK(CheckLanguage(FileOf[todo[1]], clean, ln, inc).inc)
        BY <1>4, SectionKept
      <4> QED
        BY <1>1, <2>2, <4>1 DEF IncludesOK
    <3>2. ClassesOK(classes, 0..ln - 1)'
      <4> DEFINE S == 0..ln
      <4>1. ln \in S /\ 0..ln - 1 \subseteq S /\ ln' - 1 = ln
        BY <1>1, <1>3, <2>2
      <4> HIDE DEF S
      <4>2. ClassesOK(CheckForNonStandardConstructs(clean, ln, classes).classes, S)
        BY <1>4, <4>1, ClassesInMore, NonStandardConstructs
      <4>3. ClassesOK(classes', 0..ln' - 1)
        BY <1>1, <2>2, <4>1, <4>2 DEF S
      <4> QED
        BY <4>3 DEF ClassesOK
    <3> QED
      BY <1>1, <1>4, <2>1, <3>1, <3>2 DEF ScopesInv, options
  <2>3. CASE style.fate # "ok"
    BY <1>1, <1>4, <2>1, <2>3 DEF ScopesInv, options, IncludesOK, ClassesOK
  <2> QED
    BY <2>2, <2>3
<1>7. LogOK'
  BY <1>1, LineErrorsType, LogKept, Zenon DEF TypesInv
<1> QED
  BY <1>5, <1>6, <1>7 DEF TypesInv

LEMMA FinishFileTypes ==
  ASSUME TypesInv, FinishFile
  PROVE  TypesInv'
<1>1. /\ pc = "line" /\ ln > Len(clean.raw) /\ pc' = "file"
      /\ Error(FinishErrors)
      /\ todo' = Tail(todo)
      /\ UNCHANGED <<suppressed, command, options, clean, ln, scopes, status>>
  BY FinishFileDoes
<1>2. todo # <<>> /\ todo[1] \in DOMAIN Disk /\ clean.raw = RawOf(todo[1]) /\ ln \in 1..Len(clean.raw) + 1
  BY <1>1 DEF TypesInv, FilesInv
<1>3. Tail(todo) \in Seq(DOMAIN FileOf) /\ IsSuffix(Tail(todo), command.files)
  BY <1>2, OptionsType, SuffixTail DEF TypesInv, FilesInv
<1>4. FilesInv'
  BY <1>1, <1>3 DEF TypesInv, FilesInv, Views
<1>5. ScopesInv'
  BY <1>1 DEF TypesInv, ScopesInv, options, scopes
<1>6. LogOK'
  BY <1>1, FinishErrorsType, LogKept DEF TypesInv
<1> QED
  BY <1>4, <1>5, <1>6 DEF TypesInv

LEMMA ExitTypes ==
  ASSUME TypesInv, Exit
  PROVE  TypesInv'
<1>1. FilesInv'
  BY DEF TypesInv, FilesInv, Exit, Views, options
<1>2. ScopesInv'
  BY DEF TypesInv, ScopesInv, Exit, options, scopes
<1>3. LogOK'
  BY DEF TypesInv, LogOK, Exit, counts
<1> QED
  BY <1>1, <1>2, <1>3 DEF TypesInv

\* and every step keeps them.
LEMMA TypesNext == TypesInv /\ [Next]_vars => TypesInv'
<1> SUFFICES ASSUME TypesInv, [Next]_vars PROVE TypesInv'
  OBVIOUS
<1>1. CASE ParseArguments
  BY <1>1, ParseArgumentsTypes
<1>2. CASE SkipFile
  BY <1>2, SkipFileTypes
<1>3. CASE StartFile
  BY <1>3, StartFileTypes
<1>4. CASE ProcessLine
  BY <1>4, ProcessLineTypes
<1>5. CASE FinishFile
  BY <1>5, FinishFileTypes
<1>6. CASE Exit
  BY <1>6, ExitTypes
<1>7. CASE UNCHANGED vars
  <2> USE <1>7 DEF vars, options, counts, scopes
  <2>1. FilesInv'
    BY DEF TypesInv, FilesInv, Views
  <2>2. ScopesInv'
    BY DEF TypesInv, ScopesInv
  <2>3. LogOK'
    BY DEF TypesInv, LogOK
  <2> QED
    BY <2>1, <2>2, <2>3 DEF TypesInv
<1> QED
  BY <1>1, <1>2, <1>3, <1>4, <1>5, <1>6, <1>7 DEF Next

\* The types hold in every state, those of what every rule returns among them (cpplint.py, the
\* checks that ProcessLine and ProcessFileData call).
THEOREM TypesAlways == Spec => []TypesInv
BY TypesInit, TypesNext, PTL DEF Spec

\* Whatever files are checked, the state of the checker is of its types: what is left to do is
\* the end of the command line, a class on the stack was declared on a line already read, and
\* an error is on a line, with a confidence from 0 to 5 (main, ProcessFileData).
THEOREM LintTypes == Spec => []LintTypeOK
<1>1. TypesInv => LintTypeOK
  <2> SUFFICES ASSUME TypesInv PROVE LintTypeOK
    OBVIOUS
  <2>1. \A k \in DOMAIN classes : classes[k].line < ln
    <3>1. ln \in Nat /\ \A k \in DOMAIN classes : classes[k].line \in 0..ln - 1
      BY DEF TypesInv, FilesInv, ScopesInv, ClassesOK, ClassOK
    <3> QED
      BY <3>1
  <2>2. /\ fn.count \in Nat /\ fn.in \in BOOLEAN
        /\ inc.section \in INITIAL_SECTION..OTHER_H_SECTION
    BY DEF TypesInv, ScopesInv, FunctionOK, IncludesOK
  <2>3. \A k \in DOMAIN log : log[k].error.conf \in 0..5 /\ log[k].error.line \in Nat
    BY DEF TypesInv, LogOK
  <2> QED
    BY <2>1, <2>2, <2>3 DEF TypesInv, FilesInv, LintTypeOK
<1> QED
  BY <1>1, TypesAlways, PTL

-------------------------------------------------------------------------------
(* Counts *)

\* Elements of two sequences, one after the other, are counted one by one.
LEMMA CountBoth ==
  ASSUME NEW A, NEW B, IsFiniteSet(A), IsFiniteSet(B), A \cap B = {}
  PROVE  Cardinality(A \cup B) = Cardinality(A) + Cardinality(B)
<1>1. Cardinality(A \cup B) = Cardinality(A) + Cardinality(B) - Cardinality(A \cap B)
  BY FS_Union
<1>2. Cardinality(A \cap B) = 0
  BY FS_EmptySet
<1>3. Cardinality(A) \in Nat /\ Cardinality(B) \in Nat
  BY FS_CardinalityType
<1> QED
  BY <1>1, <1>2, <1>3

\* A set of the first m numbers and one of numbers after them have the members of both.
LEMMA CountMore ==
  ASSUME NEW m \in Nat, NEW n \in Nat, NEW A, \A x \in A : x \in 1..m,
         NEW P, \A x \in P : x \in 1..n, NEW B, \A x : x \in B <=> x \in A \/ \E k \in P : x = m + k
  PROVE  Cardinality(B) = Cardinality(A) + Cardinality(P)
<1> DEFINE Q == {m + k : k \in P}
           f == [k \in P |-> m + k]
<1>1. IsFiniteSet(A) /\ IsFiniteSet(P)
  <2>1. IsFiniteSet(1..m) /\ IsFiniteSet(1..n)
    BY FS_Interval
  <2>2. A \subseteq 1..m /\ P \subseteq 1..n
    OBVIOUS
  <2> QED
    BY <2>1, <2>2, FS_Subset
<1>2. f \in Bijection(P, Q)
  <2>1. f \in [P -> Q]
    OBVIOUS
  <2>2. \A j, k \in P : f[j] = f[k] => j = k
    OBVIOUS
  <2>3. \A q \in Q : \E k \in P : f[k] = q
    OBVIOUS
  <2> HIDE DEF Q, f
  <2> QED
    BY <2>1, <2>2, <2>3 DEF Bijection, Injection, Surjection, IsInjective
<1>3. IsFiniteSet(Q) /\ Cardinality(Q) = Cardinality(P)
  <2>1. ExistsBijection(P, Q)
    BY <1>2 DEF ExistsBijection
  <2> HIDE DEF Q
  <2> QED
    BY <1>1, <2>1, FS_Bijection
<1>4. A \cap Q = {}
  <2>1. \A q \in Q : q \in Nat /\ ~(q <= m)
    OBVIOUS
  <2> HIDE DEF Q
  <2>2. ASSUME NEW x \in A, x \in Q PROVE FALSE
    <3>1. x \in Nat /\ x <= m
      OBVIOUS
    <3> QED
      BY <2>1, <2>2, <3>1
  <2> QED
    BY <2>2, Zenon
<1> HIDE DEF Q
<1>5. Cardinality(A \cup Q) = Cardinality(A) + Cardinality(Q)
  BY <1>1, <1>3, <1>4, CountBoth
<1>6. B = A \cup Q
  BY DEF Q
<1> QED
  BY <1>3, <1>5, <1>6

\* What an error is told of under.
ToldUnder(category) == IF counting = "toplevel" THEN <<category[1]>> ELSE category

LEMMA CountedUnder ==
  ASSUME NEW category
  PROVE  CountedAs(category) = IF counting \in {"toplevel", "detailed"} THEN {ToldUnder(category)} ELSE {}
BY DEF CountedAs, ToldUnder

\* The positions among these errors of those that are printed, and of those of them that are
\* counted under this category.
Printing(es) == {k \in 1..Len(es) : ShouldPrintError(es[k])}
Counting(es, category) == {k \in Printing(es) : category \in CountedAs(es[k].cat)}

LEMMA ErrorDoes ==
  ASSUME LogOK, NEW es, Errors(es, Nat), Error(es)
  PROVE  /\ Len(log) \in Nat /\ Len(es) \in Nat
         /\ Printed \subseteq 1..Len(log)
         /\ Printed' = Printed \cup {Len(log) + k : k \in Printing(es)}
         /\ errors' = errors + Cardinality(Printing(es))
         /\ DOMAIN byCategory' = DOMAIN byCategory \cup UNION {CountedAs(es[k].cat) : k \in Printing(es)}
         /\ \A c \in DOMAIN byCategory' :
              byCategory'[c] = (IF c \in DOMAIN byCategory THEN byCategory[c] ELSE 0)
                               + Cardinality(Counting(es, c))
<1>1. /\ Len(log) \in Nat /\ Len(es) \in Nat
      /\ DOMAIN log = 1..Len(log) /\ DOMAIN es = 1..Len(es)
      /\ DOMAIN log' = 1..Len(log) + Len(es)
      /\ \A k \in 1..Len(log) : log'[k] = log[k]
      /\ \A k \in 1..Len(es) : log'[Len(log) + k] = Entry(es[k])
  BY Logged
<1> DEFINE new == [k \in DOMAIN es |-> [file |-> todo[1], error |-> es[k], printed |-> ShouldPrintError(es[k])]]
           printed == {k \in DOMAIN es : new[k].printed}
<1>2. printed = Printing(es)
  BY <1>1 DEF Printing
<1>3. /\ errors' = errors + Cardinality(printed)
      /\ byCategory' = [c \in DOMAIN byCategory \cup UNION {CountedAs(es[k].cat) : k \in printed} |->
                          (IF c \in DOMAIN byCategory THEN byCategory[c] ELSE 0)
                          + Cardinality({k \in printed : c \in CountedAs(es[k].cat)})]
  BY Zenon DEF Error
<1> HIDE DEF printed, new
<1>4. /\ DOMAIN byCategory' = DOMAIN byCategory \cup UNION {CountedAs(es[k].cat) : k \in Printing(es)}
      /\ \A c \in DOMAIN byCategory' :
              byCategory'[c] = (IF c \in DOMAIN byCategory THEN byCategory[c] ELSE 0)
                               + Cardinality(Counting(es, c))
  BY <1>2, <1>3, Zenon DEF Counting
<1>5. Printed \subseteq 1..Len(log)
  BY <1>1 DEF Printed
<1>6. Printed' = Printed \cup {Len(log) + k : k \in Printing(es)}
  <2>1. ASSUME NEW j \in 1..Len(es) PROVE log'[Len(log) + j].printed <=> ShouldPrintError(es[j])
    <3>1. log'[Len(log) + j] = Entry(es[j])
      BY <1>1
    <3> QED
      BY <3>1 DEF Entry
  <2>2. ASSUME NEW x \in Printed' PROVE x \in Printed \cup {Len(log) + k : k \in Printing(es)}
    <3>1. x \in 1..Len(log) + Len(es) /\ log'[x].printed
      BY <1>1 DEF Printed
    <3>2. CASE x \in 1..Len(log)
      <4>1. log[x].printed
        BY <1>1, <3>1, <3>2
      <4> QED
        BY <1>1, <3>2, <4>1 DEF Printed
    <3>3. CASE x \notin 1..Len(log)
      <4>1. x - Len(log) \in 1..Len(es) /\ Len(log) + (x - Len(log)) = x
        BY <1>1, <3>1, <3>3
      <4>2. x - Len(log) \in Printing(es)
        BY <2>1, <3>1, <4>1 DEF Printing
      <4> QED
        BY <4>1, <4>2
    <3> QED
      BY <3>2, <3>3
  <2>3. ASSUME NEW x \in Printed PROVE x \in Printed'
    <3>1. x \in 1..Len(log) /\ log[x].printed
      BY <1>1 DEF Printed
    <3>2. x \in 1..Len(log) + Len(es) /\ log'[x] = log[x]
      BY <1>1, <3>1
    <3> QED
      BY <1>1, <3>1, <3>2 DEF Printed
  <2>4. ASSUME NEW k \in Printing(es) PROVE Len(log) + k \in Printed'
    <3>1. k \in 1..Len(es) /\ ShouldPrintError(es[k])
      BY DEF Printing
    <3>2. Len(log) + k \in 1..Len(log) + Len(es)
      BY <1>1, <3>1
    <3> QED
      BY <1>1, <2>1, <3>1, <3>2 DEF Printed
  <2> HIDE DEF Printed
  <2> QED
    BY <2>2, <2>3, <2>4
<1> QED
  BY <1>1, <1>2, <1>3, <1>4, <1>5, <1>6

\* The counts are those of the errors that were printed. Before the options are read nothing
\* is counted, so that it does not matter that they decide how it is.
CountsInv ==
  /\ errors = Cardinality(Printed)
  /\ \A c \in DOMAIN byCategory : byCategory[c] = Cardinality(Under(c)) /\ Under(c) # {}
  /\ counting \in {"toplevel", "detailed"} => \A k \in Printed : \E c \in DOMAIN byCategory : k \in Under(c)
  /\ counting \notin {"toplevel", "detailed"} => DOMAIN byCategory = {}

\* The number of errors goes with the exit status.
ExitInv ==
  /\ pc = "args" => log = <<>> /\ DOMAIN byCategory = {}
  /\ pc = "exit" /\ log # <<>> => (status = 1 <=> Printed # {})

\* What Error adds to the counts is what it adds to the log.
LEMMA ErrorCounts ==
  ASSUME CountsInv, LogOK, NEW es, Errors(es, Nat), Error(es), UNCHANGED counting
  PROVE  CountsInv'
<1> DEFINE m == Len(log)
           n == Len(es)
           P == Printing(es)
<1>1. /\ m \in Nat /\ n \in Nat
      /\ Printed \subseteq 1..m
      /\ Printed' = Printed \cup {m + k : k \in P}
      /\ errors' = errors + Cardinality(P)
      /\ DOMAIN byCategory' = DOMAIN byCategory \cup UNION {CountedAs(es[k].cat) : k \in P}
      /\ \A c \in DOMAIN byCategory' :
           byCategory'[c] = (IF c \in DOMAIN byCategory THEN byCategory[c] ELSE 0)
                            + Cardinality(Counting(es, c))
  BY ErrorDoes
<1>2. P \subseteq 1..n /\ \A c : Counting(es, c) \subseteq 1..n
  BY DEF Printing, Counting
<1>3. errors' = Cardinality(Printed')
  <2>1. errors = Cardinality(Printed)
    BY DEF CountsInv
  <2>2. /\ \A x \in Printed : x \in 1..m
        /\ \A x \in P : x \in 1..n
        /\ Printed' = Printed \cup {m + k : k \in P}
    BY <1>1, <1>2
  <2>0. m \in Nat /\ n \in Nat
    BY <1>1
  <2> HIDE DEF m, n, P
  <2>3. \A x : x \in Printed' <=> x \in Printed \/ \E k \in P : x = m + k
    BY <2>2
  <2>4. Cardinality(Printed') = Cardinality(Printed) + Cardinality(P)
    <3>1. PICK A, B, C : A = Printed /\ B = Printed' /\ C = P
      OBVIOUS
    <3>2. (\A x \in A : x \in 1..m) /\ (\A x \in C : x \in 1..n)
      BY <2>2, <3>1, Zenon
    <3>3. \A x : x \in B <=> x \in A \/ \E k \in C : x = m + k
      BY <2>3, <3>1, Zenon
    <3>4. Cardinality(B) = Cardinality(A) + Cardinality(C)
      BY <2>0, <3>2, <3>3, CountMore
    <3> QED
      BY <3>1, <3>4
  <2> QED
    BY <1>1, <2>1, <2>4
<1>4. \A c : Under(c)' = Under(c) \cup {m + k : k \in {j \in P : c = ToldUnder(es[j].cat)}}
  <2>1. /\ DOMAIN log = 1..m
        /\ \A k \in 1..m : log'[k] = log[k]
        /\ \A k \in 1..n : log'[m + k] = Entry(es[k])
    BY Logged
  <2>2. \A k \in Printed : k \in 1..m /\ log'[k].error.cat = log[k].error.cat
    BY <1>1, <2>1
  <2>3. ASSUME NEW k \in P PROVE log'[m + k].error.cat = es[k].cat
    <3>1. log'[m + k] = Entry(es[k])
      BY <1>2, <2>1
    <3> QED
      BY <3>1 DEF Entry
  <2>4. \A c : Under(c) = {k \in Printed : c = ToldUnder(log[k].error.cat)}
    BY Zenon DEF Under, ToldUnder
  <2>5. \A c : Under(c)' = {k \in Printed' : c = ToldUnder(log'[k].error.cat)}
    BY Zenon DEF Under, ToldUnder
  <2>6. ASSUME NEW c
        PROVE  Under(c)' = Under(c) \cup {m + k : k \in {j \in P : c = ToldUnder(es[j].cat)}}
    <3> DEFINE told(x) == ToldUnder(log'[x].error.cat)
    <3>1. /\ \A k \in Printed : told(k) = ToldUnder(log[k].error.cat)
          /\ \A k \in P : told(m + k) = ToldUnder(es[k].cat)
      BY <2>2, <2>3, Zenon
    <3>2. /\ Under(c)' = {k \in Printed' : c = told(k)}
          /\ Under(c) = {k \in Printed : c = ToldUnder(log[k].error.cat)}
      BY <2>4, <2>5, Zenon
    <3>3. Printed' = Printed \cup {m + k : k \in P}
      BY <1>1
    <3> HIDE DEF m, P, told
    <3>4. \A x : x \in Under(c)' <=> x \in Under(c) \/ \E k \in P : c = ToldUnder(es[k].cat) /\ x = m + k
      BY <3>1, <3>2, <3>3
    <3> QED
      BY <3>4
  <2> QED
    BY <2>6, Zenon
<1> DEFINE Counted == {"toplevel", "detailed"}
           of(c) == {j \in P : c = ToldUnder(es[j].cat)}
<1>5. ASSUME counting \in Counted, NEW c
      PROVE  /\ Counting(es, c) = of(c)
             /\ Cardinality(Under(c)') = Cardinality(Under(c)) + Cardinality(of(c))
  <2>1. \A k \in P : c \in CountedAs(es[k].cat) <=> c = ToldUnder(es[k].cat)
    BY <1>5, CountedUnder
  <2>2. Counting(es, c) = of(c)
    BY <2>1, Zenon DEF Counting
  <2>3. (\A x \in Under(c) : x \in 1..m) /\ (\A x \in of(c) : x \in 1..n)
    BY <1>1, <1>2 DEF Under
  <2>4. Under(c)' = Under(c) \cup {m + k : k \in of(c)}
    BY <1>4, Zenon
  <2> HIDE DEF m, n, of
  <2>5. \A x : x \in Under(c)' <=> x \in Under(c) \/ \E k \in of(c) : x = m + k
    BY <2>4
  <2>6. Cardinality(Under(c)') = Cardinality(Under(c)) + Cardinality(of(c))
    <3>1. m \in Nat /\ n \in Nat
      BY <1>1
    <3>2. PICK A, B, C : A = Under(c) /\ B = Under(c)' /\ C = of(c)
      OBVIOUS
    <3>3. (\A x \in A : x \in 1..m) /\ (\A x \in C : x \in 1..n)
      BY <2>3, <3>2, Zenon
    <3>4. \A x : x \in B <=> x \in A \/ \E k \in C : x = m + k
      BY <2>5, <3>2, Zenon
    <3>5. Cardinality(B) = Cardinality(A) + Cardinality(C)
      BY <3>1, <3>3, <3>4, CountMore
    <3> QED
      BY <3>2, <3>5
  <2> QED
    BY <2>2, <2>6, Zenon
<1>6. \A c : Under(c) \subseteq Under(c)' /\ \A j \in of(c) : m + j \in Under(c)'
  BY <1>4, Zenon
<1> HIDE DEF m, n, P, Counted
<1>7. ASSUME NEW c \in DOMAIN byCategory'
      PROVE  byCategory'[c] = Cardinality(Under(c)') /\ Under(c)' # {}
  <2>1. counting \in Counted
    <3>1. CASE c \in DOMAIN byCategory
      BY <3>1 DEF CountsInv, Counted
    <3>2. CASE c \notin DOMAIN byCategory
      <4>1. PICK k \in P : c \in CountedAs(es[k].cat)
        BY <1>1, <3>2
      <4> QED
        BY <4>1, CountedUnder DEF Counted
    <3> QED
      BY <3>1, <3>2
  <2>2. /\ byCategory'[c] = (IF c \in DOMAIN byCategory THEN byCategory[c] ELSE 0) + Cardinality(of(c))
        /\ Cardinality(Under(c)') = Cardinality(Under(c)) + Cardinality(of(c))
    BY <1>1, <1>5, <2>1, Zenon
  <2>3. CASE c \in DOMAIN byCategory
    <3>1. byCategory[c] = Cardinality(Under(c)) /\ Under(c) # {}
      BY <2>3 DEF CountsInv
    <3>2. Under(c)' # {}
      BY <1>6, <3>1
    <3> QED
      BY <2>2, <2>3, <3>1, <3>2
  <2>4. CASE c \notin DOMAIN byCategory
    <3>1. PICK k \in P : c \in CountedAs(es[k].cat)
      BY <1>1, <2>4
    <3>2. k \in of(c)
      BY <2>1, <3>1, CountedUnder DEF Counted
    <3>3. Under(c)' # {}
      BY <1>6, <3>2
    <3>4. Under(c) = {}
      <4>1. ASSUME NEW x \in Under(c) PROVE FALSE
        <5>1. x \in Printed /\ c = ToldUnder(log[x].error.cat)
          BY <4>1, Zenon DEF Under, ToldUnder
        <5>2. PICK d \in DOMAIN byCategory : x \in Under(d)
          BY <2>1, <5>1 DEF CountsInv, Counted
        <5>3. d = ToldUnder(log[x].error.cat)
          BY <5>2, Zenon DEF Under, ToldUnder
        <5> QED
          BY <2>4, <5>1, <5>2, <5>3
      <4> QED
        BY <4>1
    <3>5. Cardinality(Under(c)) = 0
      BY <3>4, FS_EmptySet
    <3>6. (IF c \in DOMAIN byCategory THEN byCategory[c] ELSE 0) = 0
      BY <2>4
    <3> QED
      BY <2>2, <3>3, <3>5, <3>6
  <2> QED
    BY <2>3, <2>4
<1>8. ASSUME counting \in Counted, NEW k \in Printed'
      PROVE  \E c \in DOMAIN byCategory' : k \in Under(c)'
  <2>1. CASE k \in Printed
    <3>1. PICK c \in DOMAIN byCategory : k \in Under(c)
      BY <1>8, <2>1 DEF CountsInv, Counted
    <3> QED
      BY <1>1, <1>6, <3>1
  <2>2. CASE k \notin Printed
    <3>1. PICK j \in P : k = m + j
      BY <1>1, <2>2
    <3>0. PICK c : c = ToldUnder(es[j].cat)
      OBVIOUS
    <3>2. j \in of(c)
      BY <3>0
    <3>3. c \in CountedAs(es[j].cat)
      BY <1>8, <3>0, CountedUnder DEF Counted
    <3>4. c \in DOMAIN byCategory'
      BY <1>1, <3>3
    <3> HIDE DEF of
    <3>5. m + j \in Under(c)'
      BY <1>6, <3>2
    <3> QED
      BY <3>1, <3>4, <3>5, Zenon
  <2> QED
    BY <2>1, <2>2
<1>9. ASSUME counting \notin Counted PROVE DOMAIN byCategory' = {}
  <2>1. \A k \in P : CountedAs(es[k].cat) = {}
    BY <1>9, CountedUnder DEF Counted
  <2>2. DOMAIN byCategory = {}
    BY <1>9 DEF CountsInv, Counted
  <2> QED
    BY <1>1, <2>1, <2>2
<1> QED
  BY <1>3, <1>7, <1>8, <1>9 DEF CountsInv, Counted

\* Every step keeps the counts.
LEMMA CountsNext == TypesInv /\ CountsInv /\ ExitInv /\ [Next]_vars => CountsInv' /\ ExitInv'
<1> SUFFICES ASSUME TypesInv, CountsInv, ExitInv, [Next]_vars PROVE CountsInv' /\ ExitInv'
  OBVIOUS
<1>1. ASSUME NEW es, Errors(es, Nat), Error(es), UNCHANGED counting, pc = "line" \/ pc = "file", pc' # "exit", pc' # "args"
      PROVE  CountsInv' /\ ExitInv'
  <2>1. CountsInv'
    BY <1>1, ErrorCounts DEF TypesInv
  <2>2. ExitInv'
    BY <1>1 DEF ExitInv
  <2> QED
    BY <2>1, <2>2
<1>2. ASSUME UNCHANGED <<counting, counts>> PROVE CountsInv'
  BY <1>2 DEF CountsInv, Printed, Under, counts
<1>3. CASE ParseArguments
  <2>1. UNCHANGED counts /\ pc = "args" /\ pc' \in {"exit", "file", "crashed"}
    BY <1>3, ParseArgumentsDoes
  <2>2. log' = <<>> /\ DOMAIN byCategory' = {}
    BY <2>1 DEF ExitInv, counts
  <2>3. Printed' = {}
    BY <2>2 DEF Printed
  <2>4. errors' = Cardinality(Printed')
    BY <2>1 DEF CountsInv, counts, Printed
  <2> QED
    BY <2>1, <2>2, <2>3, <2>4 DEF CountsInv, ExitInv
<1>4. CASE SkipFile
  BY <1>2, <1>4 DEF SkipFile, ExitInv, options, counts
<1>5. CASE StartFile
  <2>1. /\ pc = "file" /\ pc' = "line" /\ todo[1] \in DOMAIN Disk
        /\ Error(StartErrors) /\ UNCHANGED options
    BY <1>5, StartFileDoes
  <2> QED
    BY <1>1, <2>1, StartErrorsType, Zenon DEF options
<1>6. CASE ProcessLine
  <2>1. CheckStyle(clean, ln, classes, SmallClass).fate \in {"ok", "crashed", "hung"}
    BY StyleErrors
  <2>2. /\ pc = "line" /\ pc' \notin {"args", "exit"} /\ UNCHANGED options
        /\ Error(FirstErrors) \/ Error(FirstErrors \o RestErrors)
    BY <1>6, <2>1, ProcessLineDoes
  <2>3. Errors(FirstErrors, Nat) /\ Errors(FirstErrors \o RestErrors, Nat)
    BY <1>6, LineErrorsType
  <2> QED
    BY <1>1, <2>2, <2>3, Zenon DEF options
<1>7. CASE FinishFile
  <2>1. pc = "line" /\ pc' = "file" /\ Error(FinishErrors) /\ UNCHANGED options
    BY <1>7, FinishFileDoes
  <2> QED
    BY <1>1, <1>7, <2>1, FinishErrorsType, Zenon DEF options
<1>8. CASE Exit
  <2>1. pc = "file" /\ pc' = "exit" /\ UNCHANGED <<counting, counts>> /\ status' = IF errors > 0 THEN 1 ELSE 0
    BY <1>8 DEF Exit, options
  <2>2. CountsInv'
    BY <1>2, <2>1
  <2>3. errors > 0 <=> Printed # {}
    <3>1. IsFiniteSet(Printed)
      <4>1. Len(log) \in Nat /\ DOMAIN log = 1..Len(log)
        BY LenProperties DEF TypesInv, LogOK
      <4> QED
        <5>1. Printed \subseteq 1..Len(log) /\ IsFiniteSet(1..Len(log))
          BY <4>1, FS_Interval DEF Printed
        <5> QED
          BY <5>1, FS_Subset
    <3>2. Cardinality(Printed) \in Nat /\ (Cardinality(Printed) = 0 <=> Printed = {})
      BY <3>1, FS_CardinalityType, FS_EmptySet
    <3> QED
      BY <3>2 DEF CountsInv
  <2>4. Printed' = Printed
    BY <2>1 DEF Printed, counts
  <2> QED
    BY <2>1, <2>2, <2>3, <2>4 DEF ExitInv
<1>9. CASE UNCHANGED vars
  BY <1>2, <1>9 DEF vars, options, counts, ExitInv, Printed
<1> QED
  BY <1>3, <1>4, <1>5, <1>6, <1>7, <1>8, <1>9 DEF Next

\* They are right at the start.
LEMMA CountsInit == Init => CountsInv /\ ExitInv
<1> SUFFICES ASSUME Init PROVE CountsInv /\ ExitInv
  OBVIOUS
<1>1. Printed = {}
  BY DEF Init, Printed
<1>2. Cardinality(Printed) = 0
  BY <1>1, FS_EmptySet
<1> QED
  BY <1>1, <1>2 DEF Init, CountsInv, ExitInv

\* Whatever files are checked and however errors are counted, the number of errors, the count
\* of each category and the exit status are those of the errors that were printed
\* (IncrementErrorCount, PrintErrorCounts, main).
THEOREM LintCounts == Spec => []CountsAgree
<1>1. Init => CountsInv /\ ExitInv
  BY CountsInit
<1>2. CountsInv /\ ExitInv => CountsAgree
  BY DEF CountsInv, ExitInv, CountsAgree
<1> QED
  BY <1>1, <1>2, TypesAlways, CountsNext, PTL DEF Spec

-------------------------------------------------------------------------------
(* Filters *)

\* What the filters decide is what the last of them that matches says.
LEMMA FilteredByLast ==
  ASSUME NEW category, Len(filters) \in Nat
  PROVE  LET matching == {k \in 1..Len(filters) : IsPrefix(filters[k].prefix, category)}
         IN Filtered(category) <=> matching # {} /\ filters[Max(matching)].sign = "-"
<1> DEFINE n == Len(filters)
           match(k) == IsPrefix(filters[k].prefix, category)
           out_(k) == filters[k].sign = "-"
           Next1(k, b) == IF match(k) THEN out_(k) ELSE b
           Solves(f) == f = [k \in 0..n |-> IF k = 0 THEN FALSE ELSE Next1(k, f[k - 1])]
           F == [p \in (1..n) \X BOOLEAN |-> Next1(p[1], p[2])]
<1>1. n \in Nat
  OBVIOUS
<1>2. FilteredBy(category) = CHOOSE f : Solves(f)
  BY Zenon DEF FilteredBy
<1>3. Filtered(category) = FilteredBy(category)[n]
  BY DEF Filtered
<1>0. \A k, b : Next1(k, b) = IF match(k) THEN out_(k) ELSE b
  OBVIOUS
<1>4. \A k, b : b \in BOOLEAN => Next1(k, b) \in BOOLEAN
  OBVIOUS
<1> HIDE DEF n, match, out_, Next1
<1>5. F \in [(1..n) \X BOOLEAN -> BOOLEAN]
  <2>1. \A p \in (1..n) \X BOOLEAN : Next1(p[1], p[2]) \in BOOLEAN
    BY <1>4
  <2> QED
    BY <2>1
<1>6. \A k \in 1..n, b \in BOOLEAN : F[<<k, b>>] = Next1(k, b)
  OBVIOUS
<1> HIDE DEF F
<1>7. PICK g \in [0..n -> BOOLEAN] : g[0] = FALSE /\ \A k \in 1..n : g[k] = F[<<k, g[k - 1]>>]
  <2>1. \E f : Recurs(f, n, BOOLEAN, FALSE, F)
    BY <1>1, <1>5, Recursion
  <2> QED
    BY <2>1 DEF Recurs
<1>8. \A k \in 1..n : g[k] = Next1(k, g[k - 1])
  <2> SUFFICES ASSUME NEW k \in 1..n PROVE g[k] = Next1(k, g[k - 1])
    OBVIOUS
  <2>1. g[k - 1] \in BOOLEAN
    BY <1>1
  <2> QED
    BY <1>6, <1>7, <2>1
<1>9. Solves(g)
  <2>1. ASSUME NEW k \in 0..n
        PROVE  g[k] = IF k = 0 THEN FALSE ELSE Next1(k, g[k - 1])
    <3>1. k = 0 \/ k \in 1..n
      BY <1>1
    <3> QED
      BY <3>1, <1>7, <1>8
  <2> QED
    BY <2>1
<1> DEFINE C == FilteredBy(category)
<1>10. Solves(C)
  <2> HIDE DEF Solves
  <2> QED
    BY <1>2, <1>9, Zenon
<1> HIDE DEF C
<1>11. C[0] = FALSE /\ \A k \in 1..n : C[k] = Next1(k, C[k - 1])
  <2>1. C[0] = FALSE
    BY <1>1, <1>10
  <2>2. \A k \in 1..n : k \in 0..n /\ k # 0
    BY <1>1
  <2> QED
    BY <2>1, <2>2, <1>10
\* The last match up to k.
<1> DEFINE Last1(k, j) == match(j) /\ \A i \in (j + 1)..k : ~match(i)
           T == {k \in 0..n : C[k] <=> (\E j \in 1..k : Last1(k, j) /\ out_(j))}
<1>12. 0 \in T
  <2>1. ~(\E j \in 1..0 : Last1(0, j) /\ out_(j))
    <3>1. \A j \in 1..0 : FALSE
      OBVIOUS
    <3> QED
      BY <3>1, Zenon
  <2>2. ~C[0] /\ 0 \in 0..n
    BY <1>1, <1>11
  <2> HIDE DEF Last1
  <2> QED
    BY <2>1, <2>2, Zenon
<1>13. ASSUME NEW k \in 0..n - 1, k \in T PROVE k + 1 \in T
  <2>1. k + 1 \in 1..n /\ k + 1 \in 0..n /\ (k + 1) - 1 = k
    BY <1>1
  <2>2. C[k + 1] = IF match(k + 1) THEN out_(k + 1) ELSE C[k]
    BY <1>0, <1>11, <2>1
  <2>3. /\ match(k + 1) => (C[k + 1] <=> out_(k + 1))
        /\ ~match(k + 1) => (C[k + 1] <=> C[k])
    BY <2>2
  <2>4. CASE match(k + 1)
    <3>1. \A j \in 1..k + 1 : Last1(k + 1, j) <=> j = k + 1
      <4>1. \A j \in 1..k + 1 : j = k + 1 \/ k + 1 \in (j + 1)..(k + 1)
        BY <2>1
      <4>2. \A i \in ((k + 1) + 1)..(k + 1) : FALSE
        BY <2>1
      <4> QED
        BY <2>4, <4>1, <4>2
    <3>2. (\E j \in 1..k + 1 : Last1(k + 1, j) /\ out_(j)) <=> out_(k + 1)
      <4>1. k + 1 \in 1..k + 1
        BY <2>1
      <4> HIDE DEF Last1
      <4> QED
        BY <3>1, <4>1, Zenon
    <3> HIDE DEF Last1
    <3> QED
      BY <2>1, <2>3, <2>4, <3>2
  <2>5. CASE ~match(k + 1)
    <3>1. \A j \in 1..k + 1 : Last1(k + 1, j) <=> j \in 1..k /\ Last1(k, j)
      <4>1. \A j \in 1..k + 1 : j \in 1..k \/ j = k + 1
        BY <2>1
      <4>2. \A j \in 1..k : \A i : i \in (j + 1)..(k + 1) <=> i \in (j + 1)..k \/ i = k + 1
        BY <2>1
      <4> QED
        BY <2>5, <4>1, <4>2
    <3>2. (\E j \in 1..k + 1 : Last1(k + 1, j) /\ out_(j)) <=> (\E j \in 1..k : Last1(k, j) /\ out_(j))
      <4>1. \A j \in 1..k : j \in 1..k + 1
        BY <2>1
      <4> HIDE DEF Last1
      <4> QED
        BY <3>1, <4>1, Zenon
    <3> HIDE DEF Last1
    <3>3. C[k] <=> (\E j \in 1..k : Last1(k, j) /\ out_(j))
      BY <1>13
    <3> QED
      BY <2>1, <2>3, <2>5, <3>2, <3>3
  <2> QED
    BY <2>4, <2>5
<1>14. n \in T
  <2>1. \A k \in 0..n : k \in T
    <3> HIDE DEF T
    <3> QED
      BY <1>1, <1>12, <1>13, Upward
  <2> QED
    BY <1>1, <2>1
<1>15. Filtered(category) <=> \E j \in 1..n : Last1(n, j) /\ out_(j)
  BY <1>3, <1>14 DEF C
<1> DEFINE M == {k \in 1..n : match(k)}
<1>16. M # {} => Max(M) \in M /\ \A x \in M : x <= Max(M)
  <2>1. \A x \in M : x \in 0..n
    BY <1>1
  <2> HIDE DEF M
  <2> QED
    BY <1>1, <2>1, MaxOf
<1>17. (\E j \in 1..n : Last1(n, j) /\ out_(j)) <=> M # {} /\ out_(Max(M))
  <2>1. ASSUME NEW j \in 1..n, Last1(n, j), out_(j) PROVE M # {} /\ out_(Max(M))
    <3>1. j \in M
      BY <2>1
    <3>2. Max(M) = j
      <4>1. Max(M) \in 1..n /\ match(Max(M)) /\ j <= Max(M)
        BY <1>16, <3>1
      <4>2. ~(Max(M) \in (j + 1)..n)
        BY <2>1, <4>1
      <4> HIDE DEF M, Last1
      <4> QED
        BY <1>1, <4>1, <4>2
    <3> HIDE DEF M
    <3> QED
      BY <2>1, <3>1, <3>2
  <2>2. ASSUME M # {}, out_(Max(M)) PROVE \E j \in 1..n : Last1(n, j) /\ out_(j)
    <3>1. Max(M) \in 1..n /\ match(Max(M))
      BY <1>16, <2>2
    <3>2. ASSUME NEW i \in (Max(M) + 1)..n PROVE ~match(i)
      <4>1. i \in 1..n /\ ~(i <= Max(M))
        BY <1>1, <3>1
      <4> QED
        BY <1>16, <2>2, <4>1
    <3>3. Last1(n, Max(M))
      BY <3>1, <3>2
    <3> HIDE DEF M, Last1
    <3> QED
      BY <2>2, <3>1, <3>3
  <2> QED
    BY <2>1, <2>2
<1> QED
  BY <1>15, <1>17, Zenon DEF n, match, out_

-------------------------------------------------------------------------------
(* Suppressions *)

\* What is suppressed when the guard of this file and its first m lines were read.
Suppressions(f, m) ==
  (UNION {ParseNolintSuppressions(LinesOf(f)[i], i) : i \in HeaderGuard(f).reads})
  \cup (UNION {ParseNolintSuppressions(RawOf(f)[i], i) : i \in 1..m})

\* A NOLINT is for its own line, and a blanked line has none.
LEMMA ParsedNolint ==
  /\ \A line, i : \A s \in ParseNolintSuppressions(line, i) : s = <<s[1], i>>
  /\ \A i : ParseNolintSuppressions(Dummy, i) = {}
<1>1. ASSUME NEW line, NEW i, NEW s \in ParseNolintSuppressions(line, i) PROVE s = <<s[1], i>>
  <2>1. s \in NolintsOn(line, i)
    BY DEF ParseNolintSuppressions
  <2>2. \E c : s = <<c, i>>
    BY <2>1, Zenon DEF NolintsOn
  <2> QED
    BY <2>2
<1>2. ASSUME NEW i PROVE ParseNolintSuppressions(Dummy, i) = {}
  <2>1. \A k \in DOMAIN Dummy : Dummy[k] \notin DOMAIN Nolint
    BY NolintAssumption DEF ToSet
  <2>2. Dummy \in Line /\ Len(Dummy) \in Nat /\ DOMAIN Dummy = 1..Len(Dummy)
    BY MarksType, LenProperties DEF Line
  <2>3. SelectInSeq(Dummy, LAMBDA t : t \in DOMAIN Nolint) = 0
    BY <2>1, <2>2 DEF SelectInSeq
  <2> QED
    BY <2>3 DEF ParseNolintSuppressions, NolintsOn
<1> QED
  BY <1>1, <1>2, Zenon

\* On the lines that were read, an error is suppressed when, and only when, a comment covers it.
LEMMA SuppressedCovered ==
  ASSUME NEW f \in DOMAIN Disk, NEW m \in 0..Len(LinesOf(f)), suppressed' = Suppressions(f, m),
         NEW category, NEW i \in {0} \cup HeaderGuard(f).reads \cup 1..m
  PROVE  IsErrorSuppressedByNolint(category, i) <=> Covered(f, category, i)
<1> DEFINE n == Len(LinesOf(f))
           reads == HeaderGuard(f).reads
           given == LinesOf(f)
           raw == RawOf(f)
           Parse(line) == ParseNolintSuppressions(line, i)
           silent(line) == \E s \in Parse(line) : s[1] \in {AllCategories, category}
<1>1. /\ n \in Nat /\ reads \subseteq 1..n
      /\ DOMAIN given = 1..n /\ DOMAIN raw = 1..n
      /\ \A k \in 1..n : raw[k] \in {given[k], Dummy}
  BY LinesOfType, RawOfType, HeaderGuardErrors, LenProperties
<1> HIDE DEF n, reads, given, raw
<1>2. \A c : <<c, i>> \in suppressed'
              <=> (i \in reads /\ <<c, i>> \in Parse(given[i])) \/ (i \in 1..m /\ <<c, i>> \in Parse(raw[i]))
  <2> DEFINE A == {ParseNolintSuppressions(given[k], k) : k \in reads}
             B == {ParseNolintSuppressions(raw[k], k) : k \in 1..m}
  <2>1. suppressed' = (UNION A) \cup (UNION B)
    BY DEF Suppressions, reads, given, raw
  <2>2. /\ \A x : x \in UNION A <=> \E k \in reads : x \in ParseNolintSuppressions(given[k], k)
        /\ \A x : x \in UNION B <=> \E k \in 1..m : x \in ParseNolintSuppressions(raw[k], k)
    OBVIOUS
  <2>3. \A c, line, k : <<c, i>> \in ParseNolintSuppressions(line, k) => k = i
    <3>1. ASSUME NEW c, NEW line, NEW k, <<c, i>> \in ParseNolintSuppressions(line, k) PROVE k = i
      <4>1. <<c, i>> = <<<<c, i>>[1], k>>
        BY <3>1, ParsedNolint, Zenon
      <4> QED
        BY <4>1
    <3> QED
      BY <3>1, Zenon
  <2> HIDE DEF A, B
  <2>4. ASSUME NEW c
        PROVE  <<c, i>> \in suppressed'
               <=> (i \in reads /\ <<c, i>> \in Parse(given[i])) \/ (i \in 1..m /\ <<c, i>> \in Parse(raw[i]))
    <3>1. PICK x : x = <<c, i>>
      OBVIOUS
    <3>2. x \in suppressed' <=> x \in UNION A \/ x \in UNION B
      BY <2>1, Zenon
    <3>3. \A line, k : x \in ParseNolintSuppressions(line, k) => k = i
      BY <2>3, <3>1, Zenon
    <3>4. x \in UNION A <=> i \in reads /\ x \in Parse(given[i])
      <4>1. x \in UNION A <=> \E k \in reads : x \in ParseNolintSuppressions(given[k], k)
        BY <2>2
      <4> QED
        BY <3>3, <4>1
    <3>5. x \in UNION B <=> i \in 1..m /\ x \in Parse(raw[i])
      <4>1. x \in UNION B <=> \E k \in 1..m : x \in ParseNolintSuppressions(raw[k], k)
        BY <2>2
      <4> DEFINE span == 1..m
      <4> HIDE DEF span
      <4> QED
        BY <3>3, <4>1
    <3> QED
      BY <3>1, <3>2, <3>4, <3>5, Zenon
  <2> QED
    BY <2>4, Zenon
<1>3. \A line : (\E c \in {AllCategories, category} : <<c, i>> \in Parse(line)) <=> silent(line)
  <2>1. ASSUME NEW line, NEW s \in Parse(line) PROVE s = <<s[1], i>>
    BY ParsedNolint, Zenon
  <2>2. \A c : <<c, i>>[1] = c
    OBVIOUS
  <2> HIDE DEF Parse
  <2> QED
    BY <2>1, <2>2, Zenon
<1>4. IsErrorSuppressedByNolint(category, i) <=> \E c \in {AllCategories, category} : <<c, i>> \in suppressed'
  BY Zenon DEF IsErrorSuppressedByNolint
<1>5. IsErrorSuppressedByNolint(category, i)
        <=> (i \in reads /\ silent(given[i])) \/ (i \in 1..m /\ silent(raw[i]))
  <2> DEFINE S == {AllCategories, category}
  <2>1. (\E c \in S : <<c, i>> \in suppressed')
          <=> \/ i \in reads /\ \E c \in S : <<c, i>> \in Parse(given[i])
              \/ i \in 1..m /\ \E c \in S : <<c, i>> \in Parse(raw[i])
    <3> HIDE DEF Parse, S
    <3> QED
      BY <1>2, Zenon
  <2>2. /\ (\E c \in S : <<c, i>> \in Parse(given[i])) <=> silent(given[i])
        /\ (\E c \in S : <<c, i>> \in Parse(raw[i])) <=> silent(raw[i])
    BY <1>3, Zenon
  <2> HIDE DEF Parse, silent
  <2> QED
    BY <1>4, <2>1, <2>2, Zenon
<1>6. Covered(f, category, i) <=> IF i \in reads THEN i \in DOMAIN given /\ silent(given[i])
                                              ELSE i \in DOMAIN raw /\ silent(raw[i])
  <2>1. CASE i \in reads
    BY <2>1, Zenon DEF Covered, given, raw, reads, RawOf
  <2>2. CASE i \notin reads
    BY <2>2, Zenon DEF Covered, given, raw, reads, RawOf
  <2> QED
    BY <2>1, <2>2
<1>7. ~silent(Dummy)
  BY ParsedNolint
<1> HIDE DEF silent
<1>8. CASE i \in reads
  <2>1. i \in 1..n
    BY <1>1, <1>8
  <2>2. silent(raw[i]) => silent(given[i])
    BY <1>1, <1>7, <2>1
  <2> QED
    BY <1>1, <1>5, <1>6, <1>8, <2>1, <2>2, Zenon
<1>9. CASE i \notin reads
  <2>1. i = 0 \/ i \in 1..m
    BY <1>9 DEF reads
  <2>2. i \in DOMAIN raw <=> i \in 1..m
    BY <1>1, <2>1 DEF n
  <2> QED
    BY <1>5, <1>6, <1>9, <2>2
<1> QED
  BY <1>8, <1>9

-------------------------------------------------------------------------------
(* What is printed *)

\* Past the command line, the level and the filters are those that were typed; in a file, the
\* NOLINTs of the guard and of the lines that were read are known.
PrintInv ==
  /\ pc = "args" => verbose = 1 /\ log = <<>>
  /\ pc \in {"file", "line"} => /\ verbose = LastOpt("verbose", 1)
                               /\ filters = DefaultFilters \o LastOpt("filter", <<>>)
  /\ pc = "line" => suppressed = Suppressions(todo[1], ln - 1)
  /\ PrintedExactly

\* An entry of the log is as PrintedExactly says.
RightlyPrinted(l) ==
  \/ IsUnclosedComment(l.file, l.error)
  \/ (l.printed <=> /\ l.error.conf >= LastOpt("verbose", 1)
                    /\ ~Unwanted(l.error.cat)
                    /\ ~Covered(l.file, l.error.cat, l.error.line))

LEMMA FiltersLength ==
  ASSUME command \in Commands, filters = DefaultFilters \o LastOpt("filter", <<>>)
  PROVE  Len(filters) \in Nat /\ DOMAIN filters = 1..Len(filters)
<1> DEFINE given == LastOpt("filter", <<>>)
           X == [sign : STRING, prefix : Seq(STRING)]
           first == [sign |-> "-", prefix |-> <<"build", "include", "alpha">>]
<1>1. given \in Seq(X)
  <2>1. CASE Opts("filter") = {}
    BY <2>1, EmptySeq DEF LastOpt
  <2>2. CASE Opts("filter") # {}
    <3> DEFINE i == Max(Opts("filter"))
    <3>1. i \in Opts("filter")
      BY <2>2, OptionsType
    <3> HIDE DEF i
    <3>2. i \in DOMAIN command.opts /\ command.opts[i].opt = "filter"
      BY <3>1 DEF Opts
    <3>3. command.opts[i].filter \in Seq(X)
      BY <3>2, CommandsAssumption
    <3>4. given = command.opts[i].filter
      BY <2>2 DEF LastOpt, i
    <3> QED
      BY <3>3, <3>4
  <2> QED
    BY <2>1, <2>2
<1> HIDE DEF given, X, first
<1>2. DefaultFilters = <<first>>
  BY DEF DefaultFilters, first
<1>3. <<first>> \in Seq({first} \cup X)
  OBVIOUS
<1>4. given \in Seq({first} \cup X)
  BY <1>1, SeqMonotonic
<1>5. filters \in Seq({first} \cup X)
  BY <1>2, <1>3, <1>4, ConcatProperties DEF given
<1> QED
  BY <1>5, LenProperties

\* The filters let through what is not unwanted.
LEMMA FilteredUnwanted ==
  ASSUME command \in Commands, filters = DefaultFilters \o LastOpt("filter", <<>>), NEW category
  PROVE  Filtered(category) <=> Unwanted(category)
<1> DEFINE M == {k \in 1..Len(filters) : IsPrefix(filters[k].prefix, category)}
           N == {k \in DOMAIN filters : IsPrefix(filters[k].prefix, category)}
<1>1. Len(filters) \in Nat /\ DOMAIN filters = 1..Len(filters)
  BY FiltersLength
<1>2. Filtered(category) <=> M # {} /\ filters[Max(M)].sign = "-"
  BY <1>1, FilteredByLast
<1>3. M = N
  BY <1>1
<1>4. Unwanted(category) <=> N # {} /\ filters[Max(N)].sign = "-"
  BY Zenon DEF Unwanted
<1> HIDE DEF M, N
<1> QED
  BY <1>2, <1>3, <1>4, Zenon

\* Errors that are printed as they should be keep the log so.
LEMMA PrintStep ==
  ASSUME TypesInv, PrintInv, pc \in {"file", "line"}, todo[1] \in DOMAIN Disk,
         NEW m \in 0..Len(LinesOf(todo[1])), suppressed' = Suppressions(todo[1], m),
         NEW es, Errors(es, Nat), Error(es), UNCHANGED command,
         \A k \in 1..Len(es) : \/ IsUnclosedComment(todo[1], es[k])
                               \/ es[k].line \in {0} \cup HeaderGuard(todo[1]).reads \cup 1..m
  PROVE  PrintedExactly'
<1>1. /\ Len(log) \in Nat /\ Len(es) \in Nat
      /\ DOMAIN log = 1..Len(log)
      /\ DOMAIN log' = 1..Len(log) + Len(es)
      /\ \A k \in 1..Len(log) : log'[k] = log[k]
      /\ \A k \in 1..Len(es) : log'[Len(log) + k] = Entry(es[k])
  BY Logged DEF TypesInv
<1>2. PrintedExactly <=> \A k \in DOMAIN log : RightlyPrinted(log[k])
  BY Zenon DEF PrintedExactly, RightlyPrinted
<1>3. PrintedExactly' <=> \A k \in DOMAIN log' : RightlyPrinted(log'[k])
  <2>1. \A name, default : LastOpt(name, default)' = LastOpt(name, default)
    BY Zenon DEF LastOpt, Opts
  <2>2. \A category : Unwanted(category)' = Unwanted(category)
    BY <2>1, Zenon DEF Unwanted
  <2> QED
    BY <2>1, <2>2, Zenon DEF PrintedExactly, RightlyPrinted
<1>4. ASSUME NEW k \in 1..Len(es) PROVE RightlyPrinted(Entry(es[k]))
  <2> DEFINE f == todo[1]
  <2>0. PICK e : e = es[k]
    OBVIOUS
  <2> SUFFICES RightlyPrinted(Entry(e))
    BY <2>0
  <2>1. Entry(e).file = f /\ Entry(e).error = e /\ (Entry(e).printed <=> ShouldPrintError(e))
    BY DEF Entry
  <2>2. CASE IsUnclosedComment(f, e)
    <3> HIDE DEF f
    <3> QED
      BY <2>1, <2>2, Zenon DEF RightlyPrinted
  <2>3. CASE ~IsUnclosedComment(f, e)
    <3>1. e.line \in {0} \cup HeaderGuard(f).reads \cup 1..m
      BY <2>0, <2>3
    <3>2. IsErrorSuppressedByNolint(e.cat, e.line) <=> Covered(f, e.cat, e.line)
      BY <3>1, SuppressedCovered
    <3>3. verbose = LastOpt("verbose", 1) /\ filters = DefaultFilters \o LastOpt("filter", <<>>)
      BY DEF PrintInv
    <3>4. Filtered(e.cat) <=> Unwanted(e.cat)
      BY <3>3, FilteredUnwanted DEF TypesInv, FilesInv
    <3> HIDE DEF f
    <3> QED
      BY <2>1, <3>2, <3>3, <3>4, Zenon DEF RightlyPrinted, ShouldPrintError
  <2> QED
    BY <2>0, <2>2, <2>3
<1>5. ASSUME NEW k \in DOMAIN log' PROVE RightlyPrinted(log'[k])
  <2>1. CASE k \in 1..Len(log)
    BY <1>1, <1>2, <2>1 DEF PrintInv
  <2>2. CASE k \notin 1..Len(log)
    <3>1. k - Len(log) \in 1..Len(es) /\ Len(log) + (k - Len(log)) = k
      BY <1>1, <2>2
    <3> QED
      BY <1>1, <1>4, <3>1
  <2> QED
    BY <2>1, <2>2
<1> QED
  BY <1>3, <1>5

LEMMA LastOptKept ==
  ASSUME UNCHANGED command
  PROVE  \A name, default : LastOpt(name, default)' = LastOpt(name, default)
BY Zenon DEF LastOpt, Opts

LEMMA PrintedKept ==
  ASSUME PrintedExactly, UNCHANGED <<command, log>>
  PROVE  PrintedExactly'
<1>1. \A category : Unwanted(category)' = Unwanted(category)
  BY LastOptKept, Zenon DEF Unwanted
<1> QED
  BY <1>1, LastOptKept, Zenon DEF PrintedExactly

LEMMA StartFilePrints ==
  ASSUME TypesInv, PrintInv, StartFile
  PROVE  PrintInv'
<1> DEFINE f == todo[1]
           reads == HeaderGuard(f).reads
           open == RemoveMultiLineComments(LinesOf(f)).open
           unclosed == Err(<<"readability", "multiline", "comment">>, 5, open + 1)
<1>1. /\ pc = "file" /\ pc' = "line" /\ todo # <<>> /\ todo[1] \in DOMAIN Disk
      /\ Error(StartErrors) /\ ln' = 1
      /\ suppressed' = UNION {ParseNolintSuppressions(LinesOf(todo[1])[i], i) : i \in HeaderGuard(todo[1]).reads}
      /\ UNCHANGED <<command, options, todo, status>>
  BY StartFileDoes
<1>2. suppressed' = Suppressions(f, 0)
  <2>1. {ParseNolintSuppressions(RawOf(f)[i], i) : i \in 1..0} = {}
    OBVIOUS
  <2> QED
    BY <1>1, <2>1 DEF Suppressions
<1>3. PICK es : Errors(es, {0} \cup reads) /\ StartErrors = es \o If(open # 0, unclosed)
  BY <1>1, FirstLinesErrors, Zenon
<1>4. ASSUME NEW k \in 1..Len(StartErrors)
      PROVE  IsUnclosedComment(f, StartErrors[k]) \/ StartErrors[k].line \in {0} \cup reads
  <2>1. CASE open = 0
    <3>1. If(open # 0, unclosed) = <<>>
      BY <2>1 DEF If
    <3>2. es \in Seq(ToSet(es)) /\ es \o <<>> = es
      BY <1>3, ConcatProperties DEF Errors
    <3>3. StartErrors = es /\ k \in DOMAIN es
      BY <1>3, <3>1, <3>2, LenProperties
    <3> QED
      BY <1>3, <3>3 DEF Errors
  <2>2. CASE open # 0
    <3> DEFINE X == ToSet(es) \cup {unclosed}
    <3>1. If(open # 0, unclosed) = <<unclosed>>
      BY <2>2 DEF If
    <3>2. es \in Seq(X) /\ <<unclosed>> \in Seq(X) /\ Len(<<unclosed>>) = 1 /\ <<unclosed>>[1] = unclosed
      BY <1>3, SeqMonotonic DEF Errors
    <3> HIDE DEF unclosed, open, X
    <3>3. Len(es) \in Nat /\ DOMAIN es = 1..Len(es)
      BY <3>2, LenProperties
    <3>4. /\ Len(StartErrors) = Len(es) + 1
          /\ \A i \in 1..Len(es) : StartErrors[i] = es[i]
          /\ StartErrors[Len(es) + 1] = unclosed
      BY <1>3, <3>1, <3>2, <3>3, ConcatProperties
    <3>5. CASE k \in 1..Len(es)
      <4>1. StartErrors[k] = es[k] /\ k \in DOMAIN es
        BY <3>3, <3>4, <3>5
      <4> QED
        BY <1>3, <4>1 DEF Errors
    <3>6. CASE k \notin 1..Len(es)
      <4>1. StartErrors[k] = unclosed
        BY <3>3, <3>4, <3>6
      <4>2. unclosed.line = open + 1 /\ unclosed.cat = <<"readability", "multiline", "comment">>
        BY DEF unclosed, Err
      <4>3. IsUnclosedComment(f, unclosed)
        BY <2>2, <4>2, Zenon DEF IsUnclosedComment, open
      <4> QED
        BY <4>1, <4>3
    <3> QED
      BY <3>5, <3>6
  <2> QED
    BY <2>1, <2>2
<1>5. 0 \in 0..Len(LinesOf(f))
  BY <1>1, LinesOfType, LenProperties
<1>6. PrintedExactly'
  BY <1>1, <1>2, <1>4, <1>5, StartErrorsType, PrintStep
<1>7. /\ verbose' = LastOpt("verbose", 1)' /\ filters' = DefaultFilters \o LastOpt("filter", <<>>)'
  BY <1>1, LastOptKept DEF PrintInv, options
<1>8. suppressed' = Suppressions(todo[1], ln - 1)'
  BY <1>1, <1>2 DEF Suppressions
<1> QED
  BY <1>1, <1>6, <1>7, <1>8 DEF PrintInv

LEMMA ProcessLinePrints ==
  ASSUME TypesInv, PrintInv, ProcessLine
  PROVE  PrintInv'
<1> DEFINE f == todo[1]
           fate == CheckStyle(clean, ln, classes, SmallClass).fate
<1>1. /\ pc = "line" /\ ln <= Len(clean.raw)
      /\ suppressed' = suppressed \cup ParseNolintSuppressions(clean.raw[ln], ln)
      /\ \/ fate = "ok" /\ Error(FirstErrors \o RestErrors) /\ ln' = ln + 1 /\ pc' = pc
         \/ fate # "ok" /\ Error(FirstErrors) /\ pc' = fate
      /\ UNCHANGED <<command, options, todo, clean>>
  BY ProcessLineDoes, Zenon
<1>2. fate \in {"ok", "crashed", "hung"}
  BY StyleErrors
<1> HIDE DEF fate
<1>3. /\ f \in DOMAIN Disk /\ clean.raw = RawOf(f) /\ ln \in Nat \ {0}
      /\ Len(RawOf(f)) = Len(LinesOf(f)) /\ Len(LinesOf(f)) \in Nat
  BY <1>1, RawOfType, LinesOfType, LenProperties DEF TypesInv, FilesInv
<1>4. ln \in 0..Len(LinesOf(f)) /\ ln \in 1..Len(clean.raw)
  BY <1>1, <1>3
<1>5. suppressed' = Suppressions(f, ln)
  <2> DEFINE A == UNION {ParseNolintSuppressions(LinesOf(f)[i], i) : i \in HeaderGuard(f).reads}
             at(i) == ParseNolintSuppressions(RawOf(f)[i], i)
             B == UNION {at(i) : i \in 1..ln - 1}
             C == UNION {at(i) : i \in 1..ln}
  <2>1. suppressed' = (A \cup B) \cup at(ln) /\ Suppressions(f, ln) = A \cup C
    BY <1>1, <1>3 DEF PrintInv, Suppressions
  <2> HIDE DEF A, at
  <2>2. C = B \cup at(ln)
    <3>1. \A i : i \in 1..ln <=> i \in 1..ln - 1 \/ i = ln
      BY <1>3
    <3>2. \A x : x \in C <=> x \in B \/ x \in at(ln)
      BY <3>1, Zenon
    <3> HIDE DEF B, C
    <3> QED
      BY <3>2
  <2> HIDE DEF B, C
  <2> QED
    BY <2>1, <2>2
<1>6. Errors(FirstErrors, 0..ln) /\ Errors(FirstErrors \o RestErrors, 0..ln)
  BY <1>4, LineErrors DEF TypesInv, FilesInv, ScopesInv
<1>7. ASSUME NEW es, Errors(es, 0..ln), Errors(es, Nat), Error(es) PROVE PrintedExactly'
  <2>1. ASSUME NEW k \in 1..Len(es) PROVE es[k].line \in {0} \cup HeaderGuard(todo[1]).reads \cup 1..ln
    <3>1. k \in DOMAIN es
      BY <1>7, LenProperties DEF Errors
    <3>2. es[k].line \in 0..ln
      BY <1>7, <3>1 DEF Errors
    <3> QED
      BY <1>3, <3>2
  <2> QED
    BY <1>1, <1>3, <1>4, <1>5, <1>7, <2>1, PrintStep
<1>8. Errors(FirstErrors, Nat) /\ Errors(FirstErrors \o RestErrors, Nat)
  BY LineErrorsType
<1>9. PrintedExactly'
  BY <1>1, <1>6, <1>7, <1>8, Zenon
<1>10. verbose' = LastOpt("verbose", 1)' /\ filters' = DefaultFilters \o LastOpt("filter", <<>>)'
  BY <1>1, LastOptKept DEF PrintInv, options
<1>11. pc' = "line" => suppressed' = Suppressions(todo[1], ln - 1)'
  <2>1. pc' = "line" => ln' - 1 = ln
    BY <1>1, <1>2, <1>3
  <2> QED
    BY <1>1, <1>5, <2>1 DEF Suppressions
<1>12. pc' # "args"
  BY <1>1, <1>2
<1> QED
  BY <1>9, <1>10, <1>11, <1>12 DEF PrintInv

LEMMA FinishFilePrints ==
  ASSUME TypesInv, PrintInv, FinishFile
  PROVE  PrintInv'
<1> DEFINE f == todo[1]
           m == Len(LinesOf(f))
<1>1. /\ pc = "line" /\ ln > Len(clean.raw) /\ pc' = "file"
      /\ Error(FinishErrors)
      /\ UNCHANGED <<suppressed, command, options>>
  BY FinishFileDoes
<1>2. /\ f \in DOMAIN Disk /\ clean.raw = RawOf(f) /\ ln \in 1..Len(clean.raw) + 1
      /\ Len(RawOf(f)) = m /\ m \in Nat /\ RawOf(f) # <<>>
  BY <1>1, RawOfType, LinesOfType, LenProperties DEF TypesInv, FilesInv
<1>3. suppressed' = Suppressions(f, m)
  <2>1. ln - 1 = m
    BY <1>1, <1>2
  <2> QED
    BY <1>1, <2>1 DEF PrintInv
<1>4. Errors(FinishErrors, Nat)
  BY FinishErrorsType
<1>5. ASSUME NEW k \in 1..Len(FinishErrors)
      PROVE  FinishErrors[k].line \in {0} \cup HeaderGuard(todo[1]).reads \cup 1..m
  <2>1. Errors(FinishErrors, 0..m)
    <3>1. ln = Len(clean.raw) + 1 /\ clean.raw # <<>>
      BY <1>1, <1>2
    <3> QED
      BY <1>2, <3>1, LastErrors DEF TypesInv, FilesInv, ScopesInv
  <2>2. k \in DOMAIN FinishErrors
    BY <1>4, LenProperties DEF Errors
  <2>3. FinishErrors[k].line \in 0..m
    BY <2>1, <2>2 DEF Errors
  <2> QED
    BY <1>2, <2>3
<1>6. PrintedExactly'
  <2>1. m \in 0..Len(LinesOf(todo[1]))
    BY <1>2
  <2> QED
    BY <1>1, <1>2, <1>3, <1>4, <1>5, <2>1, PrintStep
<1>7. verbose' = LastOpt("verbose", 1)' /\ filters' = DefaultFilters \o LastOpt("filter", <<>>)'
  BY <1>1, LastOptKept DEF PrintInv, options
<1> QED
  BY <1>1, <1>6, <1>7 DEF PrintInv

\* Every step keeps what is known of what is printed.
LEMMA PrintNext == TypesInv /\ PrintInv /\ [Next]_vars => PrintInv'
<1> SUFFICES ASSUME TypesInv, PrintInv, [Next]_vars PROVE PrintInv'
  OBVIOUS
<1>1. CASE ParseArguments
  <2>1. /\ pc = "args" /\ UNCHANGED <<command, log>>
        /\ \/ pc' = "exit" \/ pc' = "crashed"
           \/ /\ verbose' = LastOpt("verbose", verbose)
              /\ filters' = SetFilters(LastOpt("filter", <<>>))
              /\ pc' = "file"
    BY <1>1, ParseArgumentsDoes DEF counts
  <2>2. PrintedExactly'
    BY <2>1, PrintedKept DEF PrintInv
  <2> QED
    BY <2>1, <2>2, LastOptKept DEF PrintInv, SetFilters
<1>2. CASE SkipFile
  <2>1. pc = "file" /\ UNCHANGED <<command, pc, options, log>>
    BY <1>2 DEF SkipFile, counts
  <2>2. PrintedExactly'
    BY <2>1, PrintedKept DEF PrintInv
  <2> QED
    BY <2>1, <2>2, LastOptKept DEF PrintInv, options
<1>3. CASE StartFile
  BY <1>3, StartFilePrints
<1>4. CASE ProcessLine
  BY <1>4, ProcessLinePrints
<1>5. CASE FinishFile
  BY <1>5, FinishFilePrints
<1>6. CASE Exit
  <2>1. pc' = "exit" /\ UNCHANGED <<command, log>>
    BY <1>6 DEF Exit, counts
  <2> QED
    BY <2>1, PrintedKept DEF PrintInv
<1>7. CASE UNCHANGED vars
  <2>1. UNCHANGED <<command, pc, verbose, filters, log, suppressed, todo, ln>>
    BY <1>7 DEF vars, options, counts
  <2>2. PrintedExactly'
    BY <2>1, PrintedKept DEF PrintInv
  <2>3. pc' = "line" => suppressed' = Suppressions(todo[1], ln - 1)'
    BY <2>1 DEF PrintInv, Suppressions
  <2> QED
    BY <2>1, <2>2, <2>3, LastOptKept DEF PrintInv
<1> QED
  BY <1>1, <1>2, <1>3, <1>4, <1>5, <1>6, <1>7 DEF Next

\* Whatever files are checked, with whatever options and NOLINT comments, an error is printed
\* exactly when its confidence is not below the level, the last filter that matches lets it
\* through, and no comment of its own line in its own file covers it: none that is left from
\* an earlier file or line, and none that is lost (Error, ParseNolintSuppressions,
\* ProcessFileData).
THEOREM LintPrinted == Spec => []PrintedExactly
<1>1. Init => PrintInv
  <2> SUFFICES ASSUME Init PROVE PrintInv
    OBVIOUS
  <2>1. DOMAIN log = {}
    BY DEF Init
  <2>2. PrintedExactly
    BY <2>1 DEF PrintedExactly
  <2> QED
    BY <2>2 DEF Init, PrintInv
<1>2. PrintInv => PrintedExactly
  BY DEF PrintInv
<1> QED
  BY <1>1, <1>2, TypesAlways, PrintNext, PTL DEF Spec

-------------------------------------------------------------------------------
(* Errors about the order of includes and the length of functions *)

OrderCat == <<"build", "include", "order">>
AlphaCat == <<"build", "include", "alpha">>
SizeCat == <<"readability", "fn", "size">>
Kept == {OrderCat, AlphaCat, SizeCat}

\* Those of some errors that are of one of these categories.
Own(es) == {e \in ToSet(es) : e.cat \in Kept}

\* Errors one after another: those of the three categories are put together.
LEMMA OwnMore ==
  ASSUME NEW s, s \in Seq(ToSet(s)), NEW t, t \in Seq(ToSet(t))
  PROVE  /\ s \o t \in Seq(ToSet(s \o t))
         /\ ToSet(s \o t) = ToSet(s) \cup ToSet(t)
         /\ Own(s \o t) = Own(s) \cup Own(t)
<1> DEFINE R == ToSet(s) \cup ToSet(t)
           u == s \o t
<1>1. s \in Seq(R) /\ t \in Seq(R)
  BY SeqMonotonic
<1>2. Len(s) \in Nat /\ Len(t) \in Nat /\ DOMAIN s = 1..Len(s) /\ DOMAIN t = 1..Len(t)
  BY LenProperties
<1>3. /\ u \in Seq(R)
      /\ DOMAIN u = 1..Len(s) + Len(t)
      /\ \A k \in 1..Len(s) + Len(t) : u[k] = IF k <= Len(s) THEN s[k] ELSE t[k - Len(s)]
  <2> HIDE DEF R
  <2> QED
    BY <1>1, ConcatProperties, LenProperties
<1>4. ASSUME NEW k \in 1..Len(s) PROVE u[k] = s[k] /\ k \in DOMAIN u
  BY <1>2, <1>3
<1>5. ASSUME NEW k \in 1..Len(t) PROVE u[Len(s) + k] = t[k] /\ Len(s) + k \in DOMAIN u
  BY <1>2, <1>3
<1>6. ToSet(u) \subseteq R
  <2> SUFFICES ASSUME NEW k \in DOMAIN u PROVE u[k] \in R
    BY DEF ToSet
  <2> HIDE DEF R
  <2> QED
    BY <1>3
<1>7. R \subseteq ToSet(u)
  <2>1. ASSUME NEW x \in ToSet(s) PROVE x \in ToSet(u)
    <3>1. PICK k \in 1..Len(s) : x = s[k]
      BY <1>2 DEF ToSet
    <3> HIDE DEF u
    <3> QED
      BY <1>4, <3>1 DEF ToSet
  <2>2. ASSUME NEW x \in ToSet(t) PROVE x \in ToSet(u)
    <3>1. PICK k \in 1..Len(t) : x = t[k]
      BY <1>2 DEF ToSet
    <3> HIDE DEF u
    <3> QED
      BY <1>5, <3>1 DEF ToSet
  <2> QED
    BY <2>1, <2>2
<1>8. ToSet(u) = R
  BY <1>6, <1>7
<1> HIDE DEF u
<1> QED
  BY <1>3, <1>8 DEF Own, u

\* No error is of these categories.
Plain(es) == es \in Seq(ToSet(es)) /\ Own(es) = {}

\* Errors that are none of the three, one after another, are none of them.
LEMMA PlainMore ==
  ASSUME NEW s, NEW t, Plain(s), Plain(t)
  PROVE  Plain(s \o t)
BY OwnMore DEF Plain

LEMMA ToSetOf ==
  ASSUME NEW e
  PROVE  <<e>> \in Seq(ToSet(<<e>>)) /\ ToSet(<<e>>) = {e} /\ <<>> \in Seq(ToSet(<<>>)) /\ ToSet(<<>>) = {}
<1>1. <<e>> \in Seq({e}) /\ DOMAIN <<e>> = 1..1 /\ <<e>>[1] = e
  OBVIOUS
<1>2. ToSet(<<e>>) = {e}
  BY <1>1 DEF ToSet
<1>3. DOMAIN <<>> = {}
  BY EmptySeq
<1>4. ToSet(<<>>) = {}
  BY <1>3 DEF ToSet
<1> QED
  BY <1>1, <1>2, <1>4, EmptySeq

LEMMA NonePlain == Plain(<<>>)
BY ToSetOf DEF Plain, Own

LEMMA OnePlain ==
  ASSUME NEW cat, cat \notin Kept, NEW conf, NEW i
  PROVE  Plain(<<Err(cat, conf, i)>>)
<1> DEFINE e == Err(cat, conf, i)
<1>1. e.cat = cat
  BY DEF Err
<1> HIDE DEF e
<1>2. Plain(<<e>>)
  BY <1>1, ToSetOf DEF Plain, Own
<1> QED
  BY <1>2 DEF e

LEMMA PlainIf ==
  ASSUME NEW cond, NEW cat, cat \notin Kept, NEW conf, NEW i
  PROVE  Plain(If(cond, Err(cat, conf, i))) /\ Plain(ErrIf(cond, cat, conf, i))
BY NonePlain, OnePlain, Zenon DEF If, ErrIf

LEMMA PlainAll ==
  ASSUME NEW es, es \in Seq(ToSet(es)), \A k \in DOMAIN es : es[k].cat \notin Kept
  PROVE  Plain(es)
<1>1. Own(es) = {}
  BY DEF Own, ToSet
<1> QED
  BY <1>1 DEF Plain

\* The categories of the other errors.
LEMMA OtherCategories ==
  /\ <<"legal", "copyright">> \notin Kept
  /\ <<"readability", "nolint">> \notin Kept
  /\ <<"readability", "multiline", "comment">> \notin Kept
  /\ <<"readability", "multiline", "string">> \notin Kept
  /\ <<"whitespace", "braces">> \notin Kept
  /\ <<"whitespace", "newline">> \notin Kept
  /\ <<"readability", "braces">> \notin Kept
  /\ <<"whitespace", "blank", "line">> \notin Kept
  /\ <<"whitespace", "end", "of", "line">> \notin Kept
  /\ <<"whitespace", "indent">> \notin Kept
  /\ <<"whitespace", "labels">> \notin Kept
  /\ <<"whitespace", "tab">> \notin Kept
  /\ <<"runtime", "sizeof">> \notin Kept
  /\ <<"readability", "function">> \notin Kept
  /\ <<"readability", "casting">> \notin Kept
  /\ <<"runtime", "rtti">> \notin Kept
  /\ <<"runtime", "printf">> \notin Kept
  /\ <<"build", "namespaces">> \notin Kept
  /\ <<"readability", "constructors">> \notin Kept
  /\ <<"build", "storage", "class">> \notin Kept
  /\ <<"build", "endif", "comment">> \notin Kept
  /\ <<"build", "forward", "decl">> \notin Kept
  /\ <<"runtime", "threadsafe", "fn">> \notin Kept
  /\ <<"runtime", "invalid", "increment">> \notin Kept
  /\ <<"build", "explicit", "make", "pair">> \notin Kept
  /\ <<"runtime", "explicit">> \notin Kept
  /\ <<"runtime", "virtual">> \notin Kept
  /\ <<"build", "class">> \notin Kept
  /\ <<"readability", "utf8">> \notin Kept
  /\ <<"whitespace", "ending", "newline">> \notin Kept
  /\ <<"build", "include">> \notin Kept
  /\ <<"readability", "streams">> \notin Kept
  /\ <<"build", "include", "what", "you", "use">> \notin Kept
  /\ <<"build", "header", "guard">> \notin Kept
BY DEF Kept, OrderCat, AlphaCat, SizeCat

LEMMA CopyrightPlain ==
  ASSUME NEW lines
  PROVE  Plain(CheckForCopyright(lines))
BY OtherCategories, PlainIf, Zenon DEF CheckForCopyright

LEMMA CommentsAndStringsPlain ==
  ASSUME NEW c, NEW i
  PROVE  Plain(CheckForMultilineCommentsAndStrings(c, i))
BY OtherCategories, PlainIf, PlainMore, Zenon DEF CheckForMultilineCommentsAndStrings

LEMMA NonStandardLinePlain ==
  ASSUME NEW c, NEW i
  PROVE  Plain(CheckForNonStandardLine(c, i))
BY OtherCategories, PlainIf, PlainMore, Zenon DEF CheckForNonStandardLine

LEMMA InvalidIncrementPlain ==
  ASSUME NEW c, NEW i
  PROVE  Plain(CheckInvalidIncrement(c, i))
BY OtherCategories, PlainIf, Zenon DEF CheckInvalidIncrement

LEMMA MakePairPlain ==
  ASSUME NEW c, NEW i
  PROVE  Plain(CheckMakePairUsesDeduction(c, i))
BY OtherCategories, PlainIf, Zenon DEF CheckMakePairUsesDeduction

LEMMA SpacingPlain ==
  ASSUME NEW c, NEW i
  PROVE  Plain(CheckSpacing(c, i))
BY OtherCategories, NonePlain, PlainIf, PlainMore, Zenon DEF CheckSpacing

LEMMA SectionSpacingPlain ==
  ASSUME NEW c, NEW i, NEW info, NEW small
  PROVE  Plain(CheckSectionSpacing(c, i, info, small))
BY OtherCategories, PlainIf, Zenon DEF CheckSectionSpacing

LEMMA BracesPlain ==
  ASSUME NEW elided, NEW i
  PROVE  Plain(CheckBraces(elided, i).errs)
BY OtherCategories, PlainIf, PlainMore, Zenon DEF CheckBraces

LEMMA StylePlain ==
  ASSUME NEW c, NEW i, NEW stack, NEW small
  PROVE  Plain(CheckStyle(c, i, stack, small).errs)
<1> DEFINE braces == CheckBraces(c.elided, i)
<1>1. Plain(braces.errs)
  BY BracesPlain
<1>2. Plain(IF braces.fate # "ok" THEN <<>> ELSE CheckSpacing(c, i))
  BY NonePlain, SpacingPlain, Zenon
<1>3. Plain(IF braces.fate # "ok" \/ stack = <<>> THEN <<>>
            ELSE CheckSectionSpacing(c, i, Last(stack), small))
  BY NonePlain, SectionSpacingPlain, Zenon
<1> HIDE DEF braces
<1> QED
  BY <1>1, <1>2, <1>3, OtherCategories, OnePlain, PlainIf, PlainMore, Zenon DEF CheckStyle, braces

LEMMA CastsPlain ==
  ASSUME NEW c, NEW i
  PROVE  Plain(CastErrors(c, i))
<1>1. ASSUME NEW line, NEW raw, NEW types, NEW stars
      PROVE  Plain(CheckCStyleCast(line, raw, types, stars, i))
  BY OtherCategories, NonePlain, OnePlain, PlainIf, Zenon DEF CheckCStyleCast
<1> QED
  BY <1>1, PlainMore, Zenon DEF CastErrors

LEMMA UsagesPlain ==
  ASSUME NEW line, NEW i
  PROVE  Plain(UsageErrors(line, i))
BY OtherCategories, PlainIf, PlainMore, Zenon DEF UsageErrors

LEMMA PlacementsPlain ==
  ASSUME NEW file, NEW elided, NEW i
  PROVE  Plain(PlacementErrors(file, elided, i))
BY OtherCategories, PlainIf, PlainMore, Zenon DEF PlacementErrors

LEMMA UnicodePlain ==
  ASSUME NEW lines \in Seq(Line)
  PROVE  Plain(CheckForUnicodeReplacementCharacters(lines))
<1> DEFINE a == Ascending({i \in DOMAIN lines : Has(lines[i], "U+FFFD")})
           es == [k \in DOMAIN a |-> Err(<<"readability", "utf8">>, 5, a[k])]
<1>1. \A k \in DOMAIN es : es[k].cat \notin Kept
  BY OtherCategories DEF Err
<1>2. CheckForUnicodeReplacementCharacters(lines) = es
  BY Zenon DEF CheckForUnicodeReplacementCharacters
<1>3. es \in Seq(ToSet(es))
  <2>1. 1..Len(lines) \subseteq Nat
    BY LenProperties
  <2> HIDE DEF es
  <2> QED
    BY <1>2, <2>1, UnicodeErrors, Zenon DEF Errors
<1> HIDE DEF es
<1> QED
  BY <1>1, <1>2, <1>3, PlainAll

LEMMA NolintsPlain ==
  ASSUME NEW lines \in Seq(Line), NEW read, read \subseteq 1..Len(lines)
  PROVE  Plain(NolintErrors(lines, read))
<1> DEFINE a == Ascending({i \in read : NolintsOn(lines[i], i) # ParseNolintSuppressions(lines[i], i)})
           es == [k \in DOMAIN a |-> Err(<<"readability", "nolint">>, 5, a[k])]
<1>1. \A k \in DOMAIN es : es[k].cat \notin Kept
  BY OtherCategories DEF Err
<1>2. NolintErrors(lines, read) = es
  BY Zenon DEF NolintErrors
<1>3. es \in Seq(ToSet(es))
  <2>1. read \subseteq read
    OBVIOUS
  <2> HIDE DEF es
  <2> QED
    BY <1>2, <2>1, NolintsErrors, Zenon DEF Errors
<1> HIDE DEF es
<1> QED
  BY <1>1, <1>2, <1>3, PlainAll

LEMMA WordsPlain ==
  ASSUME NEW file, NEW line \in Line, NEW i
  PROVE  Plain(WordErrors(file, line, i))
<1> DEFINE P == {k \in DOMAIN line : line[k] \in DOMAIN Wordings}
           words == Pick(line, P)
           es == [k \in DOMAIN words |-> Err(Wordings[words[k]].cat, Wordings[words[k]].conf, i)]
           rtti == ErrIf(Has(line, "dynamic_cast") /\ ~IsTestFilename(file), <<"runtime", "rtti">>, 5, i)
<1>1. Len(line) \in Nat /\ DOMAIN line = 1..Len(line)
  BY LenProperties DEF Line
<1>2. P \subseteq 1..Len(line)
  BY <1>1
<1>3. \A k \in P : line[k] \in DOMAIN Wordings
  OBVIOUS
<1> HIDE DEF P
<1>4. Cardinality(P) \in Nat /\ Ascending(P) \in [1..Cardinality(P) -> P]
  BY <1>1, <1>2, AscendingType
<1>5. words = [k \in 1..Cardinality(P) |-> line[Ascending(P)[k]]]
  BY <1>4 DEF Pick
<1>6. DOMAIN words = 1..Cardinality(P) /\ \A k \in 1..Cardinality(P) : words[k] \in DOMAIN Wordings
  BY <1>3, <1>4, <1>5
<1> HIDE DEF words
<1>7. es \in [1..Cardinality(P) -> ToSet(es)]
  BY <1>6 DEF ToSet
<1>8. \A k \in DOMAIN es : es[k].cat \notin Kept
  <2> SUFFICES ASSUME NEW k \in 1..Cardinality(P) PROVE es[k].cat \notin Kept
    BY <1>6
  <2>1. es[k].cat = Wordings[words[k]].cat
    BY <1>6 DEF Err
  <2>2. Wordings[words[k]].cat \notin Kept
    BY <1>6, WordingsAssumption DEF Kept, OrderCat, AlphaCat, SizeCat
  <2> QED
    BY <2>1, <2>2
<1> HIDE DEF es
<1>9. Plain(es)
  <2>1. es \in Seq(ToSet(es))
    BY <1>4, <1>7, SequenceOver, Zenon
  <2> QED
    BY <1>8, <2>1, PlainAll
<1>10. Plain(rtti)
  BY OtherCategories, PlainIf, Zenon
<1>11. WordErrors(file, line, i) = rtti \o es
  BY Zenon DEF WordErrors, es, words, P
<1> HIDE DEF rtti
<1> QED
  BY <1>9, <1>10, <1>11, PlainMore

LEMMA PosixPlain ==
  ASSUME NEW c, NEW i
  PROVE  Plain(CheckPosixThreading(c, i))
<1> DEFINE line == c.elided[i]
           calls(f) == {k \in 1..(Len(line) - 1) : line[k] = f /\ line[k + 1] = "("}
           found == {f \in ThreadUnsafe : /\ calls(f) # {}
                                          /\ LET k == Min(calls(f))
                                             IN k = 1 \/ line[k - 1] \notin {".", "->"}}
           es == [k \in 1..Cardinality(found) |-> Err(<<"runtime", "threadsafe", "fn">>, 2, i)]
<1>1. CheckPosixThreading(c, i) = es
  BY Zenon DEF CheckPosixThreading
<1> HIDE DEF found
<1>2. \A k \in DOMAIN es : es[k].cat \notin Kept
  BY OtherCategories DEF Err
<1>3. es \in Seq(ToSet(es))
  <2>1. i \in {i}
    OBVIOUS
  <2> HIDE DEF es
  <2> QED
    BY <1>1, <2>1, PosixErrors, Zenon DEF Errors
<1> HIDE DEF es
<1> QED
  BY <1>1, <1>2, <1>3, PlainAll

LEMMA NewlinePlain ==
  ASSUME NEW lines
  PROVE  Plain(CheckForNewlineAtEOF(lines))
BY OtherCategories, PlainIf, Zenon DEF CheckForNewlineAtEOF

LEMMA FinishedPlain ==
  ASSUME NEW stack
  PROVE  Plain(CheckFinished(stack))
BY OtherCategories, PlainIf, Zenon DEF CheckFinished

LEMMA ConstructsPlain ==
  ASSUME NEW c, NEW i, NEW stack
  PROVE  Plain(CheckForNonStandardConstructs(c, i, stack).errs)
BY OtherCategories, NonePlain, PlainIf, PlainMore, Zenon DEF CheckForNonStandardConstructs

LEMMA GuardPlain ==
  ASSUME NEW file, NEW lines
  PROVE  Plain(CheckForHeaderGuard(file, lines).errs)
BY OtherCategories, NonePlain, OnePlain, PlainIf, PlainMore, Zenon DEF CheckForHeaderGuard

LEMMA IncludeWhatYouUsePlain ==
  ASSUME NEW file, NEW c, c.elided \in Seq(Line), NEW state
  PROVE  Plain(CheckForIncludeWhatYouUse(file, c, state))
<1> DEFINE lines == DOMAIN c.elided
           required == UNION {Uses(c.elided[i]) : i \in lines}
           lastUse(h) == Max({i \in lines : h \in Uses(c.elided[i])})
           missing == SetToSeq(required \ Known(file, state.seen))
           es == [k \in DOMAIN missing |->
                    Err(<<"build", "include", "what", "you", "use">>, 4, lastUse(missing[k]))]
           all == CheckForIncludeWhatYouUse(file, c, state)
<1>1. all = <<>> \/ all = es
  BY Zenon DEF CheckForIncludeWhatYouUse
<1>2. \A k \in DOMAIN es : es[k].cat \notin Kept
  BY OtherCategories DEF Err
<1>3. all \in Seq(ToSet(all))
  <2> HIDE DEF all
  <2>1. Errors(all, 1..Len(c.elided))
    BY IncludeWhatYouUseErrors DEF all
  <2> QED
    BY <2>1 DEF Errors
<1> HIDE DEF es, all
<1>4. Plain(all)
  BY <1>1, <1>2, <1>3, NonePlain, PlainAll
<1> QED
  BY <1>4 DEF all

LEMMA StartPlain ==
  ASSUME todo[1] \in DOMAIN Disk
  PROVE  Plain(StartErrors)
<1> DEFINE f == todo[1]
           guard == HeaderGuard(f)
           open == RemoveMultiLineComments(LinesOf(f)).open
<1>1. LinesOf(f) \in Seq(Line) /\ guard.reads \subseteq 1..Len(LinesOf(f))
  BY LinesOfType, HeaderGuardErrors
<1>2. Plain(guard.errs)
  <2>1. CASE FileOf[f].ext = "h"
    BY <2>1, GuardPlain DEF HeaderGuard
  <2>2. CASE FileOf[f].ext # "h"
    <3>1. guard.errs = <<>>
      BY <2>2 DEF HeaderGuard
    <3> QED
      BY <3>1, NonePlain
  <2> QED
    BY <2>1, <2>2
<1>3. Plain(NolintErrors(LinesOf(f), guard.reads))
  <2> HIDE DEF guard
  <2> QED
    BY <1>1, NolintsPlain
<1>4. Plain(If(open # 0, Err(<<"readability", "multiline", "comment">>, 5, open + 1)))
  BY OtherCategories, PlainIf, Zenon
<1>5. StartErrors = CheckForCopyright(LinesOf(f)) \o NolintErrors(LinesOf(f), guard.reads) \o guard.errs
                    \o If(open # 0, Err(<<"readability", "multiline", "comment">>, 5, open + 1))
  BY Zenon DEF StartErrors
<1> HIDE DEF guard, open
<1> QED
  BY <1>2, <1>3, <1>4, <1>5, CopyrightPlain, PlainMore, Zenon

LEMMA FinishPlain ==
  ASSUME Views(clean)
  PROVE  Plain(FinishErrors)
<1> DEFINE returns == \E i \in DOMAIN Disk[todo[1]] : EndsWith(Disk[todo[1]][i], "\r")
<1>1. Plain(If(returns, Err(<<"whitespace", "newline">>, 1, 0)))
  BY OtherCategories, PlainIf, Zenon
<1>2. Plain(CheckForIncludeWhatYouUse(FileOf[todo[1]], clean, inc))
  BY IncludeWhatYouUsePlain DEF Views
<1>3. Plain(CheckForUnicodeReplacementCharacters(clean.raw))
  BY UnicodePlain DEF Views
<1> QED
  BY <1>1, <1>2, <1>3, FinishedPlain, NewlinePlain, PlainMore, Zenon DEF FinishErrors

\* What a line's checks say of the order of includes and of a function's length.
LEMMA OwnIf ==
  ASSUME NEW cond, NEW e
  PROVE  /\ If(cond, e) \in Seq(ToSet(If(cond, e)))
         /\ ToSet(If(cond, e)) = IF cond THEN {e} ELSE {}
BY ToSetOf, Zenon DEF If

\* The rules on the language speak of includes on the line of an include only, and of nothing
\* else there.
LEMMA LanguageOwn ==
  ASSUME NEW file, NEW c, NEW i, c.elided[i] \in Line, NEW state
  PROVE  /\ ~IsInclude(c.elided[i]) => Plain(CheckLanguage(file, c, i, state).errs)
                                       /\ CheckLanguage(file, c, i, state).inc = state
         /\ IsInclude(c.elided[i]) => CheckLanguage(file, c, i, state) = CheckIncludeLine(file, c, i, state)
<1>1. Plain(CastErrors(c, i) \o WordErrors(file, c.elided[i], i)
            \o UsageErrors(c.elided[i], i) \o PlacementErrors(file, c.elided, i))
  BY CastsPlain, WordsPlain, UsagesPlain, PlacementsPlain, PlainMore, Zenon
<1>2. CASE c.elided[i] = <<>>
  <2>1. ~IsInclude(c.elided[i])
    BY <1>2, Zenon DEF IsInclude
  <2>2. CheckLanguage(file, c, i, state) = [inc |-> state, errs |-> <<>>]
    BY <1>2 DEF CheckLanguage
  <2> QED
    BY <2>1, <2>2, NonePlain
<1>3. CASE c.elided[i] # <<>> /\ IsInclude(c.elided[i])
  BY <1>3, Zenon DEF CheckLanguage
<1>4. CASE c.elided[i] # <<>> /\ ~IsInclude(c.elided[i])
  <2> DEFINE es == CastErrors(c, i) \o WordErrors(file, c.elided[i], i)
                   \o UsageErrors(c.elided[i], i) \o PlacementErrors(file, c.elided, i)
  <2>1. CheckLanguage(file, c, i, state) = [inc |-> state, errs |-> es]
    BY <1>4, Zenon DEF CheckLanguage
  <2> HIDE DEF es
  <2> QED
    BY <1>1, <1>4, <2>1 DEF es
<1> QED
  BY <1>2, <1>3, <1>4

\* Of the errors of a line, those of the three categories are the function's and the include's.
LEMMA LineOwn ==
  ASSUME Views(clean), ln \in 1..Len(clean.raw), FunctionOK(fn), verbose \in Nat
  PROVE  LET lengths == CheckForFunctionLengths(clean, ln, fn, verbose).errs
             language == CheckLanguage(FileOf[todo[1]], clean, ln, inc).errs
         IN /\ Own(FirstErrors) = Own(lengths)
            /\ Own(FirstErrors \o RestErrors) = Own(lengths) \cup Own(language)
<1> DEFINE lengths == CheckForFunctionLengths(clean, ln, fn, verbose).errs
           language == CheckLanguage(FileOf[todo[1]], clean, ln, inc).errs
           before == NolintErrors(clean.raw, {ln})
           comments == CheckForMultilineCommentsAndStrings(clean, ln)
           style == CheckStyle(clean, ln, classes, SmallClass).errs
           line == CheckForNonStandardLine(clean, ln)
           constructs == CheckForNonStandardConstructs(clean, ln, classes).errs
           posix == CheckPosixThreading(clean, ln)
           increment == CheckInvalidIncrement(clean, ln)
           pair == CheckMakePairUsesDeduction(clean, ln)
           seq(s) == s \in Seq(ToSet(s))
<1>0. {ln} \subseteq 1..Len(clean.raw) /\ ln \in {ln}
  OBVIOUS
<1>1. clean.raw \in Seq(Line) /\ clean.elided[ln] \in Line
  BY ElementOfSeq DEF Views
<1>2. Plain(before)
  BY <1>0, <1>1, NolintsPlain
<1>3. Plain(comments) /\ Plain(style) /\ Plain(line) /\ Plain(constructs)
      /\ Plain(posix) /\ Plain(increment) /\ Plain(pair)
  BY CommentsAndStringsPlain, StylePlain, NonStandardLinePlain, ConstructsPlain, PosixPlain,
     InvalidIncrementPlain, MakePairPlain, Zenon
<1>4. seq(lengths)
  <2>1. Errors(lengths, {ln})
    BY <1>0, FunctionLengths
  <2> QED
    BY <2>1 DEF Errors
<1>5. seq(language)
  <2>1. Errors(language, {ln})
    BY <1>0, <1>1, LanguageErrors
  <2> QED
    BY <2>1 DEF Errors
<1> HIDE DEF lengths, language, before, comments, style, line, constructs, posix, increment, pair, seq
<1>6. \A s, t : seq(s) /\ seq(t) => seq(s \o t) /\ Own(s \o t) = Own(s) \cup Own(t)
  BY OwnMore DEF seq
<1>7. \A s, t : seq(s) /\ Plain(t) => seq(s \o t) /\ Own(s \o t) = Own(s)
  <2> SUFFICES ASSUME NEW s, NEW t, seq(s), Plain(t) PROVE seq(s \o t) /\ Own(s \o t) = Own(s)
    OBVIOUS
  <2>1. seq(t) /\ Own(t) = {}
    BY DEF Plain, seq
  <2>2. seq(s \o t) /\ Own(s \o t) = Own(s) \cup Own(t)
    BY <1>6, <2>1, Zenon
  <2> QED
    BY <2>1, <2>2
<1>8. seq(before \o lengths \o comments \o style)
      /\ Own(before \o lengths \o comments \o style) = Own(lengths)
  <2>1. seq(before \o lengths) /\ Own(before \o lengths) = Own(lengths)
    <3>1. seq(before) /\ Own(before) = {}
      BY <1>2 DEF Plain, seq
    <3>2. seq(before \o lengths) /\ Own(before \o lengths) = Own(before) \cup Own(lengths)
      BY <1>4, <1>6, <3>1, Zenon
    <3> QED
      BY <3>1, <3>2
  <2>2. seq(before \o lengths \o comments) /\ Own(before \o lengths \o comments) = Own(lengths)
    BY <1>3, <1>7, <2>1, Zenon
  <2> QED
    BY <1>3, <1>7, <2>2, Zenon
<1>9. /\ seq(language \o line \o constructs \o posix \o increment \o pair)
      /\ Own(language \o line \o constructs \o posix \o increment \o pair) = Own(language)
  <2>1. seq(language \o line) /\ Own(language \o line) = Own(language)
    BY <1>3, <1>5, <1>7, Zenon
  <2>2. seq(language \o line \o constructs) /\ Own(language \o line \o constructs) = Own(language)
    BY <1>3, <1>7, <2>1, Zenon
  <2>3. /\ seq(language \o line \o constructs \o posix)
        /\ Own(language \o line \o constructs \o posix) = Own(language)
    BY <1>3, <1>7, <2>2, Zenon
  <2>4. /\ seq(language \o line \o constructs \o posix \o increment)
        /\ Own(language \o line \o constructs \o posix \o increment) = Own(language)
    BY <1>3, <1>7, <2>3, Zenon
  <2> QED
    BY <1>3, <1>7, <2>4, Zenon
<1>10. FirstErrors = before \o lengths \o comments \o style
  BY Zenon DEF FirstErrors, before, lengths, comments, style
<1>11. RestErrors = language \o line \o constructs \o posix \o increment \o pair
  BY Zenon DEF RestErrors, language, line, constructs, posix, increment, pair
<1>12. Own(FirstErrors) = Own(lengths) /\ seq(FirstErrors) /\ Own(RestErrors) = Own(language) /\ seq(RestErrors)
  BY <1>8, <1>9, <1>10, <1>11, Zenon
<1>13. Own(FirstErrors \o RestErrors) = Own(lengths) \cup Own(language)
  BY <1>6, <1>12
<1> QED
  BY <1>12, <1>13 DEF lengths, language

Seeing(state, path) == [state EXCEPT !.seen = @ \cup {path}]

\* An include that was not seen before has these errors about the order, and no others.
LEMMA IncludeOwn ==
  ASSUME NEW file, NEW c, NEW i, NEW state
  PROVE  LET include == IncludedPath(c.lines[i])
             type == ClassifyInclude(file, include, IsSystemInclude(c.lines[i]))
             ordered == NextSection(state, type)
             r == CheckIncludeLine(file, c, i, state)
         IN /\ include \in state.seen => Own(r.errs) = {} /\ r.inc = state
            /\ include \notin state.seen =>
                 /\ \A e : e \in Own(r.errs) <=>
                             \/ e = Err(OrderCat, 4, i) /\ ~InOrder(state, type)
                             \/ e = Err(AlphaCat, 4, i) /\ ~IsInAlphabeticalOrder(ordered, include)
                 /\ r.inc = Seeing(RememberHeader(ordered, include), include)
<1> DEFINE include == IncludedPath(c.lines[i])
           isSystem == IsSystemInclude(c.lines[i])
           path == PathOf[include]
           type == ClassifyInclude(file, include, isSystem)
           ordered == NextSection(state, type)
           style == If(~isSystem /\ path.dir = <<>> /\ path.ext = "h", Err(<<"build", "include">>, 4, i))
           stream == If(include \in Streams /\ ~IsTestFilename(file), Err(<<"readability", "streams">>, 3, i))
           twice == <<Err(<<"build", "include">>, 4, i)>>
           order == If(~InOrder(state, type), Err(OrderCat, 4, i))
           alpha == If(~IsInAlphabeticalOrder(ordered, include), Err(AlphaCat, 4, i))
           next == Seeing(RememberHeader(ordered, include), include)
           r == CheckIncludeLine(file, c, i, state)
           seq(s) == s \in Seq(ToSet(s))
<1>1. r = IF include \in state.seen
            THEN [inc |-> state, errs |-> style \o twice \o stream]
            ELSE [inc |-> next, errs |-> style \o order \o alpha \o stream]
  BY Zenon DEF CheckIncludeLine, OrderCat, AlphaCat, Seeing
<1>2. Plain(style) /\ Plain(stream) /\ Plain(twice)
  BY OtherCategories, OnePlain, PlainIf, Zenon
<1>3. seq(order) /\ Own(order) = {e \in {Err(OrderCat, 4, i)} : ~InOrder(state, type)}
  <2> DEFINE e1 == Err(OrderCat, 4, i)
             cond == ~InOrder(state, type)
  <2>1. e1.cat \in Kept
    BY DEF Err, Kept
  <2> HIDE DEF e1, cond
  <2>2. seq(If(cond, e1)) /\ Own(If(cond, e1)) = {e \in {e1} : cond}
    BY <2>1, OwnIf DEF Own
  <2> QED
    BY <2>2 DEF e1, cond
<1>4. seq(alpha) /\ Own(alpha) = {e \in {Err(AlphaCat, 4, i)} : ~IsInAlphabeticalOrder(ordered, include)}
  <2> DEFINE e1 == Err(AlphaCat, 4, i)
             cond == ~IsInAlphabeticalOrder(ordered, include)
  <2>1. e1.cat \in Kept
    BY DEF Err, Kept
  <2> HIDE DEF e1, cond
  <2>2. seq(If(cond, e1)) /\ Own(If(cond, e1)) = {e \in {e1} : cond}
    BY <2>1, OwnIf DEF Own
  <2> QED
    BY <2>2 DEF e1, cond
<1> HIDE DEF style, stream, twice, order, alpha, next, seq
<1>5. CASE include \in state.seen
  <2>1. Plain(style \o twice \o stream)
    BY <1>2, PlainMore, Zenon
  <2>2. r = [inc |-> state, errs |-> style \o twice \o stream]
    BY <1>1, <1>5, Zenon
  <2> HIDE DEF r
  <2>3. Own(r.errs) = {} /\ r.inc = state
    BY <2>1, <2>2 DEF Plain
  <2> QED
    BY <1>5, <2>3, Zenon DEF r
<1>6. CASE include \notin state.seen
  <2>0. \A s, t : seq(s) /\ seq(t) => seq(s \o t) /\ Own(s \o t) = Own(s) \cup Own(t)
    BY OwnMore DEF seq
  <2>1. seq(style) /\ Own(style) = {} /\ seq(stream) /\ Own(stream) = {}
    BY <1>2 DEF Plain, seq
  <2>2. seq(style \o order) /\ Own(style \o order) = Own(style) \cup Own(order)
    BY <1>3, <2>0, <2>1, Zenon
  <2>3. seq(style \o order \o alpha) /\ Own(style \o order \o alpha) = Own(style \o order) \cup Own(alpha)
    BY <1>4, <2>0, <2>2, Zenon
  <2>4. Own(style \o order \o alpha \o stream) = Own(style \o order \o alpha) \cup Own(stream)
    BY <2>0, <2>1, <2>3, Zenon
  <2>5. Own(style \o order \o alpha \o stream) = Own(order) \cup Own(alpha)
    BY <2>1, <2>2, <2>3, <2>4
  <2>6. r = [inc |-> next, errs |-> style \o order \o alpha \o stream]
    BY <1>1, <1>6, Zenon
  <2> HIDE DEF r
  <2>7. Own(r.errs) = Own(order) \cup Own(alpha) /\ r.inc = next
    BY <2>5, <2>6
  <2>8. \A e : e \in Own(r.errs) <=>
                 \/ e = Err(OrderCat, 4, i) /\ ~InOrder(state, type)
                 \/ e = Err(AlphaCat, 4, i) /\ ~IsInAlphabeticalOrder(ordered, include)
    <3> DEFINE late == ~InOrder(state, type)
               unsorted == ~IsInAlphabeticalOrder(ordered, include)
    <3> HIDE DEF late, unsorted
    <3>1. Own(order) = {e \in {Err(OrderCat, 4, i)} : late} /\ Own(alpha) = {e \in {Err(AlphaCat, 4, i)} : unsorted}
      BY <1>3, <1>4 DEF late, unsorted
    <3>2. \A e : e \in Own(r.errs) <=> (e = Err(OrderCat, 4, i) /\ late) \/ (e = Err(AlphaCat, 4, i) /\ unsorted)
      BY <2>7, <3>1
    <3> QED
      BY <3>2 DEF late, unsorted
  <2> QED
    BY <1>6, <2>7, <2>8, Zenon DEF r, next
<1> QED
  BY <1>5, <1>6, Zenon

\* The same of the include on line i of a text.
IncludeSays(name, text, i, state, r) ==
  LET path == IncludedPath(text.lines[i])
      kind == KindAt(name, text, i)
      next == NextSection(state, kind)
  IN /\ path \in state.seen => Own(r.errs) = {} /\ r.inc = state
     /\ path \notin state.seen =>
          /\ \A e : e \in Own(r.errs) <=>
                      \/ e = Err(OrderCat, 4, i) /\ ~InOrder(state, kind)
                      \/ e = Err(AlphaCat, 4, i) /\ ~IsInAlphabeticalOrder(next, path)
          /\ r.inc = Seeing(RememberHeader(next, path), path)

\* What a line with an include says, and leaves, in the words of the state before it.
LEMMA IncludeOwnAt ==
  ASSUME NEW name, NEW text, NEW i, NEW state
  PROVE  IncludeSays(name, text, i, state, CheckIncludeLine(FileOf[name], text, i, state))
<1> DEFINE file == FileOf[name]
           r == CheckIncludeLine(file, text, i, state)
           path == IncludedPath(text.lines[i])
           kind == ClassifyInclude(file, path, IsSystemInclude(text.lines[i]))
           next == NextSection(state, kind)
           own(e) == \/ e = Err(OrderCat, 4, i) /\ ~InOrder(state, kind)
                     \/ e = Err(AlphaCat, 4, i) /\ ~IsInAlphabeticalOrder(next, path)
<1> HIDE DEF file
<1>1. path \in state.seen => Own(r.errs) = {} /\ r.inc = state
  BY IncludeOwn
<1>2. path \notin state.seen => \A e : e \in Own(r.errs) => own(e)
  BY IncludeOwn
<1>3. path \notin state.seen => \A e : own(e) => e \in Own(r.errs)
  BY IncludeOwn
<1>4. path \notin state.seen => r.inc = Seeing(RememberHeader(next, path), path)
  BY IncludeOwn
<1>5. kind = KindAt(name, text, i)
  BY DEF KindAt, file
<1> QED
  BY <1>1, <1>2, <1>3, <1>4, <1>5, Zenon DEF IncludeSays, file

-------------------------------------------------------------------------------
(* What a line does to the function *)

\* A count that passes a limit of its function has a quotient that passes the level.
LEMMA Quotient ==
  ASSUME NEW b \in Nat \ {0}, NEW q \in Nat, NEW x \in Nat, x >= b * q
  PROVE  x \div b \in Nat /\ x \div b >= q
<1> DEFINE d == x \div b
<1>1. d \in Nat /\ x % b \in 0..b - 1 /\ x = b * d + (x % b)
  <2>1. x % b \in 0..b - 1
    OBVIOUS
  <2>2. d \in Int
    OBVIOUS
  <2>3. x = b * (x \div b) + (x % b)
    BY Z3T(30)
  <2>4. d \in Nat
    OBVIOUS
  <2> QED
    BY <2>1, <2>3, <2>4
<1>2. ASSUME ~(d >= q) PROVE FALSE
  <2> HIDE DEF d
  <2>1. d + 1 <= q
    BY <1>1, <1>2
  <2>2. \A m, n \in Nat : m <= n => b * m <= b * n
    OBVIOUS
  <2>3. b * (d + 1) <= b * q
    BY <1>1, <2>1, <2>2
  <2>4. b * (d + 1) = b * d + b
    BY <1>1
  <2>5. b * d \in Nat /\ b * q \in Nat
    BY <1>1
  <2> QED
    BY <1>1, <2>3, <2>4, <2>5
<1> QED
  BY <1>1, <1>2

\* The confidence is not below the level, or the greatest one.
LEMMA LengthConfidence ==
  ASSUME NEW base \in Nat \ {0}, NEW count \in Nat, NEW level \in Nat, count > base * PowerOf2(level)
  PROVE  Min({5, Log2(count \div base)}) >= Min({5, level})
<1> DEFINE n == count \div base
           p == PowerOf2(level)
           P == {k \in 0..n : PowerOf2(k) <= n}
           l == Log2(n)
<1>1. p \in Nat \ {0} /\ p > level
  BY PowerOf2Type
<1>2. n \in Nat /\ n >= p
  <2>1. count >= base * p
    <3> HIDE DEF p
    <3> QED
      BY <1>1 DEF p
  <2> HIDE DEF p
  <2> QED
    BY <1>1, <2>1, Quotient
<1> HIDE DEF n
<1>3. level \in P
  <2>1. level \in 0..n
    <3> HIDE DEF p
    <3> QED
      BY <1>1, <1>2
  <2> QED
    BY <1>2, <2>1
<1>4. P \subseteq 0..n
  OBVIOUS
<1>5. l = Max(P)
  BY DEF Log2
<1> HIDE DEF P, l
<1>6. l \in Nat /\ l >= level
  <2>1. P # {}
    BY <1>3
  <2>2. Max(P) \in P /\ \A x \in P : x <= Max(P)
    BY <1>2, <1>4, <2>1, MaxOf
  <2>3. Max(P) \in 0..n
    BY <1>4, <2>2
  <2> QED
    BY <1>2, <1>3, <1>5, <2>2, <2>3
<1> DEFINE Q == {5, l}
           R == {5, level}
<1>7. Q \subseteq Nat /\ Q # {} /\ R \subseteq Nat /\ R # {} /\ 5 \in Q /\ l \in Q /\ 5 \in R /\ level \in R
  BY <1>6
<1>8. (\A x \in Q : x = 5 \/ x = l)
  OBVIOUS
<1> HIDE DEF Q, R
<1>9. Min(Q) \in Q /\ Min(R) \in R /\ Min(R) <= 5 /\ Min(R) <= level
  BY <1>7, MinOf
<1>10. Min(Q) >= Min(R)
  <2>1. Min(Q) = 5 \/ Min(Q) = l
    BY <1>8, <1>9
  <2>2. Min(R) \in Nat
    BY <1>7, <1>9
  <2> QED
    BY <1>6, <1>9, <2>1, <2>2
<1> QED
  BY <1>10 DEF Q, R, l, n

\* A head has a body when the first of these tokens after it is a brace.
LEMMA BodyOf ==
  ASSUME NEW text, text.lines \in Seq(Line), NEW i \in 1..Len(text.lines)
  PROVE  LET body == BodyLine(text.lines, i)
             trivial == Has(text.lines[body], ";") \/ Has(text.lines[body], "}")
         IN HasBody(text, i) <=> StartsFunction(text.lines[i]) /\ ~(body = 0 \/ trivial)
<1> DEFINE lines == text.lines
           n == Len(lines)
           body == BodyLine(lines, i)
           ends == {s \in i..n : \E t \in {";", "}", "{"} : Has(lines[s], t)}
           bare(k) == ~Has(lines[k], ";") /\ ~Has(lines[k], "}")
<1>1. n \in Nat
  BY LenProperties
<1>2. body = IF ends = {} THEN 0 ELSE Min(ends)
  BY DEF BodyLine
<1>3. \A s : s \in ends <=> s \in i..n /\ (Has(lines[s], ";") \/ Has(lines[s], "}") \/ Has(lines[s], "{"))
  OBVIOUS
<1>0. i \in 1..n
  OBVIOUS
<1> HIDE DEF ends, body, n
<1>4. ends # {} => body \in ends /\ \A x \in ends : body <= x
  <2>1. ends \subseteq Nat
    <3>1. \A s \in ends : s \in i..n
      BY <1>3, Zenon
    <3>2. i..n \subseteq Nat
      BY <1>0, <1>1
    <3> QED
      BY <3>1, <3>2, Zenon
  <2> QED
    BY <1>2, <2>1, MinOf
<1>5. ASSUME ~(body = 0 \/ ~bare(body))
      PROVE  \E k \in i..n : Has(lines[k], "{") /\ \A m \in i..k : bare(m)
  <2>1. ends # {}
    BY <1>2, <1>5
  <2>2. body \in i..n /\ Has(lines[body], "{")
    BY <1>3, <1>4, <1>5, <2>1
  <2>3. ASSUME NEW m \in i..body PROVE bare(m)
    <3>1. CASE m = body
      BY <1>5, <3>1
    <3>2. CASE m # body
      <4>0. i \in Nat /\ body \in Nat /\ body <= n /\ m \in i..body
        <5>1. i \in Nat
          BY <1>0, <1>1
        <5>2. body \in i..n
          BY <2>2
        <5> QED
          BY <1>1, <5>1, <5>2
      <4>1. m \in i..n /\ ~(body <= m)
        BY <1>1, <3>2, <4>0
      <4>2. m \notin ends
        BY <1>4, <2>1, <4>1
      <4> QED
        BY <1>3, <4>1, <4>2
    <3> QED
      BY <3>1, <3>2
  <2> QED
    BY <2>2, <2>3
<1>6. ASSUME NEW k \in i..n, Has(lines[k], "{"), \A m \in i..k : bare(m)
      PROVE  ~(body = 0 \/ ~bare(body))
  <2>1. k \in ends
    BY <1>3, <1>6
  <2>2. body \in ends /\ body <= k
    BY <1>4, <2>1
  <2>3. body \in i..n
    BY <1>3, <2>2
  <2>4. body \in i..k /\ body # 0
    BY <1>1, <2>2, <2>3
  <2> QED
    BY <1>6, <2>4
<1> QED
  BY <1>5, <1>6 DEF HasBody, n, body

\* A head is not the end of a function.
LEMMA HeadsEndNothing ==
  ASSUME NEW line \in Line, StartsFunction(line)
  PROVE  RStrip(line) # <<"}">>
<1> DEFINE S == {0} \cup {i \in DOMAIN line : line[i] # " "}
           n == Max(S)
<1>1. Len(line) \in Nat /\ DOMAIN line = 1..Len(line)
  BY LenProperties DEF Line
<1>2. IsWord(line[1])
  BY Zenon DEF StartsFunction, IsHead
<1>3. line[1] # "}"
  BY <1>2 DEF IsWord, Punctuation
<1>4. RStrip(line) = SubSeq(line, 1, n)
  BY DEF RStrip
<1>5. S \subseteq 0..Len(line) /\ S # {}
  <2>1. 0 \in S /\ \A x \in S : x = 0 \/ x \in 1..Len(line)
    BY <1>1
  <2> HIDE DEF S
  <2>2. \A x \in S : x \in 0..Len(line)
    BY <1>1, <2>1
  <2> QED
    BY <2>1, <2>2
<1>6. n \in 0..Len(line)
  <2> HIDE DEF S
  <2> QED
    BY <1>1, <1>5, MaxOf
<1> HIDE DEF n, S
<1>7. SUFFICES ASSUME SubSeq(line, 1, n) = <<"}">> PROVE FALSE
  BY <1>4
<1>8. Len(SubSeq(line, 1, n)) = n /\ \A k \in 1..n : SubSeq(line, 1, n)[k] = line[k]
  BY <1>1, <1>6 DEF Line
<1>9. n = 1
  BY <1>7, <1>8
<1>10. 1 \in 1..n
  BY <1>9
<1>11. SubSeq(line, 1, n)[1] = "}"
  <2>1. <<"}">>[1] = "}"
    OBVIOUS
  <2> QED
    BY <1>7, <2>1, Zenon
<1> QED
  BY <1>3, <1>8, <1>10, <1>11, Zenon

\* What a line does to the function, and says of it.
LEMMA LengthsDo ==
  ASSUME NEW c, c.lines \in Seq(Line), NEW i \in 1..Len(c.lines), NEW f, NEW level
  PROVE  LET r == CheckForFunctionLengths(c, i, f, level)
             line == c.lines[i]
         IN /\ HasBody(c, i) => r.fn = Begin(FunctionName(line)) /\ Own(r.errs) = {} /\ ~Ends(c, i)
            /\ StartsFunction(line) /\ ~HasBody(c, i) =>
                 r.fn = f /\ Own(r.errs) \subseteq {Err(SizeCat, 5, i)} /\ ~Ends(c, i)
            /\ Ends(c, i) => r.fn = End(f) /\ r.errs = CheckLength(f, i, level) /\ ~StartsFunction(line)
            /\ ~StartsFunction(line) /\ ~Ends(c, i) =>
                 r.fn = (IF IsBlankLine(line) THEN f ELSE Count(f)) /\ Own(r.errs) = {} /\ ~HasBody(c, i)
<1> DEFINE r == CheckForFunctionLengths(c, i, f, level)
           line == c.lines[i]
           body == BodyLine(c.lines, i)
           trivial == Has(c.lines[body], ";") \/ Has(c.lines[body], "}")
           one == Err(SizeCat, 5, i)
           name == FunctionName(line)
<1>1. r = IF StartsFunction(line)
            THEN [fn |-> IF body = 0 \/ trivial THEN f ELSE Begin(name), errs |-> If(body = 0, one)]
          ELSE IF RStrip(line) = <<"}">>
            THEN [fn |-> End(f), errs |-> CheckLength(f, i, level)]
          ELSE [fn |-> IF IsBlankLine(line) THEN f ELSE Count(f), errs |-> <<>>]
  BY Zenon DEF CheckForFunctionLengths, SizeCat
<1>2. HasBody(c, i) <=> StartsFunction(line) /\ ~(body = 0 \/ trivial)
  BY BodyOf, Zenon
<1>3. StartsFunction(line) => ~Ends(c, i)
  <2>1. line \in Line
    BY ElementOfSeq
  <2> QED
    BY <2>1, HeadsEndNothing DEF Ends
<1>4. Ends(c, i) <=> RStrip(line) = <<"}">>
  BY DEF Ends
<1>5. body # 0 => Own(If(body = 0, one)) = {}
  BY OwnIf DEF Own
<1>6. Own(If(body = 0, one)) \subseteq {one}
  BY OwnIf DEF Own
<1>7. Own(<<>>) = {}
  BY NonePlain DEF Plain
<1> HIDE DEF r, body, trivial, line, one, name
<1>8. CASE HasBody(c, i)
  <2>1. r.fn = Begin(name) /\ r.errs = If(body = 0, one) /\ body # 0 /\ StartsFunction(line)
    BY <1>1, <1>2, <1>8
  <2> QED
    BY <1>3, <1>5, <1>8, <2>1 DEF r, line, name
<1>9. CASE StartsFunction(line) /\ ~HasBody(c, i)
  <2>1. r.fn = f /\ r.errs = If(body = 0, one)
    BY <1>1, <1>2, <1>9
  <2> QED
    BY <1>3, <1>6, <1>9, <2>1 DEF r, line, one
<1>10. CASE ~StartsFunction(line) /\ Ends(c, i)
  <2>1. r.fn = End(f) /\ r.errs = CheckLength(f, i, level)
    BY <1>1, <1>4, <1>10
  <2> QED
    BY <1>2, <1>10, <2>1 DEF r, line
<1>11. CASE ~StartsFunction(line) /\ ~Ends(c, i)
  <2>1. r.fn = (IF IsBlankLine(line) THEN f ELSE Count(f)) /\ r.errs = <<>>
    BY <1>1, <1>4, <1>11
  <2> QED
    BY <1>2, <1>7, <1>11, <2>1 DEF r, line
<1> QED
  BY <1>8, <1>9, <1>10, <1>11 DEF line

-------------------------------------------------------------------------------
(* The function that is open *)

\* The heads before a line; whether the last one's function is open, and its lines.
Heads(text, n) == {k \in 1..(n - 1) : HasBody(text, k)}
StillOpen(text, h, n) == \A m \in (h + 1)..(n - 1) : ~Ends(text, m)
Inside(text, h, n) == {k \in (h + 1)..(n - 1) : IsBodyLine(text, k) /\ StillOpen(text, h, k + 1)}
FunctionIs(f, text, n) ==
  /\ Heads(text, n) = {} => f = NoFunction
  /\ Heads(text, n) # {} =>
       LET h == Max(Heads(text, n))
       IN /\ "name" \in DOMAIN f /\ f.name = FunctionName(text.lines[h])
          /\ f.in <=> StillOpen(text, h, n)
          /\ f.count = Cardinality(Inside(text, h, n))

\* The heads up to a line are those before it, and it when a body follows.
LEMMA HeadsMore ==
  ASSUME NEW text, NEW n \in Nat \ {0}
  PROVE  /\ HasBody(text, n) => Heads(text, n + 1) # {} /\ Max(Heads(text, n + 1)) = n
         /\ ~HasBody(text, n) => Heads(text, n + 1) = Heads(text, n)
         /\ Heads(text, n) # {} => Max(Heads(text, n)) \in 1..(n - 1) /\ HasBody(text, Max(Heads(text, n)))
<1> DEFINE H == Heads(text, n)
           J == Heads(text, n + 1)
<1>1. \A k : k \in H <=> k \in 1..(n - 1) /\ HasBody(text, k)
  BY DEF Heads
<1>2. \A k : k \in J <=> k \in 1..n /\ HasBody(text, k)
  BY DEF Heads
<1> HIDE DEF H, J
<1>3. ASSUME HasBody(text, n) PROVE J # {} /\ Max(J) = n
  <2>1. n \in J
    BY <1>2, <1>3
  <2>2. J \subseteq 0..n
    BY <1>2
  <2>3. Max(J) \in J /\ n <= Max(J)
    BY <2>1, <2>2, MaxOf
  <2>4. Max(J) \in 1..n
    BY <1>2, <2>3
  <2> QED
    BY <2>1, <2>3, <2>4
<1>4. ASSUME ~HasBody(text, n) PROVE J = H
  <2>1. \A k : k \in 1..n /\ k # n <=> k \in 1..(n - 1)
    OBVIOUS
  <2>2. \A k : k \in J <=> k \in H
    BY <1>1, <1>2, <1>4, <2>1
  <2> QED
    BY <2>2
<1>5. ASSUME H # {} PROVE Max(H) \in 1..(n - 1) /\ HasBody(text, Max(H))
  <2>1. H \subseteq 0..n
    BY <1>1
  <2>2. Max(H) \in H
    BY <1>5, <2>1, MaxOf
  <2> QED
    BY <1>1, <2>2
<1> QED
  BY <1>3, <1>4, <1>5 DEF H, J

\* A line that counts makes the open function one longer, until it ends.
LEMMA OpenMore ==
  ASSUME NEW text, NEW n \in Nat, NEW h \in Nat, h < n
  PROVE  /\ StillOpen(text, h, n + 1) <=> StillOpen(text, h, n) /\ ~Ends(text, n)
         /\ Cardinality(Inside(text, h, n)) \in Nat
         /\ IsBodyLine(text, n) /\ StillOpen(text, h, n + 1) =>
              Cardinality(Inside(text, h, n + 1)) = Cardinality(Inside(text, h, n)) + 1
         /\ ~(IsBodyLine(text, n) /\ StillOpen(text, h, n + 1)) => Inside(text, h, n + 1) = Inside(text, h, n)
<1> DEFINE I == Inside(text, h, n)
           J == Inside(text, h, n + 1)
           body(k) == IsBodyLine(text, k) /\ StillOpen(text, h, k + 1)
<1>1. \A k : k \in (h + 1)..n <=> k = n \/ k \in (h + 1)..(n - 1)
  OBVIOUS
<1>2. StillOpen(text, h, n + 1) <=> StillOpen(text, h, n) /\ ~Ends(text, n)
  <2>1. StillOpen(text, h, n + 1) <=> \A m \in (h + 1)..n : ~Ends(text, m)
    BY DEF StillOpen
  <2> QED
    BY <1>1, <2>1 DEF StillOpen
<1>3. \A k : k \in I <=> k \in (h + 1)..(n - 1) /\ body(k)
  BY DEF Inside
<1>4. \A k : k \in J <=> k \in (h + 1)..n /\ body(k)
  BY DEF Inside
<1> HIDE DEF I, J, body
<1>5. IsFiniteSet(I)
  <2>1. I \subseteq (h + 1)..(n - 1)
    BY <1>3
  <2>2. h + 1 \in Int /\ n - 1 \in Int
    OBVIOUS
  <2>3. IsFiniteSet((h + 1)..(n - 1))
    BY <2>2, FS_Interval
  <2> QED
    BY <2>1, <2>3, FS_Subset
<1>6. n \notin I
  BY <1>3
<1>7. ASSUME body(n) PROVE Cardinality(J) = Cardinality(I) + 1
  <2>1. \A k : k \in J <=> k \in I \cup {n}
    BY <1>1, <1>3, <1>4, <1>7
  <2>2. J = I \cup {n}
    BY <2>1
  <2> QED
    BY <1>5, <1>6, <2>2, FS_AddElement
<1>8. ASSUME ~body(n) PROVE J = I
  <2>1. \A k : k \in J <=> k \in I
    BY <1>1, <1>3, <1>4, <1>8
  <2> QED
    BY <2>1
<1> QED
  BY <1>2, <1>5, <1>7, <1>8, FS_CardinalityType DEF I, J, body

\* What is to be shown of a function that has a head.
LEMMA FunctionIsOf ==
  ASSUME NEW text, NEW n, NEW f, NEW h, Heads(text, n) # {}, Max(Heads(text, n)) = h, "name" \in DOMAIN f,
         f.name = FunctionName(text.lines[h]), f.in <=> StillOpen(text, h, n),
         f.count = Cardinality(Inside(text, h, n))
  PROVE  FunctionIs(f, text, n)
BY Zenon DEF FunctionIs

\* A line leaves the function as its text has it.
LEMMA FunctionStep ==
  ASSUME NEW c, c.lines \in Seq(Line), NEW i \in 1..Len(c.lines), NEW f, FunctionOK(f), FunctionIs(f, c, i), NEW level
  PROVE  FunctionIs(CheckForFunctionLengths(c, i, f, level).fn, c, i + 1)
<1> DEFINE g == CheckForFunctionLengths(c, i, f, level).fn
           H == Heads(c, i)
           h == Max(H)
           line == c.lines[i]
<1>0. i \in Nat \ {0}
  <2>1. Len(c.lines) \in Nat
    BY LenProperties
  <2> QED
    BY <2>1
<1>1. /\ HasBody(c, i) => g = Begin(FunctionName(line))
      /\ StartsFunction(line) /\ ~HasBody(c, i) => g = f /\ ~Ends(c, i)
      /\ Ends(c, i) => g = End(f) /\ ~StartsFunction(line)
      /\ ~StartsFunction(line) /\ ~Ends(c, i) =>
           g = (IF IsBlankLine(line) THEN f ELSE Count(f)) /\ ~HasBody(c, i)
  BY LengthsDo
<1>2. HasBody(c, i) => StartsFunction(line)
  BY DEF HasBody
<1>3. IsBodyLine(c, i) <=> ~IsBlankLine(line) /\ ~StartsFunction(line)
  BY DEF IsBodyLine
<1>4. /\ HasBody(c, i) => Heads(c, i + 1) # {} /\ Max(Heads(c, i + 1)) = i
      /\ ~HasBody(c, i) => Heads(c, i + 1) = H
      /\ H # {} => h \in 1..(i - 1) /\ HasBody(c, h)
  BY <1>0, HeadsMore
<1> HIDE DEF g, H, h, line
<1>5. CASE HasBody(c, i)
  <2>1. i + 1..i + 1 - 1 = {}
    BY <1>0
  <2>2. Inside(c, i, i + 1) = {} /\ StillOpen(c, i, i + 1)
    BY <2>1 DEF Inside, StillOpen
  <2>3. Cardinality({}) = 0
    BY FS_EmptySet
  <2>4. g.name = FunctionName(line) /\ g.in /\ g.count = 0 /\ "name" \in DOMAIN g
    BY <1>1, <1>5 DEF Begin
  <2> QED
    BY <1>4, <1>5, <2>2, <2>3, <2>4, FunctionIsOf, Zenon DEF line, g
<1>6. CASE ~HasBody(c, i) /\ H = {}
  <2>1. f = NoFunction
    BY <1>6 DEF FunctionIs, H
  <2>2. g = NoFunction
    BY <1>1, <1>6, <2>1 DEF NoFunction, Count, End
  <2> QED
    BY <1>4, <1>6, <2>2, Zenon DEF FunctionIs, g
<1>7. CASE ~HasBody(c, i) /\ H # {}
  <2> DEFINE n == Cardinality(Inside(c, h, i))
             m == Cardinality(Inside(c, h, i + 1))
  <2>1. /\ StillOpen(c, h, i + 1) <=> StillOpen(c, h, i) /\ ~Ends(c, i)
        /\ n \in Nat
        /\ IsBodyLine(c, i) /\ StillOpen(c, h, i + 1) => m = n + 1
        /\ ~(IsBodyLine(c, i) /\ StillOpen(c, h, i + 1)) => m = n
    <3>1. h \in Nat /\ h < i /\ i \in Nat
      BY <1>0, <1>4, <1>7
    <3> QED
      BY <3>1, OpenMore
  <2>2. "name" \in DOMAIN f /\ f.name = FunctionName(c.lines[h]) /\ (f.in <=> StillOpen(c, h, i)) /\ f.count = n
    BY <1>7, Zenon DEF FunctionIs, H, h
  <2> HIDE DEF n, m
  <2>3. "name" \in DOMAIN g /\ g.name = f.name /\ (g.in <=> StillOpen(c, h, i + 1)) /\ g.count = m
    <3>1. CASE StartsFunction(line)
      BY <1>1, <1>3, <1>7, <2>1, <2>2, <3>1
    <3>2. CASE Ends(c, i)
      <4>1. g = End(f) /\ ~StillOpen(c, h, i + 1) /\ m = n
        BY <1>1, <2>1, <3>2
      <4>2. End(f).name = f.name /\ ~End(f).in /\ End(f).count = f.count /\ "name" \in DOMAIN End(f)
        BY <2>2 DEF End, FunctionOK
      <4> QED
        BY <2>2, <4>1, <4>2
    <3>3. CASE ~StartsFunction(line) /\ ~Ends(c, i) /\ IsBlankLine(line)
      BY <1>1, <1>3, <2>1, <2>2, <3>3
    <3>4. CASE ~StartsFunction(line) /\ ~Ends(c, i) /\ ~IsBlankLine(line)
      <4>1. g = Count(f)
        BY <1>1, <3>4
      <4>2. /\ Count(f).name = f.name /\ (Count(f).in <=> f.in) /\ "name" \in DOMAIN Count(f)
            /\ Count(f).count = IF f.in THEN f.count + 1 ELSE f.count
        BY <2>2 DEF Count, FunctionOK
      <4> QED
        BY <1>3, <2>1, <2>2, <3>4, <4>1, <4>2
    <3> QED
      BY <3>1, <3>2, <3>3, <3>4
  <2> QED
    BY <1>4, <1>7, <2>2, <2>3, FunctionIsOf, Zenon DEF h, m, g
<1> QED
  BY <1>5, <1>6, <1>7 DEF g

\* At the end of a function its lines are those that were counted.
LEMMA LengthIs ==
  ASSUME NEW c, c.lines \in Seq(Line), NEW i \in 1..Len(c.lines), Ends(c, i), NEW h \in 1..(i - 1)
  PROVE  LengthOf(c, h) = Cardinality(Inside(c, h, i))
<1> DEFINE S == {k \in DOMAIN c.lines : k > h /\ Ends(c, k)}
           end == Min(S)
<1>1. Len(c.lines) \in Nat /\ DOMAIN c.lines = 1..Len(c.lines)
  BY LenProperties
<1>2. i \in Nat /\ h \in Nat /\ h < i
  BY <1>1
<1>3. \A k : k \in S <=> k \in 1..Len(c.lines) /\ k > h /\ Ends(c, k)
  BY <1>1
<1> HIDE DEF S
<1>4. end \in S /\ \A k \in S : end <= k
  <2>1. i \in S
    BY <1>2, <1>3
  <2>2. S \subseteq Nat
    BY <1>1, <1>3
  <2> QED
    BY <2>1, <2>2, MinOf
<1> HIDE DEF end
<1>5. end \in 1..Len(c.lines) /\ end > h /\ Ends(c, end) /\ end <= i
  <2>1. i \in S
    BY <1>2, <1>3
  <2> QED
    BY <1>3, <1>4, <2>1
<1>6. ASSUME NEW k \in (h + 1)..(i - 1) PROVE k <= end - 1 <=> StillOpen(c, h, k + 1)
  <2>1. ASSUME k <= end - 1, NEW m \in (h + 1)..(k + 1 - 1) PROVE ~Ends(c, m)
    <3>1. m \in Nat /\ m > h /\ ~(end <= m) /\ m \in 1..Len(c.lines)
      BY <1>1, <1>2, <1>5, <2>1
    <3> QED
      BY <1>3, <1>4, <3>1
  <2>2. ASSUME ~(k <= end - 1) PROVE ~StillOpen(c, h, k + 1)
    <3>1. end \in (h + 1)..(k + 1 - 1)
      BY <1>1, <1>2, <1>5, <2>2
    <3> QED
      BY <1>5, <3>1 DEF StillOpen
  <2> QED
    BY <2>1, <2>2 DEF StillOpen
<1>7. \A k : k \in (h + 1)..(end - 1) <=> k \in (h + 1)..(i - 1) /\ k <= end - 1
  BY <1>1, <1>2, <1>5
<1>8. {k \in (h + 1)..(end - 1) : IsBodyLine(c, k)} = Inside(c, h, i)
  <2> DEFINE L == {k \in (h + 1)..(end - 1) : IsBodyLine(c, k)}
             R == Inside(c, h, i)
  <2>1. \A k : k \in L <=> k \in (h + 1)..(end - 1) /\ IsBodyLine(c, k)
    OBVIOUS
  <2>2. \A k : k \in R <=> k \in (h + 1)..(i - 1) /\ IsBodyLine(c, k) /\ StillOpen(c, h, k + 1)
    BY DEF Inside
  <2> HIDE DEF L, R
  <2>3. \A k : k \in L <=> k \in R
    BY <1>6, <1>7, <2>1, <2>2
  <2>4. L = R
    BY <2>3
  <2> QED
    BY <2>4 DEF L, R
<1> QED
  BY <1>8, Zenon DEF LengthOf, end, S

\* At the end of a function the count of the code is the length of the text.
LEMMA EndsLongIs ==
  ASSUME NEW c, c.lines \in Seq(Line), NEW i \in 1..Len(c.lines), NEW f, FunctionOK(f), FunctionIs(f, c, i),
         verbose \in Nat, Ends(c, i)
  PROVE  EndsLong(c, i) <=> f.count > BaseTrigger(f) * PowerOf2(verbose)
<1> DEFINE H == Heads(c, i)
           h == Max(H)
<1>1. EndsLong(c, i) <=>
        H # {} /\ LengthOf(c, h) > (IF FunctionName(c.lines[h]) \in TestNames THEN TestTrigger ELSE NormalTrigger)
                                   * PowerOf2(verbose)
  BY Zenon DEF EndsLong, Heads
<1>2. CASE H = {}
  <2>1. f.count = 0
    <3>1. f = NoFunction
      BY <1>2, Zenon DEF FunctionIs
    <3> QED
      BY <3>1 DEF NoFunction
  <2>2. BaseTrigger(f) \in Nat /\ PowerOf2(verbose) \in Nat
    BY PowerOf2Type, TriggerAssumption DEF BaseTrigger
  <2> DEFINE b == BaseTrigger(f)
             p == PowerOf2(verbose)
  <2> HIDE DEF b, p
  <2>3. b * p \in Nat
    BY <2>2 DEF b, p
  <2>4. ~(f.count > b * p)
    BY <2>1, <2>3
  <2> QED
    BY <1>1, <1>2, <2>4 DEF b, p
<1>3. CASE H # {}
  <2>1. i \in Nat \ {0}
    <3>1. Len(c.lines) \in Nat
      BY LenProperties
    <3> QED
      BY <3>1
  <2>2. h \in 1..(i - 1)
    BY <1>3, <2>1, HeadsMore
  <2>3. f.name = FunctionName(c.lines[h]) /\ f.count = Cardinality(Inside(c, h, i))
    BY <1>3, Zenon DEF FunctionIs
  <2> HIDE DEF H, h
  <2>4. LengthOf(c, h) = f.count
    BY <2>2, <2>3, LengthIs, Zenon
  <2> QED
    BY <1>1, <1>3, <2>3, <2>4, Zenon DEF BaseTrigger
<1> QED
  BY <1>2, <1>3

\* What is said of the length at this line: at the end of a function that it is too long when
\* it is, with a confidence that is not below the level, or the greatest one.
LengthSays(text, i, es) ==
  /\ \A e \in Own(es) : /\ e.cat = SizeCat /\ e.line = i /\ e.conf >= Min({5, verbose})
                        /\ Ends(text, i) => EndsLong(text, i)
  /\ EndsLong(text, i) => \E e \in Own(es) : e.cat = SizeCat /\ e.line = i

\* A line says of the function's length what there is to say.
LEMMA LengthsOwn ==
  ASSUME NEW c, c.lines \in Seq(Line), NEW i \in 1..Len(c.lines), NEW f, FunctionOK(f), FunctionIs(f, c, i),
         verbose \in Nat
  PROVE  LengthSays(c, i, CheckForFunctionLengths(c, i, f, verbose).errs)
<1> DEFINE es == CheckForFunctionLengths(c, i, f, verbose).errs
           base == BaseTrigger(f)
           long == f.count > base * PowerOf2(verbose)
           conf == Min({5, Log2(f.count \div base)})
           e1 == Err(SizeCat, conf, i)
<1>1. EndsLong(c, i) => Ends(c, i)
  BY DEF EndsLong
<1>2. CASE ~Ends(c, i)
  <2>1. Own(es) \subseteq {Err(SizeCat, 5, i)}
    <3>1. StartsFunction(c.lines[i]) \/ ~StartsFunction(c.lines[i])
      OBVIOUS
    <3> QED
      BY <1>2, LengthsDo
  <2>2. 5 >= Min({5, verbose})
    <3> DEFINE R == {5, verbose}
    <3>1. R \subseteq Nat /\ R # {} /\ 5 \in R
      OBVIOUS
    <3> HIDE DEF R
    <3>2. Min(R) \in R /\ Min(R) <= 5
      BY <3>1, MinOf
    <3>3. Min(R) \in Nat
      BY <3>1, <3>2
    <3>4. 5 >= Min(R)
      BY <3>2, <3>3
    <3> QED
      BY <3>4 DEF R
  <2> HIDE DEF es
  <2>3. \A e \in Own(es) : e.cat = SizeCat /\ e.line = i /\ e.conf >= Min({5, verbose})
    BY <2>1, <2>2 DEF Err
  <2> QED
    BY <1>1, <1>2, <2>3, Zenon DEF LengthSays, es
<1>3. CASE Ends(c, i)
  <2>1. es = CheckLength(f, i, verbose)
    <3>1. \A level : Ends(c, i) =>
            CheckForFunctionLengths(c, i, f, level).errs = CheckLength(f, i, level)
      BY LengthsDo
    <3> QED
      BY <1>3, <3>1, Zenon
  <2>2. CheckLength(f, i, verbose) = If(long, e1)
    BY Zenon DEF CheckLength, SizeCat
  <2>3. e1.cat = SizeCat /\ e1.line = i /\ e1.conf = conf
    BY DEF Err
  <2>4. long => conf >= Min({5, verbose})
    <3>1. f.count \in Nat /\ base \in Nat \ {0}
      BY TriggerAssumption DEF FunctionOK, BaseTrigger
    <3> HIDE DEF base
    <3> QED
      BY <3>1, LengthConfidence
  <2>5. long <=> EndsLong(c, i)
    BY <1>3, EndsLongIs, Zenon
  <2> HIDE DEF es, long, conf, e1
  <2>6. Own(es) = IF long THEN {e1} ELSE {}
    <3>1. ToSet(If(long, e1)) = IF long THEN {e1} ELSE {}
      BY OwnIf
    <3>2. e1.cat \in Kept
      BY <2>3 DEF Kept
    <3> QED
      BY <2>1, <2>2, <3>1, <3>2 DEF Own
  <2>7. \A e \in Own(es) : e.cat = SizeCat /\ e.line = i /\ e.conf >= Min({5, verbose}) /\ EndsLong(c, i)
    BY <2>3, <2>4, <2>5, <2>6
  <2>8. EndsLong(c, i) => \E e \in Own(es) : e.cat = SizeCat /\ e.line = i
    BY <2>3, <2>5, <2>6
  <2> QED
    BY <2>7, <2>8, Zenon DEF LengthSays, es
<1> QED
  BY <1>2, <1>3

-------------------------------------------------------------------------------
(* The includes that were read *)

\* The includes before a line; the section they have reached.
Before(text, n) == {j \in Includes(text) : j < n}
SectionIs(name, text, n, s) ==
  /\ s \in 0..4
  /\ \A j \in Before(text, n) : RankAt(name, text, j) <= s
  /\ s = 0 \/ \E j \in Before(text, n) : RankAt(name, text, j) = s

\* Those of the run that goes on: in the section s, and no include of the system is late
\* after them.
Running(name, text, n, s) ==
  {j \in Before(text, n) : /\ TopRank(name, text, j) = s
                           /\ \A k \in Before(text, n) : j < k => ~Late(name, text, k)}
GreatestOf(text, S, last) ==
  /\ last \in Nat
  /\ \A j \in S : AlphaAt(text, j) <= last
  /\ last = 0 \/ \E j \in S : AlphaAt(text, j) = last

OrderIs(state, name, text, n) ==
  /\ {"seen", "section", "last"} \subseteq DOMAIN state
  /\ state.seen = {IncludedPath(text.lines[j]) : j \in Before(text, n)}
  /\ SectionIs(name, text, n, state.section)
  /\ GreatestOf(text, Running(name, text, n, state.section), state.last)

\* The includes before a line, and those up to it.
LEMMA BeforeMore ==
  ASSUME NEW text, text.elided \in Seq(Line), NEW n \in Nat
  PROVE  /\ Includes(text) \subseteq 1..Len(text.elided)
         /\ \A j \in Includes(text) : j \in Nat \ {0} /\ j \in DOMAIN text.elided
         /\ \A j : j \in Before(text, n) <=> j \in Includes(text) /\ j < n
         /\ n \in Includes(text) => Before(text, n + 1) = Before(text, n) \cup {n}
         /\ n \notin Includes(text) => Before(text, n + 1) = Before(text, n)
<1>1. Len(text.elided) \in Nat /\ DOMAIN text.elided = 1..Len(text.elided)
  BY LenProperties
<1>2. \A j \in Includes(text) : j \in 1..Len(text.elided)
  BY <1>1 DEF Includes
<1>3. \A j \in Includes(text) : j \in Nat \ {0} /\ j \in DOMAIN text.elided
  BY <1>1, <1>2
<1>4. \A m : \A j : j \in Before(text, m) <=> j \in Includes(text) /\ j < m
  BY DEF Before
<1>5. \A j \in Includes(text) : j < n + 1 <=> j < n \/ j = n
  BY <1>3
<1>6. ASSUME n \in Includes(text) PROVE Before(text, n + 1) = Before(text, n) \cup {n}
  <2>1. \A j : j \in Before(text, n + 1) <=> j \in Before(text, n) \cup {n}
    BY <1>4, <1>5, <1>6
  <2> QED
    BY <2>1
<1>7. ASSUME n \notin Includes(text) PROVE Before(text, n + 1) = Before(text, n)
  <2>1. \A j : j \in Before(text, n + 1) <=> j \in Before(text, n)
    BY <1>4, <1>5, <1>7
  <2> QED
    BY <2>1
<1> QED
  BY <1>2, <1>3, <1>4, <1>6, <1>7

\* The kind of a header and the place of an include.
LEMMA KindType ==
  ASSUME NEW name, NEW text, NEW i
  PROVE  /\ KindAt(name, text, i) \in {C_SYS, CPP_SYS, LIKELY_MY, POSSIBLE_MY, OTHER_HEADER}
         /\ RankAt(name, text, i) \in 1..4
         /\ KindAt(name, text, i) \in {C_SYS, CPP_SYS} =>
              /\ KindAt(name, text, i) \notin OwnKinds
              /\ SectionOf(KindAt(name, text, i)) \in 2..3
         /\ KindAt(name, text, i) \notin OwnKinds =>
              /\ RankAt(name, text, i) = SectionOf(KindAt(name, text, i))
              /\ RankAt(name, text, i) > 1
         /\ KindAt(name, text, i) \in OwnKinds => SectionOf(KindAt(name, text, i)) = 1
         /\ KindAt(name, text, i) = OTHER_HEADER => SectionOf(KindAt(name, text, i)) = 4
         /\ OTHER_HEADER \notin OwnKinds
<1> DEFINE kind == KindAt(name, text, i)
           rank == RankAt(name, text, i)
           first == \A j \in Includes(text) : j < i => KindAt(name, text, j) \in OwnKinds
<1>1. kind \in {C_SYS, CPP_SYS, LIKELY_MY, POSSIBLE_MY, OTHER_HEADER}
  BY Zenon DEF KindAt, ClassifyInclude
<1>2. rank = IF kind \in OwnKinds THEN IF first THEN MY_H_SECTION ELSE OTHER_H_SECTION ELSE SectionOf(kind)
  BY Zenon DEF RankAt
<1> HIDE DEF kind, rank, first
<1>3. /\ kind = C_SYS => SectionOf(kind) = 2 /\ kind \notin OwnKinds
      /\ kind = CPP_SYS => SectionOf(kind) = 3 /\ kind \notin OwnKinds
      /\ kind = LIKELY_MY => SectionOf(kind) = 1 /\ kind \in OwnKinds
      /\ kind = POSSIBLE_MY => SectionOf(kind) = 1 /\ kind \in OwnKinds
      /\ kind = OTHER_HEADER => SectionOf(kind) = 4 /\ kind \notin OwnKinds
  BY DEF SectionOf, OwnKinds, C_SYS, CPP_SYS, LIKELY_MY, POSSIBLE_MY, OTHER_HEADER,
         MY_H_SECTION, C_SECTION, CPP_SECTION, OTHER_H_SECTION
<1>4. OTHER_HEADER \notin OwnKinds
  BY DEF OwnKinds, LIKELY_MY, POSSIBLE_MY, OTHER_HEADER
<1>5. rank \in 1..4
  BY <1>1, <1>2, <1>3 DEF MY_H_SECTION, OTHER_H_SECTION
<1>6. kind \in {C_SYS, CPP_SYS} => kind \notin OwnKinds /\ SectionOf(kind) \in 2..3
  BY <1>3
<1>7. kind \notin OwnKinds => rank = SectionOf(kind) /\ rank > 1
  BY <1>1, <1>2, <1>3
<1>8. kind \in OwnKinds => SectionOf(kind) = 1
  BY <1>1, <1>3
<1> QED
  BY <1>1, <1>3, <1>4, <1>5, <1>6, <1>7, <1>8 DEF kind, rank

\* The section is the only number that is the greatest place so far.
LEMMA SectionUnique ==
  ASSUME NEW name, NEW text, NEW n, NEW s, SectionIs(name, text, n, s), NEW t, SectionIs(name, text, n, t)
  PROVE  s = t
<1>1. s \in 0..4 /\ t \in 0..4
  BY DEF SectionIs
<1>2. ASSUME NEW u \in 0..4, NEW v \in 0..4, SectionIs(name, text, n, u), SectionIs(name, text, n, v)
      PROVE u <= v
  <2>1. CASE u = 0
    BY <2>1
  <2>2. CASE u # 0
    <3>1. PICK j \in Before(text, n) : RankAt(name, text, j) = u
      BY <1>2, <2>2 DEF SectionIs
    <3>2. RankAt(name, text, j) <= v
      BY <1>2 DEF SectionIs
    <3> QED
      BY <3>1, <3>2
  <2> QED
    BY <2>1, <2>2
<1>3. s <= t /\ t <= s
  BY <1>1, <1>2
<1> QED
  BY <1>1, <1>3

\* The greatest place up to an include is the section after it.
LEMMA TopRankIs ==
  ASSUME NEW name, NEW text, text.elided \in Seq(Line), NEW i \in Includes(text)
  PROVE  SectionIs(name, text, i + 1, TopRank(name, text, i))
<1> DEFINE B == Before(text, i + 1)
           R == {RankAt(name, text, j) : j \in {k \in Includes(text) : k <= i}}
           top == TopRank(name, text, i)
<1>1. i \in Nat /\ \A j \in Includes(text) : j \in Nat
  BY BeforeMore
<1>2. \A j : j \in B <=> j \in Includes(text) /\ j <= i
  <2>1. \A j : j \in B <=> j \in Includes(text) /\ j < i + 1
    BY DEF Before
  <2>2. \A m \in Nat, j \in Nat : j < m + 1 <=> j <= m
    OBVIOUS
  <2>3. \A j \in Includes(text) : j < i + 1 <=> j <= i
    BY <1>1, <2>2, Zenon
  <2> HIDE DEF B
  <2> QED
    BY <2>1, <2>3, Zenon
<1>3. \A j \in B : RankAt(name, text, j) \in R
  BY <1>2
<1>4. \A r \in R : \E j \in B : r = RankAt(name, text, j)
  BY <1>2
<1>5. \A r \in R : r \in 1..4
  BY KindType
<1>6. i \in B
  BY <1>1, <1>2
<1>7. top = Max(R)
  BY DEF TopRank
<1> HIDE DEF B, R, top
<1>8. top \in R /\ \A r \in R : r <= top
  <2>1. R # {}
    BY <1>3, <1>6
  <2>2. R \subseteq 0..4
    BY <1>5
  <2> QED
    BY <1>7, <2>1, <2>2, MaxOf
<1>9. top \in 0..4 /\ (\A j \in B : RankAt(name, text, j) <= top) /\ (\E j \in B : RankAt(name, text, j) = top)
  BY <1>3, <1>4, <1>5, <1>8
<1> QED
  BY <1>9, Zenon DEF SectionIs, B, top

\* A new include moves the section on, and it is late when, and only when, it is not in order.
LEMMA SectionStep ==
  ASSUME NEW name, NEW text, text.elided \in Seq(Line), NEW i \in Includes(text),
         NEW state, {"seen", "section", "last"} \subseteq DOMAIN state, SectionIs(name, text, i, state.section)
  PROVE  LET kind == KindAt(name, text, i)
             next == NextSection(state, kind)
         IN /\ SectionIs(name, text, i + 1, next.section)
            /\ state.section <= next.section
            /\ Late(name, text, i) <=> ~InOrder(state, kind)
            /\ {"seen", "section", "last"} \subseteq DOMAIN next
            /\ next.seen = state.seen
            /\ next.last = IF next.section # state.section \/ Late(name, text, i) THEN 0 ELSE state.last
<1> DEFINE kind == KindAt(name, text, i)
           next == NextSection(state, kind)
           s == state.section
           o == SectionOf(kind)
           t == IF s <= o THEN o ELSE IF InOrder(state, kind) THEN OTHER_H_SECTION ELSE s
           rank == RankAt(name, text, i)
           last == IF t # s \/ ~InOrder(state, kind) THEN 0 ELSE state.last
<1>0. next = [state EXCEPT !.section = t, !.last = last]
  BY Zenon DEF NextSection
<1>1. /\ s \in 0..4
      /\ \A j \in Before(text, i) : RankAt(name, text, j) <= s
      /\ s = 0 \/ \E j \in Before(text, i) : RankAt(name, text, j) = s
  BY DEF SectionIs
<1>2. /\ i \in Nat \ {0}
      /\ \A j : j \in Before(text, i) <=> j \in Includes(text) /\ j < i
      /\ Before(text, i + 1) = Before(text, i) \cup {i}
  BY BeforeMore
<1>3. /\ kind \in {C_SYS, CPP_SYS, LIKELY_MY, POSSIBLE_MY, OTHER_HEADER}
      /\ rank \in 1..4
      /\ kind \in {C_SYS, CPP_SYS} => kind \notin OwnKinds /\ o \in 2..3
      /\ kind \notin OwnKinds => rank = o /\ rank > 1
      /\ kind \in OwnKinds => o = 1
      /\ kind = OTHER_HEADER => o = 4
      /\ OTHER_HEADER \notin OwnKinds
  BY KindType
<1>4. InOrder(state, kind) <=> (kind \in {C_SYS, CPP_SYS} => s <= o)
  BY DEF InOrder
<1>5. kind \in OwnKinds =>
        rank = IF \A j \in Includes(text) : j < i => KindAt(name, text, j) \in OwnKinds THEN 1 ELSE 4
  BY DEF RankAt, MY_H_SECTION, OTHER_H_SECTION
<1>6. Late(name, text, i) <=> kind \in {C_SYS, CPP_SYS} /\ \E j \in Before(text, i) : RankAt(name, text, j) > rank
  <2>1. (\E j \in Before(text, i) : RankAt(name, text, j) > rank)
          <=> (\E j \in Includes(text) : j < i /\ RankAt(name, text, j) > rank)
    BY <1>2, Zenon
  <2> QED
    BY <2>1, Zenon DEF Late
<1>7. OTHER_H_SECTION = 4
  BY DEF OTHER_H_SECTION
<1> DEFINE mine == \A j \in Includes(text) : j < i => KindAt(name, text, j) \in OwnKinds
<1>8. mine <=> s <= 1
  <2>1. ASSUME mine PROVE s <= 1
    <3>1. ASSUME NEW j \in Before(text, i) PROVE RankAt(name, text, j) = 1
      <4>1. j \in Includes(text) /\ j < i /\ j \in Nat
        BY <1>2, BeforeMore
      <4>2. \A k \in Includes(text) : k < j => k < i
        <5>1. \A k \in Includes(text) : k \in Nat
          BY BeforeMore
        <5> QED
          BY <1>2, <4>1, <5>1
      <4>3. KindAt(name, text, j) \in OwnKinds /\ \A k \in Includes(text) : k < j => KindAt(name, text, k) \in OwnKinds
        BY <2>1, <4>1, <4>2
      <4> QED
        BY <4>3 DEF RankAt, MY_H_SECTION
    <3> QED
      BY <1>1, <3>1
  <2>2. ASSUME s <= 1, NEW j \in Includes(text), j < i PROVE KindAt(name, text, j) \in OwnKinds
    <3>1. RankAt(name, text, j) <= 1
      <4>1. RankAt(name, text, j) <= s /\ RankAt(name, text, j) \in 1..4
        BY <1>1, <1>2, <2>2, KindType
      <4> QED
        BY <1>1, <2>2, <4>1
    <3>2. KindAt(name, text, j) \notin OwnKinds => RankAt(name, text, j) > 1
      BY KindType
    <3>3. RankAt(name, text, j) \in 1..4
      BY KindType
    <3> QED
      BY <3>1, <3>2, <3>3
  <2> QED
    BY <2>1, <2>2
<1>9. (\E j \in Before(text, i) : RankAt(name, text, j) > rank) <=> s > rank
  <2>1. \A j \in Before(text, i) : RankAt(name, text, j) \in 1..4
    BY KindType
  <2> HIDE DEF rank, s
  <2> QED
    BY <1>1, <1>3, <2>1
<1> HIDE DEF kind, next, s, o, rank, last, mine
<1>10. Late(name, text, i) <=> ~InOrder(state, kind)
  BY <1>1, <1>3, <1>4, <1>6, <1>9
<1>11. t = (IF s <= rank THEN rank ELSE s)
  <2>1. CASE kind \in {C_SYS, CPP_SYS}
    BY <1>1, <1>3, <1>4, <2>1
  <2>2. CASE kind \in OwnKinds
    <3>1. rank = IF s <= 1 THEN 1 ELSE 4
      BY <1>5, <1>8, <2>2 DEF mine
    <3>2. kind \notin {C_SYS, CPP_SYS} /\ o = 1
      BY <1>3, <2>2
    <3> QED
      BY <1>1, <1>4, <1>7, <3>1, <3>2
  <2>3. CASE kind = OTHER_HEADER
    <3>1. o = 4 /\ rank = 4
      BY <1>3, <2>3
    <3>2. s <= 4
      BY <1>1
    <3>3. s <= o /\ s <= rank
      BY <3>1, <3>2
    <3>4. t = o
      BY <3>3
    <3> QED
      BY <3>1, <3>3, <3>4
  <2>4. kind \in OwnKinds \/ kind \in {C_SYS, CPP_SYS} \/ kind = OTHER_HEADER
    BY <1>3 DEF OwnKinds
  <2> QED
    BY <2>1, <2>2, <2>3, <2>4
<1> HIDE DEF t
<1>12. /\ t \in 0..4 /\ s <= t
       /\ \A j \in Before(text, i + 1) : RankAt(name, text, j) <= t
       /\ \E j \in Before(text, i + 1) : RankAt(name, text, j) = t
  <2>1. t \in 0..4 /\ s <= t /\ rank <= t
    BY <1>1, <1>3, <1>11
  <2>2. ASSUME NEW j \in Before(text, i + 1) PROVE RankAt(name, text, j) <= t
    <3>1. RankAt(name, text, j) \in 1..4
      BY KindType
    <3>2. CASE j = i
      BY <2>1, <3>2 DEF rank
    <3>3. CASE j # i
      <4>1. RankAt(name, text, j) <= s
        BY <1>1, <1>2, <3>3
      <4> QED
        BY <1>1, <2>1, <3>1, <4>1
    <3> QED
      BY <3>2, <3>3
  <2>3. \E j \in Before(text, i + 1) : RankAt(name, text, j) = t
    <3>1. CASE t = rank
      BY <1>2, <3>1 DEF rank
    <3>2. CASE t # rank
      <4>1. t = s /\ s # 0
        BY <1>1, <1>3, <1>11, <3>2
      <4> QED
        BY <1>1, <1>2, <4>1
    <3> QED
      BY <3>1, <3>2
  <2> QED
    BY <2>1, <2>2, <2>3
<1>13. next.section = t /\ next.last = last /\ next.seen = state.seen /\ {"seen", "section", "last"} \subseteq DOMAIN next
  BY <1>0
<1>14. SectionIs(name, text, i + 1, next.section)
  BY <1>12, <1>13 DEF SectionIs
<1>15. next.last = IF t # s \/ Late(name, text, i) THEN 0 ELSE state.last
  BY <1>10, <1>13 DEF last
<1> QED
  BY <1>10, <1>12, <1>13, <1>14, <1>15, Zenon DEF s, next, kind

\* In a new include's run are those of the run that goes on, unless it is late or in a new
\* section.
LEMMA RunStep ==
  ASSUME NEW name, NEW text, text.elided \in Seq(Line), NEW i \in Includes(text),
         NEW s, SectionIs(name, text, i, s), NEW t, SectionIs(name, text, i + 1, t), s <= t
  PROVE  LET run == IF t # s \/ Late(name, text, i) THEN {} ELSE Running(name, text, i, s)
         IN /\ Running(name, text, i + 1, t) = run \cup {i}
            /\ \A j \in Includes(text) : j < i /\ OneRun(name, text, j, i) <=> j \in run
<1> DEFINE run == IF t # s \/ Late(name, text, i) THEN {} ELSE Running(name, text, i, s)
           late(k) == Late(name, text, k)
           top(j) == TopRank(name, text, j)
           I == Includes(text)
           B == Before(text, i)
           C == Before(text, i + 1)
<1>1. /\ i \in Nat \ {0}
      /\ \A j \in I : j \in Nat
      /\ \A j : j \in B <=> j \in I /\ j < i
      /\ C = B \cup {i}
      /\ s \in 0..4 /\ t \in 0..4
  BY BeforeMore DEF SectionIs
<1>2. top(i) = t
  BY TopRankIs, SectionUnique, Zenon
<1>3. \A j \in B : top(j) \in 0..4 /\ top(j) <= s
  <2> SUFFICES ASSUME NEW j \in B PROVE top(j) \in 0..4 /\ top(j) <= s
    OBVIOUS
  <2>0. j \in I /\ j < i /\ j \in Nat
    BY <1>1
  <2>1. SectionIs(name, text, j + 1, top(j))
    BY <2>0, TopRankIs
  <2>2. Before(text, j + 1) \subseteq B
    <3>1. \A k : k \in Before(text, j + 1) <=> k \in I /\ k < j + 1
      BY DEF Before
    <3>2. \A k \in I : k < j + 1 => k < i
      BY <1>1, <2>0
    <3> QED
      BY <1>1, <3>1, <3>2
  <2>3. top(j) \in 0..4 /\ (top(j) = 0 \/ \E k \in Before(text, j + 1) : RankAt(name, text, k) = top(j))
    BY <2>1 DEF SectionIs
  <2>4. \A k \in B : RankAt(name, text, k) <= s
    BY DEF SectionIs
  <2> HIDE DEF top
  <2>5. CASE top(j) = 0
    BY <1>1, <2>5
  <2>6. CASE top(j) # 0
    BY <2>2, <2>3, <2>4, <2>6
  <2> QED
    BY <2>3, <2>5, <2>6
<1>4. \A j : j \in Running(name, text, i, s) <=>
               j \in B /\ top(j) = s /\ \A k \in B : j < k => ~late(k)
  BY DEF Running
<1>5. \A j : j \in Running(name, text, i + 1, t) <=>
               j \in C /\ top(j) = t /\ \A k \in C : j < k => ~late(k)
  BY DEF Running
<1>6. \A j : OneRun(name, text, j, i) <=> (\A k \in I : j < k /\ k <= i => ~late(k)) /\ top(j) = top(i)
  BY DEF OneRun
<1>7. \A k : k \in C <=> k \in I /\ k <= i
  <2>1. \A k \in I : k <= i <=> k < i \/ k = i
    BY <1>1
  <2> QED
    BY <1>1, <2>1
<1>8. i \in I
  OBVIOUS
<1> HIDE DEF late, top, I, B, C, run
<1>9. \A j \in B : j < i
  BY <1>1
<1>10. \A j \in B : j \in run <=> top(j) = t /\ \A k \in C : j < k => ~late(k)
  <2> SUFFICES ASSUME NEW j \in B PROVE j \in run <=> top(j) = t /\ \A k \in C : j < k => ~late(k)
    OBVIOUS
  <2>1. CASE t # s
    <3>1. top(j) # t
      BY <1>1, <1>3, <2>1
    <3> QED
      BY <2>1, <3>1 DEF run
  <2>2. CASE t = s /\ late(i)
    <3>1. i \in C /\ j < i
      BY <1>1, <1>9
    <3> QED
      BY <2>2, <3>1 DEF run, late
  <2>3. CASE t = s /\ ~late(i)
    <3>1. run = Running(name, text, i, s)
      BY <2>3 DEF run, late
    <3>2. (\A k \in C : j < k => ~late(k)) <=> (\A k \in B : j < k => ~late(k))
      BY <1>1, <2>3
    <3> QED
      BY <1>4, <2>3, <3>1, <3>2
  <2> QED
    BY <2>1, <2>2, <2>3
<1>11. \A j \in run : j \in B
  BY <1>4 DEF run
<1>12. Running(name, text, i + 1, t) = run \cup {i}
  <2>1. \A k \in C : ~(i < k)
    <3>1. \A k \in C : k \in Nat /\ k <= i
      BY <1>1, <1>7
    <3> QED
      BY <1>1, <3>1
  <2>2. \A j : j \in Running(name, text, i + 1, t) <=> j \in run \cup {i}
    BY <1>1, <1>2, <1>5, <1>10, <1>11, <2>1
  <2> QED
    BY <2>2
<1>13. ASSUME NEW j \in I PROVE j < i /\ OneRun(name, text, j, i) <=> j \in run
  <2>1. CASE ~(j < i)
    BY <1>9, <1>11, <2>1
  <2>2. CASE j < i
    <3>1. j \in B
      BY <1>1, <2>2
    <3>2. OneRun(name, text, j, i) <=> top(j) = t /\ \A k \in C : j < k => ~late(k)
      BY <1>2, <1>6, <1>7
    <3> QED
      BY <1>10, <2>2, <3>1, <3>2
  <2> QED
    BY <2>1, <2>2
<1> QED
  BY <1>12, <1>13, Zenon DEF run, I

\* The last name is the greatest of its run, with the next one too.
LEMMA GreatestStep ==
  ASSUME NEW text, NEW S, NEW last, GreatestOf(text, S, last), NEW i, AlphaAt(text, i) \in Nat,
         \A j \in S : AlphaAt(text, j) \in Nat
  PROVE  /\ (\E j \in S : AlphaAt(text, j) > AlphaAt(text, i)) <=> ~(last <= AlphaAt(text, i))
         /\ GreatestOf(text, S \cup {i}, IF last <= AlphaAt(text, i) THEN AlphaAt(text, i) ELSE last)
<1> DEFINE at(j) == AlphaAt(text, j)
           a == at(i)
           new == IF last <= a THEN a ELSE last
<1>1. last \in Nat /\ (\A j \in S : at(j) <= last) /\ (last = 0 \/ \E j \in S : at(j) = last)
  BY DEF GreatestOf
<1>2. a \in Nat /\ \A j \in S : at(j) \in Nat
  OBVIOUS
<1>3. a = at(i)
  OBVIOUS
<1> HIDE DEF at, a
<1>4. (\E j \in S : at(j) > a) <=> ~(last <= a)
  <2>1. ASSUME NEW j \in S, at(j) > a PROVE ~(last <= a)
    BY <1>1, <1>2, <2>1
  <2>2. ASSUME ~(last <= a) PROVE \E j \in S : at(j) > a
    <3>1. last # 0
      BY <1>2, <2>2
    <3>2. PICK j \in S : at(j) = last
      BY <1>1, <3>1
    <3> QED
      BY <1>1, <1>2, <2>2, <3>2
  <2> QED
    BY <2>1, <2>2
<1>5. new \in Nat /\ last <= new /\ a <= new /\ (new = a \/ new = last)
  BY <1>1, <1>2
<1> HIDE DEF new
<1>6. \A j \in S \cup {i} : at(j) <= new
  BY <1>1, <1>2, <1>3, <1>5
<1>7. new = 0 \/ \E j \in S \cup {i} : at(j) = new
  BY <1>1, <1>3, <1>5
<1> QED
  BY <1>4, <1>5, <1>6, <1>7, Zenon DEF GreatestOf, at, a, new

\* An include is new when, and only when, its path was not seen.
LEMMA NewInclude ==
  ASSUME NEW text, text.elided \in Seq(Line), NEW i \in DOMAIN text.elided, IsInclude(text.elided[i])
  PROVE  i \in Includes(text) <=> IncludedPath(text.lines[i]) \notin {IncludedPath(text.lines[j]) : j \in Before(text, i)}
<1> DEFINE path(j) == IncludedPath(text.lines[j])
           seen == {path(j) : j \in Before(text, i)}
           is(j) == IsInclude(text.elided[j])
<1>1. Len(text.elided) \in Nat /\ DOMAIN text.elided = 1..Len(text.elided)
  BY LenProperties
<1>2. \A j : j \in Includes(text) <=> j \in 1..Len(text.elided) /\ is(j) /\ \A k \in 1..(j - 1) : is(k) => path(k) # path(j)
  BY <1>1 DEF Includes
<1>3. \A j : j \in Before(text, i) <=> j \in Includes(text) /\ j < i
  BY DEF Before
<1>4. i \in 1..Len(text.elided) /\ is(i)
  BY <1>1
<1>5. \A p : p \in seen <=> \E j \in Before(text, i) : p = path(j)
  OBVIOUS
<1> HIDE DEF path, seen, is
<1>6. ASSUME i \in Includes(text) PROVE path(i) \notin seen
  <2> SUFFICES ASSUME NEW j \in Before(text, i), path(i) = path(j) PROVE FALSE
    BY <1>5
  <2>1. j \in 1..Len(text.elided) /\ is(j) /\ j < i
    BY <1>2, <1>3
  <2>2. j \in 1..(i - 1)
    BY <1>1, <1>4, <2>1
  <2> QED
    BY <1>2, <1>6, <2>1, <2>2
<1>7. ASSUME i \notin Includes(text) PROVE path(i) \in seen
  <2> DEFINE K == {k \in 1..(i - 1) : is(k) /\ path(k) = path(i)}
             m == Min(K)
  <2>1. K # {}
    BY <1>2, <1>4, <1>7
  <2>2. \A k : k \in K <=> k \in 1..(i - 1) /\ is(k) /\ path(k) = path(i)
    OBVIOUS
  <2>3. K \subseteq Nat
    <3>1. \A k \in 1..(i - 1) : k \in Nat
      BY <1>1, <1>4
    <3> QED
      BY <2>2, <3>1
  <2> HIDE DEF K
  <2>4. m \in K /\ \A k \in K : m <= k
    BY <2>1, <2>3, MinOf
  <2> HIDE DEF m
  <2>5. m \in 1..(i - 1) /\ is(m) /\ path(m) = path(i)
    BY <2>2, <2>4
  <2>6. ASSUME NEW k \in 1..(m - 1), is(k) PROVE path(k) # path(m)
    <3>1. k \in 1..(i - 1) /\ ~(m <= k)
      BY <1>1, <1>4, <2>5
    <3>2. k \notin K
      BY <2>4, <3>1
    <3> QED
      BY <2>2, <2>5, <2>6, <3>1, <3>2
  <2>7. m \in 1..Len(text.elided) /\ m < i
    BY <1>1, <1>4, <2>5
  <2>8. m \in Before(text, i)
    BY <1>2, <1>3, <2>5, <2>6, <2>7
  <2> QED
    BY <1>5, <2>5, <2>8
<1> QED
  BY <1>6, <1>7 DEF path, seen

\* A line without a new include leaves what is known of them.
LEMMA OrderKept ==
  ASSUME NEW name, NEW text, text.elided \in Seq(Line), NEW i \in Nat, i \notin Includes(text),
         NEW state, OrderIs(state, name, text, i)
  PROVE  OrderIs(state, name, text, i + 1)
<1>1. Before(text, i + 1) = Before(text, i)
  BY BeforeMore
<1> QED
  BY <1>1, Zenon DEF OrderIs, SectionIs, Running

\* A line leaves what is known of the includes as its text has it, and says of them what
\* there is to say.
LEMMA IncludeStep ==
  ASSUME NEW name, NEW text, text.elided \in Seq(Line), NEW i \in DOMAIN text.elided, IsInclude(text.elided[i]),
         \A j \in Includes(text) : AlphaAt(text, j) \in Nat,
         NEW state, OrderIs(state, name, text, i)
  PROVE  LET r == CheckIncludeLine(FileOf[name], text, i, state)
         IN /\ OrderIs(r.inc, name, text, i + 1)
            /\ \A e : e \in Own(r.errs) <=>
                        \/ e = Err(OrderCat, 4, i) /\ i \in Includes(text) /\ Late(name, text, i)
                        \/ e = Err(AlphaCat, 4, i) /\ i \in Includes(text) /\ Unsorted(name, text, i)
<1> DEFINE r == CheckIncludeLine(FileOf[name], text, i, state)
           path == IncludedPath(text.lines[i])
           kind == KindAt(name, text, i)
           next == NextSection(state, kind)
           remembered == RememberHeader(next, path)
           a == AlphaAt(text, i)
           new == IF next.last <= a THEN a ELSE next.last
<1>0. i \in Nat
  <2>1. Len(text.elided) \in Nat /\ DOMAIN text.elided = 1..Len(text.elided)
    BY LenProperties
  <2> QED
    BY <2>1
<1>1. i \in Includes(text) <=> path \notin state.seen
  <2>1. state.seen = {IncludedPath(text.lines[j]) : j \in Before(text, i)}
    BY DEF OrderIs
  <2>2. i \in Includes(text) <=> path \notin {IncludedPath(text.lines[j]) : j \in Before(text, i)}
    BY NewInclude
  <2> QED
    BY <2>1, <2>2, Zenon
<1>2. /\ path \in state.seen => Own(r.errs) = {} /\ r.inc = state
      /\ path \notin state.seen =>
           /\ \A e : e \in Own(r.errs) <=>
                       \/ e = Err(OrderCat, 4, i) /\ ~InOrder(state, kind)
                       \/ e = Err(AlphaCat, 4, i) /\ ~IsInAlphabeticalOrder(next, path)
           /\ r.inc = Seeing(remembered, path)
  <2>1. IncludeSays(name, text, i, state, r)
    BY IncludeOwnAt
  <2> HIDE DEF r
  <2> QED
    BY <2>1, Zenon DEF IncludeSays
<1> HIDE DEF r
<1>3. CASE i \notin Includes(text)
  <2>1. Own(r.errs) = {} /\ r.inc = state
    BY <1>1, <1>2, <1>3, Zenon
  <2>2. OrderIs(r.inc, name, text, i + 1)
    BY <1>0, <1>3, <2>1, OrderKept
  <2> QED
    BY <1>3, <2>1, <2>2 DEF r
<1>4. CASE i \in Includes(text)
  <2> DEFINE s == state.section
             t == next.section
             run == IF t # s \/ Late(name, text, i) THEN {} ELSE Running(name, text, i, s)
  <2>1. /\ {"seen", "section", "last"} \subseteq DOMAIN state
        /\ state.seen = {IncludedPath(text.lines[j]) : j \in Before(text, i)}
        /\ SectionIs(name, text, i, s)
        /\ GreatestOf(text, Running(name, text, i, s), state.last)
    BY DEF OrderIs
  <2>2. /\ SectionIs(name, text, i + 1, t)
        /\ s <= t
        /\ Late(name, text, i) <=> ~InOrder(state, kind)
        /\ {"seen", "section", "last"} \subseteq DOMAIN next
        /\ next.seen = state.seen
        /\ next.last = IF t # s \/ Late(name, text, i) THEN 0 ELSE state.last
    BY <1>4, <2>1, SectionStep
  <2>3. /\ Running(name, text, i + 1, t) = run \cup {i}
        /\ \A j \in Includes(text) : j < i /\ OneRun(name, text, j, i) <=> j \in run
    <3>1. SectionIs(name, text, i, s) /\ SectionIs(name, text, i + 1, t) /\ s <= t
      BY <2>1, <2>2
    <3> HIDE DEF s, t
    <3> QED
      BY <1>4, <3>1, RunStep
  <2>4. Before(text, i + 1) = Before(text, i) \cup {i} /\ \A j \in Before(text, i) : j \in Includes(text) /\ j < i
    BY <1>0, <1>4, BeforeMore
  <2> HIDE DEF s, t, next, kind, path
  <2>5. GreatestOf(text, run, next.last)
    <3>1. CASE t # s \/ Late(name, text, i)
      <4>1. run = {} /\ next.last = 0
        BY <2>2, <3>1
      <4> HIDE DEF run
      <4> QED
        BY <4>1 DEF GreatestOf
    <3>2. CASE ~(t # s \/ Late(name, text, i))
      <4>1. run = Running(name, text, i, s) /\ next.last = state.last
        BY <2>2, <3>2
      <4> HIDE DEF run
      <4> QED
        BY <2>1, <4>1
    <3> QED
      BY <3>1, <3>2
  <2>6. \A j \in run : j \in Includes(text) /\ j < i /\ OneRun(name, text, j, i)
    <3>1. \A j \in run : j \in Includes(text)
      BY <2>4 DEF Running
    <3> HIDE DEF run
    <3> QED
      BY <2>3, <3>1
  <2> HIDE DEF run
  <2>7. /\ (\E j \in run : AlphaAt(text, j) > a) <=> ~(next.last <= a)
        /\ GreatestOf(text, run \cup {i}, new)
    <3>1. AlphaAt(text, i) \in Nat /\ \A j \in run : AlphaAt(text, j) \in Nat
      BY <1>4, <2>6
    <3> QED
      BY <2>5, <3>1, GreatestStep
  <2>8. Unsorted(name, text, i) <=> ~(next.last <= a)
    <3>1. Unsorted(name, text, i) <=> \E j \in run : AlphaAt(text, j) > a
      BY <2>3, <2>6 DEF Unsorted
    <3> QED
      BY <2>7, <3>1
  <2>9. IsInAlphabeticalOrder(next, path) <=> next.last <= a
    BY DEF IsInAlphabeticalOrder, AlphaAt, path
  <2> HIDE DEF a
  <2>10. remembered = IF next.last <= a THEN [next EXCEPT !.last = a] ELSE next
    BY <2>9, Zenon DEF RememberHeader, AlphaAt, path, a
  <2> HIDE DEF remembered
  <2>11. /\ {"seen", "section", "last"} \subseteq DOMAIN remembered
         /\ remembered.seen = state.seen /\ remembered.section = t /\ remembered.last = new
    BY <2>2, <2>10 DEF t
  <2> HIDE DEF new
  <2>12. r.inc = [remembered EXCEPT !.seen = @ \cup {path}]
    BY <1>1, <1>2, <1>4 DEF Seeing
  <2>13. /\ {"seen", "section", "last"} \subseteq DOMAIN r.inc
         /\ r.inc.seen = state.seen \cup {path} /\ r.inc.section = t /\ r.inc.last = new
    BY <2>11, <2>12
  <2>14. r.inc.seen = {IncludedPath(text.lines[j]) : j \in Before(text, i + 1)}
    BY <2>1, <2>4, <2>13 DEF path
  <2>15. OrderIs(r.inc, name, text, i + 1)
    BY <2>2, <2>3, <2>7, <2>13, <2>14, Zenon DEF OrderIs
  <2>16. \A e : e \in Own(r.errs) <=>
                  \/ e = Err(OrderCat, 4, i) /\ ~InOrder(state, kind)
                  \/ e = Err(AlphaCat, 4, i) /\ ~IsInAlphabeticalOrder(next, path)
    BY <1>1, <1>2, <1>4
  <2>17. \A e : e \in Own(r.errs) <=>
                  \/ e = Err(OrderCat, 4, i) /\ i \in Includes(text) /\ Late(name, text, i)
                  \/ e = Err(AlphaCat, 4, i) /\ i \in Includes(text) /\ Unsorted(name, text, i)
    BY <1>4, <2>2, <2>8, <2>9, <2>16
  <2> QED
    BY <2>15, <2>17, Zenon DEF r
<1> QED
  BY <1>3, <1>4

-------------------------------------------------------------------------------
(* What was said of the files *)

\* An error that is in the log is right about its file.
Right(f, e) ==
  /\ e.cat = OrderCat => e.line \in Includes(Text(f)) /\ Late(f, Text(f), e.line)
  /\ e.cat = AlphaCat => e.line \in Includes(Text(f)) /\ Unsorted(f, Text(f), e.line)
  /\ e.cat = SizeCat => /\ Ends(Text(f), e.line) => EndsLong(Text(f), e.line)
                        /\ e.conf >= Min({5, verbose})
LogRight == \A k \in DOMAIN log : Right(log[k].file, log[k].error)

\* What there is to say of a line is in the log.
Reported(f, cat, i) ==
  \E k \in DOMAIN log : log[k].file = f /\ log[k].error.cat = cat /\ log[k].error.line = i
Full(f, text, i) ==
  /\ i \in Includes(text) /\ Late(f, text, i) => Reported(f, OrderCat, i)
  /\ i \in Includes(text) /\ Unsorted(f, text, i) => Reported(f, AlphaCat, i)
  /\ EndsLong(text, i) => Reported(f, SizeCat, i)

\* While a file is read, its includes and its function are known as its text has them.
ReadInv ==
  pc = "line" =>
    /\ clean = Text(todo[1])
    /\ FunctionIs(fn, clean, ln) /\ OrderIs(inc, todo[1], clean, ln)
    /\ \A i \in 1..(ln - 1) : Full(todo[1], clean, i)

\* What is right about a file stays so while the level does.
LEMMA RightKept ==
  ASSUME UNCHANGED verbose
  PROVE  /\ \A f, e : Right(f, e) => Right(f, e)'
         /\ \A text, i : EndsLong(text, i)' <=> EndsLong(text, i)
<1>1. \A text, i : EndsLong(text, i)' <=> EndsLong(text, i)
  BY DEF EndsLong
<1>2. ASSUME NEW f, NEW e, Right(f, e) PROVE Right(f, e)'
  <2>1. EndsLong(Text(f), e.line) => EndsLong(Text(f), e.line)'
    BY <1>1
  <2> QED
    BY <1>2, <2>1, Zenon DEF Right
<1> QED
  BY <1>1, <1>2

\* Errors that are right about the file keep the log right.
LEMMA SaidStep ==
  ASSUME LogOK, NEW S, NEW es, Errors(es, S), Error(es), UNCHANGED verbose, LogRight,
         \A e \in Own(es) : Right(todo[1], e)
  PROVE  LogRight'
<1>1. /\ Len(log) \in Nat /\ Len(es) \in Nat
      /\ DOMAIN log = 1..Len(log) /\ DOMAIN es = 1..Len(es)
      /\ DOMAIN log' = 1..Len(log) + Len(es)
      /\ \A k \in 1..Len(log) : log'[k] = log[k]
      /\ \A k \in 1..Len(es) : log'[Len(log) + k] = Entry(es[k])
  BY Logged
<1>2. ASSUME NEW e \in ToSet(es) PROVE Right(todo[1], e)
  <2>1. CASE e.cat \in Kept
    BY <1>2, <2>1 DEF Own
  <2>2. CASE e.cat \notin Kept
    BY <2>2, Zenon DEF Right, Kept
  <2> QED
    BY <2>1, <2>2
<1>3. \A f, e : Right(f, e) => Right(f, e)'
  BY RightKept
<1>4. ASSUME NEW k \in DOMAIN log' PROVE Right(log'[k].file, log'[k].error)
  <2>1. CASE k \in 1..Len(log)
    BY <1>1, <2>1 DEF LogRight
  <2>2. CASE k \notin 1..Len(log)
    <3> DEFINE i == k - Len(log)
    <3>1. i \in 1..Len(es) /\ Len(log) + i = k
      BY <1>1, <2>2
    <3> HIDE DEF i
    <3>2. log'[k] = Entry(es[i])
      BY <1>1, <3>1
    <3>3. log'[k].file = todo[1] /\ log'[k].error = es[i]
      BY <3>2 DEF Entry
    <3>4. es[i] \in ToSet(es)
      BY <1>1, <3>1 DEF ToSet
    <3> QED
      BY <1>2, <3>3, <3>4
  <2> QED
    BY <2>1, <2>2
<1> QED
  BY <1>3, <1>4, Zenon DEF LogRight

\* So do those of other categories.
LEMMA PlainSaid ==
  ASSUME LogOK, NEW S, NEW es, Errors(es, S), Error(es), UNCHANGED verbose, LogRight, Plain(es)
  PROVE  LogRight'
<1>1. \A e \in Own(es) : Right(todo[1], e)
  BY DEF Plain
<1> QED
  BY <1>1, SaidStep

\* What was reported stays, and what a step passes on is reported.
LEMMA ReportedStep ==
  ASSUME LogOK, NEW S, NEW es, Errors(es, S), Error(es)
  PROVE  /\ \A f, cat, i : Reported(f, cat, i) => Reported(f, cat, i)'
         /\ \A e \in Own(es) : \A f : f = todo[1] => Reported(f, e.cat, e.line)'
<1>1. /\ Len(log) \in Nat /\ Len(es) \in Nat
      /\ DOMAIN log = 1..Len(log) /\ DOMAIN es = 1..Len(es)
      /\ DOMAIN log' = 1..Len(log) + Len(es)
      /\ \A k \in 1..Len(log) : log'[k] = log[k]
      /\ \A k \in 1..Len(es) : log'[Len(log) + k] = Entry(es[k])
  BY Logged
<1>2. ASSUME NEW f, NEW cat, NEW i, Reported(f, cat, i) PROVE Reported(f, cat, i)'
  <2>1. PICK k \in DOMAIN log : log[k].file = f /\ log[k].error.cat = cat /\ log[k].error.line = i
    BY <1>2 DEF Reported
  <2>2. k \in DOMAIN log' /\ log'[k] = log[k]
    BY <1>1
  <2> QED
    BY <2>1, <2>2 DEF Reported
<1>3. ASSUME NEW e \in Own(es) PROVE \A f : f = todo[1] => Reported(f, e.cat, e.line)'
  <2>1. PICK i \in DOMAIN es : e = es[i]
    BY DEF Own, ToSet
  <2> DEFINE k == Len(log) + i
  <2>2. k \in DOMAIN log' /\ log'[k] = Entry(e)
    BY <1>1, <2>1
  <2> HIDE DEF k
  <2>3. log'[k].file = todo[1] /\ log'[k].error = e
    BY <2>2 DEF Entry
  <2> QED
    BY <2>2, <2>3 DEF Reported
<1> QED
  BY <1>2, <1>3

\* Every include of a file has its place in the alphabet.
LEMMA TextKnown ==
  ASSUME NEW f \in DOMAIN Disk
  PROVE  \A j \in Includes(Text(f)) : AlphaAt(Text(f), j) \in Nat
<1> DEFINE text == Text(f)
<1>1. \A j \in DOMAIN text.elided : IsInclude(text.elided[j]) => IncludedPath(text.lines[j]) \in DOMAIN PathOf
  BY IncludesAssumption
<1>2. \A j \in Includes(text) : j \in DOMAIN text.elided /\ IsInclude(text.elided[j])
  BY DEF Includes
<1>3. \A j \in Includes(text) : IncludedPath(text.lines[j]) \in DOMAIN PathOf
  BY <1>1, <1>2
<1> HIDE DEF text
<1>4. \A j \in Includes(text) : AlphaAt(text, j) \in Nat
  BY <1>3, AlphaAssumption DEF AlphaAt
<1> QED
  BY <1>4 DEF text

\* Nothing is known before the first line.
LEMMA NewFileRead ==
  ASSUME NEW name, NEW text, text.elided \in Seq(Line)
  PROVE  FunctionIs(NoFunction, text, 1) /\ OrderIs(NoIncludes, name, text, 1)
<1>1. Heads(text, 1) = {}
  BY DEF Heads
<1>2. Before(text, 1) = {}
  <2>1. \A j \in Includes(text) : ~(j < 1)
    <3>1. \A j \in Includes(text) : j \in Nat \ {0}
      BY BeforeMore
    <3> QED
      BY <3>1
  <2> QED
    BY <2>1 DEF Before
<1>3. FunctionIs(NoFunction, text, 1)
  BY <1>1 DEF FunctionIs
<1>4. NoIncludes.seen = {} /\ NoIncludes.section = 0 /\ NoIncludes.last = 0 /\ {"seen", "section", "last"} \subseteq DOMAIN NoIncludes
  BY DEF NoIncludes, INITIAL_SECTION
<1>5. SectionIs(name, text, 1, NoIncludes.section)
  BY <1>2, <1>4 DEF SectionIs
<1>6. Running(name, text, 1, NoIncludes.section) = {}
  BY <1>2 DEF Running
<1>7. GreatestOf(text, {}, NoIncludes.last)
  BY <1>4 DEF GreatestOf
<1>8. NoIncludes.seen = {IncludedPath(text.lines[j]) : j \in Before(text, 1)}
  BY <1>2, <1>4
<1> QED
  BY <1>3, <1>4, <1>5, <1>6, <1>7, <1>8 DEF OrderIs

LEMMA CategoriesDiffer ==
  OrderCat # AlphaCat /\ OrderCat # SizeCat /\ AlphaCat # SizeCat
BY DEF OrderCat, AlphaCat, SizeCat

LanguageSays(name, text, i, es) ==
  /\ \A e \in Own(es) :
       /\ e.line = i
       /\ \/ e.cat = OrderCat /\ i \in Includes(text) /\ Late(name, text, i)
          \/ e.cat = AlphaCat /\ i \in Includes(text) /\ Unsorted(name, text, i)
  /\ i \in Includes(text) /\ Late(name, text, i) => \E e \in Own(es) : e.cat = OrderCat /\ e.line = i
  /\ i \in Includes(text) /\ Unsorted(name, text, i) => \E e \in Own(es) : e.cat = AlphaCat /\ e.line = i

\* What the language rules leave, and say, of the includes on a line.
LEMMA LanguageStep ==
  ASSUME NEW name, NEW text, text.elided \in Seq(Line), NEW i \in DOMAIN text.elided,
         \A j \in Includes(text) : AlphaAt(text, j) \in Nat,
         NEW state, OrderIs(state, name, text, i)
  PROVE  /\ OrderIs(CheckLanguage(FileOf[name], text, i, state).inc, name, text, i + 1)
         /\ LanguageSays(name, text, i, CheckLanguage(FileOf[name], text, i, state).errs)
<1> DEFINE r == CheckLanguage(FileOf[name], text, i, state)
<1>1. CASE ~IsInclude(text.elided[i])
  <2>1. text.elided[i] \in Line /\ i \in Nat
    <3>1. Len(text.elided) \in Nat /\ DOMAIN text.elided = 1..Len(text.elided)
      BY LenProperties
    <3> QED
      BY <3>1, ElementOfSeq
  <2>2. Plain(r.errs) /\ r.inc = state
    BY <1>1, <2>1, LanguageOwn
  <2>3. Own(r.errs) = {} /\ i \notin Includes(text)
    BY <1>1, <2>2 DEF Plain, Includes
  <2>4. OrderIs(state, name, text, i + 1)
    BY <2>1, <2>3, OrderKept
  <2> HIDE DEF r
  <2> QED
    BY <2>2, <2>3, <2>4 DEF LanguageSays, r
<1>2. CASE IsInclude(text.elided[i])
  <2> DEFINE late == i \in Includes(text) /\ Late(name, text, i)
             unsorted == i \in Includes(text) /\ Unsorted(name, text, i)
  <2>1. r = CheckIncludeLine(FileOf[name], text, i, state)
    <3>1. text.elided[i] \in Line
      BY LenProperties, ElementOfSeq
    <3> QED
      BY <1>2, <3>1, LanguageOwn
  <2> HIDE DEF r
  <2>2. OrderIs(r.inc, name, text, i + 1)
    BY <1>2, <2>1, IncludeStep
  <2>3. \A e : e \in Own(r.errs) <=> (e = Err(OrderCat, 4, i) /\ late) \/ (e = Err(AlphaCat, 4, i) /\ unsorted)
    BY <1>2, <2>1, IncludeStep
  <2> HIDE DEF late, unsorted
  <2>4. /\ Err(OrderCat, 4, i).cat = OrderCat /\ Err(OrderCat, 4, i).line = i
        /\ Err(AlphaCat, 4, i).cat = AlphaCat /\ Err(AlphaCat, 4, i).line = i
    BY DEF Err
  <2>5. /\ \A e \in Own(r.errs) : e.line = i /\ ((e.cat = OrderCat /\ late) \/ (e.cat = AlphaCat /\ unsorted))
        /\ late => \E e \in Own(r.errs) : e.cat = OrderCat /\ e.line = i
        /\ unsorted => \E e \in Own(r.errs) : e.cat = AlphaCat /\ e.line = i
    BY <2>3, <2>4
  <2> QED
    BY <2>2, <2>5, Zenon DEF LanguageSays, r, late, unsorted
<1> QED
  BY <1>1, <1>2

\* What the current line adds is right, and it is all there is to say of the line.
LEMMA LineSays ==
  ASSUME TypesInv, ReadInv, pc = "line", ln <= Len(clean.raw)
  PROVE  /\ \A e \in Own(FirstErrors) : Right(todo[1], e)
         /\ \A e \in Own(FirstErrors \o RestErrors) : Right(todo[1], e)
         /\ ln \in Includes(clean) /\ Late(todo[1], clean, ln) =>
              \E e \in Own(FirstErrors \o RestErrors) : e.cat = OrderCat /\ e.line = ln
         /\ ln \in Includes(clean) /\ Unsorted(todo[1], clean, ln) =>
              \E e \in Own(FirstErrors \o RestErrors) : e.cat = AlphaCat /\ e.line = ln
         /\ EndsLong(clean, ln) =>
              \E e \in Own(FirstErrors \o RestErrors) : e.cat = SizeCat /\ e.line = ln
         /\ FunctionIs(CheckForFunctionLengths(clean, ln, fn, verbose).fn, clean, ln + 1)
         /\ OrderIs(CheckLanguage(FileOf[todo[1]], clean, ln, inc).inc, todo[1], clean, ln + 1)
<1> DEFINE f == todo[1]
           lengths == CheckForFunctionLengths(clean, ln, fn, verbose)
           language == CheckLanguage(FileOf[f], clean, ln, inc)
           all == Own(FirstErrors \o RestErrors)
<1>1. clean = Text(f) /\ FunctionIs(fn, clean, ln) /\ OrderIs(inc, f, clean, ln)
  BY DEF ReadInv
<1>2. /\ Views(clean) /\ FunctionOK(fn) /\ verbose \in Nat /\ f \in DOMAIN Disk
      /\ ln \in 1..Len(clean.raw) /\ ln \in 1..Len(clean.lines) /\ ln \in DOMAIN clean.elided
      /\ clean.lines \in Seq(Line) /\ clean.elided \in Seq(Line)
  <2>1. Views(clean) /\ FunctionOK(fn) /\ verbose \in Nat /\ f \in DOMAIN Disk /\ ln \in 1..Len(clean.raw) + 1
    BY DEF TypesInv, FilesInv, ScopesInv
  <2>2. /\ clean.raw \in Seq(Line) /\ clean.lines \in Seq(Line) /\ clean.elided \in Seq(Line)
        /\ Len(clean.lines) = Len(clean.raw) /\ Len(clean.elided) = Len(clean.raw)
    BY <2>1 DEF Views
  <2>3. Len(clean.raw) \in Nat /\ DOMAIN clean.elided = 1..Len(clean.elided)
    BY <2>2, LenProperties
  <2>4. ln \in 1..Len(clean.raw)
    BY <2>1, <2>3
  <2> QED
    BY <2>1, <2>2, <2>3, <2>4
<1>3. Own(FirstErrors) = Own(lengths.errs) /\ all = Own(lengths.errs) \cup Own(language.errs)
  BY <1>2, LineOwn
<1>4. LengthSays(clean, ln, lengths.errs)
  <2>1. /\ clean.lines \in Seq(Line) /\ ln \in 1..Len(clean.lines) /\ FunctionOK(fn) /\ FunctionIs(fn, clean, ln)
        /\ verbose \in Nat
    BY <1>1, <1>2
  <2> QED
    BY <2>1, LengthsOwn
<1>5. FunctionIs(lengths.fn, clean, ln + 1)
  BY <1>1, <1>2, FunctionStep
<1>6. \A j \in Includes(clean) : AlphaAt(clean, j) \in Nat
  BY <1>1, <1>2, TextKnown
<1>7. OrderIs(language.inc, f, clean, ln + 1) /\ LanguageSays(f, clean, ln, language.errs)
  <2>1. clean.elided \in Seq(Line) /\ ln \in DOMAIN clean.elided /\ OrderIs(inc, f, clean, ln)
    BY <1>1, <1>2
  <2> QED
    BY <1>6, <2>1, LanguageStep
<1> HIDE DEF lengths, language, all, f
<1>8. /\ \A e \in Own(lengths.errs) : /\ e.cat = SizeCat /\ e.line = ln /\ e.conf >= Min({5, verbose})
                                      /\ Ends(clean, ln) => EndsLong(clean, ln)
      /\ EndsLong(clean, ln) => \E e \in Own(lengths.errs) : e.cat = SizeCat /\ e.line = ln
  BY <1>4, Zenon DEF LengthSays
<1>9. /\ \A e \in Own(language.errs) :
           /\ e.line = ln
           /\ \/ e.cat = OrderCat /\ ln \in Includes(clean) /\ Late(f, clean, ln)
              \/ e.cat = AlphaCat /\ ln \in Includes(clean) /\ Unsorted(f, clean, ln)
      /\ ln \in Includes(clean) /\ Late(f, clean, ln) =>
           \E e \in Own(language.errs) : e.cat = OrderCat /\ e.line = ln
      /\ ln \in Includes(clean) /\ Unsorted(f, clean, ln) =>
           \E e \in Own(language.errs) : e.cat = AlphaCat /\ e.line = ln
  BY <1>7, Zenon DEF LanguageSays
<1>10. \A e \in Own(lengths.errs) : Right(f, e)
  <2> SUFFICES ASSUME NEW e \in Own(lengths.errs) PROVE Right(f, e)
    OBVIOUS
  <2>1. e.cat = SizeCat /\ e.cat # OrderCat /\ e.cat # AlphaCat
    BY <1>8, CategoriesDiffer
  <2>2. (Ends(Text(f), e.line) => EndsLong(Text(f), e.line)) /\ e.conf >= Min({5, verbose})
    BY <1>1, <1>8, Zenon
  <2> QED
    BY <2>1, <2>2, Zenon DEF Right
<1>11. \A e \in Own(language.errs) : Right(f, e)
  <2> SUFFICES ASSUME NEW e \in Own(language.errs) PROVE Right(f, e)
    OBVIOUS
  <2>1. CASE e.cat = OrderCat /\ ln \in Includes(clean) /\ Late(f, clean, ln)
    <3>1. e.cat # AlphaCat /\ e.cat # SizeCat
      BY <2>1, CategoriesDiffer
    <3>2. e.line \in Includes(Text(f)) /\ Late(f, Text(f), e.line)
      BY <1>1, <1>9, <2>1, Zenon
    <3> QED
      BY <3>1, <3>2, Zenon DEF Right
  <2>2. CASE e.cat = AlphaCat /\ ln \in Includes(clean) /\ Unsorted(f, clean, ln)
    <3>1. e.cat # OrderCat /\ e.cat # SizeCat
      BY <2>2, CategoriesDiffer
    <3>2. e.line \in Includes(Text(f)) /\ Unsorted(f, Text(f), e.line)
      BY <1>1, <1>9, <2>2, Zenon
    <3> QED
      BY <3>1, <3>2, Zenon DEF Right
  <2> QED
    BY <1>9, <2>1, <2>2, Zenon
<1>12. \A e : e \in all <=> e \in Own(lengths.errs) \/ e \in Own(language.errs)
  BY <1>3
<1>13. \A e \in Own(FirstErrors) : Right(f, e)
  BY <1>3, <1>10
<1>14. \A e \in all : Right(f, e)
  BY <1>10, <1>11, <1>12, Zenon
<1>15. /\ ln \in Includes(clean) /\ Late(f, clean, ln) => \E e \in all : e.cat = OrderCat /\ e.line = ln
       /\ ln \in Includes(clean) /\ Unsorted(f, clean, ln) => \E e \in all : e.cat = AlphaCat /\ e.line = ln
       /\ EndsLong(clean, ln) => \E e \in all : e.cat = SizeCat /\ e.line = ln
  BY <1>12, <1>8, <1>9, Zenon
<1> QED
  BY <1>5, <1>7, <1>13, <1>14, <1>15, Zenon DEF f, all, lengths, language

\* Before the first file nothing is said.
LEMMA ReadInit == Init => ReadInv /\ LogRight
BY EmptySeq DEF Init, ReadInv, LogRight

\* What the steps keep: a file that is opened has nothing read,
LEMMA StartFileReads ==
  ASSUME TypesInv, LogRight, StartFile
  PROVE  ReadInv' /\ LogRight'
<1>1. /\ pc' = "line" /\ todo[1] \in DOMAIN Disk /\ Error(StartErrors)
      /\ clean' = Text(todo[1]) /\ ln' = 1 /\ fn' = NoFunction /\ inc' = NoIncludes
      /\ todo' = todo /\ verbose' = verbose
  BY StartFileDoes, Zenon DEF Text, RawOf, options
<1>2. LogOK /\ Errors(StartErrors, Nat) /\ Plain(StartErrors)
  BY <1>1, StartErrorsType, StartPlain DEF TypesInv
<1>3. LogRight'
  BY <1>1, <1>2, PlainSaid
<1>4. clean'.elided \in Seq(Line)
  <2>1. TypesInv'
    BY StartFileTypes
  <2> QED
    BY <2>1 DEF TypesInv, FilesInv, Views
<1>5. FunctionIs(fn', clean', ln') /\ OrderIs(inc', todo'[1], clean', ln')
  <2>1. FunctionIs(NoFunction, clean', 1) /\ OrderIs(NoIncludes, todo'[1], clean', 1)
    BY <1>4, NewFileRead
  <2> QED
    BY <1>1, <2>1, Zenon
<1>6. \A i \in 1..(ln' - 1) : FALSE
  BY <1>1
<1> QED
  BY <1>1, <1>3, <1>5, <1>6, Zenon DEF ReadInv, FunctionIs, OrderIs, SectionIs, GreatestOf

\* a line adds itself,
LEMMA ProcessLineReads ==
  ASSUME TypesInv, ReadInv, LogRight, ProcessLine
  PROVE  ReadInv' /\ LogRight'
<1> DEFINE f == todo[1]
           all == FirstErrors \o RestErrors
           style == CheckStyle(clean, ln, classes, SmallClass)
<1>1. /\ pc = "line" /\ ln <= Len(clean.raw)
      /\ fn' = CheckForFunctionLengths(clean, ln, fn, verbose).fn
      /\ \/ /\ style.fate = "ok"
            /\ Error(all)
            /\ inc' = CheckLanguage(FileOf[f], clean, ln, inc).inc
            /\ ln' = ln + 1 /\ pc' = pc
         \/ /\ style.fate # "ok"
            /\ Error(FirstErrors)
            /\ pc' = style.fate
      /\ todo' = todo /\ clean' = clean /\ verbose' = verbose
  BY ProcessLineDoes, Zenon DEF options
<1>2. style.fate \in {"ok", "crashed", "hung"}
  BY StyleErrors
<1>3. LogOK /\ Errors(FirstErrors, Nat) /\ Errors(all, Nat)
  BY LineErrorsType DEF TypesInv
<1>4. /\ \A e \in Own(FirstErrors) : Right(f, e)
      /\ \A e \in Own(all) : Right(f, e)
      /\ ln \in Includes(clean) /\ Late(f, clean, ln) => \E e \in Own(all) : e.cat = OrderCat /\ e.line = ln
      /\ ln \in Includes(clean) /\ Unsorted(f, clean, ln) => \E e \in Own(all) : e.cat = AlphaCat /\ e.line = ln
      /\ EndsLong(clean, ln) => \E e \in Own(all) : e.cat = SizeCat /\ e.line = ln
      /\ FunctionIs(CheckForFunctionLengths(clean, ln, fn, verbose).fn, clean, ln + 1)
      /\ OrderIs(CheckLanguage(FileOf[f], clean, ln, inc).inc, f, clean, ln + 1)
  BY <1>1, LineSays, Zenon
<1>5. clean = Text(f) /\ \A i \in 1..(ln - 1) : Full(f, clean, i)
  BY <1>1 DEF ReadInv
<1>6. ln \in Nat
  BY DEF TypesInv, FilesInv
<1> HIDE DEF style, all
<1>7. CASE style.fate = "ok"
  <2>1. Error(all) /\ ln' = ln + 1 /\ pc' = "line" /\ inc' = CheckLanguage(FileOf[f], clean, ln, inc).inc
    BY <1>1, <1>7
  <2>2. LogRight'
    BY <1>1, <1>3, <1>4, <2>1, SaidStep
  <2>3. /\ \A g, cat, i : Reported(g, cat, i) => Reported(g, cat, i)'
        /\ \A e \in Own(all) : \A g : g = f => Reported(g, e.cat, e.line)'
    BY <1>3, <2>1, ReportedStep
  <2>4. \A text, i : EndsLong(text, i)' <=> EndsLong(text, i)
    BY <1>1, RightKept
  <2>5. ASSUME NEW g, g = f, NEW text, text = clean, NEW i \in 1..ln PROVE Full(g, text, i)'
    <3>1. CASE i = ln
      <4>1. ln \in Includes(clean) /\ Late(f, clean, ln) => Reported(g, OrderCat, i)'
        BY <1>4, <2>3, <2>5, <3>1, Zenon
      <4>2. ln \in Includes(clean) /\ Unsorted(f, clean, ln) => Reported(g, AlphaCat, i)'
        BY <1>4, <2>3, <2>5, <3>1, Zenon
      <4>3. EndsLong(clean, ln) => Reported(g, SizeCat, i)'
        BY <1>4, <2>3, <2>5, <3>1, Zenon
      <4>4. EndsLong(text, i)' <=> EndsLong(clean, ln)
        BY <2>4, <2>5, <3>1, Zenon
      <4> QED
        BY <2>5, <3>1, <4>1, <4>2, <4>3, <4>4, Zenon DEF Full
    <3>2. CASE i # ln
      <4>1. i \in 1..(ln - 1)
        BY <1>6, <3>2
      <4>2. Full(g, text, i)
        BY <1>5, <2>5, <4>1, Zenon
      <4> QED
        BY <2>3, <2>4, <4>2, Zenon DEF Full
    <3> QED
      BY <3>1, <3>2
  <2>6. \A i : i \in 1..(ln' - 1) <=> i \in 1..ln
    BY <1>6, <2>1
  <2>7. ReadInv'
    <3>1. FunctionIs(fn', clean', ln') /\ OrderIs(inc', todo'[1], clean', ln')
      BY <1>1, <1>4, <2>1, Zenon
    <3> QED
      BY <1>1, <1>5, <2>5, <2>6, <3>1, Zenon DEF ReadInv, FunctionIs, OrderIs, SectionIs, GreatestOf, Full
  <2> QED
    BY <2>2, <2>7
<1>8. CASE style.fate # "ok"
  <2>1. Error(FirstErrors) /\ pc' # "line"
    BY <1>1, <1>2, <1>8
  <2>2. LogRight'
    BY <1>1, <1>3, <1>4, <2>1, SaidStep
  <2> QED
    BY <2>1, <2>2, Zenon DEF ReadInv
<1> QED
  BY <1>7, <1>8

\* and the end of a file says nothing of the three categories.
LEMMA FinishFileReads ==
  ASSUME TypesInv, LogRight, FinishFile
  PROVE  ReadInv' /\ LogRight'
<1>1. pc' = "file" /\ Error(FinishErrors) /\ verbose' = verbose
  BY FinishFileDoes DEF options
<1>2. LogOK /\ Errors(FinishErrors, Nat) /\ Plain(FinishErrors)
  BY FinishErrorsType, FinishPlain DEF TypesInv, FilesInv
<1>3. LogRight'
  BY <1>1, <1>2, PlainSaid
<1> QED
  BY <1>1, <1>3, Zenon DEF ReadInv

\* Every step keeps what is known of the file and the log.
LEMMA ReadNext == TypesInv /\ ExitInv /\ ReadInv /\ LogRight /\ [Next]_vars => ReadInv' /\ LogRight'
<1> SUFFICES ASSUME TypesInv, ExitInv, ReadInv, LogRight, [Next]_vars PROVE ReadInv' /\ LogRight'
  OBVIOUS
<1>1. ASSUME UNCHANGED <<log, verbose>> PROVE LogRight'
  <2>1. \A f, e : Right(f, e) => Right(f, e)'
    BY <1>1, RightKept
  <2> QED
    BY <1>1, <2>1 DEF LogRight
<1>2. CASE ParseArguments
  <2>1. UNCHANGED counts /\ pc = "args" /\ pc' \in {"exit", "file", "crashed"}
    BY <1>2, ParseArgumentsDoes
  <2>2. log' = <<>> /\ pc' # "line"
    BY <2>1 DEF ExitInv, counts
  <2>3. DOMAIN log' = {}
    BY <2>2, EmptySeq
  <2> QED
    BY <2>2, <2>3 DEF ReadInv, LogRight
<1>3. CASE SkipFile
  <2>1. pc' # "line" /\ UNCHANGED <<log, verbose>>
    BY <1>3 DEF SkipFile, options, counts
  <2> QED
    BY <1>1, <2>1, Zenon DEF ReadInv
<1>4. CASE StartFile
  BY <1>4, StartFileReads
<1>5. CASE ProcessLine
  BY <1>5, ProcessLineReads
<1>6. CASE FinishFile
  BY <1>6, FinishFileReads
<1>7. CASE Exit
  <2>1. pc' # "line" /\ UNCHANGED <<log, verbose>>
    BY <1>7 DEF Exit, options, counts
  <2> QED
    BY <1>1, <2>1, Zenon DEF ReadInv
<1>8. CASE UNCHANGED vars
  <2>1. UNCHANGED <<pc, log, verbose, todo, clean, ln, fn, inc>>
    BY <1>8 DEF vars, options, counts, scopes
  <2>2. \A f, text, i : Full(f, text, i) => Full(f, text, i)'
    <3>1. \A f, cat, i : Reported(f, cat, i)' <=> Reported(f, cat, i)
      BY <2>1 DEF Reported
    <3>2. \A text, i : EndsLong(text, i)' <=> EndsLong(text, i)
      BY <2>1, RightKept
    <3> QED
      BY <3>1, <3>2, Zenon DEF Full
  <2>3. ReadInv'
    BY <2>1, <2>2, Zenon DEF ReadInv, FunctionIs, OrderIs, SectionIs, GreatestOf, Full
  <2> QED
    BY <1>1, <2>1, <2>3
<1> QED
  BY <1>2, <1>3, <1>4, <1>5, <1>6, <1>7, <1>8 DEF Next

\* While a file is read, the function and the includes that the checker carries are those of
\* its text, and all it says of the lines so far is right and whole (_FunctionState, _IncludeState).
THEOREM ReadAlways == Spec => [](TypesInv /\ ReadInv /\ LogRight)
<1>1. Init => CountsInv /\ ExitInv
  BY CountsInit
<1> QED
  BY <1>1, TypesAlways, CountsNext, ReadInit, ReadNext, PTL DEF Spec

\* While a file is read, an include of the system is reported when, and only when, one that
\* belongs after it comes before it, and an include is reported to be out of the alphabet when,
\* and only when, a greater one of its run comes before it, whatever the file and the headers
\* (CheckNextIncludeOrder, IsInAlphabeticalOrder).
THEOREM LintIncludeOrder == Spec => []IncludeOrder
<1>1. TypesInv /\ ReadInv /\ LogRight => IncludeOrder
  <2> SUFFICES ASSUME TypesInv, ReadInv, LogRight, pc = "line"
               PROVE  LET read == Includes(clean) \cap Read
                      IN /\ LinesWith(OrderCat) \cap Read = {i \in read : Late(todo[1], clean, i)}
                         /\ LinesWith(AlphaCat) \cap Read = {i \in read : Unsorted(todo[1], clean, i)}
    BY Zenon DEF IncludeOrder, OrderCat, AlphaCat
  <2>1. clean = Text(todo[1]) /\ \A i \in Read : Full(todo[1], clean, i)
    BY DEF ReadInv, Read
  <2>2. ASSUME NEW cat, NEW i PROVE i \in LinesWith(cat) <=> Reported(todo[1], cat, i)
    BY DEF LinesWith, Reported
  <2>3. ASSUME NEW i \in Read PROVE i \in LinesWith(OrderCat) <=> i \in Includes(clean) /\ Late(todo[1], clean, i)
    <3>1. ASSUME Reported(todo[1], OrderCat, i) PROVE i \in Includes(clean) /\ Late(todo[1], clean, i)
      BY <2>1, <3>1, Zenon DEF Reported, LogRight, Right
    <3> QED
      BY <2>1, <2>2, <3>1, Zenon DEF Full
  <2>4. ASSUME NEW i \in Read PROVE i \in LinesWith(AlphaCat) <=> i \in Includes(clean) /\ Unsorted(todo[1], clean, i)
    <3>1. ASSUME Reported(todo[1], AlphaCat, i) PROVE i \in Includes(clean) /\ Unsorted(todo[1], clean, i)
      BY <2>1, <3>1, Zenon DEF Reported, LogRight, Right
    <3> QED
      BY <2>1, <2>2, <3>1, Zenon DEF Full
  <2> QED
    BY <2>3, <2>4
<1> QED
  BY <1>1, ReadAlways, PTL

\* While a file is read, a function is reported at a brace at the start of a line when, and
\* only when, the last one that began has too many lines for the level, and with a confidence
\* that is not below the level or is the greatest one, whatever the file and the limits
\* (_FunctionState.Check).
THEOREM LintLongFunctions == Spec => []LongFunctions
<1>1. TypesInv /\ ReadInv /\ LogRight => LongFunctions
  <2> SUFFICES ASSUME TypesInv, ReadInv, LogRight, pc = "line"
               PROVE  LET sized == LinesWith(SizeCat) \cap Read
                      IN /\ {i \in sized : Ends(clean, i)} = {i \in Read : EndsLong(clean, i)}
                         /\ \A k \in DOMAIN log :
                              log[k].file = todo[1] /\ log[k].error.cat = SizeCat
                                => log[k].error.conf >= Min({5, verbose})
    BY Zenon DEF LongFunctions, SizeCat
  <2>1. clean = Text(todo[1]) /\ \A i \in Read : Full(todo[1], clean, i)
    BY DEF ReadInv, Read
  <2>2. ASSUME NEW cat, NEW i PROVE i \in LinesWith(cat) <=> Reported(todo[1], cat, i)
    BY DEF LinesWith, Reported
  <2>3. ASSUME NEW i \in Read PROVE i \in LinesWith(SizeCat) /\ Ends(clean, i) <=> EndsLong(clean, i)
    <3>1. ASSUME Reported(todo[1], SizeCat, i), Ends(clean, i) PROVE EndsLong(clean, i)
      BY <2>1, <3>1, Zenon DEF Reported, LogRight, Right
    <3>2. EndsLong(clean, i) => Ends(clean, i)
      BY Zenon DEF EndsLong
    <3> QED
      BY <2>1, <2>2, <3>1, <3>2, Zenon DEF Full
  <2>4. \A k \in DOMAIN log :
          log[k].file = todo[1] /\ log[k].error.cat = SizeCat => log[k].error.conf >= Min({5, verbose})
    BY Zenon DEF LogRight, Right
  <2> QED
    BY <2>3, <2>4
<1> QED
  BY <1>1, ReadAlways, PTL

-------------------------------------------------------------------------------
(* The classes that are open by the text *)

\* The tokens that open and end them.
OpenBrace == "{"
CloseBrace == "}"
Semicolon == ";"

\* The three tokens that a reading looks at are different.
LEMMA Marks == OpenBrace # CloseBrace /\ OpenBrace # Semicolon /\ CloseBrace # Semicolon
BY Zenon DEF OpenBrace, CloseBrace, Semicolon

\* What can be open: classes by their names, with their braces; one more head is pending.
Names == {ClassName(l) : l \in Line}
Bodies == [name : Names, inner : Nat]
Pendings == {<<>>} \cup {<<[name |-> c, inner |-> 0]>> : c \in Names}
Readings == [open : Seq(Bodies), pending : Pendings, closed : BOOLEAN, odd : BOOLEAN]

\* A body with n braces more open in it.
Deeper(b, n) == [b EXCEPT !.inner = @ + n]
\* The body on top of others, before and after braces in it.
TopSays(under, b, n, open) ==
  /\ open \in Seq(Bodies) /\ Len(open) # 0 /\ open # <<>> /\ open[Len(open)] = b /\ Front(open) = under
  /\ [open EXCEPT ![Len(open)].inner = @ + n] = Append(under, Deeper(b, n))
  /\ Append(under, Deeper(b, n)) \in Seq(Bodies)

\* Braces in the body on top.
LEMMA TopOf ==
  ASSUME NEW under \in Seq(Bodies), NEW b \in Bodies, NEW n \in Int, b.inner + n \in Nat
  PROVE  TopSays(under, b, n, Append(under, b))
<1> DEFINE open == Append(under, b)
           top == Len(open)
           c == [b EXCEPT !.inner = @ + n]
           new == [open EXCEPT ![top].inner = @ + n]
<1>1. /\ open \in Seq(Bodies) /\ top = Len(under) + 1 /\ open # <<>>
      /\ \A i \in 1..Len(under) : open[i] = under[i]
      /\ open[top] = b
      /\ Len(under) \in Nat /\ DOMAIN open = 1..top
  BY AppendProperties, LenProperties
<1>2. c \in Bodies
  BY DEF Bodies
<1>3. /\ Append(under, c) \in Seq(Bodies) /\ Len(Append(under, c)) = top
      /\ \A i \in 1..Len(under) : Append(under, c)[i] = under[i]
      /\ Append(under, c)[top] = c
  BY <1>1, <1>2, AppendProperties
<1> HIDE DEF c
<1>4. top \in 1..Len(open)
  BY <1>1
<1> DEFINE s == Append(under, c)
<1>5. [open EXCEPT ![top] = c] \in Seq(Bodies) /\ Len([open EXCEPT ![top] = c]) = top
      /\ \A j \in 1..top : [open EXCEPT ![top] = c][j] = IF j = top THEN c ELSE open[j]
  <2> HIDE DEF open
  <2> QED
    BY <1>1, <1>2, <1>4, ExceptSeq
<1>6. new = [open EXCEPT ![top] = c]
  BY <1>1, Zenon DEF c
<1>7. Front(open) = under
  <2>1. Front(open) = SubSeq(open, 1, Len(under))
    BY <1>1 DEF Front
  <2> HIDE DEF open
  <2>2. \A i \in 1..Len(under) : open[i] \in Bodies
    BY <1>1, ElementOfSeq
  <2>3. /\ SubSeq(open, 1, Len(under)) \in Seq(Bodies)
        /\ Len(SubSeq(open, 1, Len(under))) = IF 1 <= Len(under) THEN Len(under) - 1 + 1 ELSE 0
        /\ \A i \in 1..Len(under) - 1 + 1 : SubSeq(open, 1, Len(under))[i] = open[1 + i - 1]
    BY <1>1, <2>2, SubSeqProperties
  <2>4. Len(SubSeq(open, 1, Len(under))) = Len(under)
    BY <1>1, <2>3
  <2>5. ASSUME NEW i \in 1..Len(under) PROVE SubSeq(open, 1, Len(under))[i] = under[i]
    <3>1. i \in 1..Len(under) - 1 + 1 /\ 1 + i - 1 = i
      BY <1>1
    <3> QED
      BY <1>1, <2>3, <3>1
  <2>6. SubSeq(open, 1, Len(under)) = under
    BY <2>3, <2>4, <2>5, SeqEqual
  <2> QED
    BY <2>1, <2>6
<1> HIDE DEF s, new, open, top
<1>8. [open EXCEPT ![top] = c] = s
  <2> DEFINE t == [open EXCEPT ![top] = c]
  <2>1. t \in Seq(Bodies) /\ s \in Seq(Bodies) /\ Len(t) = top /\ Len(s) = top
    BY <1>3, <1>5 DEF s
  <2>2. ASSUME NEW i \in 1..top PROVE t[i] = s[i]
    <3>1. i = top \/ i \in 1..Len(under)
      BY <1>1
    <3>2. t[i] = IF i = top THEN c ELSE open[i]
      BY <1>5
    <3> HIDE DEF t
    <3> QED
      BY <1>1, <1>3, <3>1, <3>2 DEF s
  <2> HIDE DEF t
  <2> QED
    BY <2>1, <2>2, SeqEqual DEF t
<1>9. top # 0
  BY <1>1
<1> QED
  BY <1>1, <1>3, <1>6, <1>7, <1>8, <1>9, Zenon DEF s, new, open, top, c, TopSays, Deeper

\* Where a class is open, one is on top.
LEMMA Split ==
  ASSUME NEW open \in Seq(Bodies), open # <<>>
  PROVE  \E under \in Seq(Bodies), b \in Bodies : open = Append(under, b)
<1>1. Len(open) \in Nat \ {0}
  BY EmptySeq
<1>2. \A i \in 1..Len(open) - 1 : open[i] \in Bodies
  <2>1. \A i \in 1..Len(open) - 1 : i \in 1..Len(open)
    BY <1>1
  <2> QED
    BY <2>1, ElementOfSeq
<1> DEFINE under == SubSeq(open, 1, Len(open) - 1)
           b == open[Len(open)]
           m == Len(open) - 1
<1>3. m \in Nat /\ m + 1 = Len(open)
  BY <1>1
<1>4. /\ under \in Seq(Bodies)
      /\ Len(under) = IF 1 <= m THEN m - 1 + 1 ELSE 0
      /\ \A i \in 1..m - 1 + 1 : under[i] = open[1 + i - 1]
  BY <1>2, <1>3, SubSeqProperties
<1> HIDE DEF under, m
<1>5. Len(under) = m /\ \A i \in 1..m : under[i] = open[i]
  <2>1. Len(under) = m
    BY <1>3, <1>4
  <2>2. ASSUME NEW i \in 1..m PROVE under[i] = open[i]
    <3>1. i \in 1..m - 1 + 1 /\ 1 + i - 1 = i
      BY <1>3
    <3> QED
      BY <1>4, <3>1
  <2> QED
    BY <2>1, <2>2
<1>6. b \in Bodies
  <2>1. Len(open) \in 1..Len(open)
    BY <1>1
  <2> QED
    BY <2>1, ElementOfSeq
<1>7. /\ Append(under, b) \in Seq(Bodies) /\ Len(Append(under, b)) = m + 1
      /\ \A i \in 1..m : Append(under, b)[i] = under[i]
      /\ Append(under, b)[m + 1] = b
  BY <1>4, <1>5, <1>6, AppendProperties
<1>8. Append(under, b) = open
  <2> DEFINE t == Append(under, b)
  <2>1. ASSUME NEW i \in 1..Len(open) PROVE t[i] = open[i]
    <3>1. i = m + 1 \/ i \in 1..m
      BY <1>3
    <3> HIDE DEF t
    <3> QED
      BY <1>3, <1>5, <1>7, <3>1 DEF t
  <2>2. Len(t) = Len(open) /\ t \in Seq(Bodies)
    BY <1>3, <1>7
  <2> HIDE DEF t
  <2>3. t = open
    BY <2>1, <2>2, SeqEqual
  <2> QED
    BY <2>3 DEF t
<1> QED
  BY <1>4, <1>6, <1>8

\* What a token makes of a reading.
TokenSays(s, t, r) ==
  /\ r \in Readings
  /\ s.odd => r.odd
  /\ t \notin {OpenBrace, CloseBrace, Semicolon} => r = s
  /\ t = Semicolon => r.open = s.open /\ r.pending = <<>> /\ r.closed = s.closed
  /\ t = OpenBrace =>
       /\ r.pending = <<>> /\ r.closed = s.closed
       /\ s.closed => r.odd
       /\ s.pending # <<>> => r.open = Append(s.open, s.pending[1])
       /\ s.pending = <<>> /\ s.open = <<>> => r.open = <<>>
       /\ s.pending = <<>> =>
            \A under \in Seq(Bodies), b \in Bodies :
              s.open = Append(under, b) => r.open = Append(under, Deeper(b, 1))
  /\ t = CloseBrace =>
       /\ r.pending = s.pending
       /\ s.pending # <<>> => r.odd
       /\ s.closed /\ s.open # <<>> => r.odd
       /\ s.open = <<>> => r.open = <<>> /\ r.closed = s.closed
       /\ \A under \in Seq(Bodies), b \in Bodies :
            s.open = Append(under, b) =>
              IF b.inner = 0 THEN r.open = under /\ r.closed
              ELSE r.open = Append(under, Deeper(b, -1)) /\ r.closed = s.closed

\* An opening brace.
LEMMA OpeningSays ==
  ASSUME NEW s \in Readings
  PROVE  TokenSays(s, OpenBrace, ByText(s, OpenBrace))
<1> DEFINE top == Len(s.open)
           inner == IF top = 0 THEN s.open ELSE [s.open EXCEPT ![top].inner = @ + 1]
           open == IF s.pending = <<>> THEN inner ELSE s.open \o s.pending
           r == [s EXCEPT !.open = open, !.pending = <<>>, !.odd = @ \/ s.closed]
<1>1. ByText(s, OpenBrace) = r
  <2>1. OpenBrace # CloseBrace /\ OpenBrace # Semicolon
    BY Marks, Zenon
  <2> QED
    BY <2>1, Zenon DEF ByText, OpenBrace, CloseBrace, Semicolon
<1>2. s.open \in Seq(Bodies) /\ s.pending \in Pendings /\ s.closed \in BOOLEAN /\ s.odd \in BOOLEAN
  BY DEF Readings
<1>3. ASSUME s.pending # <<>>
      PROVE  s.open \o s.pending = Append(s.open, s.pending[1]) /\ s.open \o s.pending \in Seq(Bodies)
  <2>1. PICK b \in Bodies : s.pending = <<b>>
    BY <1>2, <1>3 DEF Pendings, Bodies
  <2>2. s.open \o <<b>> = Append(s.open, b) /\ Append(s.open, b) \in Seq(Bodies) /\ <<b>>[1] = b
    BY <1>2, AppendProperties, AppendIsConcat
  <2> QED
    BY <2>1, <2>2
<1>4. ASSUME s.open # <<>>
      PROVE  /\ inner \in Seq(Bodies)
             /\ \A under \in Seq(Bodies), b \in Bodies :
                  s.open = Append(under, b) => inner = Append(under, Deeper(b, 1))
  <2>1. ASSUME NEW under \in Seq(Bodies), NEW b \in Bodies, s.open = Append(under, b)
        PROVE  inner = Append(under, Deeper(b, 1)) /\ inner \in Seq(Bodies)
    <3>1. b.inner + 1 \in Nat /\ 1 \in Int
      BY DEF Bodies
    <3>2. TopSays(under, b, 1, s.open)
      BY <2>1, <3>1, TopOf, Zenon
    <3> QED
      BY <3>2, Zenon DEF TopSays
  <2>2. PICK under \in Seq(Bodies), b \in Bodies : s.open = Append(under, b)
    BY <1>2, <1>4, Split
  <2>3. inner \in Seq(Bodies)
    BY <2>1, <2>2
  <2> QED
    BY <2>1, <2>3
<1>5. s.open = <<>> => inner = <<>>
  <2>1. Len(<<>>) = 0
    BY EmptySeq
  <2> QED
    BY <2>1
<1> HIDE DEF inner
<1>6. open \in Seq(Bodies)
  BY <1>2, <1>3, <1>4, <1>5
<1>7. /\ open = IF s.pending = <<>> THEN inner ELSE Append(s.open, s.pending[1])
  BY <1>3
<1> HIDE DEF open
<1>9. r \in Readings /\ r.open = open /\ r.pending = <<>> /\ r.closed = s.closed /\ (r.odd <=> s.odd \/ s.closed)
  BY <1>2, <1>6 DEF Readings, Pendings
<1> HIDE DEF r
<1>10. ASSUME NEW under \in Seq(Bodies), NEW b \in Bodies, s.open = Append(under, b)
       PROVE  inner = Append(under, Deeper(b, 1))
  <2>1. s.open # <<>>
    BY <1>10, AppendProperties
  <2> QED
    BY <1>4, <1>10, <2>1
<1>11. OpenBrace \in {OpenBrace, CloseBrace, Semicolon} /\ OpenBrace # CloseBrace /\ OpenBrace # Semicolon
  BY Marks, Zenon
<1> QED
  BY <1>1, <1>5, <1>7, <1>9, <1>10, <1>11, Zenon DEF TokenSays

\* A closing brace.
LEMMA ClosingSays ==
  ASSUME NEW s \in Readings
  PROVE  TokenSays(s, CloseBrace, ByText(s, CloseBrace))
<1> DEFINE top == Len(s.open)
           inner == IF top = 0 THEN s.open ELSE [s.open EXCEPT ![top].inner = @ + (-1)]
           ends == top # 0 /\ s.open[top].inner = 0
           open == IF ends THEN Front(s.open) ELSE inner
           r == [s EXCEPT !.open = open, !.closed = @ \/ ends,
                          !.odd = @ \/ s.pending # <<>> \/ (s.closed /\ top # 0)]
<1>1. ByText(s, CloseBrace) = r
  <2>1. OpenBrace # CloseBrace /\ CloseBrace # Semicolon
    BY Marks, Zenon
  <2> QED
    BY <2>1, Zenon DEF ByText, OpenBrace, CloseBrace, Semicolon
<1>2. s.open \in Seq(Bodies) /\ s.pending \in Pendings /\ s.closed \in BOOLEAN /\ s.odd \in BOOLEAN
  BY DEF Readings
<1>3. ASSUME NEW under \in Seq(Bodies), NEW b \in Bodies, s.open = Append(under, b)
      PROVE  /\ top # 0
             /\ open \in Seq(Bodies)
             /\ IF b.inner = 0 THEN open = under /\ ends
                ELSE open = Append(under, Deeper(b, -1)) /\ ~ends
  <2>1. 0 \in Int /\ -1 \in Int /\ b.inner \in Nat /\ b.inner + 0 \in Nat
    BY DEF Bodies
  <2>2. top # 0 /\ s.open[top] = b /\ Front(s.open) = under
    BY <1>3, <2>1, TopOf, Zenon DEF TopSays
  <2>3. CASE b.inner = 0
    BY <2>2, <2>3
  <2>4. CASE b.inner # 0
    <3>1. b.inner + (-1) \in Nat
      BY <2>1, <2>4
    <3>2. TopSays(under, b, -1, s.open)
      BY <1>3, <2>1, <3>1, TopOf, Zenon
    <3>3. inner = Append(under, Deeper(b, -1)) /\ inner \in Seq(Bodies)
      BY <2>2, <3>2, Zenon DEF TopSays
    <3> QED
      BY <2>2, <2>4, <3>3, Zenon
  <2> QED
    BY <2>3, <2>4
<1>4. ASSUME s.open = <<>> PROVE open = <<>> /\ ~ends /\ open \in Seq(Bodies)
  <2>1. Len(<<>>) = 0 /\ <<>> \in Seq(Bodies)
    BY EmptySeq
  <2> QED
    BY <1>4, <2>1
<1>5. ends \in BOOLEAN /\ (s.open # <<>> => top # 0)
  BY <1>2, EmptySeq
<1> HIDE DEF inner
<1>6. open \in Seq(Bodies)
  <2>1. CASE s.open # <<>>
    <3>1. PICK under \in Seq(Bodies), b \in Bodies : s.open = Append(under, b)
      BY <1>2, <2>1, Split
    <3> QED
      BY <1>3, <3>1, Zenon
  <2> QED
    BY <1>4, <2>1, Zenon
<1> HIDE DEF open, ends, top
<1>9. /\ r \in Readings /\ r.open = open /\ r.pending = s.pending
      /\ r.closed = (s.closed \/ ends)
      /\ (r.odd <=> s.odd \/ s.pending # <<>> \/ (s.closed /\ top # 0))
  BY <1>2, <1>5, <1>6 DEF Readings
<1> HIDE DEF r
<1>11. CloseBrace \in {OpenBrace, CloseBrace, Semicolon} /\ OpenBrace # CloseBrace /\ CloseBrace # Semicolon
  BY Marks, Zenon
<1>12. ~ends => r.closed = s.closed
  BY <1>2, <1>9
<1> QED
  BY <1>1, <1>3, <1>4, <1>5, <1>9, <1>11, <1>12, Zenon DEF TokenSays

\* What every token makes of a reading.
LEMMA ByTextSays ==
  ASSUME NEW s \in Readings, NEW t
  PROVE  TokenSays(s, t, ByText(s, t))
<1>1. CASE t = OpenBrace
  BY <1>1, OpeningSays
<1>2. CASE t = CloseBrace
  BY <1>2, ClosingSays
<1>3. CASE t = Semicolon
  <2>1. Semicolon # CloseBrace /\ Semicolon # OpenBrace
    BY Marks, Zenon
  <2> DEFINE r == [s EXCEPT !.pending = <<>>]
  <2>2. ByText(s, t) = r
    BY <1>3, <2>1, Zenon DEF ByText, OpenBrace, CloseBrace, Semicolon
  <2>3. r \in Readings /\ r.open = s.open /\ r.pending = <<>> /\ r.odd = s.odd /\ r.closed = s.closed
    BY DEF Readings, Pendings
  <2> HIDE DEF r
  <2>4. t \in {OpenBrace, CloseBrace, Semicolon}
    BY <1>3
  <2> QED
    BY <1>3, <2>1, <2>2, <2>3, <2>4, Zenon DEF TokenSays
<1>4. CASE t \notin {OpenBrace, CloseBrace, Semicolon}
  <2>1. t # OpenBrace /\ t # CloseBrace /\ t # Semicolon
    BY <1>4
  <2>2. ByText(s, t) = s
    BY <2>1, Zenon DEF ByText, OpenBrace, CloseBrace, Semicolon
  <2> QED
    BY <1>4, <2>1, <2>2, Zenon DEF TokenSays
<1> QED
  BY <1>1, <1>2, <1>3, <1>4

-------------------------------------------------------------------------------
(* The text, token by token and line by line *)

\* The readings along a line,
LEMMA TokensRead ==
  ASSUME NEW s \in Readings, NEW line \in Line
  PROVE  /\ TokensByText(s, line)[0] = s
         /\ \A k \in 1..Len(line) : TokensByText(s, line)[k] = ByText(TokensByText(s, line)[k - 1], line[k])
         /\ \A k \in 0..Len(line) : TokensByText(s, line)[k] \in Readings
<1> DEFINE X == Readings
           n == Len(line)
           Solves(h) == h = [k \in 0..n |-> IF k = 0 THEN s ELSE ByText(h[k - 1], line[k])]
           G == CHOOSE h : Solves(h)
           F == [p \in (1..n) \X X |-> ByText(p[2], line[p[1]])]
<1>1. n \in Nat
  BY LenProperties DEF Line
<1>2. ASSUME NEW r \in X, NEW k \in 1..n PROVE ByText(r, line[k]) \in X
  BY ByTextSays DEF TokenSays
<1>3. F \in [(1..n) \X X -> X]
  <2>1. \A p \in (1..n) \X X : ByText(p[2], line[p[1]]) \in X
    BY <1>2
  <2> QED
    BY <2>1
<1>4. \A k \in 1..n, r \in X : F[<<k, r>>] = ByText(r, line[k])
  OBVIOUS
<1> HIDE DEF F, X, n
<1>5. s \in X
  BY DEF X
<1>6. PICK g \in [0..n -> X] : g[0] = s /\ \A k \in 1..n : g[k] = F[<<k, g[k - 1]>>]
  <2>1. \E h : Recurs(h, n, X, s, F)
    BY <1>1, <1>3, <1>5, Recursion
  <2> QED
    BY <2>1 DEF Recurs
<1>7. \A k \in 1..n : g[k] = ByText(g[k - 1], line[k])
  <2> SUFFICES ASSUME NEW k \in 1..n PROVE g[k] = ByText(g[k - 1], line[k])
    OBVIOUS
  <2>1. g[k - 1] \in X
    BY <1>1
  <2> QED
    BY <1>4, <1>6, <2>1
<1>8. Solves(g)
  <2>1. ASSUME NEW k \in 0..n PROVE g[k] = IF k = 0 THEN s ELSE ByText(g[k - 1], line[k])
    <3>1. k = 0 \/ k \in 1..n
      BY <1>1
    <3> QED
      BY <3>1, <1>6, <1>7
  <2> QED
    BY <2>1
<1>9. Solves(G)
  <2> HIDE DEF Solves
  <2> QED
    BY <1>8, Zenon
<1>10. G = TokensByText(s, line)
  BY Zenon DEF TokensByText, n
<1> HIDE DEF G
<1>11. G[0] = s
  BY <1>1, <1>9
<1>12. \A k \in 1..n : G[k] = ByText(G[k - 1], line[k])
  <2>1. \A k \in 1..n : k \in 0..n /\ k # 0
    BY <1>1
  <2> QED
    BY <2>1, <1>9
<1> DEFINE T == {k \in 0..n : G[k] \in X}
<1>13. 0 \in T
  BY <1>1, <1>5, <1>11
<1>14. ASSUME NEW k \in 0..n - 1, k \in T PROVE k + 1 \in T
  <2>1. k + 1 \in 1..n /\ (k + 1) - 1 = k
    BY <1>1
  <2>2. G[k + 1] = ByText(G[k], line[k + 1]) /\ k + 1 \in 0..n
    BY <1>1, <1>12, <2>1
  <2> QED
    BY <1>2, <1>14, <2>1, <2>2
<1>15. \A k \in 0..n : k \in T
  <2> HIDE DEF T
  <2> QED
    BY <1>1, <1>13, <1>14, Upward
<1> QED
  BY <1>10, <1>11, <1>12, <1>15 DEF X, n

\* the one where it starts,
LEMMA HeadType ==
  ASSUME NEW s \in Readings, NEW line \in Line
  PROVE  LET h == HeadByText(s, line)
         IN /\ h \in Readings /\ h.open = s.open /\ ~h.closed
            /\ h.pending = IF DeclaresClass(line) THEN <<[name |-> ClassName(line), inner |-> 0]>> ELSE s.pending
            /\ h.odd <=> s.odd \/ (DeclaresClass(line) /\ s.pending # <<>>)
<1> DEFINE pending == IF DeclaresClass(line) THEN <<[name |-> ClassName(line), inner |-> 0]>> ELSE s.pending
           odd == s.odd \/ (DeclaresClass(line) /\ s.pending # <<>>)
           h == [s EXCEPT !.pending = pending, !.odd = odd, !.closed = FALSE]
<1>1. HeadByText(s, line) = h
  BY Zenon DEF HeadByText
<1>2. ClassName(line) \in Names
  BY DEF Names
<1>3. pending \in Pendings
  BY <1>2 DEF Readings, Pendings
<1>4. odd \in BOOLEAN
  BY DEF Readings
<1> HIDE DEF pending, odd
<1>5. h \in Readings /\ h.open = s.open /\ ~h.closed /\ h.pending = pending /\ h.odd = odd
  BY <1>3, <1>4 DEF Readings
<1> QED
  BY <1>1, <1>5, Zenon DEF pending, odd

\* What a line makes of a reading.
LineSaysOf(s, line, r) ==
  LET head == HeadByText(s, line)
      after == TokensByText(head, line)[Len(line)]
  IN /\ r \in Readings
     /\ r.open = after.open /\ r.pending = after.pending
     /\ r.odd <=> after.odd \/ (head.pending # <<>> /\ Has(line, Semicolon) /\ after.open # head.open)

\* the one where it ends,
LEMMA LineByTextSays ==
  ASSUME NEW s \in Readings, NEW line \in Line
  PROVE  LineSaysOf(s, line, LineByText(s, line))
<1> DEFINE head == HeadByText(s, line)
           after == TokensByText(head, line)[Len(line)]
           last == head.pending # <<>> /\ Has(line, Semicolon) /\ after.open # head.open
           r == [after EXCEPT !.odd = @ \/ last]
<1>1. LineByText(s, line) = r
  BY Zenon DEF LineByText, Semicolon
<1>2. head \in Readings
  BY HeadType
<1>3. Len(line) \in 0..Len(line)
  BY LenProperties DEF Line
<1> HIDE DEF head
<1>4. after \in Readings
  BY <1>2, <1>3, TokensRead
<1>5. last \in BOOLEAN
  OBVIOUS
<1> HIDE DEF after, last
<1>6. r \in Readings /\ r.open = after.open /\ r.pending = after.pending /\ (r.odd <=> after.odd \/ last)
  BY <1>4, <1>5 DEF Readings
<1> HIDE DEF r
<1> QED
  BY <1>1, <1>6, Zenon DEF LineSaysOf, after, last, head

\* and those along the text.
LEMMA LinesRead ==
  ASSUME NEW lines \in Seq(Line)
  PROVE  /\ OpenByText(lines)[0] = NothingOpen
         /\ \A k \in 1..Len(lines) : OpenByText(lines)[k] = LineByText(OpenByText(lines)[k - 1], lines[k])
         /\ \A k \in 0..Len(lines) : OpenByText(lines)[k] \in Readings
<1> DEFINE X == Readings
           n == Len(lines)
           Solves(h) == h = [k \in 0..n |-> IF k = 0 THEN NothingOpen ELSE LineByText(h[k - 1], lines[k])]
           G == CHOOSE h : Solves(h)
           F == [p \in (1..n) \X X |-> LineByText(p[2], lines[p[1]])]
<1>1. n \in Nat
  BY LenProperties
<1>2. ASSUME NEW r \in X, NEW k \in 1..n PROVE LineByText(r, lines[k]) \in X
  BY LineByTextSays, ElementOfSeq DEF LineSaysOf
<1>3. F \in [(1..n) \X X -> X]
  <2>1. \A p \in (1..n) \X X : LineByText(p[2], lines[p[1]]) \in X
    BY <1>2
  <2> QED
    BY <2>1
<1>4. \A k \in 1..n, r \in X : F[<<k, r>>] = LineByText(r, lines[k])
  OBVIOUS
<1> HIDE DEF F, X, n
<1>5. NothingOpen \in X
  BY EmptySeq DEF X, NothingOpen, Readings, Pendings
<1>6. PICK g \in [0..n -> X] : g[0] = NothingOpen /\ \A k \in 1..n : g[k] = F[<<k, g[k - 1]>>]
  <2>1. \E h : Recurs(h, n, X, NothingOpen, F)
    BY <1>1, <1>3, <1>5, Recursion
  <2> QED
    BY <2>1 DEF Recurs
<1>7. \A k \in 1..n : g[k] = LineByText(g[k - 1], lines[k])
  <2> SUFFICES ASSUME NEW k \in 1..n PROVE g[k] = LineByText(g[k - 1], lines[k])
    OBVIOUS
  <2>1. g[k - 1] \in X
    BY <1>1
  <2> QED
    BY <1>4, <1>6, <2>1
<1>8. Solves(g)
  <2>1. ASSUME NEW k \in 0..n PROVE g[k] = IF k = 0 THEN NothingOpen ELSE LineByText(g[k - 1], lines[k])
    <3>1. k = 0 \/ k \in 1..n
      BY <1>1
    <3> QED
      BY <3>1, <1>6, <1>7
  <2> QED
    BY <2>1
<1>9. Solves(G)
  <2> HIDE DEF Solves
  <2> QED
    BY <1>8, Zenon
<1>10. G = OpenByText(lines)
  BY Zenon DEF OpenByText, n
<1> HIDE DEF G
<1>11. G[0] = NothingOpen
  BY <1>1, <1>9
<1>12. \A k \in 1..n : G[k] = LineByText(G[k - 1], lines[k])
  <2>1. \A k \in 1..n : k \in 0..n /\ k # 0
    BY <1>1
  <2> QED
    BY <2>1, <1>9
<1> DEFINE T == {k \in 0..n : G[k] \in X}
<1>13. 0 \in T
  BY <1>1, <1>5, <1>11
<1>14. ASSUME NEW k \in 0..n - 1, k \in T PROVE k + 1 \in T
  <2>1. k + 1 \in 1..n /\ (k + 1) - 1 = k
    BY <1>1
  <2>2. G[k + 1] = LineByText(G[k], lines[k + 1]) /\ k + 1 \in 0..n
    BY <1>1, <1>12, <2>1
  <2> QED
    BY <1>2, <1>14, <2>1, <2>2
<1>15. \A k \in 0..n : k \in T
  <2> HIDE DEF T
  <2> QED
    BY <1>1, <1>13, <1>14, Upward
<1> QED
  BY <1>10, <1>11, <1>12, <1>15 DEF X, n

-------------------------------------------------------------------------------
(* The braces of a line *)

\* The places of a token among the first k.
Upto(line, t, k) == {i \in 1..k : line[i] = t}
\* How many braces more are open after k tokens.
Braces(line, k) == Cardinality(Upto(line, OpenBrace, k)) - Cardinality(Upto(line, CloseBrace, k))
Delta(t) == IF t = OpenBrace THEN 1 ELSE IF t = CloseBrace THEN -1 ELSE 0

\* One more token counts, or not,
LEMMA UptoMore ==
  ASSUME NEW line, NEW t, NEW k \in Nat
  PROVE  /\ IsFiniteSet(Upto(line, t, k))
         /\ Cardinality(Upto(line, t, k)) \in Nat
         /\ Cardinality(Upto(line, t, 0)) = 0
         /\ Cardinality(Upto(line, t, k + 1))
              = IF line[k + 1] = t THEN Cardinality(Upto(line, t, k)) + 1 ELSE Cardinality(Upto(line, t, k))
<1>1. IsFiniteSet(Upto(line, t, k))
  <2>1. Upto(line, t, k) \subseteq 1..k
    BY DEF Upto
  <2>2. IsFiniteSet(1..k)
    BY FS_Interval
  <2> QED
    BY <2>1, <2>2, FS_Subset
<1>2. Upto(line, t, 0) = {}
  BY DEF Upto
<1>3. \A i : i \in 1..k + 1 <=> i \in 1..k \/ i = k + 1
  OBVIOUS
<1>4. CASE line[k + 1] = t
  <2>1. Upto(line, t, k + 1) = Upto(line, t, k) \cup {k + 1}
    BY <1>3, <1>4 DEF Upto
  <2>2. k + 1 \notin Upto(line, t, k)
    BY DEF Upto
  <2> QED
    <3>1. Cardinality(Upto(line, t, k + 1)) = Cardinality(Upto(line, t, k)) + 1
      BY <1>1, <2>1, <2>2, FS_AddElement
    <3>2. Cardinality(Upto(line, t, 0)) = 0
      BY <1>2, FS_EmptySet
    <3>3. Cardinality(Upto(line, t, k)) \in Nat
      BY <1>1, FS_CardinalityType
    <3> QED
      BY <1>1, <1>4, <3>1, <3>2, <3>3
<1>5. CASE line[k + 1] # t
  <2>1. Upto(line, t, k + 1) = Upto(line, t, k)
    BY <1>3, <1>5 DEF Upto
  <2> QED
    BY <1>1, <1>2, <1>5, <2>1, FS_EmptySet, FS_CardinalityType
<1> QED
  BY <1>4, <1>5

\* and so makes one brace more, one less, or none:
LEMMA DeltaIs ==
  ASSUME NEW t, NEW d \in Int
  PROVE  /\ Delta(t) \in Int
         /\ t = OpenBrace => d + Delta(t) = d + 1
         /\ t = CloseBrace => d + Delta(t) = d + (-1)
         /\ t \notin {OpenBrace, CloseBrace} => d + Delta(t) = d
<1>1. /\ t = OpenBrace => Delta(t) = 1
      /\ t = CloseBrace => Delta(t) = -1
      /\ t \notin {OpenBrace, CloseBrace} => Delta(t) = 0
  <2>1. OpenBrace # CloseBrace
    BY Marks, Zenon
  <2> QED
    BY <2>1, Zenon DEF Delta
<1>2. ASSUME NEW n \in Int, Delta(t) = n PROVE Delta(t) \in Int /\ d + Delta(t) = d + n
  BY <1>2
<1>3. 1 \in Int /\ -1 \in Int /\ 0 \in Int /\ d + 0 = d
  OBVIOUS
<1>4. Delta(t) \in Int
  BY <1>1, <1>3, Zenon
<1> QED
  BY <1>1, <1>2, <1>3, <1>4, Zenon

\* a line makes as many as the checker counts on it.
LEMMA BracesMore ==
  ASSUME NEW line \in Line
  PROVE  /\ Len(line) \in Nat
         /\ \A k \in Nat : Braces(line, k) \in Int /\ Braces(line, k + 1) = Braces(line, k) + Delta(line[k + 1])
         /\ Braces(line, 0) = 0
         /\ Braces(line, Len(line)) = TokenCount(line, "{") - TokenCount(line, "}")
         /\ \A t : Has(line, t) <=> \E i \in 1..Len(line) : line[i] = t
<1>1. Len(line) \in Nat /\ DOMAIN line = 1..Len(line)
  BY LenProperties DEF Line
<1>2. ASSUME NEW k \in Nat
      PROVE  Braces(line, k) \in Int /\ Braces(line, k + 1) = Braces(line, k) + Delta(line[k + 1])
  <2> DEFINE o == Cardinality(Upto(line, OpenBrace, k))
             c == Cardinality(Upto(line, CloseBrace, k))
             p == Cardinality(Upto(line, OpenBrace, k + 1))
             q == Cardinality(Upto(line, CloseBrace, k + 1))
             t == line[k + 1]
  <2>1. /\ o \in Nat /\ c \in Nat
        /\ p = IF t = OpenBrace THEN o + 1 ELSE o
        /\ q = IF t = CloseBrace THEN c + 1 ELSE c
    <3>1. o \in Nat /\ p = IF t = OpenBrace THEN o + 1 ELSE o
      BY UptoMore
    <3>2. c \in Nat /\ q = IF t = CloseBrace THEN c + 1 ELSE c
      BY UptoMore
    <3> QED
      BY <3>1, <3>2
  <2>2. Braces(line, k) = o - c /\ Braces(line, k + 1) = p - q
    BY DEF Braces
  <2> HIDE DEF o, c, p, q, t
  <2>3. p \in Nat /\ q \in Nat /\ \/ t = OpenBrace /\ p = o + 1 /\ q = c
                                  \/ t = CloseBrace /\ p = o /\ q = c + 1
                                  \/ t \notin {OpenBrace, CloseBrace} /\ p = o /\ q = c
    <3>1. o + 1 \in Nat /\ c + 1 \in Nat
      BY <2>1
    <3>2. OpenBrace # CloseBrace
      BY Marks, Zenon
    <3> QED
      BY <2>1, <3>1, <3>2, Zenon
  <2>4. o - c \in Int /\ p - q = o - c + Delta(t)
    <3>1. o - c \in Int
      BY <2>1
    <3>2. CASE t = OpenBrace
      <4>1. p = o + 1 /\ q = c /\ (o - c) + Delta(t) = (o - c) + 1
        BY <2>3, <3>1, <3>2, Marks, DeltaIs, Zenon
      <4>2. (o + 1) - c = (o - c) + 1
        BY <2>1
      <4> QED
        BY <3>1, <4>1, <4>2, Zenon
    <3>3. CASE t = CloseBrace
      <4>1. p = o /\ q = c + 1 /\ (o - c) + Delta(t) = (o - c) + (-1)
        BY <2>3, <3>1, <3>3, Marks, DeltaIs, Zenon
      <4>2. o - (c + 1) = (o - c) + (-1)
        BY <2>1
      <4> QED
        BY <3>1, <4>1, <4>2, Zenon
    <3>4. CASE t \notin {OpenBrace, CloseBrace}
      <4>1. p = o /\ q = c /\ (o - c) + Delta(t) = o - c
        BY <2>3, <3>1, <3>4, DeltaIs, Zenon
      <4> QED
        BY <3>1, <4>1, Zenon
    <3> QED
      BY <3>2, <3>3, <3>4, Zenon
  <2> QED
    BY <2>2, <2>4 DEF t
<1>3. Braces(line, 0) = 0
  <2>1. Upto(line, OpenBrace, 0) = {} /\ Upto(line, CloseBrace, 0) = {}
    BY DEF Upto
  <2>2. Cardinality({}) = 0
    BY FS_EmptySet
  <2>3. Braces(line, 0) = Cardinality({}) - Cardinality({})
    BY <2>1, Zenon DEF Braces
  <2> QED
    BY <2>2, <2>3
<1>4. Braces(line, Len(line)) = TokenCount(line, "{") - TokenCount(line, "}")
  BY <1>1, Zenon DEF Braces, TokenCount, Upto, OpenBrace, CloseBrace
<1>5. \A t : Has(line, t) <=> \E i \in 1..Len(line) : line[i] = t
  BY <1>1 DEF Has, ToSet
<1> QED
  BY <1>1, <1>2, <1>3, <1>4, <1>5

-------------------------------------------------------------------------------
(* What a line does to the class that reads it *)

\* A class with d braces open, its own among them, on top of these; or it ended on this line.
Phase(r, under, c, d) ==
  /\ r.pending = <<>>
  /\ IF d >= 1 THEN ~r.closed /\ r.open = Append(under, [name |-> c, inner |-> d - 1])
     ELSE r.closed /\ r.open = under

\* A token of it.
LEMMA PhaseStep ==
  ASSUME NEW s \in Readings, NEW under \in Seq(Bodies), NEW c \in Names, NEW d \in Int,
         Phase(s, under, c, d), NEW t, ~ByText(s, t).odd
  PROVE  Phase(ByText(s, t), under, c, d + Delta(t))
<1> DEFINE r == ByText(s, t)
           b == [name |-> c, inner |-> d - 1]
<1>1. TokenSays(s, t, r) /\ ~r.odd
  BY ByTextSays
<1> HIDE DEF r
<1>2. OpenBrace # CloseBrace /\ OpenBrace # Semicolon /\ CloseBrace # Semicolon
  BY Marks, Zenon
<1>3. s.closed \in BOOLEAN
  BY DEF Readings
<1>4. CASE d >= 1
  <2>1. ~s.closed /\ s.pending = <<>> /\ s.open = Append(under, b)
    BY <1>4 DEF Phase
  <2>2. b \in Bodies /\ b.inner = d - 1
    BY <1>4 DEF Bodies
  <2>3. Deeper(b, 1) = [name |-> c, inner |-> (d + 1) - 1] /\ Deeper(b, -1) = [name |-> c, inner |-> (d + (-1)) - 1]
    BY DEF Deeper
  <2> HIDE DEF b
  <2>4. CASE t = OpenBrace
    <3>1. r.pending = <<>> /\ r.closed = s.closed /\ r.open = Append(under, Deeper(b, 1))
      BY <1>1, <2>1, <2>2, <2>4, Marks, Zenon DEF TokenSays
    <3>2. d + Delta(t) = d + 1 /\ d + 1 >= 1
      <4>1. d + Delta(t) = d + 1
        BY <2>4, DeltaIs, Zenon
      <4>2. d + 1 >= 1
        BY <1>4
      <4> QED
        BY <4>1, <4>2
    <3> QED
      BY <2>1, <2>3, <3>1, <3>2 DEF Phase, r
  <2>5. CASE t = CloseBrace
    <3>1. /\ r.pending = <<>>
          /\ IF b.inner = 0 THEN r.open = under /\ r.closed
             ELSE r.open = Append(under, Deeper(b, -1)) /\ r.closed = s.closed
      BY <1>1, <2>1, <2>2, <2>5, Marks, Zenon DEF TokenSays
    <3>2. d + Delta(t) = d + (-1)
      BY <2>5, DeltaIs
    <3>3. CASE d = 1
      <4>1. b.inner = 0 /\ ~(d + (-1) >= 1)
        BY <2>2, <3>3
      <4> QED
        BY <3>1, <3>2, <4>1 DEF Phase, r
    <3>4. CASE d # 1
      <4>1. b.inner # 0 /\ d + (-1) >= 1
        BY <1>4, <2>2, <3>4
      <4> QED
        BY <2>1, <2>3, <3>1, <3>2, <4>1 DEF Phase, r
    <3> QED
      BY <3>3, <3>4
  <2>6. CASE t \notin {OpenBrace, CloseBrace}
    <3>1. r.pending = <<>> /\ r.open = s.open /\ r.closed = s.closed
      BY <1>1, <2>1, <2>6 DEF TokenSays
    <3>2. d + Delta(t) = d
      BY <2>6, DeltaIs
    <3> QED
      BY <1>4, <2>1, <3>1, <3>2 DEF Phase, r, b
  <2> QED
    BY <2>4, <2>5, <2>6
<1>5. CASE ~(d >= 1)
  <2>1. s.closed /\ s.pending = <<>> /\ s.open = under
    BY <1>5 DEF Phase
  <2>2. CASE t = OpenBrace
    BY <1>1, <2>1, <2>2, Zenon DEF TokenSays
  <2>3. CASE t = CloseBrace
    <3>1. s.open = <<>>
      BY <1>1, <2>1, <2>3, Zenon DEF TokenSays
    <3>2. r.open = <<>> /\ r.closed = s.closed /\ r.pending = <<>>
      BY <1>1, <2>1, <2>3, <3>1, Zenon DEF TokenSays
    <3>3. ~(d + Delta(t) >= 1)
      <4>1. d + Delta(t) = d + (-1)
        BY <2>3, DeltaIs
      <4> QED
        BY <1>5, <4>1
    <3> QED
      BY <2>1, <3>1, <3>2, <3>3 DEF Phase, r
  <2>4. CASE t \notin {OpenBrace, CloseBrace}
    <3>1. r.pending = <<>> /\ r.open = s.open /\ r.closed = s.closed
      BY <1>1, <2>1, <2>4 DEF TokenSays
    <3>2. d + Delta(t) = d
      BY <2>4, DeltaIs
    <3> QED
      BY <1>5, <2>1, <3>1, <3>2 DEF Phase, r
  <2> QED
    BY <2>2, <2>3, <2>4
<1> QED
  BY <1>4, <1>5

-------------------------------------------------------------------------------
(* A whole line *)

\* The next token of a line.
LEMMA NextToken ==
  ASSUME NEW h \in Readings, NEW line \in Line, NEW k \in 0..Len(line) - 1
  PROVE  LET T == TokensByText(h, line)
         IN /\ k + 1 \in 1..Len(line) /\ k \in Nat
            /\ T[k] \in Readings
            /\ T[k + 1] = ByText(T[k], line[k + 1])
            /\ TokenSays(T[k], line[k + 1], T[k + 1])
<1> DEFINE T == TokensByText(h, line)
<1>1. Len(line) \in Nat
  BY BracesMore
<1>2. k + 1 \in 1..Len(line) /\ k \in 0..Len(line) /\ (k + 1) - 1 = k
  BY <1>1
<1> HIDE DEF T
<1>3. T[k] \in Readings /\ T[k + 1] = ByText(T[k], line[k + 1])
  <2>1. /\ \A j \in 1..Len(line) : T[j] = ByText(T[j - 1], line[j])
        /\ \A j \in 0..Len(line) : T[j] \in Readings
    BY TokensRead DEF T
  <2>2. T[k + 1] = ByText(T[(k + 1) - 1], line[k + 1])
    BY <1>2, <2>1
  <2> QED
    BY <1>2, <2>1, <2>2
<1>4. TokenSays(T[k], line[k + 1], ByText(T[k], line[k + 1]))
  BY <1>3, ByTextSays
<1> QED
  BY <1>2, <1>3, <1>4 DEF T

\* The class on top reads a line.
LEMMA ClassReads ==
  ASSUME NEW h \in Readings, NEW line \in Line, NEW under \in Seq(Bodies), NEW c \in Names, NEW d \in Int,
         Phase(h, under, c, d), NEW r, r = TokensByText(h, line)[Len(line)], ~r.odd
  PROVE  Phase(r, under, c, d + Braces(line, Len(line)))
<1> DEFINE T == TokensByText(h, line)
           n == Len(line)
           S == {k \in 0..n : T[k].odd \/ Phase(T[k], under, c, d + Braces(line, k))}
<1>1. n \in Nat /\ Braces(line, 0) = 0
  BY BracesMore
<1>2. 0 \in S
  <2>1. T[0] = h
    BY TokensRead
  <2>2. d + Braces(line, 0) = d
    BY <1>1
  <2>3. 0 \in 0..n
    BY <1>1
  <2> QED
    BY <2>1, <2>2, <2>3
<1>3. ASSUME NEW k \in 0..n - 1, k \in S PROVE k + 1 \in S
  <2> HIDE DEF T
  <2>1. /\ k + 1 \in 1..n /\ k \in Nat
        /\ T[k] \in Readings
        /\ T[k + 1] = ByText(T[k], line[k + 1])
        /\ TokenSays(T[k], line[k + 1], T[k + 1])
    BY NextToken DEF T
  <2>2. k + 1 \in 0..n
    BY <2>1
  <2>3. ASSUME ~T[k + 1].odd PROVE Phase(T[k + 1], under, c, d + Braces(line, k + 1))
    <3>1. ~T[k].odd
      BY <2>1, <2>3, Zenon DEF TokenSays
    <3>2. Phase(T[k], under, c, d + Braces(line, k))
      BY <1>3, <3>1
    <3>3. /\ Braces(line, k) \in Int
          /\ Braces(line, k + 1) = Braces(line, k) + Delta(line[k + 1])
          /\ Delta(line[k + 1]) \in Int
      BY <2>1, BracesMore, DeltaIs
    <3>4. /\ d + Braces(line, k) \in Int
          /\ d + Braces(line, k + 1) = (d + Braces(line, k)) + Delta(line[k + 1])
      BY <3>3
    <3>5. ~ByText(T[k], line[k + 1]).odd
      BY <2>1, <2>3, Zenon
    <3>6. Phase(ByText(T[k], line[k + 1]), under, c, (d + Braces(line, k)) + Delta(line[k + 1]))
      BY <2>1, <3>2, <3>4, <3>5, PhaseStep
    <3> QED
      BY <2>1, <3>4, <3>6, Zenon
  <2> QED
    BY <2>2, <2>3
<1>4. \A k \in 0..n : k \in S
  <2> HIDE DEF S, n
  <2> QED
    BY <1>1, <1>2, <1>3, Upward
<1>5. n \in S
  <2>1. n \in 0..n
    BY <1>1
  <2> HIDE DEF S, n
  <2> QED
    BY <1>4, <2>1
<1> QED
  BY <1>5

\* A class whose brace did not come yet reads a line.
HeadPhase(r, h, c, line, k) ==
  IF \E i \in 1..k : line[i] = OpenBrace THEN Phase(r, h.open, c, Braces(line, k))
  ELSE r.open = h.open /\ r.pending = h.pending /\ ~r.closed /\ Braces(line, k) = 0

\* Its line, without a semicolon.
LEMMA HeadReads ==
  ASSUME NEW h \in Readings, NEW line \in Line, NEW c \in Names,
         h.pending = <<[name |-> c, inner |-> 0]>>, ~h.closed, ~Has(line, Semicolon),
         NEW r, r = TokensByText(h, line)[Len(line)], ~r.odd
  PROVE  HeadPhase(r, h, c, line, Len(line))
<1> DEFINE T == TokensByText(h, line)
           n == Len(line)
           S == {k \in 0..n : T[k].odd \/ HeadPhase(T[k], h, c, line, k)}
<1>1. n \in Nat /\ Braces(line, 0) = 0 /\ \A i \in 1..n : line[i] # Semicolon
  BY BracesMore
<1>2. 0 \in S
  <2>1. T[0] = h
    BY TokensRead
  <2> HIDE DEF T
  <2>2. 0 \in 0..n /\ ~(\E i \in 1..0 : line[i] = OpenBrace)
    BY <1>1
  <2>3. HeadPhase(T[0], h, c, line, 0)
    BY <1>1, <2>1, <2>2, Zenon DEF HeadPhase
  <2> QED
    BY <2>2, <2>3
<1>3. ASSUME NEW k \in 0..n - 1, k \in S PROVE k + 1 \in S
  <2> HIDE DEF T
  <2> DEFINE s == T[k]
             t == line[k + 1]
             u == T[k + 1]
  <2>1. /\ k + 1 \in 1..n /\ k \in Nat
        /\ s \in Readings
        /\ u = ByText(s, t)
        /\ TokenSays(s, t, u)
    BY NextToken DEF T
  <2>2. k + 1 \in 0..n /\ \A i : i \in 1..k + 1 <=> i \in 1..k \/ i = k + 1
    BY <2>1
  <2>3. /\ Braces(line, k) \in Int
        /\ Braces(line, k + 1) = Braces(line, k) + Delta(t)
        /\ Delta(t) \in Int
    BY <2>1, BracesMore, DeltaIs
  <2>4. ASSUME ~u.odd PROVE HeadPhase(u, h, c, line, k + 1)
    <3>1. ~s.odd
      BY <2>1, <2>4, Zenon DEF TokenSays
    <3>2. HeadPhase(s, h, c, line, k)
      BY <1>3, <3>1
    <3>3. t # Semicolon
      BY <1>1, <2>1
    <3>4. (\E i \in 1..k + 1 : line[i] = OpenBrace) <=> (\E i \in 1..k : line[i] = OpenBrace) \/ t = OpenBrace
      BY <2>2
    <3> HIDE DEF s, t, u
    <3>5. CASE \E i \in 1..k : line[i] = OpenBrace
      <4>1. Phase(s, h.open, c, Braces(line, k))
        BY <3>2, <3>5, Zenon DEF HeadPhase
      <4>2. h.open \in Seq(Bodies) /\ ~ByText(s, t).odd
        BY <2>1, <2>4 DEF Readings
      <4>3. Phase(u, h.open, c, Braces(line, k) + Delta(t))
        BY <2>1, <2>3, <4>1, <4>2, PhaseStep
      <4> QED
        BY <2>3, <3>4, <3>5, <4>3, Zenon DEF HeadPhase
    <3>6. CASE ~(\E i \in 1..k : line[i] = OpenBrace)
      <4>1. s.open = h.open /\ s.pending = h.pending /\ ~s.closed /\ Braces(line, k) = 0
        BY <3>2, <3>6, Zenon DEF HeadPhase
      <4>2. s.pending # <<>> /\ s.pending[1] = [name |-> c, inner |-> 0]
        BY <4>1
      <4>3. CASE t = OpenBrace
        <5>1. u.pending = <<>> /\ u.closed = s.closed /\ u.open = Append(s.open, s.pending[1])
          BY <2>1, <4>2, <4>3, Zenon DEF TokenSays
        <5>2. Braces(line, k + 1) = 1
          <6>1. Braces(line, k + 1) = Braces(line, k) + 1
            BY <2>3, <4>3, DeltaIs
          <6> QED
            BY <4>1, <6>1
        <5>3. 1 >= 1 /\ 1 - 1 = 0
          OBVIOUS
        <5>4. Phase(u, h.open, c, Braces(line, k + 1))
          BY <4>1, <4>2, <5>1, <5>2, <5>3 DEF Phase
        <5> QED
          BY <3>4, <4>3, <5>4, Zenon DEF HeadPhase
      <4>4. CASE t = CloseBrace
        BY <2>1, <2>4, <4>2, <4>4, Zenon DEF TokenSays
      <4>5. CASE t \notin {OpenBrace, CloseBrace}
        <5>1. u = s
          BY <2>1, <3>3, <4>5 DEF TokenSays
        <5>2. Braces(line, k + 1) = 0
          <6>1. Braces(line, k + 1) = Braces(line, k)
            BY <2>3, <4>5, DeltaIs
          <6> QED
            BY <4>1, <6>1
        <5>3. ~(\E i \in 1..k + 1 : line[i] = OpenBrace)
          BY <3>4, <3>6, <4>5
        <5> QED
          BY <4>1, <5>1, <5>2, <5>3, Zenon DEF HeadPhase
      <4> QED
        BY <4>3, <4>4, <4>5
    <3> QED
      BY <3>5, <3>6
  <2> QED
    BY <2>2, <2>4
<1>4. \A k \in 0..n : k \in S
  <2> HIDE DEF S, n
  <2> QED
    BY <1>1, <1>2, <1>3, Upward
<1>5. n \in S
  <2>1. n \in 0..n
    BY <1>1
  <2> HIDE DEF S, n
  <2> QED
    BY <1>4, <2>1
<1> QED
  BY <1>5

\* Where no class is open, none is after a line.
LEMMA NoneReads ==
  ASSUME NEW h \in Readings, NEW line \in Line, h.open = <<>>, h.pending = <<>>,
         NEW r, r = TokensByText(h, line)[Len(line)]
  PROVE  r.open = <<>> /\ r.pending = <<>>
<1> DEFINE T == TokensByText(h, line)
           n == Len(line)
           S == {k \in 0..n : T[k].open = <<>> /\ T[k].pending = <<>>}
<1>1. n \in Nat
  BY BracesMore
<1>2. 0 \in S
  <2>1. T[0] = h /\ 0 \in 0..n
    BY <1>1, TokensRead
  <2> QED
    BY <2>1
<1>3. ASSUME NEW k \in 0..n - 1, k \in S PROVE k + 1 \in S
  <2> HIDE DEF T
  <2> DEFINE s == T[k]
             t == line[k + 1]
             u == T[k + 1]
  <2>1. k + 1 \in 1..n /\ TokenSays(s, t, u)
    BY NextToken DEF T
  <2>2. k + 1 \in 0..n
    BY <2>1
  <2>3. s.open = <<>> /\ s.pending = <<>>
    BY <1>3
  <2> HIDE DEF s, t, u
  <2>4. u.open = <<>> /\ u.pending = <<>>
    <3>1. CASE t = OpenBrace
      BY <2>1, <2>3, <3>1, Zenon DEF TokenSays
    <3>2. CASE t = CloseBrace
      BY <2>1, <2>3, <3>2, Zenon DEF TokenSays
    <3>3. CASE t = Semicolon
      BY <2>1, <2>3, <3>3, Zenon DEF TokenSays
    <3>4. CASE t \notin {OpenBrace, CloseBrace, Semicolon}
      BY <2>1, <2>3, <3>4, Zenon DEF TokenSays
    <3> QED
      BY <3>1, <3>2, <3>3, <3>4
  <2> QED
    BY <2>2, <2>4 DEF u
<1>4. \A k \in 0..n : k \in S
  <2> HIDE DEF S, n
  <2> QED
    BY <1>1, <1>2, <1>3, Upward
<1>5. n \in S
  <2>1. n \in 0..n
    BY <1>1
  <2> HIDE DEF S, n
  <2> QED
    BY <1>4, <2>1
<1> QED
  BY <1>5

\* After a semicolon nothing is pending.
LEMMA SemicolonReads ==
  ASSUME NEW h \in Readings, NEW line \in Line, Has(line, Semicolon),
         NEW r, r = TokensByText(h, line)[Len(line)]
  PROVE  r.pending = <<>>
<1> DEFINE T == TokensByText(h, line)
           n == Len(line)
           S == {k \in 0..n : (\E i \in 1..k : line[i] = Semicolon) => T[k].pending = <<>>}
<1>1. n \in Nat /\ \E i \in 1..n : line[i] = Semicolon
  BY BracesMore
<1>2. 0 \in S
  BY <1>1
<1>3. ASSUME NEW k \in 0..n - 1, k \in S PROVE k + 1 \in S
  <2> HIDE DEF T
  <2> DEFINE s == T[k]
             t == line[k + 1]
             u == T[k + 1]
  <2>1. k + 1 \in 1..n /\ k \in Nat /\ TokenSays(s, t, u)
    BY NextToken DEF T
  <2>2. k + 1 \in 0..n /\ \A i : i \in 1..k + 1 <=> i \in 1..k \/ i = k + 1
    BY <2>1
  <2>3. ASSUME \E i \in 1..k + 1 : line[i] = Semicolon PROVE u.pending = <<>>
    <3>1. t = Semicolon \/ s.pending = <<>>
      BY <1>3, <2>2, <2>3
    <3> HIDE DEF s, t, u
    <3>2. CASE t = OpenBrace
      BY <2>1, <3>2, Zenon DEF TokenSays
    <3>3. CASE t = CloseBrace
      BY <2>1, <3>1, <3>3, Marks, Zenon DEF TokenSays
    <3>4. CASE t = Semicolon
      BY <2>1, <3>4, Zenon DEF TokenSays
    <3>5. CASE t \notin {OpenBrace, CloseBrace, Semicolon}
      BY <2>1, <3>1, <3>5, Zenon DEF TokenSays
    <3> QED
      BY <3>2, <3>3, <3>4, <3>5
  <2> QED
    BY <2>2, <2>3
<1>4. \A k \in 0..n : k \in S
  <2> HIDE DEF S, n
  <2> QED
    BY <1>1, <1>2, <1>3, Upward
<1>5. n \in S
  <2>1. n \in 0..n
    BY <1>1
  <2> HIDE DEF S, n
  <2> QED
    BY <1>4, <2>1
<1> QED
  BY <1>1, <1>5

-------------------------------------------------------------------------------
(* The stack of classes *)

\* What is on the stack for a class that is open, and for one whose brace did not come yet.
Fields(info) == {"name", "opened", "depth"} \subseteq DOMAIN info
OpenAs(info, b) == Fields(info) /\ info.name = b.name /\ info.opened /\ info.depth = b.inner + 1
HeadAs(info, b) == Fields(info) /\ info.name = b.name /\ ~info.opened /\ info.depth = 0

StackOf(stack, open) == Len(stack) = Len(open) /\ \A k \in 1..Len(open) : OpenAs(stack[k], open[k])
\* The stack is that of a reading.
StackIs(stack, s) ==
  IF s.pending = <<>> THEN StackOf(stack, s.open)
  ELSE stack # <<>> /\ HeadAs(Last(stack), s.pending[1]) /\ StackOf(Front(stack), s.open)

\* Nothing is on the stack when nothing is open.
LEMMA StackEmpty ==
  ASSUME NEW S, NEW stack, ClassesOK(stack, S), NEW open \in Seq(Bodies), StackOf(stack, open)
  PROVE  stack = <<>> <=> open = <<>>
BY EmptySeq DEF ClassesOK, StackOf

\* A class that opens on top.
LEMMA StackPush ==
  ASSUME NEW S, NEW stack, ClassesOK(stack, S), NEW open \in Seq(Bodies), StackOf(stack, open),
         NEW info, NEW b \in Bodies, OpenAs(info, b)
  PROVE  StackOf(Append(stack, info), Append(open, b))
<1> DEFINE X == ToSet(stack) \cup {info}
           n == Len(stack)
<1>1. stack \in Seq(X) /\ info \in X /\ n \in Nat
  BY SeqMonotonic, LenProperties DEF ClassesOK
<1> HIDE DEF X
<1>2. /\ Len(Append(stack, info)) = n + 1 /\ Append(stack, info)[n + 1] = info
      /\ \A k \in 1..n : Append(stack, info)[k] = stack[k]
  BY <1>1, AppendProperties
<1>3. n = Len(open) /\ \A k \in 1..n : OpenAs(stack[k], open[k])
  BY DEF StackOf
<1>4. /\ Len(Append(open, b)) = n + 1 /\ Append(open, b)[n + 1] = b
      /\ \A k \in 1..n : Append(open, b)[k] = open[k]
  BY <1>3, AppendProperties
<1> DEFINE p == Append(stack, info)
           q == Append(open, b)
<1>5. ASSUME NEW k \in 1..n + 1 PROVE OpenAs(p[k], q[k])
  <2>1. k = n + 1 \/ k \in 1..n
    BY <1>1
  <2> HIDE DEF p, q, n
  <2> QED
    BY <1>2, <1>3, <1>4, <2>1, Zenon DEF p, q
<1> HIDE DEF p, q
<1> QED
  BY <1>2, <1>4, <1>5 DEF StackOf, p, q

\* The stack without the class on top.
LEMMA FrontIs ==
  ASSUME NEW S, NEW stack, ClassesOK(stack, S), stack # <<>>
  PROVE  LET n == Len(stack)
         IN /\ n - 1 \in Nat /\ Len(Front(stack)) = n - 1
            /\ \A k \in 1..n - 1 : Front(stack)[k] = stack[k]
<1> DEFINE n == Len(stack)
           m == n - 1
           f == Front(stack)
<1>1. n \in Nat \ {0} /\ DOMAIN stack = 1..n /\ m \in Nat
  BY EmptySeq, LenProperties DEF ClassesOK
<1>2. \A i \in 1..m : stack[i] \in ToSet(stack)
  BY <1>1 DEF ToSet
<1>3. f = SubSeq(stack, 1, m)
  BY DEF Front
<1>4. /\ Len(SubSeq(stack, 1, m)) = IF 1 <= m THEN m - 1 + 1 ELSE 0
      /\ \A i \in 1..m - 1 + 1 : SubSeq(stack, 1, m)[i] = stack[1 + i - 1]
  BY <1>1, <1>2, SubSeqProperties
<1> HIDE DEF f, m
<1>5. Len(f) = m
  BY <1>1, <1>3, <1>4
<1>6. ASSUME NEW k \in 1..m PROVE f[k] = stack[k]
  <2>1. k \in 1..m - 1 + 1 /\ 1 + k - 1 = k
    BY <1>1
  <2> QED
    BY <1>3, <1>4, <2>1
<1> QED
  BY <1>1, <1>5, <1>6 DEF f, m

\* A stack whose top ends.
LEMMA StackPop ==
  ASSUME NEW S, NEW stack, ClassesOK(stack, S), NEW under \in Seq(Bodies), NEW b \in Bodies,
         StackOf(stack, Append(under, b))
  PROVE  stack # <<>> /\ StackOf(Front(stack), under) /\ OpenAs(Last(stack), b)
<1> DEFINE q == Append(under, b)
           n == Len(under)
<1>1. /\ n \in Nat /\ Len(q) = n + 1 /\ q[n + 1] = b
      /\ \A k \in 1..n : q[k] = under[k]
  BY AppendProperties, LenProperties
<1>2. Len(stack) = n + 1 /\ \A k \in 1..n + 1 : OpenAs(stack[k], q[k])
  BY <1>1 DEF StackOf
<1> HIDE DEF q
<1>3. stack # <<>>
  BY <1>1, <1>2, EmptySeq
<1> DEFINE f == Front(stack)
<1>5. Len(f) = n /\ \A k \in 1..n : f[k] = stack[k]
  <2> DEFINE m == Len(stack) - 1
  <2>1. Len(f) = m /\ \A k \in 1..m : f[k] = stack[k]
    BY <1>3, FrontIs
  <2>2. m = n
    BY <1>1, <1>2
  <2> HIDE DEF m, n, f
  <2> QED
    BY <2>1, <2>2
<1>6. ASSUME NEW k \in 1..n PROVE OpenAs(f[k], under[k])
  <2>1. k \in 1..n + 1
    BY <1>1
  <2> HIDE DEF f, n
  <2> QED
    BY <1>1, <1>2, <1>5, <2>1, Zenon
<1>7. OpenAs(Last(stack), b)
  <2>1. n + 1 \in 1..n + 1
    BY <1>1
  <2> HIDE DEF n
  <2> QED
    BY <1>1, <1>2, <2>1, Zenon DEF Last
<1> HIDE DEF f, n
<1> QED
  BY <1>3, <1>5, <1>6, <1>7 DEF StackOf, f, n

\* A class that is popped when it was just pushed.
LEMMA FrontOfPush ==
  ASSUME NEW S, NEW stack, ClassesOK(stack, S), NEW info
  PROVE  Front(Append(stack, info)) = stack
<1> DEFINE X == ToSet(stack) \cup {info}
           n == Len(stack)
           p == Append(stack, info)
<1>1. stack \in Seq(X) /\ info \in X /\ n \in Nat
  BY SeqMonotonic, LenProperties DEF ClassesOK
<1> HIDE DEF X
<1>2. p \in Seq(X) /\ Len(p) = n + 1 /\ \A k \in 1..n : p[k] = stack[k]
  BY <1>1, AppendProperties
<1>3. \A k \in 1..n : p[k] \in X
  BY <1>1, <1>2, ElementOfSeq
<1> HIDE DEF p
<1>4. /\ SubSeq(p, 1, n) \in Seq(X)
      /\ Len(SubSeq(p, 1, n)) = IF 1 <= n THEN n - 1 + 1 ELSE 0
      /\ \A i \in 1..n - 1 + 1 : SubSeq(p, 1, n)[i] = p[1 + i - 1]
  BY <1>1, <1>3, SubSeqProperties
<1>5. Front(p) = SubSeq(p, 1, n)
  BY <1>1, <1>2 DEF Front
<1>6. ASSUME NEW k \in 1..n PROVE SubSeq(p, 1, n)[k] = stack[k]
  <2>1. k \in 1..n - 1 + 1 /\ 1 + k - 1 = k
    BY <1>1
  <2> QED
    BY <1>2, <1>4, <2>1
<1> HIDE DEF n
<1>7. Len(SubSeq(p, 1, n)) = n
  BY <1>1, <1>4
<1>8. SubSeq(p, 1, n) = stack
  BY <1>1, <1>4, <1>6, <1>7, SeqEqual DEF n
<1> QED
  BY <1>5, <1>8 DEF p

\* What a line makes of the class on top.
LEMMA MemberIs ==
  ASSUME NEW info, Fields(info), NEW line, NEW i
  PROVE  LET opening == ReadsOpening(info, line)
             member == ReadsMember(opening, line, i)
         IN /\ Fields(opening) /\ Fields(member)
            /\ opening.name = info.name /\ member.name = info.name
            /\ opening.opened = (info.opened \/ Has(line, OpenBrace)) /\ member.opened = opening.opened
            /\ opening.depth = info.depth
            /\ member.depth = info.depth + TokenCount(line, OpenBrace) - TokenCount(line, CloseBrace)
<1> DEFINE brace == Has(line, OpenBrace)
           derives == ~info.opened /\ Has(line, ":")
           opening == [info EXCEPT !.opened = @ \/ brace, !.derived = @ \/ derives]
           last == IF Has(line, "virtual") THEN i ELSE opening.virtual
           dtor == Has(line, "virtual") /\ Occurs(<<"~", opening.name, "(">>, line)
           a == TokenCount(line, OpenBrace)
           b == TokenCount(line, CloseBrace)
           member == [opening EXCEPT !.virtual = last, !.dtor = @ \/ dtor, !.depth = @ + a - b]
<1>1. ReadsOpening(info, line) = opening
  BY Zenon DEF ReadsOpening, OpenBrace
<1> HIDE DEF brace, derives
<1>2. /\ Fields(opening) /\ opening.name = info.name /\ opening.depth = info.depth
      /\ opening.opened = (info.opened \/ brace)
  BY DEF Fields
<1> HIDE DEF opening
<1>3. ReadsMember(opening, line, i)
        = [opening EXCEPT !.virtual = IF Has(line, "virtual") THEN i ELSE @,
                          !.dtor = @ \/ dtor, !.depth = @ + a - b]
  BY Zenon DEF ReadsMember, OpenBrace, CloseBrace
<1> HIDE DEF dtor, a, b
<1>4. [opening EXCEPT !.virtual = IF Has(line, "virtual") THEN i ELSE @,
                      !.dtor = @ \/ dtor, !.depth = @ + a - b] = member
  OBVIOUS
<1> HIDE DEF last
<1>5. /\ Fields(member) /\ member.name = opening.name /\ member.opened = opening.opened
      /\ member.depth = opening.depth + a - b
  BY <1>2 DEF Fields
<1> HIDE DEF member
<1> QED
  BY <1>1, <1>2, <1>3, <1>4, <1>5, Zenon DEF brace, a, b

\* A layout that is odd stays so on its line.
LEMMA OddReads ==
  ASSUME NEW h \in Readings, NEW line \in Line, h.odd
  PROVE  TokensByText(h, line)[Len(line)].odd
<1> DEFINE T == TokensByText(h, line)
           n == Len(line)
           S == {k \in 0..n : T[k].odd}
<1>1. n \in Nat
  BY BracesMore
<1>2. 0 \in S
  <2>1. T[0] = h /\ 0 \in 0..n
    BY <1>1, TokensRead
  <2> QED
    BY <2>1
<1>3. ASSUME NEW k \in 0..n - 1, k \in S PROVE k + 1 \in S
  <2> HIDE DEF T
  <2>1. k + 1 \in 1..n /\ TokenSays(T[k], line[k + 1], T[k + 1])
    BY NextToken DEF T
  <2>2. k + 1 \in 0..n /\ T[k].odd
    BY <1>3, <2>1
  <2>3. T[k + 1].odd
    BY <2>1, <2>2, Zenon DEF TokenSays
  <2> QED
    BY <2>2, <2>3
<1>4. \A k \in 0..n : k \in S
  <2> HIDE DEF S, n
  <2> QED
    BY <1>1, <1>2, <1>3, Upward
<1>5. n \in S
  <2>1. n \in 0..n
    BY <1>1
  <2> HIDE DEF S, n
  <2> QED
    BY <1>4, <2>1
<1> QED
  BY <1>5

\* The stack after a line, given the one before with the class of this line on it.
TopReads(entered, line, i) ==
  LET top == Last(entered)
      opening == ReadsOpening(top, line)
      member == ReadsMember(opening, line, i)
  IN IF entered = <<>> THEN <<>>
     ELSE IF ~top.opened /\ Has(line, Semicolon) THEN Front(entered)
     ELSE IF ~opening.opened THEN Append(Front(entered), opening)
     ELSE IF member.depth <= 0 THEN Front(entered)
     ELSE Append(Front(entered), member)

\* It is that of the reading after the line.
LEMMA TopReadsRight ==
  ASSUME NEW S, NEW entered, ClassesOK(entered, S), NEW h \in Readings, ~h.closed, StackIs(entered, h),
         NEW line \in Line, NEW i,
         NEW r \in Readings, r = TokensByText(h, line)[Len(line)], ~r.odd,
         ~(h.pending # <<>> /\ Has(line, Semicolon) /\ r.open # h.open)
  PROVE  StackIs(TopReads(entered, line, i), r)
<1> DEFINE top == Last(entered)
           opening == ReadsOpening(top, line)
           member == ReadsMember(opening, line, i)
           d == Braces(line, Len(line))
           new == TopReads(entered, line, i)
           rest == Front(entered)
<1>1. /\ h.open \in Seq(Bodies) /\ h.pending \in Pendings
      /\ r.open \in Seq(Bodies) /\ r.pending \in Pendings
  BY DEF Readings
<1>2. /\ d \in Int /\ d = TokenCount(line, OpenBrace) - TokenCount(line, CloseBrace)
      /\ TokenCount(line, OpenBrace) \in Int /\ TokenCount(line, CloseBrace) \in Int
  <2>1. Len(line) \in Nat
    BY BracesMore
  <2>2. d \in Int
    BY <2>1, BracesMore
  <2>3. /\ TokenCount(line, OpenBrace) = Cardinality(Upto(line, OpenBrace, Len(line)))
        /\ TokenCount(line, CloseBrace) = Cardinality(Upto(line, CloseBrace, Len(line)))
    <3>1. DOMAIN line = 1..Len(line)
      BY LenProperties DEF Line
    <3> QED
      BY <3>1, Zenon DEF TokenCount, Upto
  <2>4. Cardinality(Upto(line, OpenBrace, Len(line))) \in Nat /\ Cardinality(Upto(line, CloseBrace, Len(line))) \in Nat
    BY <2>1, UptoMore
  <2>5. d = Cardinality(Upto(line, OpenBrace, Len(line))) - Cardinality(Upto(line, CloseBrace, Len(line)))
    BY Zenon DEF Braces
  <2> HIDE DEF d
  <2> QED
    BY <2>2, <2>3, <2>4, <2>5
<1>3. Has(line, OpenBrace) <=> \E j \in 1..Len(line) : line[j] = OpenBrace
  BY BracesMore
<1> HIDE DEF d
<1>4. new = IF entered = <<>> THEN <<>>
            ELSE IF ~top.opened /\ Has(line, Semicolon) THEN rest
            ELSE IF ~opening.opened THEN Append(rest, opening)
            ELSE IF member.depth <= 0 THEN rest ELSE Append(rest, member)
  BY Zenon DEF TopReads
<1>5. ASSUME Fields(top)
      PROVE  /\ Fields(opening) /\ Fields(member)
             /\ opening.name = top.name /\ member.name = top.name
             /\ opening.opened = (top.opened \/ Has(line, OpenBrace)) /\ member.opened = opening.opened
             /\ opening.depth = top.depth
             /\ member.depth = top.depth + TokenCount(line, OpenBrace) - TokenCount(line, CloseBrace)
  <2> HIDE DEF top
  <2> QED
    BY <1>5, MemberIs
<1> HIDE DEF new, top, opening, member
<1>6. ASSUME Fields(top), top.depth \in Int PROVE member.depth = top.depth + d /\ member.depth \in Int
  BY <1>2, <1>5, <1>6
<1>7. ASSUME entered # <<>> PROVE ClassesOK(rest, S)
  BY <1>7, PopClass
<1> HIDE DEF rest
<1>8. CASE h.pending = <<>>
  <2>1. StackOf(entered, h.open)
    BY <1>8, Zenon DEF StackIs
  <2>2. CASE h.open = <<>>
    <3>1. entered = <<>> /\ StackOf(<<>>, <<>>)
      <4>1. entered = <<>>
        <5>1. entered = <<>> <=> h.open = <<>>
          BY <1>1, <2>1, StackEmpty
        <5> QED
          BY <2>2, <5>1
      <4> QED
        BY <2>1, <2>2, <4>1, Zenon
    <3>2. r.open = <<>> /\ r.pending = <<>>
      BY <1>8, <2>2, NoneReads
    <3>3. new = <<>>
      BY <1>4, <3>1
    <3> QED
      BY <3>1, <3>2, <3>3, Zenon DEF StackIs, new
  <2>3. CASE h.open # <<>>
    <3>1. PICK under \in Seq(Bodies), b \in Bodies : h.open = Append(under, b)
      BY <1>1, <2>3, Split
    <3>2. entered # <<>> /\ StackOf(rest, under) /\ OpenAs(top, b)
      <4>1. StackOf(entered, Append(under, b))
        BY <2>1, <3>1, Zenon
      <4> QED
        BY <4>1, StackPop DEF rest, top
    <3> DEFINE e == b.inner + 1
    <3>3. /\ b.name \in Names /\ b.inner \in Nat /\ e \in Int /\ e >= 1 /\ e - 1 = b.inner
          /\ b = [name |-> b.name, inner |-> e - 1]
      BY DEF Bodies
    <3>4. Fields(top) /\ top.name = b.name /\ top.opened /\ top.depth = e
      BY <3>2, Zenon DEF OpenAs
    <3> HIDE DEF e
    <3>5. Phase(h, under, b.name, e)
      BY <1>8, <3>1, <3>3 DEF Phase
    <3>6. Phase(r, under, b.name, e + d)
      BY <3>3, <3>5, ClassReads DEF d
    <3>7. /\ Fields(member) /\ member.name = b.name /\ member.opened /\ opening.opened
          /\ member.depth = e + d /\ e + d \in Int
      BY <1>5, <1>6, <3>3, <3>4
    <3>8. r.pending = <<>>
      BY <3>6, Zenon DEF Phase
    <3>9. CASE e + d >= 1
      <4> DEFINE c == [name |-> b.name, inner |-> (e + d) - 1]
      <4>1. r.open = Append(under, c)
        BY <3>6, <3>9, Zenon DEF Phase
      <4>2. new = Append(rest, member)
        <5>1. ~(member.depth <= 0)
          BY <3>7, <3>9
        <5> QED
          BY <1>4, <3>2, <3>4, <3>7, <5>1, Zenon
      <4>3. c \in Bodies /\ c.name = b.name /\ c.inner + 1 = e + d
        BY <3>3, <3>7, <3>9 DEF Bodies
      <4> HIDE DEF c
      <4>4. OpenAs(member, c)
        BY <3>7, <4>3 DEF OpenAs
      <4>5. StackOf(Append(rest, member), Append(under, c))
        BY <1>7, <3>2, <4>3, <4>4, StackPush
      <4> QED
        BY <3>8, <4>1, <4>2, <4>5, Zenon DEF StackIs, new
    <3>10. CASE ~(e + d >= 1)
      <4>1. r.open = under
        BY <3>6, <3>10, Zenon DEF Phase
      <4>2. new = rest
        <5>1. member.depth <= 0
          BY <3>7, <3>10
        <5> QED
          BY <1>4, <3>2, <3>4, <3>7, <5>1, Zenon
      <4> QED
        BY <3>2, <3>8, <4>1, <4>2, Zenon DEF StackIs, new
    <3> QED
      BY <3>9, <3>10
  <2> QED
    BY <2>2, <2>3
<1>9. CASE h.pending # <<>>
  <2>1. entered # <<>> /\ HeadAs(top, h.pending[1]) /\ StackOf(rest, h.open)
    BY <1>9, Zenon DEF StackIs, top, rest
  <2>2. PICK c \in Names : h.pending = <<[name |-> c, inner |-> 0]>>
    BY <1>1, <1>9 DEF Pendings
  <2>3. h.pending[1].name = c
    BY <2>2
  <2>4. Fields(top) /\ top.name = c /\ ~top.opened /\ top.depth = 0
    BY <2>1, <2>3, Zenon DEF HeadAs
  <2>5. CASE Has(line, Semicolon)
    <3>1. new = rest
      BY <1>4, <2>1, <2>4, <2>5, Zenon
    <3>2. r.open = h.open /\ r.pending = <<>>
      BY <1>9, <2>5, SemicolonReads
    <3> QED
      BY <2>1, <3>1, <3>2, Zenon DEF StackIs, new
  <2>6. CASE ~Has(line, Semicolon)
    <3>1. HeadPhase(r, h, c, line, Len(line))
      BY <2>2, <2>6, HeadReads
    <3>2. CASE ~Has(line, OpenBrace)
      <4>1. r.open = h.open /\ r.pending = h.pending
        BY <1>3, <3>1, <3>2, Zenon DEF HeadPhase
      <4>2. Fields(opening) /\ opening.name = top.name /\ ~opening.opened /\ opening.depth = top.depth
        BY <1>5, <2>4, <3>2
      <4>3. new = Append(rest, opening)
        BY <1>4, <2>1, <2>6, <4>2, Zenon
      <4>4. Append(rest, opening) # <<>> /\ Last(Append(rest, opening)) = opening /\ Front(Append(rest, opening)) = rest
        <5>1. Front(Append(rest, opening)) = rest
          BY <1>7, <2>1, FrontOfPush
        <5> DEFINE X == ToSet(rest) \cup {opening}
        <5>2. rest \in Seq(X) /\ opening \in X
          BY <1>7, <2>1, SeqMonotonic DEF ClassesOK
        <5> HIDE DEF X
        <5>3. /\ Append(rest, opening) # <<>> /\ Len(Append(rest, opening)) = Len(rest) + 1
              /\ Append(rest, opening)[Len(rest) + 1] = opening
          BY <5>2, AppendProperties
        <5> QED
          BY <5>1, <5>3, Zenon DEF Last
      <4>5. HeadAs(opening, h.pending[1])
        BY <2>3, <2>4, <4>2, Zenon DEF HeadAs
      <4> QED
        BY <1>9, <2>1, <4>1, <4>3, <4>4, <4>5, Zenon DEF StackIs, new
    <3>3. CASE Has(line, OpenBrace)
      <4>1. Phase(r, h.open, c, d)
        BY <1>3, <3>1, <3>3, Zenon DEF HeadPhase, d
      <4>2. /\ Fields(member) /\ member.name = c /\ member.opened /\ opening.opened
            /\ member.depth = d
        <5>1. 0 \in Int /\ 0 + d = d
          BY <1>2
        <5> QED
          BY <1>5, <1>6, <2>4, <3>3, <5>1
      <4>3. r.pending = <<>>
        BY <4>1, Zenon DEF Phase
      <4>4. CASE d >= 1
        <5> DEFINE b == [name |-> c, inner |-> d - 1]
        <5>1. r.open = Append(h.open, b)
          BY <4>1, <4>4, Zenon DEF Phase
        <5>2. new = Append(rest, member)
          <6>1. ~(member.depth <= 0)
            BY <1>2, <4>2, <4>4
          <6> QED
            BY <1>4, <2>1, <2>6, <4>2, <6>1, Zenon
        <5>3. b \in Bodies /\ b.name = c /\ b.inner + 1 = d
          BY <1>2, <4>4 DEF Bodies
        <5> HIDE DEF b
        <5>4. OpenAs(member, b)
          BY <4>2, <5>3 DEF OpenAs
        <5>5. StackOf(Append(rest, member), Append(h.open, b))
          BY <1>1, <1>7, <2>1, <5>3, <5>4, StackPush
        <5> QED
          BY <4>3, <5>1, <5>2, <5>5, Zenon DEF StackIs, new
      <4>5. CASE ~(d >= 1)
        <5>1. r.open = h.open
          BY <4>1, <4>5, Zenon DEF Phase
        <5>2. new = rest
          <6>1. member.depth <= 0
            BY <1>2, <4>2, <4>5
          <6> QED
            BY <1>4, <2>1, <2>6, <4>2, <6>1, Zenon
        <5> QED
          BY <2>1, <4>3, <5>1, <5>2, Zenon DEF StackIs, new
      <4> QED
        BY <4>4, <4>5
    <3> QED
      BY <3>2, <3>3
  <2> QED
    BY <2>5, <2>6
<1> QED
  BY <1>8, <1>9

\* A line leaves the stack that of its reading.
LEMMA ClassesStep ==
  ASSUME NEW S, NEW c, NEW i \in S, NEW stack, ClassesOK(stack, S), NEW s \in Readings, StackIs(stack, s),
         c.elided[i] \in Line, ~LineByText(s, c.elided[i]).odd
  PROVE  StackIs(CheckForNonStandardConstructs(c, i, stack).classes, LineByText(s, c.elided[i]))
<1> DEFINE line == c.elided[i]
           h == HeadByText(s, line)
           after == TokensByText(h, line)[Len(line)]
           r == LineByText(s, line)
           info == ClassInfo(ClassName(line), c.lines, i)
           entered == IF DeclaresClass(line) THEN Append(stack, info) ELSE stack
<1>1. line \in Line /\ ~r.odd
  OBVIOUS
<1>2. /\ r \in Readings /\ r.open = after.open /\ r.pending = after.pending
      /\ r.odd <=> after.odd \/ (h.pending # <<>> /\ Has(line, Semicolon) /\ after.open # h.open)
  <2> HIDE DEF line
  <2>1. LineSaysOf(s, line, LineByText(s, line))
    BY <1>1, LineByTextSays
  <2> QED
    BY <2>1, Zenon DEF LineSaysOf
<1>3. /\ h \in Readings /\ h.open = s.open /\ ~h.closed
      /\ h.pending = IF DeclaresClass(line) THEN <<[name |-> ClassName(line), inner |-> 0]>> ELSE s.pending
      /\ h.odd <=> s.odd \/ (DeclaresClass(line) /\ s.pending # <<>>)
  <2> HIDE DEF line
  <2> QED
    BY <1>1, HeadType
<1>4. CheckForNonStandardConstructs(c, i, stack).classes = TopReads(entered, line, i)
  <2> DEFINE top == Last(entered)
             opening == ReadsOpening(top, line)
             member == ReadsMember(opening, line, i)
             ctor == If(ImplicitConstructor(line, top.name), Err(<<"runtime", "explicit">>, 5, i))
             dtor == If(NeedsVirtualDestructor(member), Err(<<"runtime", "virtual">>, 4, top.line))
             x == CheckForNonStandardConstructs(c, i, stack)
  <2>1. x = IF entered = <<>> THEN [classes |-> <<>>, errs |-> <<>>]
            ELSE IF ~top.opened /\ Has(line, Semicolon) THEN [classes |-> Front(entered), errs |-> <<>>]
            ELSE IF ~opening.opened THEN [classes |-> Append(Front(entered), opening), errs |-> <<>>]
            ELSE IF member.depth <= 0 THEN [classes |-> Front(entered), errs |-> ctor \o dtor]
            ELSE [classes |-> Append(Front(entered), member), errs |-> ctor]
    BY Zenon DEF CheckForNonStandardConstructs, IsForward, Semicolon
  <2>2. TopReads(entered, line, i)
          = IF entered = <<>> THEN <<>>
            ELSE IF ~top.opened /\ Has(line, Semicolon) THEN Front(entered)
            ELSE IF ~opening.opened THEN Append(Front(entered), opening)
            ELSE IF member.depth <= 0 THEN Front(entered)
            ELSE Append(Front(entered), member)
    BY Zenon DEF TopReads
  <2> HIDE DEF x, top, opening, member, ctor, dtor, entered, line
  <2>3. x.classes = TopReads(entered, line, i)
    BY <2>1, <2>2
  <2> QED
    BY <2>3 DEF x
<1>5. ClassesOK(entered, S)
  <2>1. ClassOK(info, S)
    BY DEF ClassOK, ClassInfo
  <2> HIDE DEF info, line
  <2> QED
    BY <2>1, PushClass, Zenon
<1>6. info.name = ClassName(line) /\ Fields(info) /\ ~info.opened /\ info.depth = 0
  <2> DEFINE name == ClassName(line)
             last == LastLine(c.lines, i)
  <2>1. info = [name |-> name, line |-> i, last |-> last, opened |-> FALSE,
                derived |-> FALSE, virtual |-> 0, dtor |-> FALSE, depth |-> 0]
    BY Zenon DEF ClassInfo
  <2> HIDE DEF name, last, info
  <2>2. info.name = name /\ Fields(info) /\ ~info.opened /\ info.depth = 0
    BY <2>1 DEF Fields
  <2> QED
    BY <2>2 DEF name
<1> HIDE DEF info, after
<1>7. ~after.odd /\ ~(h.pending # <<>> /\ Has(line, Semicolon) /\ after.open # h.open)
  BY <1>1, <1>2, Zenon
<1>8. ~h.odd
  <2> HIDE DEF h, line
  <2>1. h.odd => after.odd
    BY <1>1, <1>3, OddReads DEF after
  <2> QED
    BY <1>7, <2>1
<1>9. StackIs(entered, h)
  <2>1. CASE DeclaresClass(line)
    <3>1. s.pending = <<>> /\ entered = Append(stack, info)
      BY <1>3, <1>8, <2>1, Zenon
    <3>2. StackOf(stack, s.open)
      BY <3>1, Zenon DEF StackIs
    <3>3. entered # <<>> /\ Last(entered) = info /\ Front(entered) = stack
      <4>1. ClassOK(info, S)
        BY DEF ClassOK, ClassInfo, info
      <4>2. /\ Append(stack, info) # <<>> /\ Last(Append(stack, info)) = info
            /\ Front(Append(stack, info)) = stack
        BY <4>1, PushClass, FrontOfPush
      <4> QED
        BY <3>1, <4>2, Zenon
    <3> HIDE DEF h, line, entered
    <3>4. h.pending = <<[name |-> ClassName(line), inner |-> 0]>>
      BY <1>3, <2>1
    <3>5. h.pending # <<>> /\ h.pending[1].name = ClassName(line)
      <4> DEFINE n == ClassName(line)
      <4> HIDE DEF n
      <4>1. h.pending = <<[name |-> n, inner |-> 0]>>
        BY <3>4 DEF n
      <4>2. h.pending # <<>> /\ h.pending[1].name = n
        BY <4>1
      <4> QED
        BY <4>2 DEF n
    <3>6. HeadAs(info, h.pending[1])
      BY <1>6, <3>5, Zenon DEF HeadAs
    <3> QED
      BY <1>3, <3>2, <3>3, <3>5, <3>6, Zenon DEF StackIs
  <2>2. CASE ~DeclaresClass(line)
    <3>1. entered = stack /\ h.pending = s.pending /\ h.open = s.open
      BY <1>3, <2>2, Zenon
    <3> HIDE DEF h, entered
    <3> QED
      BY <3>1, Zenon DEF StackIs
  <2> QED
    BY <2>1, <2>2
<1>10. after \in Readings
  <2> HIDE DEF h, line
  <2> DEFINE n == Len(line)
  <2>1. n \in Nat
    BY <1>1, BracesMore
  <2> HIDE DEF n
  <2>2. n \in 0..n
    BY <2>1
  <2> QED
    BY <1>1, <1>3, <2>2, TokensRead DEF after, n
<1>11. StackIs(TopReads(entered, line, i), after)
  <2> HIDE DEF entered, h, line
  <2>1. after = TokensByText(h, line)[Len(line)]
    BY DEF after
  <2> QED
    BY <1>1, <1>3, <1>5, <1>7, <1>9, <1>10, <2>1, TopReadsRight
<1> HIDE DEF entered, h, r, line
<1>12. StackIs(TopReads(entered, line, i), r)
  BY <1>2, <1>11, Zenon DEF StackIs
<1> QED
  BY <1>4, <1>12, Zenon DEF line, r

\* The names on the stack are those that are open, in their order.
LEMMA StackNames ==
  ASSUME NEW S, NEW stack, ClassesOK(stack, S), NEW s \in Readings, StackIs(stack, s)
  PROVE  [k \in DOMAIN stack |-> stack[k].name]
           = [k \in DOMAIN (s.open \o s.pending) |-> (s.open \o s.pending)[k].name]
<1> DEFINE open == s.open \o s.pending
           n == Len(stack)
<1>1. s.open \in Seq(Bodies) /\ s.pending \in Pendings /\ n \in Nat /\ DOMAIN stack = 1..n
  BY LenProperties DEF Readings, ClassesOK
<1>2. DOMAIN open = 1..n /\ \A k \in 1..n : stack[k].name = open[k].name
  <2>1. CASE s.pending = <<>>
    <3>1. open = s.open
      BY <1>1, <2>1, ConcatEmptySeq
    <3>2. n = Len(s.open) /\ \A k \in 1..n : OpenAs(stack[k], s.open[k])
      BY <2>1 DEF StackIs, StackOf
    <3> HIDE DEF open
    <3>3. \A k \in 1..n : stack[k].name = open[k].name
      BY <3>1, <3>2, Zenon DEF OpenAs
    <3> QED
      BY <1>1, <3>1, <3>2, <3>3, LenProperties
  <2>2. CASE s.pending # <<>>
    <3>1. PICK b \in Bodies : s.pending = <<b>>
      BY <1>1, <2>2 DEF Pendings, Bodies
    <3> DEFINE m == Len(s.open)
    <3>2. m \in Nat
      BY <1>1, LenProperties
    <3>3. /\ open \in Seq(Bodies) /\ Len(open) = m + 1 /\ open[m + 1] = b
          /\ \A k \in 1..m : open[k] = s.open[k]
      <4>1. s.open \o <<b>> = Append(s.open, b)
        BY <1>1, AppendIsConcat
      <4>2. open = Append(s.open, b)
        BY <3>1, <4>1
      <4> HIDE DEF open
      <4> QED
        BY <1>1, <4>2, AppendProperties
    <3>4. stack # <<>> /\ HeadAs(Last(stack), b) /\ StackOf(Front(stack), s.open)
      <4>1. s.pending[1] = b
        BY <3>1
      <4> QED
        BY <2>2, <4>1, Zenon DEF StackIs
    <3>5. /\ n - 1 \in Nat /\ Len(Front(stack)) = n - 1
          /\ \A k \in 1..n - 1 : Front(stack)[k] = stack[k]
      BY <3>4, FrontIs
    <3>6. m = n - 1 /\ \A k \in 1..m : OpenAs(stack[k], s.open[k])
      BY <3>4, <3>5 DEF StackOf
    <3> HIDE DEF open, m
    <3>7. ASSUME NEW k \in 1..n PROVE stack[k].name = open[k].name
      <4> HIDE DEF n
      <4>1. k \in 1..m \/ k = n
        BY <1>1, <3>6
      <4>2. m + 1 = n
        BY <1>1, <3>6
      <4>3. CASE k \in 1..m
        BY <3>3, <3>6, <4>3, Zenon DEF OpenAs
      <4>4. CASE k = n
        BY <3>3, <3>4, <4>2, <4>4, Zenon DEF HeadAs, Last, n
      <4> QED
        BY <4>1, <4>3, <4>4
    <3>8. DOMAIN open = 1..n
      BY <1>1, <3>3, <3>6, LenProperties
    <3> QED
      BY <3>7, <3>8
  <2> QED
    BY <2>1, <2>2
<1> HIDE DEF open
<1>3. [k \in DOMAIN stack |-> stack[k].name] = [k \in DOMAIN open |-> open[k].name]
  BY <1>1, <1>2
<1> QED
  BY <1>3 DEF open

\* While a file is read, the stack is that of the lines so far.
ClassInv ==
  pc = "line" =>
    LET text == OpenByText(clean.elided)[ln - 1]
    IN text.odd \/ StackIs(classes, text)

\* A line keeps it,
LEMMA ProcessLineClasses ==
  ASSUME TypesInv, ClassInv, ProcessLine
  PROVE  ClassInv'
<1> DEFINE style == CheckStyle(clean, ln, classes, SmallClass)
           T == OpenByText(clean.elided)
<1>1. /\ pc = "line" /\ ln <= Len(clean.raw) /\ clean' = clean
      /\ \/ /\ style.fate = "ok"
            /\ classes' = CheckForNonStandardConstructs(clean, ln, classes).classes
            /\ ln' = ln + 1
         \/ style.fate # "ok" /\ pc' = style.fate
  BY ProcessLineDoes, Zenon
<1>2. style.fate \in {"ok", "crashed", "hung"}
  BY StyleErrors
<1> HIDE DEF style
<1>3. /\ ClassesOK(classes, 0..ln - 1) /\ ln \in 1..Len(clean.elided)
      /\ clean.elided \in Seq(Line) /\ Len(clean.elided) \in Nat
  BY <1>1, LenProperties DEF TypesInv, FilesInv, ScopesInv, Views
<1>4. CASE pc' # "line"
  BY <1>4, Zenon DEF ClassInv
<1>5. CASE pc' = "line"
  <2>1. classes' = CheckForNonStandardConstructs(clean, ln, classes).classes /\ ln' = ln + 1
    BY <1>1, <1>2, <1>5
  <2>2. /\ T[ln] = LineByText(T[ln - 1], clean.elided[ln])
        /\ T[ln - 1] \in Readings
        /\ T[ln - 1].odd => T[ln].odd
    <3>1. ln - 1 \in 0..Len(clean.elided)
      BY <1>3
    <3>2. /\ T[ln] = LineByText(T[ln - 1], clean.elided[ln])
          /\ T[ln - 1] \in Readings
      BY <1>3, <3>1, LinesRead
    <3>3. clean.elided[ln] \in Line
      BY <1>3, ElementOfSeq
    <3> DEFINE s == T[ln - 1]
               line == clean.elided[ln]
    <3> HIDE DEF T, s, line
    <3>4. ASSUME s.odd PROVE LineByText(s, line).odd
      <4>1. LineSaysOf(s, line, LineByText(s, line))
        BY <3>2, <3>3, LineByTextSays DEF s, line
      <4>2. HeadByText(s, line) \in Readings /\ HeadByText(s, line).odd
        BY <3>2, <3>3, <3>4, HeadType DEF s, line
      <4>3. TokensByText(HeadByText(s, line), line)[Len(line)].odd
        BY <3>3, <4>2, OddReads DEF line
      <4> QED
        BY <4>1, <4>3, Zenon DEF LineSaysOf
    <3> QED
      BY <3>2, <3>4, Zenon DEF s, line
  <2>3. clean.elided[ln] \in Line
    BY <1>3, ElementOfSeq
  <2>4. ASSUME ~T[ln].odd PROVE StackIs(classes', T[ln])
    <3> HIDE DEF T
    <3>1. StackIs(classes, T[ln - 1])
      BY <1>1, <2>2, <2>4, Zenon DEF ClassInv, T
    <3> DEFINE S == 0..ln
    <3>2. ln \in S /\ 0..ln - 1 \subseteq S
      BY <1>3
    <3> HIDE DEF S
    <3>3. ClassesOK(classes, S)
      BY <1>3, <3>2, ClassesInMore
    <3> DEFINE s == T[ln - 1]
    <3>4. s \in Readings /\ StackIs(classes, s) /\ ~LineByText(s, clean.elided[ln]).odd
      BY <2>2, <2>4, <3>1
    <3> HIDE DEF s
    <3>5. StackIs(CheckForNonStandardConstructs(clean, ln, classes).classes, LineByText(s, clean.elided[ln]))
      BY <2>3, <3>2, <3>3, <3>4, ClassesStep
    <3> QED
      BY <2>1, <2>2, <3>5, Zenon DEF s
  <2>5. ln' - 1 = ln
    BY <1>3, <2>1
  <2> QED
    BY <1>1, <2>4, <2>5, Zenon DEF ClassInv
<1> QED
  BY <1>4, <1>5

\* a file starts with it,
LEMMA StartFileClasses ==
  ASSUME TypesInv, StartFile
  PROVE  ClassInv'
<1>1. /\ todo # <<>> /\ todo[1] \in DOMAIN Disk
      /\ clean' = CleansedLines(RawOf(todo[1])) /\ ln' = 1 /\ classes' = <<>>
  BY StartFileDoes, Zenon
<1>2. TypesInv'
  BY StartFileTypes
<1>3. clean'.elided \in Seq(Line)
  BY <1>2 DEF TypesInv, FilesInv, Views
<1>4. OpenByText(clean'.elided)[0] = NothingOpen
  BY <1>3, LinesRead
<1>5. StackIs(<<>>, NothingOpen)
  <2>1. NothingOpen.pending = <<>> /\ NothingOpen.open = <<>>
    BY DEF NothingOpen
  <2>2. Len(<<>>) = 0
    BY EmptySeq
  <2>3. StackOf(<<>>, <<>>)
    BY <2>2 DEF StackOf
  <2> QED
    BY <2>1, <2>3, Zenon DEF StackIs
<1>6. ln' - 1 = 0
  BY <1>1
<1> QED
  BY <1>1, <1>4, <1>5, <1>6, Zenon DEF ClassInv

\* and every step keeps it.
LEMMA ClassesNext == TypesInv /\ ClassInv /\ [Next]_vars => ClassInv'
<1> SUFFICES ASSUME TypesInv, ClassInv, [Next]_vars PROVE ClassInv'
  OBVIOUS
<1>1. CASE StartFile
  BY <1>1, StartFileClasses
<1>2. CASE ProcessLine
  BY <1>2, ProcessLineClasses
<1>3. CASE ParseArguments
  <2>1. pc' # "line"
    BY <1>3, ParseArgumentsDoes
  <2> QED
    BY <2>1, Zenon DEF ClassInv
<1>4. CASE SkipFile \/ FinishFile \/ Exit
  <2>1. pc' # "line"
    BY <1>4, FinishFileDoes DEF SkipFile, Exit
  <2> QED
    BY <2>1, Zenon DEF ClassInv
<1>5. CASE UNCHANGED vars
  <2>1. UNCHANGED <<pc, clean, ln, classes>>
    BY <1>5 DEF vars, scopes
  <2> QED
    BY <2>1, Zenon DEF ClassInv
<1> QED
  BY <1>1, <1>2, <1>3, <1>4, <1>5 DEF Next

\* While a file is read, the stack of classes that the checker changes by counting what the
\* class on top sees is that of the classes its text has open, as long as the layout is one it
\* is made for, whatever the file (CheckForNonStandardConstructs).
THEOREM LintClassesAreOpen == Spec => []ClassesAreOpen
<1>1. Init => ClassInv
  BY DEF Init, ClassInv
<1>2. TypesInv /\ ClassInv => ClassesAreOpen
  <2> SUFFICES ASSUME TypesInv, ClassInv, pc = "line"
               PROVE  LET text == OpenByText(clean.elided)[ln - 1]
                          open == text.open \o text.pending
                      IN \/ text.odd
                         \/ [k \in DOMAIN classes |-> classes[k].name] = [k \in DOMAIN open |-> open[k].name]
    BY Zenon DEF ClassesAreOpen
  <2> DEFINE text == OpenByText(clean.elided)[ln - 1]
  <2>1. text \in Readings /\ ClassesOK(classes, 0..ln - 1)
    <3>1. clean.elided \in Seq(Line) /\ ln - 1 \in 0..Len(clean.elided)
      BY LenProperties DEF TypesInv, FilesInv, Views
    <3> QED
      BY <3>1, LinesRead DEF TypesInv, ScopesInv
  <2>2. text.odd \/ StackIs(classes, text)
    BY Zenon DEF ClassInv
  <2> HIDE DEF text
  <2>3. ASSUME StackIs(classes, text)
        PROVE  [k \in DOMAIN classes |-> classes[k].name]
                 = [k \in DOMAIN (text.open \o text.pending) |-> (text.open \o text.pending)[k].name]
    BY <2>1, <2>3, StackNames
  <2> QED
    BY <2>2, <2>3, Zenon DEF text
<1> QED
  BY <1>1, <1>2, TypesAlways, ClassesNext, PTL DEF Spec
================================================================================
