--------------------------- MODULE ConnectionProofs ---------------------------
(* What is proved of Connection, for all clients and every length of a block. *)
EXTENDS Connection, DataInduction, SequenceTheorems

(* What the worker's place says about its answer: none before http_handler formed it, *)
(* and then one that says what keep_alive is.                                       *)
WordInv ==
  /\ pc \in {"read", "handle"} => keep = FALSE
  /\ pc \in {"read", "handle", "ask"} => out = None
  /\ pc = "write" => out.keep = keep

(* An answer is formed with the value that decides whether there is another round:  *)
(* http_handler computes one from the other, and where it does not, when there is  *)
(* nothing to parse, Run has set the other to false.                               *)
LEMMA HandleKeepsWord == ASSUME WordInv, Handle PROVE WordInv'
<1> USE DEF WordInv, Handle
<1>1. CASE ParseFails
  BY <1>1 DEF ParseFails, Answer
<1>2. CASE ParseCrashes
  BY <1>2 DEF ParseCrashes
<1>3. CASE HasLine /\ FirstLineWords >= 3 /\ Serve("Connection: keep-alive" \in Headers)
  <2>1. CASE \E status, k : Respond(status, k)
    <3>1. PICK status, k : Respond(status, k)
      BY <2>1
    <3>2. out'.keep = keep' /\ pc' = "write"
      BY <3>1 DEF Respond, Answer
    <3> QED
      BY <3>2
  <2>2. CASE \E k : Ask(k)
    BY <2>2 DEF Ask
  <2> QED
    BY <1>3, <2>1, <2>2 DEF Serve
<1> QED
  BY <1>1, <1>2, <1>3

LEMMA AskedKeepsWord == ASSUME Asked PROVE WordInv'
<1>1. PICK k : Respond(200, k)
  BY DEF Asked
<1>2. out'.keep = keep' /\ pc' = "write"
  BY <1>1 DEF Respond, Answer
<1> QED
  BY <1>2 DEF WordInv

(* A round ends with the next one's variables reset, whatever this one's were. *)
LEMMA EndRoundKeepsWord ==
  ASSUME NEW sent, NEW k, EndRound(sent, k) PROVE WordInv'
BY DEF EndRound, NewRound, WordInv

LEMMA WordStep == ASSUME WordInv, [Next]_vars PROVE WordInv'
<1>1. CASE Send
  <2>1. UNCHANGED <<pc, keep, out>>
    BY <1>1 DEF Send, SendSegment
  <2> QED
    BY <2>1 DEF WordInv
<1>2. CASE Leave
  BY <1>2 DEF Leave, WordInv
<1>3. CASE ReadBlock \/ ReadEnd \/ ReadError
  <2>1. pc = "read" /\ pc' \in {"read", "handle", "close"} /\ UNCHANGED <<keep, out>>
    BY <1>3 DEF ReadBlock, ReadEnd, ReadError, AfterRead
  <2> QED
    BY <2>1 DEF WordInv
<1>4. CASE Handle \/ Asked
  BY <1>4, HandleKeepsWord, AskedKeepsWord
<1>5. CASE Throw
  BY <1>5, EndRoundKeepsWord DEF Throw
<1>6. CASE Write \/ WriteFails
  BY <1>6, EndRoundKeepsWord DEF Write, WriteFails
<1>7. CASE Disconnect
  BY <1>7 DEF Disconnect, NewRound, WordInv
<1>8. CASE UNCHANGED vars
  BY <1>8 DEF vars, WordInv
<1>9. CASE Over
  BY <1>8, <1>9 DEF Over
<1> QED
  BY <1>1, <1>2, <1>3, <1>4, <1>5, <1>6, <1>7, <1>8, <1>9 DEF Next

(* KeepsItsWord: an answer says that the connection is kept if and only if SimpleWorkTask::Run *)
(* reads from it again.                                                                     *)
THEOREM ConnectionKeepsItsWord == Spec => KeepsItsWord
<1>1. Init => WordInv
  BY DEF Init, WordInv
<1>2. WordInv /\ [Next]_vars => WordInv'
  BY WordStep
<1>3. WordInv /\ [Next]_vars
      => [log' # log /\ out # None => (out.keep <=> pc' = "read")]_vars
  <2> SUFFICES ASSUME WordInv, [Next]_vars, log' # log, out # None
               PROVE  out.keep <=> pc' = "read"
    OBVIOUS
  <2>1. CASE Throw
    BY <2>1 DEF Throw, WordInv
  <2>2. CASE Write \/ WriteFails
    <3>1. pc = "write" /\ pc' = IF keep THEN "read" ELSE "close"
      BY <2>2 DEF Write, WriteFails, EndRound
    <3> QED
      BY <3>1 DEF WordInv
  <2>3. ~(Send \/ Leave \/ ReadBlock \/ ReadEnd \/ ReadError \/ Handle \/ Asked
        \/ Disconnect \/ Over)
    BY DEF Send, SendSegment, Leave, ReadBlock, ReadEnd, ReadError, Handle, Asked, Disconnect,
           Over, vars
  <2> QED
    BY <2>1, <2>2, <2>3 DEF Next, vars
<1> QED
  BY <1>1, <1>2, <1>3, PTL DEF Spec, KeepsItsWord

-------------------------------------------------------------------------------
(* Cutting a sequence and joining two. *)

LEMMA Cut ==
  ASSUME NEW S, NEW s \in Seq(S), NEW n \in 0..Len(s)
  PROVE  /\ SubSeq(s, 1, n) \in Seq(S) /\ Len(SubSeq(s, 1, n)) = n
         /\ \A i \in 1..n : SubSeq(s, 1, n)[i] = s[i]
         /\ SubSeq(s, n + 1, Len(s)) \in Seq(S) /\ Len(SubSeq(s, n + 1, Len(s))) = Len(s) - n
         /\ \A i \in 1..Len(s) - n : SubSeq(s, n + 1, Len(s))[i] = s[n + i]
<1>1. Len(s) \in Nat /\ \A i \in 1..Len(s) : s[i] \in S
  BY LenProperties
<1>2. /\ SubSeq(s, 1, n) \in Seq(S)
      /\ Len(SubSeq(s, 1, n)) = IF 1 <= n THEN n - 1 + 1 ELSE 0
      /\ \A i \in 1..n - 1 + 1 : SubSeq(s, 1, n)[i] = s[1 + i - 1]
  BY <1>1, SubSeqProperties
<1>3. /\ SubSeq(s, n + 1, Len(s)) \in Seq(S)
      /\ Len(SubSeq(s, n + 1, Len(s))) = IF n + 1 <= Len(s) THEN Len(s) - (n + 1) + 1 ELSE 0
      /\ \A i \in 1..Len(s) - (n + 1) + 1 : SubSeq(s, n + 1, Len(s))[i] = s[n + 1 + i - 1]
  BY <1>1, SubSeqProperties
<1> QED
  BY <1>1, <1>2, <1>3

-------------------------------------------------------------------------------
(* The stream of a client: its requests one after the other. *)

UnitsOf(c) == [req : DOMAIN c, is : Unit]

(* The text of a request: its beginning, its version, and then no other beginning. *)
LEMMA TextIs ==
  ASSUME NEW i \in Nat, NEW r \in Request
  PROVE  LET t == Text(i, r)
         IN /\ t \in Seq([req : {i}, is : Unit])
            /\ Len(t) = Len(r.headers) + 3 /\ Len(r.headers) \in Nat
            /\ t[1] = [req |-> i, is |-> "GET"] /\ t[2] = [req |-> i, is |-> r.version]
            /\ \A k \in 1..Len(t) : t[k].req = i
            /\ \A k \in 2..Len(t) : t[k].is # "GET"
<1> DEFINE h == r.headers
           first == <<"GET", r.version>>
           last == <<"">>
           n == Len(h) + 3
<1>1. h \in Seq(Header) /\ r.version \in Version
  BY DEF Request
<1>2. Len(h) \in Nat /\ \A k \in 1..Len(h) : h[k] \in Header
  BY <1>1, LenProperties, ElementOfSeq
<1>3. /\ "GET" \in Unit /\ "" \in Unit /\ r.version \in Unit /\ r.version # "GET"
      /\ Header \subseteq Unit /\ \A u \in Header : u # "GET"
  BY <1>1 DEF Unit, Version, Header
<1>4. first \in Seq(Unit) /\ Len(first) = 2 /\ first[1] = "GET" /\ first[2] = r.version
  <2>1. \A a, b \in Unit : <<a, b>> \in Seq(Unit) /\ Len(<<a, b>>) = 2
    OBVIOUS
  <2> QED
    BY <1>3, <2>1
<1>5. last \in Seq(Unit) /\ Len(last) = 1 /\ last[1] = ""
  <2>1. \A a \in Unit : <<a>> \in Seq(Unit) /\ Len(<<a>>) = 1
    OBVIOUS
  <2> QED
    BY <1>3, <2>1
<1>6. h \in Seq(Unit)
  BY <1>1, <1>3, SeqMonotonic
<1>0. n \in Nat /\ n = (2 + Len(h)) + 1
  BY <1>2
<1> HIDE DEF first, last, h, n
<1>7. /\ first \o h \in Seq(Unit) /\ Len(first \o h) = 2 + Len(h)
      /\ \A k \in 1..2 + Len(h) : (first \o h)[k] = IF k <= 2 THEN first[k] ELSE h[k - 2]
  <2>1. /\ first \o h \in Seq(Unit) /\ Len(first \o h) = Len(first) + Len(h)
        /\ \A k \in 1..Len(first) + Len(h) :
             (first \o h)[k] = IF k <= Len(first) THEN first[k] ELSE h[k - Len(first)]
    BY <1>4, <1>6, ConcatProperties
  <2> QED
    BY <1>4, <2>1
<1> DEFINE g == first \o h
           units == g \o last
<1> HIDE DEF g
<1>8. /\ units \in Seq(Unit) /\ Len(units) = n
      /\ \A k \in 1..n : units[k] = IF k <= 2 + Len(h) THEN g[k] ELSE last[k - (2 + Len(h))]
  <2>1. g \in Seq(Unit) /\ Len(g) = 2 + Len(h)
    BY <1>7 DEF g
  <2> HIDE DEF units
  <2>2. /\ g \o last \in Seq(Unit) /\ Len(g \o last) = Len(g) + Len(last)
        /\ \A k \in 1..Len(g) + Len(last) :
             (g \o last)[k] = IF k <= Len(g) THEN g[k] ELSE last[k - Len(g)]
    <3>1. \A a, b \in Seq(Unit) :
            /\ a \o b \in Seq(Unit) /\ Len(a \o b) = Len(a) + Len(b)
            /\ \A k \in 1..Len(a) + Len(b) :
                 (a \o b)[k] = IF k <= Len(a) THEN a[k] ELSE b[k - Len(a)]
      BY ConcatProperties
    <3> QED
      BY <1>5, <2>1, <3>1
  <2>3. Len(g) + Len(last) = n
    BY <1>0, <1>5, <2>1
  <2>4. units = g \o last
    BY DEF units
  <2> QED
    BY <2>1, <2>2, <2>3, <2>4
<1> HIDE DEF units
<1>9. \A k \in 1..n : units[k] \in Unit
  BY <1>8, ElementOfSeq
<1>10. \A k \in 1..2 + Len(h) : g[k] = IF k <= 2 THEN first[k] ELSE h[k - 2]
  BY <1>7 DEF g
<1>11. units[1] = "GET" /\ units[2] = r.version
  BY <1>0, <1>2, <1>4, <1>8, <1>10
<1>12. \A k \in 2..n : units[k] # "GET"
  <2> SUFFICES ASSUME NEW k \in 2..n PROVE units[k] # "GET"
    OBVIOUS
  <2>1. CASE k = 2
    BY <1>3, <1>11, <2>1
  <2>2. CASE k \in 3..2 + Len(h)
    <3>1. units[k] = h[k - 2] /\ k - 2 \in 1..Len(h)
      BY <1>2, <1>8, <1>10, <2>2
    <3> QED
      BY <1>2, <1>3, <3>1
  <2>3. CASE k = n
    <3>1. k - (2 + Len(h)) = 1 /\ k \in 1..n /\ ~(k <= 2 + Len(h))
      BY <1>0, <1>2, <2>3
    <3>2. units[k] = last[1]
      BY <1>8, <3>1
    <3> QED
      BY <1>5, <3>2
  <2> QED
    BY <1>0, <1>2, <2>1, <2>2, <2>3
<1> DEFINE t == [k \in 1..n |-> [req |-> i, is |-> units[k]]]
<1>13. Text(i, r) = t
  <2>1. Text(i, r) = [k \in 1..Len(units) |-> [req |-> i, is |-> units[k]]]
    BY Zenon DEF Text, units, g, first, last, h
  <2> QED
    BY <1>8, <2>1
<1>14. t \in Seq([req : {i}, is : Unit])
  <2>1. \A k \in 1..n : [req |-> i, is |-> units[k]] \in [req : {i}, is : Unit]
    BY <1>9
  <2> QED
    BY <1>0, <2>1, IsASeq
<1>15. Len(t) = n
  BY <1>0
<1>16. t[1] = [req |-> i, is |-> "GET"] /\ t[2] = [req |-> i, is |-> r.version]
  BY <1>0, <1>2, <1>11
<1>17. \A k \in 1..n : t[k].req = i /\ t[k].is = units[k]
  OBVIOUS
<1>18. n = Len(r.headers) + 3 /\ Len(r.headers) \in Nat
  BY <1>2 DEF h, n
<1> HIDE DEF t
<1>19. /\ Len(t) = Len(r.headers) + 3
       /\ \A k \in 1..Len(t) : t[k].req = i
       /\ \A k \in 2..Len(t) : t[k].is # "GET"
  <2>1. \A k \in 2..n : t[k].is # "GET"
    BY <1>2, <1>12, <1>17, <1>18
  <2> QED
    BY <1>15, <1>17, <1>18, <2>1
<1> HIDE DEF n, h
<1> QED
  BY <1>13, <1>14, <1>16, <1>18, <1>19, Zenon

(* The same as a part of a stream. *)
LEMMA TextInStream ==
  ASSUME NEW c \in Seq(Request), NEW i \in 1..Len(c)
  PROVE  Text(i, c[i]) \in Seq(UnitsOf(c))
<1>1. Len(c) \in Nat /\ DOMAIN c = 1..Len(c) /\ c[i] \in Request
  BY LenProperties, ElementOfSeq
<1>2. i \in Nat /\ i \in DOMAIN c
  BY <1>1
<1>3. Text(i, c[i]) \in Seq([req : {i}, is : Unit])
  BY <1>1, <1>2, TextIs
<1>4. [req : {i}, is : Unit] \subseteq UnitsOf(c)
  BY <1>2 DEF UnitsOf
<1> QED
  BY <1>3, <1>4, SeqMonotonic

(* Its recursive definition, solved. *)
LEMMA UptoIs ==
  ASSUME NEW c \in Seq(Request)
  PROVE  /\ \A i \in 0..Len(c) : Upto(c)[i] \in Seq(UnitsOf(c))
         /\ Upto(c)[0] = <<>>
         /\ \A i \in 1..Len(c) : Upto(c)[i] = Upto(c)[i - 1] \o Text(i, c[i])
<1> DEFINE n == Len(c)
           X == Seq(UnitsOf(c))
           Solves(f) == f = [i \in 0..n |-> IF i = 0 THEN <<>> ELSE f[i - 1] \o Text(i, c[i])]
           F == [p \in (1..n) \X X |-> p[2] \o Text(p[1], c[p[1]])]
<1>1. n \in Nat /\ DOMAIN c = 1..n
  BY LenProperties
<1>2. \A i \in 1..n : Text(i, c[i]) \in X
  BY TextInStream
<1> HIDE DEF n
<1>3. <<>> \in X
  BY EmptySeq
<1> HIDE DEF X
<1>4. \A i \in 1..n, s \in X : s \o Text(i, c[i]) \in X
  BY <1>2, ConcatProperties DEF X
<1>5. F \in [(1..n) \X X -> X]
  <2>1. \A p \in (1..n) \X X : p[2] \o Text(p[1], c[p[1]]) \in X
    BY <1>4
  <2> QED
    BY <2>1
<1>6. \A i \in 1..n, s \in X : F[<<i, s>>] = s \o Text(i, c[i])
  OBVIOUS
<1> HIDE DEF F
<1>7. PICK g \in [0..n -> X] : g[0] = <<>> /\ \A i \in 1..n : g[i] = F[<<i, g[i - 1]>>]
  <2>1. \E f : Recurs(f, n, X, <<>>, F)
    BY <1>1, <1>3, <1>5, Recursion
  <2> QED
    BY <2>1 DEF Recurs
<1>8. \A i \in 1..n : g[i] = g[i - 1] \o Text(i, c[i])
  <2> SUFFICES ASSUME NEW i \in 1..n PROVE g[i] = g[i - 1] \o Text(i, c[i])
    OBVIOUS
  <2>1. g[i - 1] \in X
    BY <1>1
  <2> QED
    BY <1>6, <1>7, <2>1
<1>9. Solves(g)
  <2>1. ASSUME NEW i \in 0..n
        PROVE  g[i] = IF i = 0 THEN <<>> ELSE g[i - 1] \o Text(i, c[i])
    <3>1. i = 0 \/ i \in 1..n
      BY <1>1
    <3> QED
      BY <3>1, <1>7, <1>8
  <2> QED
    BY <2>1
<1>10. Upto(c) = CHOOSE f : Solves(f)
  BY Zenon DEF Upto, n
<1>11. Solves(Upto(c))
  <2> HIDE DEF Solves
  <2> QED
    BY <1>9, <1>10, Zenon
<1>12. /\ Upto(c)[0] = <<>>
       /\ \A i \in 1..n : Upto(c)[i] = Upto(c)[i - 1] \o Text(i, c[i])
  BY <1>1, <1>11
<1> DEFINE T == {i \in 0..n : Upto(c)[i] \in X}
<1>13. 0 \in T
  BY <1>1, <1>3, <1>12
<1>14. \A i \in 0..n - 1 : i \in T => i + 1 \in T
  <2> SUFFICES ASSUME NEW i \in 0..n - 1, i \in T PROVE Upto(c)[i + 1] \in X
    BY <1>1
  <2>1. i + 1 \in 1..n /\ (i + 1) - 1 = i
    BY <1>1
  <2>2. Upto(c)[i + 1] = Upto(c)[i] \o Text(i + 1, c[i + 1])
    BY <1>12, <2>1
  <2> QED
    BY <1>4, <2>1, <2>2
<1>15. \A i \in 0..n : i \in T
  <2> HIDE DEF T
  <2> QED
    BY <1>1, <1>13, <1>14, Upward
<1> QED
  BY <1>12, <1>15 DEF X, n

LEMMA StreamTypes == ASSUME NEW c \in Seq(Request) PROVE Stream(c) \in Seq(UnitsOf(c))
<1>1. Len(c) \in 0..Len(c)
  BY LenProperties
<1> QED
  BY <1>1, UptoIs DEF Stream

LEMMA Regroup ==
  ASSUME NEW S
  PROVE  \A s, t, u \in Seq(S) : (s \o t) \o u = s \o (t \o u) /\ t \o u \in Seq(S)
BY ConcatAssociative, ConcatProperties

LEMMA SamePrefix ==
  ASSUME NEW S, NEW s \in Seq(S), NEW t \in Seq(S), NEW u \in Seq(S), s \o t = s \o u
  PROVE  t = u
BY ConcatSimplifications

(* What the first requests leave of it. *)
LEMMA StreamSplits ==
  ASSUME NEW c \in Seq(Request)
  PROVE  \A i \in 0..Len(c) : \E s \in Seq(UnitsOf(c)) : Stream(c) = Upto(c)[i] \o s
<1> DEFINE n == Len(c)
           T == {k \in 0..n : \E s \in Seq(UnitsOf(c)) : Stream(c) = Upto(c)[n - k] \o s}
<1>0. Len(c) \in Nat
  BY LenProperties
<1>1. n \in Nat /\ DOMAIN c = 1..n
  BY LenProperties
<1>2. 0 \in T
  <2>1. Stream(c) \in Seq(UnitsOf(c)) /\ Stream(c) = Upto(c)[n - 0]
    <3>1. n - 0 = Len(c)
      BY <1>0
    <3>2. Stream(c) = Upto(c)[n - 0]
      BY <3>1, Zenon DEF Stream
    <3> QED
      BY <3>2, StreamTypes
  <2>2. Stream(c) = Stream(c) \o <<>> /\ <<>> \in Seq(UnitsOf(c))
    BY <2>1, ConcatEmptySeq, EmptySeq
  <2>3. 0 \in 0..n
    BY <1>1
  <2>4. \E s \in Seq(UnitsOf(c)) : Stream(c) = Upto(c)[n - 0] \o s
    BY <2>1, <2>2
  <2> QED
    BY <2>3, <2>4, Zenon
<1>3. ASSUME NEW k \in 0..n - 1, k \in T PROVE k + 1 \in T
  <2>0. n - k \in 1..n
    BY <1>1
  <2>1. PICK i \in 1..n : i = n - k
    <3> HIDE DEF n
    <3> QED
      BY <2>0
  <2>2. PICK s \in Seq(UnitsOf(c)) : Stream(c) = Upto(c)[i] \o s
    BY <1>3, <2>1
  <2>3. i - 1 \in 0..n /\ n - (k + 1) = i - 1 /\ k + 1 \in 0..n
    BY <1>1, <2>1
  <2>4. /\ Upto(c)[i] = Upto(c)[i - 1] \o Text(i, c[i])
        /\ Upto(c)[i - 1] \in Seq(UnitsOf(c)) /\ Text(i, c[i]) \in Seq(UnitsOf(c))
    BY <2>3, UptoIs, TextInStream
  <2>5. /\ (Upto(c)[i - 1] \o Text(i, c[i])) \o s = Upto(c)[i - 1] \o (Text(i, c[i]) \o s)
        /\ Text(i, c[i]) \o s \in Seq(UnitsOf(c))
    <3>1. \A a, b, d \in Seq(UnitsOf(c)) :
            (a \o b) \o d = a \o (b \o d) /\ b \o d \in Seq(UnitsOf(c))
      BY Regroup
    <3> QED
      BY <2>4, <3>1
  <2>6. \E v \in Seq(UnitsOf(c)) : Stream(c) = Upto(c)[n - (k + 1)] \o v
    BY <2>2, <2>3, <2>4, <2>5
  <2> QED
    BY <2>3, <2>6
<1>4. \A k \in 0..n : k \in T
  <2> HIDE DEF T
  <2> QED
    BY <1>1, <1>2, <1>3, Upward
<1>5. ASSUME NEW i \in 0..n PROVE \E s \in Seq(UnitsOf(c)) : Stream(c) = Upto(c)[i] \o s
  <2>1. n - i \in 0..n /\ n - (n - i) = i
    BY <1>1
  <2> QED
    BY <1>4, <2>1
<1> QED
  BY <1>5

(* What is left after j - 1 requests begins with request j, if there is something left. *)
LEMMA NextRequest ==
  ASSUME NEW c \in Seq(Request), NEW j \in 1..Len(c) + 1, NEW u \in Seq(UnitsOf(c)),
         Stream(c) = Upto(c)[j - 1] \o u, u # <<>>
  PROVE  /\ j \in 1..Len(c)
         /\ Text(j, c[j]) \in Seq(UnitsOf(c))
         /\ \E s \in Seq(UnitsOf(c)) : u = Text(j, c[j]) \o s /\ Stream(c) = Upto(c)[j] \o s
<1>1. Len(c) \in Nat /\ DOMAIN c = 1..Len(c)
  BY LenProperties
<1>2. j # Len(c) + 1
  <2> SUFFICES ASSUME j = Len(c) + 1 PROVE FALSE
    OBVIOUS
  <2>1. Stream(c) = Stream(c) \o u /\ Stream(c) \in Seq(UnitsOf(c))
    <3>1. j - 1 = Len(c)
      BY <1>1
    <3> QED
      BY <3>1, StreamTypes DEF Stream
  <2> QED
    BY <2>1, ConcatSimplifications
<1>3. j \in 1..Len(c) /\ j - 1 \in 0..Len(c) /\ j \in 0..Len(c)
  BY <1>1, <1>2
<1>4. /\ Upto(c)[j] = Upto(c)[j - 1] \o Text(j, c[j])
      /\ Upto(c)[j - 1] \in Seq(UnitsOf(c)) /\ Text(j, c[j]) \in Seq(UnitsOf(c))
  BY <1>3, UptoIs, TextInStream
<1>5. PICK s \in Seq(UnitsOf(c)) : Stream(c) = Upto(c)[j] \o s
  BY <1>3, StreamSplits
<1>6. /\ (Upto(c)[j - 1] \o Text(j, c[j])) \o s = Upto(c)[j - 1] \o (Text(j, c[j]) \o s)
      /\ Text(j, c[j]) \o s \in Seq(UnitsOf(c))
  <2>1. \A a, b, d \in Seq(UnitsOf(c)) :
          (a \o b) \o d = a \o (b \o d) /\ b \o d \in Seq(UnitsOf(c))
    BY Regroup
  <2> QED
    BY <1>4, <2>1
<1>7. Upto(c)[j - 1] \o u = Upto(c)[j - 1] \o (Text(j, c[j]) \o s)
  BY <1>4, <1>5, <1>6
<1>8. u = Text(j, c[j]) \o s
  BY <1>4, <1>6, <1>7, SamePrefix
<1> QED
  BY <1>3, <1>4, <1>5, <1>8

-------------------------------------------------------------------------------
(* Types. What is in inbuf when it is handled is not empty. *)

Status == {0, 200, 400, 404, 501}
Units == [req : DOMAIN asks, is : Unit]
Rounds == [req : DOMAIN asks, begins : BOOLEAN, status : Status, keep : BOOLEAN,
           sent : {"whole", "part", "none"}]

TypeInv ==
  /\ ConnTypeOK
  /\ pc \in {"handle", "ask", "write"} => Len(inbuf) > 0
  /\ pc # "close" => size = Len(inbuf)

LEMMA InitTypes == Init => TypeInv
<1> SUFFICES ASSUME Init PROVE TypeInv
  OBVIOUS
<1>1. unsent \in Seq(UnitOf)
  BY ClientsAssumption, StreamTypes DEF Init, UnitOf, UnitsOf
<1>2. <<>> \in Seq(UnitOf) /\ <<>> \in Seq(Rounds) /\ Len(<<>>) = 0
  BY EmptySeq
<1>3. size = Len(inbuf) /\ pc = "read"
  BY <1>2 DEF Init
<1>4. out \in [status : Status, keep : BOOLEAN] /\ keep \in BOOLEAN /\ polite \in BOOLEAN
  BY DEF Init, None, Status
<1> QED
  BY <1>1, <1>2, <1>3, <1>4 DEF Init, TypeInv, ConnTypeOK, Rounds, Status

LEMMA SendTypes == ASSUME TypeInv, NEW n, SendSegment(n) PROVE TypeInv'
<1>1. UnitOf' = UnitOf
  BY DEF SendSegment, UnitOf
<1>2. unsent \in Seq(UnitOf) /\ wire \in Seq(UnitOf) /\ n \in 0..Len(unsent)
  BY DEF TypeInv, ConnTypeOK, SendSegment
<1>3. wire' \in Seq(UnitOf) /\ unsent' \in Seq(UnitOf)
  BY <1>2, Cut, ConcatProperties DEF SendSegment
<1> QED
  BY <1>1, <1>3 DEF TypeInv, ConnTypeOK, SendSegment

LEMMA ReadTypes == ASSUME TypeInv, ReadBlock PROVE TypeInv'
<1> DEFINE n == IF Len(wire) < Block THEN Len(wire) ELSE Block
<1>1. UnitOf' = UnitOf
  BY DEF ReadBlock, UnitOf
<1>2. wire \in Seq(UnitOf) /\ inbuf \in Seq(UnitOf) /\ size = Len(inbuf) /\ Len(inbuf) \in Nat
  BY LenProperties DEF TypeInv, ConnTypeOK, ReadBlock
<1>3. n \in 1..Len(wire)
  BY <1>2, LenProperties, ConnectionAssumption DEF ReadBlock
<1>4. wire' \in Seq(UnitOf) /\ inbuf' \in Seq(UnitOf) /\ Len(inbuf') = Len(inbuf) + n
  BY <1>2, <1>3, Cut, ConcatProperties DEF ReadBlock
<1>5. size' = Len(inbuf') /\ Len(inbuf') > 0
  BY <1>2, <1>3, <1>4 DEF ReadBlock
<1>6. pc' \in {"read", "handle", "close"}
  BY DEF ReadBlock, AfterRead
<1> QED
  BY <1>1, <1>4, <1>5, <1>6 DEF TypeInv, ConnTypeOK, ReadBlock

LEMMA ReadEndTypes == ASSUME TypeInv, ReadEnd \/ ReadError PROVE TypeInv'
<1>1. size = Len(inbuf) /\ Len(inbuf) \in Nat
  BY LenProperties DEF TypeInv, ConnTypeOK, ReadEnd, ReadError
<1>2. UnitOf' = UnitOf
  BY DEF ReadEnd, ReadError, UnitOf
<1>3. CASE ReadEnd
  <2>1. \/ pc' = "handle" /\ size > 0
        \/ pc' = "close"
    BY <1>3, ConnectionAssumption DEF ReadEnd, AfterRead, ReadsOn, Handled
  <2> QED
    BY <1>1, <1>2, <1>3, <2>1 DEF TypeInv, ConnTypeOK, ReadEnd
<1>4. CASE ReadError
  <2>1. pc' = "close" /\ size' = -1
    BY <1>4, ConnectionAssumption DEF ReadError, AfterRead, ReadsOn, Handled, SizeAfterError
  <2> QED
    BY <1>2, <1>4, <2>1 DEF TypeInv, ConnTypeOK, ReadError
<1> QED
  BY <1>3, <1>4

LEMMA HandleTypes == ASSUME TypeInv, Handle PROVE TypeInv'
<1>1. UNCHANGED <<asks, polite, unsent, wire, peer, inbuf, size, log>> /\ UnitOf' = UnitOf
  BY DEF Handle, UnitOf
<1>2. pc' \in {"ask", "write", "crashed"} /\ pc = "handle"
  BY DEF Handle, ParseFails, ParseCrashes, Serve, Respond, Ask
<1>3. inbuf[1].req \in DOMAIN asks
  <2>1. inbuf \in Seq(UnitOf) /\ Len(inbuf) \in Nat /\ Len(inbuf) > 0
    BY <1>2, LenProperties DEF TypeInv, ConnTypeOK
  <2>2. inbuf[1] \in UnitOf
    BY <2>1
  <2> QED
    BY <2>2 DEF UnitOf
<1>4. Path \in Paths
  <2>1. asks \in Seq(Request)
    BY ClientsAssumption DEF TypeInv, ConnTypeOK
  <2>2. asks[inbuf[1].req] \in Request
    BY <1>3, <2>1, LenProperties, ElementOfSeq
  <2> QED
    BY <2>2 DEF Path, Request
<1>5. out' \in [status : Status, keep : BOOLEAN] /\ keep' \in BOOLEAN
  <2>1. CASE ParseFails
    <3>1. out' = [status |-> 400, keep |-> FALSE] /\ keep' = keep
      BY <2>1 DEF ParseFails, Answer
    <3> QED
      BY <3>1 DEF TypeInv, ConnTypeOK, Status
  <2>2. CASE ParseCrashes
    BY <2>2 DEF ParseCrashes, TypeInv, ConnTypeOK, Status
  <2>3. ASSUME NEW k \in BOOLEAN, Serve(k)
        PROVE  out' \in [status : Status, keep : BOOLEAN] /\ keep' \in BOOLEAN
    <3>1. \A status \in Statuses(Path) : status \in Status
      BY <1>4 DEF Statuses, Paths, Status
    <3>2. ASSUME NEW status \in Status, NEW j \in BOOLEAN, Respond(status, j)
          PROVE  out' \in [status : Status, keep : BOOLEAN] /\ keep' \in BOOLEAN
      <4>1. out' = [status |-> status, keep |-> j] /\ keep' = j
        BY <3>2 DEF Respond, Answer
      <4> QED
        BY <4>1
    <3>3. CASE Respond(501, k)
      BY <3>2, <3>3 DEF Status
    <3>4. CASE Respond(400, k)
      BY <3>2, <3>4 DEF Status
    <3>5. CASE Ask(k)
      BY <3>5 DEF Ask, TypeInv, ConnTypeOK, Status
    <3>6. CASE \E status \in Statuses(Path) : Respond(status, k)
      BY <3>1, <3>2, <3>6
    <3> QED
      BY <2>3, <3>3, <3>4, <3>5, <3>6, Zenon DEF Serve
  <2>4. ("Connection: keep-alive" \in Headers) \in BOOLEAN
    OBVIOUS
  <2> QED
    BY <2>1, <2>2, <2>3, <2>4 DEF Handle
<1> QED
  BY <1>1, <1>2, <1>5 DEF TypeInv, ConnTypeOK, Status

LEMMA AskedTypes == ASSUME TypeInv, Asked PROVE TypeInv'
<1>1. UNCHANGED <<asks, polite, unsent, wire, peer, inbuf, size, log>> /\ UnitOf' = UnitOf
  BY DEF Asked, UnitOf
<1>2. PICK k \in BOOLEAN : Respond(200, k)
  BY DEF Asked, TypeInv, ConnTypeOK
<1>3. out' = [status |-> 200, keep |-> k] /\ keep' = k /\ pc' = "write" /\ pc = "ask"
  BY <1>2 DEF Respond, Answer, Asked
<1> QED
  BY <1>1, <1>3 DEF TypeInv, ConnTypeOK

LEMMA EndRoundTypes ==
  ASSUME TypeInv, pc \in {"handle", "ask", "write"}, NEW sent \in {"whole", "part", "none"}, NEW k,
         EndRound(sent, k), UNCHANGED <<asks, polite, unsent, wire, peer>>
  PROVE  TypeInv'
<1>1. UnitOf' = UnitOf
  BY DEF UnitOf
<1>2. inbuf[1] \in UnitOf
  BY DEF TypeInv, ConnTypeOK
<1>3. <<>> \in Seq(UnitOf) /\ Len(<<>>) = 0
  BY EmptySeq
<1>4. log \in Seq(Rounds)
  BY DEF TypeInv, ConnTypeOK, Rounds, Status
<1>5. log' \in Seq(Rounds)
  BY <1>2, <1>4, AppendProperties DEF EndRound, Rounds, UnitOf, TypeInv, ConnTypeOK, Status
<1>6. pc' \in {"read", "close"} /\ inbuf' = <<>> /\ size' = 0 /\ out' = None /\ keep' = FALSE
  BY DEF EndRound, NewRound
<1> QED
  BY <1>1, <1>3, <1>5, <1>6 DEF TypeInv, ConnTypeOK, None, Rounds, Status

LEMMA TypesStep == ASSUME TypeInv, [Next]_vars PROVE TypeInv'
<1>1. CASE Send
  <2>1. \E n : SendSegment(n)
    BY <1>1 DEF Send
  <2> QED
    BY <2>1, SendTypes
<1>2. CASE Leave
  BY <1>2 DEF Leave, TypeInv, ConnTypeOK, UnitOf
<1>3. CASE ReadBlock \/ ReadEnd \/ ReadError
  BY <1>3, ReadTypes, ReadEndTypes
<1>4. CASE Handle \/ Asked
  BY <1>4, HandleTypes, AskedTypes
<1>5. CASE Throw
  BY <1>5, EndRoundTypes DEF Throw
<1>6. CASE Write \/ WriteFails
  BY <1>6, EndRoundTypes DEF Write, WriteFails
<1>7. CASE Disconnect
  BY <1>7, EmptySeq DEF Disconnect, NewRound, TypeInv, ConnTypeOK, UnitOf, None
<1>8. CASE UNCHANGED vars
  BY <1>8 DEF vars, TypeInv, ConnTypeOK, UnitOf
<1>9. CASE Over
  BY <1>8, <1>9 DEF Over
<1> QED
  BY <1>1, <1>2, <1>3, <1>4, <1>5, <1>6, <1>7, <1>8, <1>9 DEF Next

(* The types, and that read_size says what is in inbuf (main.cc:1134-1151). *)
THEOREM ConnectionTypes == Spec => []ConnTypeOK
<1>1. Init => TypeInv
  BY InitTypes
<1>2. TypeInv /\ [Next]_vars => TypeInv'
  BY TypesStep
<1>3. TypeInv => ConnTypeOK
  BY DEF TypeInv
<1> QED
  BY <1>1, <1>2, <1>3, PTL DEF Spec

-------------------------------------------------------------------------------
(* The stream stays in order over unsent, wire and inbuf. *)

(* A stream's units follow the order of their requests, and a request has one *)
(* beginning, before its other units.                                        *)
InOrder(s) ==
  \A i, j \in DOMAIN s : i < j =>
    s[i].req <= s[j].req /\ (s[j].is = "GET" => s[i].req < s[j].req)

(* The units of s come before those of t. *)
Before(s, t) ==
  \A i \in DOMAIN s, j \in DOMAIN t :
    s[i].req <= t[j].req /\ (t[j].is = "GET" => s[i].req < t[j].req)

(* What s holds comes after the beginning of request r. *)
Passed(r, s) ==
  \A i \in DOMAIN s : r <= s[i].req /\ (s[i].is = "GET" => r < s[i].req)

LEMMA CutInOrder ==
  ASSUME NEW S, NEW s \in Seq(S), NEW n \in 0..Len(s), InOrder(s)
  PROVE  LET a == SubSeq(s, 1, n)  b == SubSeq(s, n + 1, Len(s))
         IN InOrder(a) /\ InOrder(b) /\ Before(a, b)
<1> DEFINE a == SubSeq(s, 1, n)
           b == SubSeq(s, n + 1, Len(s))
<1>1. Len(s) \in Nat /\ DOMAIN s = 1..Len(s)
  BY LenProperties
<1>2. DOMAIN a = 1..n /\ \A i \in 1..n : a[i] = s[i]
  BY Cut, LenProperties
<1>3. DOMAIN b = 1..Len(s) - n /\ \A i \in 1..Len(s) - n : b[i] = s[n + i]
  BY Cut, LenProperties
<1> HIDE DEF a, b
<1>4. InOrder(a)
  BY <1>1, <1>2 DEF InOrder
<1>5. InOrder(b)
  BY <1>1, <1>3 DEF InOrder
<1>6. Before(a, b)
  BY <1>1, <1>2, <1>3 DEF InOrder, Before
<1> QED
  BY <1>4, <1>5, <1>6 DEF a, b

LEMMA CutBefore ==
  ASSUME NEW S, NEW s \in Seq(S), NEW n \in 0..Len(s)
  PROVE  LET a == SubSeq(s, 1, n)  b == SubSeq(s, n + 1, Len(s))
         IN /\ \A t : Before(s, t) => Before(a, t) /\ Before(b, t)
            /\ \A t : Before(t, s) => Before(t, a) /\ Before(t, b)
            /\ \A r : Passed(r, s) => Passed(r, a) /\ Passed(r, b)
<1> DEFINE a == SubSeq(s, 1, n)
           b == SubSeq(s, n + 1, Len(s))
<1>1. Len(s) \in Nat /\ DOMAIN s = 1..Len(s)
  BY LenProperties
<1>2. DOMAIN a = 1..n /\ \A i \in 1..n : a[i] = s[i]
  BY Cut, LenProperties
<1>3. DOMAIN b = 1..Len(s) - n /\ \A i \in 1..Len(s) - n : b[i] = s[n + i]
  BY Cut, LenProperties
<1> HIDE DEF a, b
<1>4. /\ \A i \in DOMAIN a : \E j \in DOMAIN s : a[i] = s[j]
      /\ \A i \in DOMAIN b : \E j \in DOMAIN s : b[i] = s[j]
  <2>1. ASSUME NEW i \in DOMAIN a PROVE \E j \in DOMAIN s : a[i] = s[j]
    <3>1. i \in DOMAIN s /\ a[i] = s[i]
      BY <2>1, <1>1, <1>2
    <3> QED
      BY <3>1
  <2>2. ASSUME NEW i \in DOMAIN b PROVE \E j \in DOMAIN s : b[i] = s[j]
    <3>1. n + i \in DOMAIN s /\ b[i] = s[n + i]
      BY <2>2, <1>1, <1>3
    <3> QED
      BY <3>1
  <2> QED
    BY <2>1, <2>2
<1>5. \A t : Before(s, t) => Before(a, t) /\ Before(b, t)
  BY <1>4 DEF Before
<1>6. \A t : Before(t, s) => Before(t, a) /\ Before(t, b)
  BY <1>4 DEF Before
<1>7. \A r : Passed(r, s) => Passed(r, a) /\ Passed(r, b)
  BY <1>4 DEF Passed
<1> QED
  BY <1>5, <1>6, <1>7 DEF a, b

LEMMA Joined ==
  ASSUME NEW S, NEW s \in Seq(S), NEW t \in Seq(S)
  PROVE  /\ InOrder(s) /\ InOrder(t) /\ Before(s, t) => InOrder(s \o t)
         /\ \A u : Before(s, u) /\ Before(t, u) => Before(s \o t, u)
         /\ \A u : Before(u, s) /\ Before(u, t) => Before(u, s \o t)
         /\ \A r : Passed(r, s) /\ Passed(r, t) => Passed(r, s \o t)
<1> DEFINE c == s \o t
<1>1. /\ Len(s) \in Nat /\ Len(t) \in Nat /\ DOMAIN s = 1..Len(s) /\ DOMAIN t = 1..Len(t)
      /\ DOMAIN c = 1..Len(s) + Len(t)
      /\ \A i \in 1..Len(s) + Len(t) : c[i] = IF i <= Len(s) THEN s[i] ELSE t[i - Len(s)]
  BY LenProperties, ConcatProperties
<1> HIDE DEF c
<1>2. \A i \in DOMAIN c : \/ i \in DOMAIN s /\ c[i] = s[i]
                          \/ i - Len(s) \in DOMAIN t /\ c[i] = t[i - Len(s)] /\ i > Len(s)
  BY <1>1
<1>3. InOrder(s) /\ InOrder(t) /\ Before(s, t) => InOrder(c)
  <2> SUFFICES ASSUME InOrder(s), InOrder(t), Before(s, t),
                      NEW i \in DOMAIN c, NEW j \in DOMAIN c, i < j
               PROVE  c[i].req <= c[j].req /\ (c[j].is = "GET" => c[i].req < c[j].req)
    BY DEF InOrder
  <2>1. CASE i \in DOMAIN s /\ j \in DOMAIN s
    BY <1>1, <2>1 DEF InOrder
  <2>2. CASE i \in DOMAIN s /\ j \notin DOMAIN s
    BY <1>1, <1>2, <2>2 DEF Before
  <2>3. CASE i \notin DOMAIN s
    <3>1. /\ i - Len(s) \in DOMAIN t /\ j - Len(s) \in DOMAIN t /\ i - Len(s) < j - Len(s)
          /\ c[i] = t[i - Len(s)] /\ c[j] = t[j - Len(s)]
      BY <1>1, <1>2, <2>3
    <3> QED
      BY <3>1 DEF InOrder
  <2> QED
    BY <2>1, <2>2, <2>3
<1>4. \A u : Before(s, u) /\ Before(t, u) => Before(c, u)
  BY <1>2 DEF Before
<1>5. \A u : Before(u, s) /\ Before(u, t) => Before(u, c)
  BY <1>2 DEF Before
<1>6. \A r : Passed(r, s) /\ Passed(r, t) => Passed(r, c)
  BY <1>2 DEF Passed
<1> QED
  BY <1>3, <1>4, <1>5, <1>6 DEF c

LEMMA EmptyInOrder ==
  /\ InOrder(<<>>)
  /\ \A s : Before(<<>>, s) /\ Before(s, <<>>)
  /\ \A r : Passed(r, <<>>)
BY DEF InOrder, Before, Passed

(* A request's text is in order, and so is what is written of a client's stream. *)
LEMMA TextInOrder ==
  ASSUME NEW c \in Seq(Request), NEW i \in 1..Len(c)
  PROVE  InOrder(Text(i, c[i])) /\ \A k \in DOMAIN Text(i, c[i]) : Text(i, c[i])[k].req = i
<1> DEFINE t == Text(i, c[i])
<1>1. Len(c) \in Nat /\ DOMAIN c = 1..Len(c) /\ c[i] \in Request
  BY LenProperties, ElementOfSeq
<1>2. i \in Nat /\ i \in DOMAIN c
  BY <1>1
<1>0. t \in Seq(UnitsOf(c))
  BY TextInStream
<1>3. /\ Len(t) = Len(c[i].headers) + 3 /\ Len(c[i].headers) \in Nat
      /\ \A k \in 1..Len(t) : t[k].req = i
      /\ \A k \in 2..Len(t) : t[k].is # "GET"
  BY <1>1, <1>2, TextIs
<1> HIDE DEF t
<1>4. DOMAIN t = 1..Len(t) /\ Len(t) \in Nat
  BY <1>0, LenProperties
<1>5. InOrder(t)
  BY <1>2, <1>3, <1>4 DEF InOrder
<1> QED
  BY <1>3, <1>4, <1>5 DEF t

LEMMA StreamInOrder == ASSUME NEW c \in Seq(Request) PROVE InOrder(Stream(c))
<1> DEFINE n == Len(c)
           Ordered(i) == InOrder(Upto(c)[i]) /\ \A k \in DOMAIN Upto(c)[i] : Upto(c)[i][k].req <= i
           T == {i \in 0..n : Ordered(i)}
<1>1. n \in Nat
  BY LenProperties
<1>2. 0 \in T
  <2>1. Upto(c)[0] = <<>>
    BY UptoIs
  <2>2. \A k \in DOMAIN <<>> : <<>>[k].req <= 0
    OBVIOUS
  <2>3. Ordered(0)
    BY <2>1, <2>2, EmptyInOrder
  <2> QED
    BY <1>1, <2>3
<1>3. ASSUME NEW j \in 0..n - 1, j \in T PROVE j + 1 \in T
  <2> DEFINE i == j + 1
             s == Upto(c)[j]
             t == Text(i, c[i])
  <2>1. i \in 1..n /\ i - 1 = j /\ j \in 0..n /\ i \in 0..n
    BY <1>1
  <2>2. Upto(c)[i] = s \o t /\ s \in Seq(UnitsOf(c)) /\ t \in Seq(UnitsOf(c))
    BY <2>1, UptoIs, TextInStream
  <2>3. InOrder(t) /\ \A k \in DOMAIN t : t[k].req = i
    BY <2>1, TextInOrder
  <2>4. InOrder(s) /\ \A k \in DOMAIN s : s[k].req <= j
    BY <1>3
  <2> HIDE DEF s, t
  <2>5. \A k \in DOMAIN s : s[k].req \in Nat
    <3>1. DOMAIN c = 1..n
      BY LenProperties
    <3>2. \A k \in DOMAIN s : s[k] \in UnitsOf(c)
      BY <2>2, LenProperties, ElementOfSeq
    <3> QED
      BY <1>1, <3>1, <3>2 DEF UnitsOf
  <2>6. Before(s, t)
    BY <1>1, <2>1, <2>3, <2>4, <2>5 DEF Before
  <2>7. InOrder(s \o t)
    BY <2>2, <2>3, <2>4, <2>6, Joined
  <2>8. /\ DOMAIN s = 1..Len(s) /\ DOMAIN t = 1..Len(t) /\ Len(s) \in Nat /\ Len(t) \in Nat
        /\ DOMAIN (s \o t) = 1..Len(s) + Len(t)
        /\ \A k \in 1..Len(s) + Len(t) : (s \o t)[k] = IF k <= Len(s) THEN s[k] ELSE t[k - Len(s)]
    BY <2>2, LenProperties, ConcatProperties
  <2>9. \A k \in DOMAIN (s \o t) : (s \o t)[k].req <= i
    BY <1>1, <2>1, <2>3, <2>4, <2>5, <2>8
  <2> QED
    BY <2>1, <2>2, <2>7, <2>9
<1>4. \A i \in 0..n : i \in T
  <2> HIDE DEF T
  <2> QED
    BY <1>1, <1>2, <1>3, Upward
<1>5. n \in T
  <2> HIDE DEF T
  <2> QED
    BY <1>1, <1>4
<1> QED
  BY <1>5 DEF Stream

Served == {k \in DOMAIN log : log[k].status \in {200, 404}}

(* What was served is behind everything that is left of the stream. *)
OrderInv ==
  /\ InOrder(inbuf) /\ InOrder(wire) /\ InOrder(unsent)
  /\ Before(inbuf, wire) /\ Before(inbuf, unsent) /\ Before(wire, unsent)
  /\ \A k \in Served : /\ log[k].begins
                       /\ Passed(log[k].req, inbuf)
                       /\ Passed(log[k].req, wire)
                       /\ Passed(log[k].req, unsent)
  /\ \A j, k \in Served : j < k => log[j].req < log[k].req
  /\ pc = "ask" => inbuf[1].is = "GET"
  /\ pc = "write" /\ out.status \in {200, 404} => inbuf[1].is = "GET"

LEMMA InitOrder == Init => OrderInv
<1> SUFFICES ASSUME Init PROVE OrderInv
  OBVIOUS
<1>1. InOrder(unsent)
  BY ClientsAssumption, StreamInOrder DEF Init
<1>2. Served = {}
  BY DEF Init, Served
<1> QED
  BY <1>1, <1>2, EmptyInOrder DEF Init, OrderInv

LEMMA SendOrder == ASSUME TypeInv, OrderInv, NEW n, SendSegment(n) PROVE OrderInv'
<1> DEFINE a == SubSeq(unsent, 1, n)
           b == SubSeq(unsent, n + 1, Len(unsent))
<1>1. unsent \in Seq(UnitOf) /\ wire \in Seq(UnitOf) /\ n \in 0..Len(unsent)
  BY DEF TypeInv, ConnTypeOK, SendSegment
<1>2. a \in Seq(UnitOf) /\ b \in Seq(UnitOf)
  BY <1>1, Cut
<1>3. wire' = wire \o a /\ unsent' = b /\ UNCHANGED <<pc, inbuf, out, log>>
  BY DEF SendSegment
<1>4. InOrder(a) /\ InOrder(b) /\ Before(a, b)
  BY <1>1, CutInOrder DEF OrderInv
<1>5. /\ Before(wire, a) /\ Before(wire, b) /\ Before(inbuf, a) /\ Before(inbuf, b)
      /\ \A k \in Served : Passed(log[k].req, a) /\ Passed(log[k].req, b)
  BY <1>1, CutBefore DEF OrderInv
<1> HIDE DEF a, b
<1>6. InOrder(wire \o a) /\ Before(inbuf, wire \o a) /\ Before(wire \o a, b)
  BY <1>1, <1>2, <1>4, <1>5, Joined DEF OrderInv
<1>7. \A k \in Served : Passed(log[k].req, wire \o a)
  BY <1>1, <1>2, <1>5, Joined DEF OrderInv
<1> QED
  BY <1>3, <1>4, <1>5, <1>6, <1>7 DEF OrderInv, Served

LEMMA ReadOrder == ASSUME TypeInv, OrderInv, ReadBlock PROVE OrderInv'
<1> DEFINE n == IF Len(wire) < Block THEN Len(wire) ELSE Block
           a == SubSeq(wire, 1, n)
           b == SubSeq(wire, n + 1, Len(wire))
<1>1. wire \in Seq(UnitOf) /\ inbuf \in Seq(UnitOf)
  BY DEF TypeInv, ConnTypeOK
<1>2. n \in 0..Len(wire)
  BY <1>1, LenProperties, ConnectionAssumption
<1>3. /\ inbuf' = inbuf \o a /\ wire' = b /\ UNCHANGED <<unsent, out, log>>
      /\ pc' \notin {"ask", "write"}
  BY DEF ReadBlock, AfterRead
<1> HIDE DEF n
<1>4. a \in Seq(UnitOf) /\ b \in Seq(UnitOf)
  BY <1>1, <1>2, Cut
<1>5. InOrder(a) /\ InOrder(b) /\ Before(a, b)
  BY <1>1, <1>2, CutInOrder DEF OrderInv
<1>6. /\ Before(inbuf, a) /\ Before(inbuf, b) /\ Before(a, unsent) /\ Before(b, unsent)
      /\ \A k \in Served : Passed(log[k].req, a) /\ Passed(log[k].req, b)
  BY <1>1, <1>2, CutBefore DEF OrderInv
<1> HIDE DEF a, b
<1>7. InOrder(inbuf \o a) /\ Before(inbuf \o a, b) /\ Before(inbuf \o a, unsent)
  BY <1>1, <1>4, <1>5, <1>6, Joined DEF OrderInv
<1>8. \A k \in Served : Passed(log[k].req, inbuf \o a)
  BY <1>1, <1>4, <1>6, Joined DEF OrderInv
<1> QED
  BY <1>3, <1>5, <1>6, <1>7, <1>8 DEF OrderInv, Served

LEMMA HandleOrder == ASSUME OrderInv, Handle PROVE OrderInv'
<1>1. UNCHANGED <<unsent, wire, inbuf, log>>
  BY DEF Handle
<1>2. /\ pc' = "ask" => inbuf[1].is = "GET"
      /\ pc' = "write" /\ out'.status \in {200, 404} => inbuf[1].is = "GET"
  <2>1. CASE ParseFails
    BY <2>1 DEF ParseFails, Answer
  <2>2. CASE ParseCrashes
    BY <2>2 DEF ParseCrashes
  <2>3. CASE Serve("Connection: keep-alive" \in Headers)
    <3>1. CASE Implements
      BY <3>1 DEF Implements
    <3>2. CASE ~Implements
      <4>1. Respond(501, "Connection: keep-alive" \in Headers)
        BY <2>3, <3>2, Zenon DEF Serve
      <4>2. out'.status = 501 /\ pc' = "write"
        BY <4>1 DEF Respond, Answer
      <4> QED
        BY <4>2
    <3> QED
      BY <3>1, <3>2
  <2> QED
    BY <2>1, <2>2, <2>3 DEF Handle
<1> QED
  BY <1>1, <1>2 DEF OrderInv, Served

LEMMA AskedOrder == ASSUME OrderInv, Asked PROVE OrderInv'
<1>1. UNCHANGED <<unsent, wire, inbuf, log>> /\ inbuf[1].is = "GET" /\ pc' = "write"
  BY DEF Asked, Respond, OrderInv
<1> QED
  BY <1>1 DEF OrderInv, Served

LEMMA EndRoundOrder ==
  ASSUME TypeInv, WordInv, OrderInv, pc \in {"handle", "ask", "write"}, NEW sent, NEW k,
         EndRound(sent, k), UNCHANGED <<asks, unsent, wire>>
  PROVE  OrderInv'
<1> DEFINE e == [req |-> inbuf[1].req, begins |-> inbuf[1].is = "GET",
                 status |-> out.status, keep |-> out.keep, sent |-> sent]
           m == Len(log) + 1
<1>1. log' = Append(log, e) /\ inbuf' = <<>> /\ pc' \notin {"ask", "write"}
  BY DEF EndRound, NewRound
<1>2. log \in Seq(Rounds)
  BY DEF TypeInv, ConnTypeOK, Rounds, Status
<1>3. /\ Len(log) \in Nat /\ DOMAIN log = 1..Len(log)
      /\ DOMAIN log' = 1..m /\ log'[m] = e
      /\ \A j \in 1..Len(log) : log'[j] = log[j]
  BY <1>1, <1>2, LenProperties
<1>4. 1 \in DOMAIN inbuf
  BY LenProperties DEF TypeInv, ConnTypeOK
<1>5. e.status \in {200, 404} => inbuf[1].is = "GET"
  BY DEF WordInv, OrderInv, None
<1>6. e.req = inbuf[1].req /\ (inbuf[1].is = "GET" => e.begins)
  OBVIOUS
<1> HIDE DEF e
<1>7. \A j \in Served' : \/ j \in Served /\ log'[j] = log[j]
                         \/ j = m /\ log'[j] = e /\ e.status \in {200, 404}
  BY <1>3 DEF Served
<1>8. Passed(inbuf[1].req, wire) /\ Passed(inbuf[1].req, unsent)
  BY <1>4 DEF OrderInv, Before, Passed
<1>9. \A j \in Served : j <= Len(log) /\ (inbuf[1].is = "GET" => log[j].req < inbuf[1].req)
  BY <1>3, <1>4 DEF OrderInv, Passed, Served
<1>10. \A j \in Served' : /\ log'[j].begins
                          /\ Passed(log'[j].req, wire)
                          /\ Passed(log'[j].req, unsent)
  <2> SUFFICES ASSUME NEW j \in Served'
               PROVE  log'[j].begins /\ Passed(log'[j].req, wire) /\ Passed(log'[j].req, unsent)
    OBVIOUS
  <2>1. CASE j \in Served /\ log'[j] = log[j]
    BY <2>1 DEF OrderInv
  <2>2. CASE j = m /\ log'[j] = e /\ e.status \in {200, 404}
    <3>1. e.begins /\ e.req = inbuf[1].req
      BY <2>2, <1>5, <1>6
    <3> QED
      BY <2>2, <3>1, <1>8
  <2> QED
    BY <2>1, <2>2, <1>7
<1>11. \A i, j \in Served' : i < j => log'[i].req < log'[j].req
  <2> SUFFICES ASSUME NEW i \in Served', NEW j \in Served', i < j
               PROVE  log'[i].req < log'[j].req
    OBVIOUS
  <2>1. CASE j \in Served /\ log'[j] = log[j]
    <3>1. i # m
      <4>1. i \in 1..m /\ j \in 1..m
        BY <1>3 DEF Served
      <4>2. j <= Len(log)
        BY <2>1, <1>9
      <4> QED
        BY <4>1, <4>2, <1>3
    <3>2. i \in Served /\ log'[i] = log[i]
      BY <3>1, <1>7
    <3> QED
      BY <2>1, <3>2 DEF OrderInv
  <2>2. CASE j = m /\ log'[j] = e /\ e.status \in {200, 404}
    <3>1. i \in Served /\ log'[i] = log[i]
      <4>1. i \in 1..m
        BY <1>3 DEF Served
      <4> QED
        BY <4>1, <2>2, <1>3, <1>7
    <3>2. inbuf[1].is = "GET" /\ log'[j].req = inbuf[1].req
      BY <2>2, <1>5, <1>6
    <3> QED
      BY <3>1, <3>2, <1>9
  <2> QED
    BY <2>1, <2>2, <1>7
<1> QED
  BY <1>1, <1>10, <1>11, EmptyInOrder DEF OrderInv

LEMMA OrderStep == ASSUME TypeInv, WordInv, OrderInv, [Next]_vars PROVE OrderInv'
<1>1. CASE Send
  <2>1. \E n : SendSegment(n)
    BY <1>1 DEF Send
  <2> QED
    BY <2>1, SendOrder
<1>2. CASE Leave
  BY <1>2 DEF Leave, OrderInv, Served
<1>3. CASE ReadBlock
  BY <1>3, ReadOrder
<1>4. CASE ReadEnd \/ ReadError
  BY <1>4 DEF ReadEnd, ReadError, AfterRead, OrderInv, Served
<1>5. CASE Handle \/ Asked
  BY <1>5, HandleOrder, AskedOrder
<1>6. CASE Throw
  BY <1>6, EndRoundOrder DEF Throw
<1>7. CASE Write \/ WriteFails
  BY <1>7, EndRoundOrder DEF Write, WriteFails
<1>8. CASE Disconnect
  BY <1>8, EmptyInOrder DEF Disconnect, NewRound, OrderInv, Served
<1>9. CASE UNCHANGED vars
  BY <1>9 DEF vars, OrderInv, Served
<1>10. CASE Over
  BY <1>9, <1>10 DEF Over
<1> QED
  BY <1>1, <1>2, <1>3, <1>4, <1>5, <1>6, <1>7, <1>8, <1>9, <1>10 DEF Next

(* No request is served twice, or for a part of another, however the network cuts the *)
(* stream and whatever the block (main.cc:1139-1148, http.c:290-330).                *)
THEOREM ConnectionServesRequestsOnce == Spec => []ServesRequestsOnce
<1>1. Init => TypeInv /\ WordInv /\ OrderInv
  BY InitTypes, InitOrder DEF Init, WordInv
<1>2. TypeInv /\ WordInv /\ OrderInv /\ [Next]_vars => (TypeInv /\ WordInv /\ OrderInv)'
  BY TypesStep, WordStep, OrderStep
<1>3. OrderInv => ServesRequestsOnce
  BY DEF OrderInv, ServesRequestsOnce, Served
<1> QED
  BY <1>1, <1>2, <1>3, PTL DEF Spec

-------------------------------------------------------------------------------
(* A polite client. *)

LEMMA TextBegins ==
  ASSUME NEW i \in Nat, NEW r \in Request
  PROVE  /\ Text(i, r)[1].req = i /\ Text(i, r)[1].is = "GET" /\ Text(i, r)[2].is \in Version
         /\ Len(Text(i, r)) \in Nat /\ Len(Text(i, r)) >= 3
<1> DEFINE t == Text(i, r)
<1>1. /\ Len(t) = Len(r.headers) + 3 /\ Len(r.headers) \in Nat
      /\ t[1] = [req |-> i, is |-> "GET"] /\ t[2] = [req |-> i, is |-> r.version]
  BY TextIs
<1> HIDE DEF t
<1>2. r.version \in Version
  BY DEF Request
<1>3. t[1].req = i /\ t[1].is = "GET" /\ t[2].is \in Version
  BY <1>1, <1>2
<1>4. Len(t) \in Nat /\ Len(t) >= 3
  BY <1>1
<1> QED
  BY <1>3, <1>4 DEF t

(* It may send request j: those before it were answered, or their answers are lost; *)
Waits(j) ==
  /\ pc = "read" /\ inbuf = <<>> /\ wire = <<>>
  /\ Len(log) = j - 1

(* it sent the request before j, which has no answer yet: that is what was read, and it is *)
(* not handled before all of it was.                                                      *)
Underway(j) ==
  /\ j > 1 /\ Len(log) = j - 2
  /\ inbuf \o wire = Text(j - 1, asks[j - 1])
  /\ pc # "read" => wire = <<>>

(* What it did not send yet is its stream from request j on. *)
Turn(j) ==
  /\ j \in 1..Len(asks) + 1
  /\ Stream(asks) = Upto(asks)[j - 1] \o unsent
  /\ pc \in {"read", "handle", "ask", "write"} => Waits(j) \/ Underway(j)

LogInTurn == \A k \in DOMAIN log : log[k].req = k /\ log[k].begins

TurnInv == polite => /\ pc # "crashed"
                     /\ LogInTurn
                     /\ \E j : Turn(j)

LEMMA CutJoined ==
  ASSUME NEW S, NEW a \in Seq(S), NEW b \in Seq(S)
  PROVE  /\ SubSeq(a \o b, 1, Len(a)) = a
         /\ SubSeq(a \o b, Len(a) + 1, Len(a \o b)) = b
<1> DEFINE c == a \o b
           x == SubSeq(c, 1, Len(a))
           y == SubSeq(c, Len(a) + 1, Len(c))
<1>1. /\ Len(a) \in Nat /\ Len(b) \in Nat
      /\ c \in Seq(S) /\ Len(c) = Len(a) + Len(b)
      /\ \A i \in 1..Len(a) + Len(b) : c[i] = IF i <= Len(a) THEN a[i] ELSE b[i - Len(a)]
  BY LenProperties, ConcatProperties
<1> HIDE DEF c
<1>2. Len(a) \in 0..Len(c)
  BY <1>1
<1>3. /\ x \in Seq(S) /\ Len(x) = Len(a) /\ \A i \in 1..Len(a) : x[i] = c[i]
      /\ y \in Seq(S) /\ Len(y) = Len(c) - Len(a) /\ \A i \in 1..Len(c) - Len(a) : y[i] = c[Len(a) + i]
  BY <1>1, <1>2, Cut
<1> HIDE DEF x, y
<1>4. x = a
  <2>1. \A i \in 1..Len(x) : x[i] = a[i]
    BY <1>1, <1>3
  <2> QED
    BY <1>3, <2>1, SeqEqual
<1>5. y = b
  <2>1. Len(y) = Len(b)
    BY <1>1, <1>3
  <2>2. ASSUME NEW i \in 1..Len(y) PROVE y[i] = b[i]
    <3>1. y[i] = c[Len(a) + i] /\ i \in 1..Len(b)
      BY <1>3, <2>1
    <3>2. Len(a) + i \in 1..Len(a) + Len(b) /\ ~(Len(a) + i <= Len(a)) /\ Len(a) + i - Len(a) = i
      BY <1>1, <3>1
    <3> QED
      BY <1>1, <3>1, <3>2
  <2> QED
    BY <1>3, <2>1, <2>2, SeqEqual
<1> QED
  BY <1>4, <1>5 DEF x, y, c

LEMMA AskedIsRequests == TypeInv => asks \in Seq(Request) /\ UnitOf = UnitsOf(asks)
BY ClientsAssumption DEF TypeInv, ConnTypeOK, UnitOf, UnitsOf

LEMMA InitTurn == Init => TurnInv
<1> SUFFICES ASSUME Init PROVE TurnInv
  OBVIOUS
<1>1. asks \in Seq(Request)
  BY ClientsAssumption DEF Init
<1>2. Len(asks) \in Nat
  BY <1>1, LenProperties
<1>3. Stream(asks) = <<>> \o Stream(asks)
  BY <1>1, StreamTypes, ConcatEmptySeq
<1>4. Upto(asks)[1 - 1] = <<>>
  <2>1. Upto(asks)[0] = <<>>
    BY <1>1, UptoIs
  <2>2. 1 - 1 = 0
    OBVIOUS
  <2> QED
    BY <2>1, <2>2
<1>5. Waits(1) /\ pc # "crashed" /\ LogInTurn
  BY EmptySeq DEF Init, Waits, LogInTurn
<1>6. Turn(1)
  BY <1>2, <1>3, <1>4, <1>5 DEF Turn, Init
<1> QED
  BY <1>5, <1>6 DEF TurnInv

(* It sends one request, and not before the answer to the last. *)
LEMMA SendTurn == ASSUME TypeInv, TurnInv, polite, Send PROVE TurnInv'
<1> DEFINE c == asks
<1>1. c \in Seq(Request) /\ UnitOf = UnitsOf(c) /\ unsent \in Seq(UnitsOf(c)) /\ unsent # <<>>
  BY AskedIsRequests DEF TypeInv, ConnTypeOK, Send
<1>2. PICK j : Turn(j)
  BY DEF TurnInv
<1>3. j \in 1..Len(c) + 1 /\ Stream(c) = Upto(c)[j - 1] \o unsent
  BY <1>2 DEF Turn
<1> HIDE DEF c
<1>4. /\ j \in 1..Len(c) /\ Text(j, c[j]) \in Seq(UnitsOf(c))
      /\ \E s \in Seq(UnitsOf(c)) : unsent = Text(j, c[j]) \o s /\ Stream(c) = Upto(c)[j] \o s
  BY <1>1, <1>3, NextRequest
<1>5. PICK s \in Seq(UnitsOf(c)) : unsent = Text(j, c[j]) \o s /\ Stream(c) = Upto(c)[j] \o s
  BY <1>4
<1> DEFINE t == Text(j, c[j])
<1>6. t[1].req = j /\ Len(t) \in Nat /\ Len(t) >= 1
  <2>1. j \in Nat /\ c[j] \in Request /\ j \in DOMAIN c
    BY <1>1, <1>4, LenProperties, ElementOfSeq
  <2>2. t[1].req = j /\ Len(t) \in Nat /\ Len(t) >= 3
    BY <2>1, TextBegins
  <2> HIDE DEF t
  <2> QED
    BY <2>2
<1> HIDE DEF t
<1>7. unsent[1].req = j
  <2>1. unsent = t \o s /\ t \in Seq(UnitsOf(c))
    BY <1>4, <1>5 DEF t
  <2>2. \A i \in 1..Len(t) + Len(s) : (t \o s)[i] = IF i <= Len(t) THEN t[i] ELSE s[i - Len(t)]
    BY <2>1, ConcatProperties
  <2>3. Len(s) \in Nat
    BY LenProperties
  <2> QED
    BY <1>6, <2>1, <2>2, <2>3
<1>8. SendSegment(Len(t)) /\ (j > 1 => Answered(j - 1))
  BY <1>7 DEF Send, t, c
<1>9. wire' = wire \o t /\ unsent' = s
  <2>1. SubSeq(unsent, 1, Len(t)) = t /\ SubSeq(unsent, Len(t) + 1, Len(unsent)) = s
    BY <1>4, <1>5, CutJoined DEF t
  <2> QED
    BY <1>8, <2>1 DEF SendSegment
<1>10. UNCHANGED <<asks, polite, pc, inbuf, log>> /\ pc # "closed"
  BY <1>8 DEF SendSegment
<1>11. Len(c) \in Nat
  BY <1>1, LenProperties
<1>12. pc \in {"read", "handle", "ask", "write"} => Underway(j + 1)'
  <2> SUFFICES ASSUME pc \in {"read", "handle", "ask", "write"} PROVE Underway(j + 1)'
    OBVIOUS
  <2>1. ~Underway(j)
    <3> SUFFICES ASSUME Underway(j) PROVE FALSE
      OBVIOUS
    <3>1. Len(log) = j - 2 /\ j - 1 \in DOMAIN log
      BY <1>8 DEF Underway, Answered
    <3>2. DOMAIN log = 1..Len(log)
      BY LenProperties DEF TypeInv, ConnTypeOK
    <3> QED
      BY <1>3, <1>11, <3>1, <3>2
  <2>2. pc = "read" /\ inbuf = <<>> /\ wire = <<>> /\ Len(log) = j - 1
    BY <1>2, <2>1 DEF Turn, Waits
  <2>3. inbuf' \o wire' = t
    <3>1. <<>> \o t = t
      BY <1>4, ConcatEmptySeq DEF t
    <3> QED
      BY <1>9, <1>10, <2>2, <3>1
  <2>4. (j + 1) - 1 = j /\ j + 1 > 1 /\ (j + 1) - 2 = j - 1
    BY <1>3, <1>11
  <2> QED
    BY <1>10, <2>2, <2>3, <2>4 DEF Underway, t, c
<1>13. Turn(j + 1)'
  <2>1. (j + 1) \in 1..Len(c) + 1 /\ (j + 1) - 1 = j
    BY <1>4, <1>11
  <2> QED
    BY <1>5, <1>9, <1>10, <1>12, <2>1 DEF Turn, c
<1> QED
  BY <1>10, <1>13 DEF TurnInv, LogInTurn

(* A block that is not full is the rest of the request. *)
LEMMA ReadTurn == ASSUME TypeInv, TurnInv, polite, ReadBlock PROVE TurnInv'
<1> DEFINE n == IF Len(wire) < Block THEN Len(wire) ELSE Block
           a == SubSeq(wire, 1, n)
           b == SubSeq(wire, n + 1, Len(wire))
<1>1. /\ wire \in Seq(UnitOf) /\ inbuf \in Seq(UnitOf) /\ Len(inbuf) \in Nat /\ Len(wire) \in Nat
      /\ size = Len(inbuf) /\ pc = "read" /\ n > 0
  BY LenProperties DEF TypeInv, ConnTypeOK, ReadBlock
<1>2. n \in 1..Len(wire) /\ (n # Block => n = Len(wire))
  BY <1>1, ConnectionAssumption
<1>3. /\ inbuf' = inbuf \o a /\ wire' = b /\ size' = size + n /\ pc' = AfterRead(n, size')
      /\ UNCHANGED <<asks, polite, unsent, log>>
  BY DEF ReadBlock
<1> HIDE DEF n
<1>4. a \in Seq(UnitOf) /\ b \in Seq(UnitOf) /\ a \o b = wire
  <2>1. a \in Seq(UnitOf) /\ b \in Seq(UnitOf)
    BY <1>1, <1>2, Cut
  <2>2. 1 \in 1..Len(wire) + 1 /\ n \in 1 - 1..Len(wire) /\ Len(wire) \in n..Len(wire)
    BY <1>1, <1>2
  <2>3. a \o b = SubSeq(wire, 1, Len(wire))
    BY <1>1, <2>2, ConcatAdjacentSubSeq
  <2> QED
    BY <1>1, <2>1, <2>3, SubSeqFull
<1>5. n # Block => b = <<>>
  BY <1>1, <1>2, SubSeqEmpty
<1> HIDE DEF a, b
<1>6. inbuf' \o wire' = inbuf \o wire
  <2>1. \A u, v, w \in Seq(UnitOf) : (u \o v) \o w = u \o (v \o w)
    BY Regroup
  <2> QED
    BY <1>1, <1>3, <1>4, <2>1
<1>7. pc' = "read" \/ (pc' = "handle" /\ wire' = <<>>)
  <2>1. size' > 0
    BY <1>1, <1>2, <1>3
  <2>2. pc' = IF n = Block THEN "read" ELSE "handle"
    BY <1>3, <2>1 DEF AfterRead, ReadsOn, Handled
  <2> QED
    BY <1>3, <1>5, <2>2
<1>8. PICK j : Turn(j)
  BY DEF TurnInv
<1>9. Underway(j)
  <2>1. wire # <<>>
    BY <1>1, <1>2, EmptySeq
  <2> QED
    BY <1>1, <1>8, <2>1 DEF Turn, Waits
<1>10. Underway(j)'
  BY <1>3, <1>6, <1>7, <1>9 DEF Underway
<1>11. Turn(j)'
  BY <1>3, <1>8, <1>10 DEF Turn
<1> QED
  BY <1>3, <1>7, <1>11 DEF TurnInv, LogInTurn

LEMMA ReadEndTurn == ASSUME TypeInv, TurnInv, polite, ReadEnd \/ ReadError PROVE TurnInv'
<1>1. UNCHANGED <<asks, polite, unsent, wire, inbuf, log>> /\ pc = "read"
  BY DEF ReadEnd, ReadError
<1>2. pc' = "close" \/ (pc' = "handle" /\ wire = <<>> /\ inbuf # <<>>)
  <2>1. CASE ReadError
    <3>1. pc' = "close"
      BY <2>1, ConnectionAssumption DEF ReadError, AfterRead, ReadsOn, Handled, SizeAfterError
    <3> QED
      BY <3>1
  <2>2. CASE ReadEnd
    <3>1. size > 0 => inbuf # <<>>
      BY <1>1, EmptySeq DEF TypeInv, ConnTypeOK
    <3>2. pc' = IF size > 0 THEN "handle" ELSE "close"
      BY <2>2, ConnectionAssumption DEF ReadEnd, AfterRead, ReadsOn, Handled
    <3>3. wire = <<>>
      BY <2>2 DEF ReadEnd
    <3> QED
      BY <3>1, <3>2, <3>3
  <2> QED
    BY <2>1, <2>2
<1>3. PICK j : Turn(j)
  BY DEF TurnInv
<1>4. pc' = "handle" => Underway(j)'
  BY <1>1, <1>2, <1>3 DEF Turn, Waits, Underway
<1>5. Turn(j)'
  BY <1>1, <1>2, <1>3, <1>4 DEF Turn
<1> QED
  BY <1>1, <1>2, <1>5 DEF TurnInv, LogInTurn

(* A whole request is what the worker has when it handles one. *)
LEMMA WholeRequest ==
  ASSUME TypeInv, NEW j, Turn(j), pc \in {"handle", "ask", "write"}
  PROVE  /\ j \in Nat /\ j - 1 \in Nat /\ Len(log) = j - 2 /\ wire = <<>>
         /\ Len(inbuf) >= 3 /\ Len(inbuf) \in Nat
         /\ inbuf[1].req = j - 1 /\ inbuf[1].is = "GET"
         /\ inbuf[2].is \in Version
<1>1. Underway(j) /\ wire = <<>>
  BY DEF Turn, Waits, Underway
<1>2. asks \in Seq(Request) /\ Len(asks) \in Nat
  BY AskedIsRequests, LenProperties
<1>3. j - 1 \in 1..Len(asks)
  BY <1>1, <1>2 DEF Turn, Underway
<1>4. asks[j - 1] \in Request /\ j - 1 \in Nat
  BY <1>2, <1>3, ElementOfSeq
<1>5. inbuf = Text(j - 1, asks[j - 1])
  <2>1. inbuf \in Seq(UnitOf)
    BY DEF TypeInv, ConnTypeOK
  <2>2. inbuf \o <<>> = inbuf
    BY <2>1, ConcatEmptySeq
  <2> QED
    BY <1>1, <2>2 DEF Underway
<1>6. /\ inbuf[1].req = j - 1 /\ inbuf[1].is = "GET" /\ inbuf[2].is \in Version
      /\ Len(inbuf) \in Nat /\ Len(inbuf) >= 3
  BY <1>4, <1>5, TextBegins
<1>7. j \in Nat /\ Len(log) = j - 2
  BY <1>1, <1>2 DEF Turn, Underway
<1> QED
  BY <1>1, <1>4, <1>6, <1>7

LEMMA HandleTurn == ASSUME TypeInv, TurnInv, polite, Handle PROVE TurnInv'
<1>1. UNCHANGED <<asks, polite, unsent, wire, inbuf, log>> /\ pc = "handle"
  BY DEF Handle
<1>2. PICK j : Turn(j)
  BY DEF TurnInv
<1>3. /\ Len(inbuf) >= 3 /\ Len(inbuf) \in Nat /\ inbuf[1].is = "GET" /\ inbuf[2].is \in Version
  BY <1>1, <1>2, WholeRequest
<1>4. 2 \in DOMAIN inbuf
  BY <1>3, LenProperties DEF TypeInv, ConnTypeOK
<1>5. HasLine
  BY <1>3, <1>4 DEF HasLine, EndsLine, Version
<1>6. FirstLineWords = 3
  <2>1. ~EndsLine(inbuf[1])
    BY <1>3 DEF EndsLine
  <2>2. Words(inbuf[1]) = 2 /\ Words(inbuf[2]) = 1
    BY <1>3 DEF Words, Version
  <2> QED
    BY <2>1, <2>2 DEF FirstLineWords
<1>7. Serve("Connection: keep-alive" \in Headers)
  <2>1. ~(FirstLineWords < 3)
    BY <1>6
  <2> QED
    BY <1>5, <2>1, Zenon DEF Handle, ParseFails, ParseCrashes
<1>8. pc' \in {"ask", "write"}
  BY <1>7 DEF Serve, Respond, Ask
<1>9. Underway(j)'
  <2>1. Underway(j)
    BY <1>1, <1>2 DEF Turn, Waits
  <2> QED
    BY <1>1, <1>8, <2>1 DEF Underway
<1>10. Turn(j)'
  BY <1>1, <1>2, <1>9 DEF Turn
<1> QED
  BY <1>1, <1>8, <1>10 DEF TurnInv, LogInTurn

LEMMA AskedTurn == ASSUME TypeInv, TurnInv, polite, Asked PROVE TurnInv'
<1>1. UNCHANGED <<asks, polite, unsent, wire, inbuf, log>> /\ pc = "ask" /\ pc' = "write"
  BY DEF Asked, Respond
<1>2. PICK j : Turn(j)
  BY DEF TurnInv
<1>3. Underway(j)'
  <2>1. Underway(j)
    BY <1>1, <1>2 DEF Turn, Waits
  <2> QED
    BY <1>1, <2>1 DEF Underway
<1>4. Turn(j)'
  BY <1>1, <1>2, <1>3 DEF Turn
<1> QED
  BY <1>1, <1>4 DEF TurnInv, LogInTurn

(* A round is of the request that is underway, and leaves nothing of it. *)
LEMMA EndRoundTurn ==
  ASSUME TypeInv, TurnInv, polite, pc \in {"handle", "ask", "write"}, NEW sent, NEW k,
         EndRound(sent, k), UNCHANGED <<asks, polite, unsent, wire>>,
         sent \in {"whole", "part", "none"}
  PROVE  TurnInv'
<1> DEFINE e == [req |-> inbuf[1].req, begins |-> inbuf[1].is = "GET",
                 status |-> out.status, keep |-> out.keep, sent |-> sent]
<1>1. PICK j : Turn(j)
  BY DEF TurnInv
<1>2. /\ j \in Nat /\ Len(log) = j - 2 /\ wire = <<>>
      /\ inbuf[1].req = j - 1 /\ inbuf[1].is = "GET"
  BY <1>1, WholeRequest
<1>3. log' = Append(log, e) /\ inbuf' = <<>> /\ pc' \in {"read", "close"}
  BY DEF EndRound, NewRound
<1>4. e.req = j - 1 /\ e.begins
  BY <1>2
<1> HIDE DEF e
<1>5. log \in Seq(Rounds)
  BY DEF TypeInv, ConnTypeOK, Rounds, Status
<1>6. /\ Len(log) \in Nat /\ DOMAIN log = 1..Len(log)
      /\ Len(log') = Len(log) + 1 /\ DOMAIN log' = 1..Len(log) + 1 /\ log'[Len(log) + 1] = e
      /\ \A i \in 1..Len(log) : log'[i] = log[i]
  BY <1>3, <1>5, LenProperties
<1>7. LogInTurn'
  <2> SUFFICES ASSUME NEW i \in DOMAIN log' PROVE log'[i].req = i /\ log'[i].begins
    BY DEF LogInTurn
  <2>1. CASE i \in 1..Len(log)
    BY <1>6, <2>1 DEF TurnInv, LogInTurn
  <2>2. CASE i = Len(log) + 1
    <3>1. Len(log) + 1 = j - 1
      BY <1>2
    <3> QED
      BY <1>4, <1>6, <2>2, <3>1
  <2> QED
    BY <1>6, <2>1, <2>2
<1>8. Len(log') = j - 1
  BY <1>2, <1>6
<1>9. pc' = "read" => Waits(j)'
  BY <1>2, <1>3, <1>8 DEF Waits
<1>10. Turn(j)'
  BY <1>1, <1>3, <1>9 DEF Turn
<1> QED
  BY <1>3, <1>7, <1>10 DEF TurnInv

LEMMA TurnStep == ASSUME TypeInv, TurnInv, [Next]_vars PROVE TurnInv'
<1>0. polite' = polite
  BY DEF Next, vars, Send, SendSegment, Leave, ReadBlock, ReadEnd, ReadError, Handle, Asked,
         Throw, Write, WriteFails, Disconnect, Over
<1> SUFFICES ASSUME polite PROVE TurnInv'
  BY <1>0 DEF TurnInv
<1>1. CASE Send
  BY <1>1, SendTurn
<1>2. CASE ReadBlock
  BY <1>2, ReadTurn
<1>3. CASE ReadEnd \/ ReadError
  BY <1>3, ReadEndTurn
<1>4. CASE Handle \/ Asked
  BY <1>4, HandleTurn, AskedTurn
<1>5. CASE Throw
  BY <1>5, EndRoundTurn DEF Throw
<1>6. CASE Write \/ WriteFails
  BY <1>6, EndRoundTurn DEF Write, WriteFails
<1>7. CASE UNCHANGED <<asks, polite, unsent, wire, pc, inbuf, log>>
  BY <1>7 DEF TurnInv, LogInTurn, Turn, Waits, Underway
<1>8. CASE Disconnect
  <2>1. UNCHANGED <<asks, polite, unsent, log>> /\ pc' = "closed"
    BY <1>8 DEF Disconnect
  <2> QED
    BY <2>1 DEF TurnInv, LogInTurn, Turn
<1> QED
  BY <1>1, <1>2, <1>3, <1>4, <1>5, <1>6, <1>7, <1>8 DEF Next, Leave, Over, vars

(* A client each of whose requests arrives in one piece, after the answer to the one before, *)
(* is answered in turn, and its requests crash nothing, whatever their headers and the length *)
(* of a block are (main.cc:1128-1180).                                                       *)
THEOREM ConnectionAnswersInTurn == Spec => []AnswersInTurn
<1>1. Init => TypeInv /\ TurnInv
  BY InitTypes, InitTurn
<1>2. TypeInv /\ TurnInv /\ [Next]_vars => (TypeInv /\ TurnInv)'
  BY TypesStep, TurnStep
<1>3. TurnInv => AnswersInTurn
  BY DEF TurnInv, LogInTurn, AnswersInTurn
<1> QED
  BY <1>1, <1>2, <1>3, PTL DEF Spec
===============================================================================
