------------------------------ MODULE ByteQueue ------------------------------
(***************************************************************************)
(* What src/buffer.h promises: each buffer is a queue of bytes.  Bytes are *)
(* added at the end and taken from the front, whole buffers are moved, and *)
(* nothing else happens to them; an operation that fails changes nothing.  *)
(***************************************************************************)
EXTENDS Naturals, Sequences

CONSTANTS Buf,    \* the buffers
          CR, LF  \* the two bytes that end a line

VARIABLES contents,  \* of each buffer, the bytes in it
          io         \* the bytes the last operation was given or handed out

vars == <<contents, io>>

Init == /\ contents = [b \in Buf |-> <<>>]
        /\ io = <<>>

AddLast(b) == contents' = [contents EXCEPT ![b] = @ \o io']

\* The first n bytes are handed out, or thrown away.
TakeFirst(b, n) == /\ contents' = [contents EXCEPT ![b] = SubSeq(@, n + 1, Len(@))]
                   /\ io' \in {<<>>, SubSeq(contents[b], 1, n)}

\* Where the first line of s ends, and how long its terminator is: one of
\* \r\n, \n\r, \r and \n, as long as possible.
LineEnds(s) == {i \in 1..Len(s) : s[i] \in {CR, LF} /\ \A j \in 1..i-1 : s[j] \notin {CR, LF}}

Terminator(s, i) ==
  IF i < Len(s) /\ s[i + 1] \in {CR, LF} \ {s[i]} THEN 2 ELSE 1

TakeLine(b) ==
  \E i \in LineEnds(contents[b]) :
    /\ io' = SubSeq(contents[b], 1, i - 1)
    /\ contents' = [contents EXCEPT ![b] = SubSeq(@, i + Terminator(@, i), Len(@))]

Move(out, in) == /\ contents' = [contents EXCEPT ![out] = @ \o contents[in], ![in] = <<>>]
                 /\ io' = <<>>

Fail == UNCHANGED contents /\ io' = <<>>

Next == \/ \E b \in Buf : \/ AddLast(b)
                          \/ \E n \in 0..Len(contents[b]) : TakeFirst(b, n)
                          \/ TakeLine(b)
                          \/ \E in \in Buf \ {b} : Move(b, in)
        \/ Fail

Spec == Init /\ [][Next]_vars
==============================================================================
