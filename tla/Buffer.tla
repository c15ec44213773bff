-------------------------------- MODULE Buffer --------------------------------
(***************************************************************************)
(* The byte buffers of src/buffer.c: a block of memory that grows by       *)
(* doubling, in which the bytes start misalign places after the beginning. *)
(*                                                                         *)
(* A cell of memory outside the bytes of a buffer holds Junk: what was left*)
(* there, or what realloc returned, must never be seen.                    *)
(***************************************************************************)
EXTENDS Integers, Sequences

CONSTANTS Buf,       \* the buffers
          Byte,      \* the bytes
          CR, LF,    \* the two bytes that end a line
          Junk,      \* the contents of an unused cell
          MinAlloc,  \* the smallest block: 256
          MinPrint,  \* what buffer_add_vprintf makes room for first: 64
          MaxRead,   \* the most buffer_read asks for: 4096
          Data,      \* the byte strings a caller, or a socket, may deliver
          MaxLen     \* bound: no bytes are added beyond this length

ASSUME BufferAssumption ==
  /\ CR \in Byte /\ LF \in Byte /\ CR # LF
  /\ Junk \notin Byte
  /\ MinAlloc \in Nat \ {0}
  /\ MinPrint \in Nat
  /\ MaxRead \in Nat
  /\ Data \subseteq Seq(Byte)
  /\ MaxLen \in Nat

VARIABLES buf,  \* of each buffer: its block (mem, of totallen cells), how far the
                \* pointer buffer is beyond orig_buffer (off), misalign and len
          io    \* the bytes the last operation was given or handed out

vars == <<buf, io>>

Cells(n) == [1..n -> Byte \cup {Junk}]

Block(mem, totallen, off, misalign, len) ==
  [mem |-> mem, totallen |-> totallen, off |-> off, misalign |-> misalign, len |-> len]

New == Block([i \in 1..0 |-> Junk], 0, 0, 0, 0)

\* The bytes in a buffer: len cells from the pointer on.
BytesOf(r) == [i \in 1..r.len |-> r.mem[r.off + i]]

Init == /\ buf = [b \in Buf |-> New]
        /\ io = <<>>

-------------------------------------------------------------------------------
(* The operations on one buffer r *)

\* Mistake: only the pointers are reset.
AlignedInPlace(r) == Block(r.mem, r.totallen, 0, 0, r.len)

\* buffer_align: memmove to the beginning of the block.
Aligned(r) ==
  Block([i \in 1..r.totallen |-> IF i <= r.len THEN r.mem[r.off + i] ELSE Junk],
        r.totallen, 0, 0, r.len)

\* The block is n cells long now; realloc keeps what was in it.
Reallocated(r, n) ==
  Block([i \in 1..n |-> IF i <= r.totallen THEN r.mem[i] ELSE Junk], n, 0, r.misalign, r.len)

\* The first length, doubling from totallen or MinAlloc, that is enough.
Doubled(total, need) ==
  LET first == IF total < MinAlloc THEN MinAlloc ELSE total
  IN {n \in need..2 * need + first :
        \E k \in 0..need : n = first * 2^k /\ \A j \in 0..k-1 : first * 2^j < need}

\* Mistake: the space in front of the bytes is counted as free.
NeedUnaligned(r, datlen) == r.len + datlen

Need(r, datlen) == r.misalign + r.len + datlen

\* What buffer_expand makes of r when realloc does not fail.
Expanded(r, datlen) ==
  IF r.totallen >= Need(r, datlen) THEN {r}
  ELSE IF r.misalign >= datlen THEN {Aligned(r)}
  ELSE {Reallocated(IF r.off # 0 THEN Aligned(r) ELSE r, n) :
           n \in Doubled(r.totallen, Need(r, datlen))}

\* And when it fails, which it can only where it is called.
ExpandFailed(r, datlen) ==
  IF r.totallen >= Need(r, datlen) \/ r.misalign >= datlen THEN {}
  ELSE {IF r.off # 0 THEN Aligned(r) ELSE r}

\* memcpy behind the bytes; a cell outside of the block cannot be stored to.
Stored(r, data) ==
  LET end == r.off + r.len
  IN Block([i \in 1..r.totallen |->
              IF i > end /\ i <= end + Len(data) THEN data[i - end] ELSE r.mem[i]],
           r.totallen, r.off, r.misalign, r.len + Len(data))

\* Mistake: more than there is can be thrown away.
DrainedBlindly(r, n) ==
  Block([i \in 1..r.totallen |-> IF i > r.off /\ i <= r.off + n THEN Junk ELSE r.mem[i]],
        r.totallen, r.off + n, r.misalign + n, r.len - n)

\* buffer_drain.
Drained(r, n) ==
  IF n >= r.len
    THEN Block([i \in 1..r.totallen |-> Junk], r.totallen, 0, 0, 0)
    ELSE Block([i \in 1..r.totallen |-> IF i > r.off /\ i <= r.off + n THEN Junk ELSE r.mem[i]],
               r.totallen, r.off + n, r.misalign + n, r.len - n)

-------------------------------------------------------------------------------
(* The operations of buffer.h *)

\* Bound: nothing is added to a buffer that would hold more than MaxLen bytes.
MayGrow(b, n) == buf[b].len + n <= MaxLen

Put(b, r) == buf' = [buf EXCEPT ![b] = r]

\* buffer_add.
Add(b, data) ==
  /\ MayGrow(b, Len(data))
  /\ \E r \in Expanded(buf[b], Len(data)) : Put(b, Stored(r, data))
  /\ io' = data

\* buffer_add, buffer_add_buffer and buffer_read return -1: no memory.
NoMemory(b, n) ==
  /\ \E r \in ExpandFailed(buf[b], n) : Put(b, r)
  /\ io' = <<>>

\* buffer_add_vprintf: room for MinPrint bytes, if there is memory for it; then
\* vsnprintf, which writes a final NUL as well, and again with enough room.
Space(r) == r.totallen - (r.misalign + r.len)

Printf(b, data) ==
  /\ MayGrow(b, Len(data))
  /\ \E r \in Expanded(buf[b], MinPrint) \cup ExpandFailed(buf[b], MinPrint) :
       \/ /\ Len(data) < Space(r)
          /\ Put(b, Stored(r, data))
       \/ /\ Len(data) >= Space(r)
          /\ \E s \in Expanded(r, Len(data) + 1) : Put(b, Stored(s, data))
  /\ io' = data

PrintfFails(b, n) ==
  /\ \E r \in Expanded(buf[b], MinPrint) \cup ExpandFailed(buf[b], MinPrint) :
       /\ n >= Space(r)
       /\ \E s \in ExpandFailed(r, n + 1) : Put(b, s)
  /\ io' = <<>>

\* buffer_drain.
Drain(b, n) == Put(b, Drained(buf[b], n)) /\ io' = <<>>

\* buffer_remove, of datlen bytes or of what there is; buffer_write, of what
\* write(2) took.
Remove(b, datlen) ==
  LET n == IF datlen >= buf[b].len THEN buf[b].len ELSE datlen
  IN /\ io' = SubSeq(BytesOf(buf[b]), 1, n)
     /\ Put(b, Drained(buf[b], n))

\* buffer_readline: the index of the first byte that ends a line.
Readline(b) ==
  LET data == BytesOf(buf[b])
      len == buf[b].len
  IN \E i \in 1..len :
       /\ data[i] \in {CR, LF}
       /\ \A j \in 1..i-1 : data[j] \notin {CR, LF}
       /\ io' = SubSeq(data, 1, i - 1)
       /\ IF i < len /\ data[i + 1] \in {CR, LF} /\ data[i + 1] # data[i]
            THEN Put(b, Drained(buf[b], i + 1))
            ELSE Put(b, Drained(buf[b], i))

\* Mistake: what was copied is not removed from where it came from.
AddBufferKeeping(out, in) ==
  /\ out # in
  /\ MayGrow(out, buf[in].len)
  /\ io' = <<>>
  /\ \E r \in Expanded(buf[out], buf[in].len) : Put(out, Stored(r, BytesOf(buf[in])))

\* buffer_add_buffer: an empty buffer changes places with the other.
AddBuffer(out, in) ==
  /\ out # in
  /\ MayGrow(out, buf[in].len)
  /\ io' = <<>>
  /\ IF buf[out].len = 0
       THEN buf' = [buf EXCEPT ![out] = buf[in], ![in] = buf[out]]
       ELSE \E r \in Expanded(buf[out], buf[in].len) :
              buf' = [buf EXCEPT ![out] = Stored(r, BytesOf(buf[in])),
                                 ![in] = Drained(buf[in], buf[in].len)]

\* buffer_read: room for howmuch bytes, at most howmuch of them arrive; no data,
\* when recv fails or the connection is closed.
Read(b, howmuch, data) ==
  /\ MayGrow(b, howmuch)
  /\ Len(data) <= howmuch
  /\ \E r \in Expanded(buf[b], howmuch) : Put(b, Stored(r, data))
  /\ io' = data

Next ==
  \E b \in Buf :
    \/ \E data \in Data : Add(b, data) \/ Printf(b, data)
    \/ \E n \in 0..MaxLen : NoMemory(b, n) \/ PrintfFails(b, n)
    \/ \E n \in 0..MaxLen : Drain(b, n) \/ Remove(b, n)
    \/ Readline(b)
    \/ \E in \in Buf : AddBuffer(b, in)
    \/ \E howmuch \in 1..MaxRead, data \in Data : Read(b, howmuch, data)

Spec == Init /\ [][Next]_vars

-------------------------------------------------------------------------------
(* Properties *)

\* The type invariant.
TypeOK ==
  /\ buf = [b \in Buf |-> buf[b]]
  /\ \A b \in Buf :
       /\ buf[b] = Block(buf[b].mem, buf[b].totallen, buf[b].off, buf[b].misalign, buf[b].len)
       /\ buf[b].totallen \in Nat
       /\ buf[b].off \in Nat
       /\ buf[b].misalign \in Nat
       /\ buf[b].len \in Nat
       /\ buf[b].mem \in Cells(buf[b].totallen)
  /\ io \in Seq(Byte)

\* The bytes of a buffer lie inside its block (the assertion in
\* buffer_add_vprintf, buffer.c:65), and misalign is where they start: it is
\* kept beside the two pointers and set by other statements than they are.
InBlock ==
  \A b \in Buf :
    /\ buf[b].misalign + buf[b].len <= buf[b].totallen
    /\ buf[b].off = buf[b].misalign

\* No byte of a buffer is one that nobody put there.
NoJunk == \A b \in Buf : \A i \in 1..buf[b].len : buf[b].mem[buf[b].off + i] \in Byte

\* Seen from outside, the buffers are queues of bytes.
Queue == INSTANCE ByteQueue WITH contents <- [b \in Buf |-> BytesOf(buf[b])]
IsByteQueue == Queue!Spec
===============================================================================
