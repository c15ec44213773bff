----------------------------- MODULE BufferProofs -----------------------------
(***************************************************************************)
(* The byte buffers, for every size of the blocks, of the data and of the  *)
(* buffers' number: the bytes stay inside their block and the buffers are  *)
(* queues of bytes.                                                        *)
(***************************************************************************)
EXTENDS Buffer, SequenceTheorems, TLAPS

\* What the invariants say of one buffer.
Good(r) ==
  /\ r.totallen \in Nat /\ r.off \in Nat /\ r.misalign \in Nat /\ r.len \in Nat
  /\ r.mem \in Cells(r.totallen)
  /\ r.misalign + r.len <= r.totallen
  /\ r.off = r.misalign
  /\ \A i \in 1..r.len : r.mem[r.off + i] \in Byte

LEMMA GoodNumbers ==
  ASSUME NEW r, Good(r)
  PROVE  /\ r.totallen \in Nat /\ r.off \in Nat /\ r.misalign \in Nat /\ r.len \in Nat
         /\ r.misalign + r.len <= r.totallen
         /\ r.off = r.misalign
BY DEF Good

\* The bytes of a buffer are a sequence.
LEMMA BytesOfSeq ==
  ASSUME NEW r, Good(r)
  PROVE  /\ BytesOf(r) \in Seq(Byte)
         /\ Len(BytesOf(r)) = r.len
         /\ \A i \in 1..r.len : BytesOf(r)[i] = r.mem[r.off + i]
BY DEF Good, BytesOf

\* memmove within the block.
LEMMA AlignedGood ==
  ASSUME NEW r, Good(r)
  PROVE  /\ Good(Aligned(r))
         /\ BytesOf(Aligned(r)) = BytesOf(r)
         /\ Aligned(r).len = r.len /\ Aligned(r).misalign = 0 /\ Aligned(r).off = 0
         /\ Aligned(r).totallen = r.totallen
<1>1. /\ Aligned(r).len = r.len /\ Aligned(r).misalign = 0 /\ Aligned(r).off = 0
      /\ Aligned(r).totallen = r.totallen
      /\ Aligned(r).mem = [i \in 1..r.totallen |-> IF i <= r.len THEN r.mem[r.off + i] ELSE Junk]
  BY DEF Aligned, Block
<1>2. \A i \in 1..r.len : Aligned(r).mem[i] = r.mem[r.off + i] /\ r.mem[r.off + i] \in Byte
  BY <1>1 DEF Good
<1>3. Aligned(r).mem \in Cells(r.totallen)
  BY <1>1, <1>2 DEF Cells, Good
<1>4. BytesOf(Aligned(r)) = BytesOf(r)
  BY <1>1, <1>2 DEF BytesOf, Good
<1> QED
  BY <1>1, <1>2, <1>3, <1>4 DEF Good

\* realloc to a block that is large enough for the bytes.
LEMMA ReallocatedGood ==
  ASSUME NEW r, Good(r), r.off = 0, NEW n \in Nat, r.len <= n
  PROVE  /\ Good(Reallocated(r, n))
         /\ BytesOf(Reallocated(r, n)) = BytesOf(r)
         /\ Reallocated(r, n).len = r.len /\ Reallocated(r, n).misalign = 0
         /\ Reallocated(r, n).totallen = n
<1> DEFINE s == Reallocated(r, n)
<1>1. /\ s.len = r.len /\ s.misalign = r.misalign /\ s.off = 0 /\ s.totallen = n
      /\ s.mem = [i \in 1..n |-> IF i <= r.totallen THEN r.mem[i] ELSE Junk]
  BY DEF Reallocated, Block
<1>2. \A i \in 1..r.len : s.mem[i] = r.mem[r.off + i] /\ r.mem[r.off + i] \in Byte
  BY <1>1 DEF Good
<1>3. s.mem \in Cells(n)
  BY <1>1 DEF Cells, Good
<1>4. BytesOf(s) = BytesOf(r)
  BY <1>1, <1>2 DEF BytesOf, Good
<1>5. \A i \in 1..s.len : s.mem[s.off + i] \in Byte
  BY <1>1, <1>2
<1>6. s.mem \in Cells(s.totallen)
  BY <1>1, <1>3
<1>7. /\ s.totallen \in Nat /\ s.off \in Nat /\ s.misalign \in Nat /\ s.len \in Nat
      /\ s.misalign + s.len <= s.totallen /\ s.off = s.misalign
      /\ s.misalign = 0
  <2>1. r.misalign = 0 /\ r.len \in Nat
    BY GoodNumbers
  <2> HIDE DEF s
  <2> QED
    BY <1>1, <2>1
<1>8. Good(s)
  BY <1>5, <1>6, <1>7 DEF Good
<1> QED
  BY <1>1, <1>4, <1>7, <1>8

\* buffer_expand keeps the bytes and makes the room it was asked for.
LEMMA ExpandedGood ==
  ASSUME NEW r, Good(r), NEW n \in Nat, NEW e \in Expanded(r, n)
  PROVE  /\ Good(e)
         /\ BytesOf(e) = BytesOf(r)
         /\ e.len = r.len
         /\ e.misalign + e.len + n <= e.totallen
<1>1. CASE r.totallen >= Need(r, n)
  BY <1>1 DEF Expanded, Need, Good
<1>2. CASE ~(r.totallen >= Need(r, n)) /\ r.misalign >= n
  <2>1. e = Aligned(r)
    BY <1>2 DEF Expanded
  <2> QED
    BY <1>2, <2>1, AlignedGood DEF Good
<1>3. CASE ~(r.totallen >= Need(r, n)) /\ ~(r.misalign >= n)
  <2> DEFINE s == IF r.off # 0 THEN Aligned(r) ELSE r
  <2>1. PICK m \in Doubled(r.totallen, Need(r, n)) : e = Reallocated(s, m)
    BY <1>3 DEF Expanded
  <2>2. Need(r, n) \in Nat /\ Need(r, n) = r.misalign + r.len + n
    BY DEF Need, Good
  <2>3. m \in Nat /\ m >= Need(r, n)
    BY <2>1, <2>2, BufferAssumption DEF Doubled, Good
  <2>4. Good(s) /\ BytesOf(s) = BytesOf(r) /\ s.off = 0 /\ s.len = r.len
    BY AlignedGood DEF Good
  <2>5. s.len <= m
    BY <2>2, <2>3, <2>4 DEF Good
  <2>6. /\ Good(e) /\ BytesOf(e) = BytesOf(s)
        /\ e.len = s.len /\ e.misalign = 0 /\ e.totallen = m
    BY <2>1, <2>3, <2>4, <2>5, ReallocatedGood
  <2> QED
    BY <2>2, <2>3, <2>4, <2>6 DEF Good
<1> QED
  BY <1>1, <1>2, <1>3

LEMMA ExpandFailedGood ==
  ASSUME NEW r, Good(r), NEW n \in Nat, NEW e \in ExpandFailed(r, n)
  PROVE  Good(e) /\ BytesOf(e) = BytesOf(r) /\ e.len = r.len
BY AlignedGood DEF ExpandFailed

\* memcpy behind the bytes, where there is room.
LEMMA StoredGood ==
  ASSUME NEW r, Good(r), NEW data \in Seq(Byte),
         r.misalign + r.len + Len(data) <= r.totallen
  PROVE  /\ Good(Stored(r, data))
         /\ BytesOf(Stored(r, data)) = BytesOf(r) \o data
<1> DEFINE s == Stored(r, data)
           end == r.off + r.len
<1>0. Len(data) \in Nat /\ \A i \in 1..Len(data) : data[i] \in Byte
  BY LenProperties, ElementOfSeq
<1>1. /\ s.totallen = r.totallen /\ s.off = r.off /\ s.misalign = r.misalign
      /\ s.len = r.len + Len(data)
      /\ s.mem = [i \in 1..r.totallen |->
                    IF i > end /\ i <= end + Len(data) THEN data[i - end] ELSE r.mem[i]]
  BY DEF Stored, Block
<1>2. s.mem \in Cells(r.totallen)
  <2>1. ASSUME NEW i \in 1..r.totallen, i > end, i <= end + Len(data)
        PROVE  data[i - end] \in Byte
    <3>1. i - end \in 1..Len(data)
      BY <1>0, <2>1 DEF Good
    <3> QED
      BY <1>0, <3>1
  <2>2. \A i \in 1..r.totallen : r.mem[i] \in Byte \cup {Junk}
    BY DEF Good, Cells
  <2> QED
    BY <1>1, <2>1, <2>2 DEF Cells
<1>3. \A i \in 1..r.len : s.mem[s.off + i] = r.mem[r.off + i] /\ r.mem[r.off + i] \in Byte
  BY <1>0, <1>1 DEF Good
<1>4. \A i \in 1..Len(data) : s.mem[s.off + (r.len + i)] = data[i]
  <2> SUFFICES ASSUME NEW i \in 1..Len(data) PROVE s.mem[s.off + (r.len + i)] = data[i]
    OBVIOUS
  <2>1. /\ end \in Nat /\ i \in Nat /\ i >= 1 /\ i <= Len(data)
        /\ end + Len(data) <= r.totallen /\ s.off + (r.len + i) = end + i
    BY <1>0, <1>1 DEF Good
  <2>2. end + i \in 1..r.totallen /\ end + i > end /\ end + i <= end + Len(data) /\ (end + i) - end = i
    <3> HIDE DEF s, end
    <3>1. r.totallen \in Nat
      BY GoodNumbers
    <3> QED
      BY <1>0, <2>1, <3>1
  <2>3. s.mem[end + i] = data[(end + i) - end]
    BY <1>1, <2>2
  <2> QED
    BY <2>1, <2>2, <2>3
<1>5. Good(s)
  <2>1. ASSUME NEW i \in 1..s.len PROVE s.mem[s.off + i] \in Byte
    <3>1. CASE i <= r.len
      BY <1>1, <1>3, <3>1 DEF Good
    <3>2. CASE ~(i <= r.len)
      <4>1. i - r.len \in 1..Len(data) /\ r.len + (i - r.len) = i
        BY <1>0, <1>1, <3>2 DEF Good
      <4> QED
        BY <1>0, <1>4, <4>1
    <3> QED
      BY <3>1, <3>2
  <2> QED
    BY <1>0, <1>1, <1>2, <2>1 DEF Good
<1>6. BytesOf(s) = BytesOf(r) \o data
  <2>1. /\ BytesOf(r) \in Seq(Byte) /\ Len(BytesOf(r)) = r.len
        /\ BytesOf(s) \in Seq(Byte) /\ Len(BytesOf(s)) = r.len + Len(data)
        /\ \A i \in 1..r.len : BytesOf(r)[i] = r.mem[r.off + i]
        /\ \A i \in 1..r.len + Len(data) : BytesOf(s)[i] = s.mem[s.off + i]
    BY <1>1, <1>5, BytesOfSeq
  <2>2. /\ BytesOf(r) \o data \in Seq(Byte)
        /\ Len(BytesOf(r) \o data) = r.len + Len(data)
        /\ \A i \in 1..r.len + Len(data) :
             (BytesOf(r) \o data)[i] = IF i <= r.len THEN BytesOf(r)[i] ELSE data[i - r.len]
    <3> DEFINE u == BytesOf(r)
    <3>1. u \in Seq(Byte) /\ Len(u) = r.len
      BY <2>1
    <3> HIDE DEF u
    <3>2. /\ u \o data \in Seq(Byte)
          /\ Len(u \o data) = Len(u) + Len(data)
          /\ \A i \in 1..Len(u) + Len(data) :
               (u \o data)[i] = IF i <= Len(u) THEN u[i] ELSE data[i - Len(u)]
      BY <3>1, ConcatProperties
    <3>3. /\ u \o data \in Seq(Byte)
          /\ Len(u \o data) = r.len + Len(data)
          /\ \A i \in 1..r.len + Len(data) :
               (u \o data)[i] = IF i <= r.len THEN u[i] ELSE data[i - r.len]
      BY <3>1, <3>2
    <3> QED
      BY <3>3 DEF u
  <2>3. ASSUME NEW i \in 1..r.len + Len(data) PROVE BytesOf(s)[i] = (BytesOf(r) \o data)[i]
    <3>1. CASE i <= r.len
      BY <1>3, <2>1, <2>2, <3>1 DEF Good
    <3>2. CASE ~(i <= r.len)
      <4>1. i - r.len \in 1..Len(data) /\ r.len + (i - r.len) = i
        BY <1>0, <3>2 DEF Good
      <4> QED
        BY <1>4, <2>1, <2>2, <3>2, <4>1
    <3> QED
      BY <3>1, <3>2
  <2> QED
    BY <2>1, <2>2, <2>3, SeqEqual
<1> QED
  BY <1>5, <1>6

\* buffer_drain takes the first bytes away, and all of them if there are fewer.
LEMMA DrainedGood ==
  ASSUME NEW r, Good(r), NEW n \in Nat
  PROVE  /\ Good(Drained(r, n))
         /\ BytesOf(Drained(r, n)) = SubSeq(BytesOf(r), n + 1, r.len)
         /\ n >= r.len => BytesOf(Drained(r, n)) = <<>>
<1> DEFINE s == Drained(r, n)
<1>1. CASE n >= r.len
  <2>1. /\ s.totallen = r.totallen /\ s.off = 0 /\ s.misalign = 0 /\ s.len = 0
        /\ s.mem = [i \in 1..r.totallen |-> Junk]
    BY <1>1 DEF Drained, Block
  <2>2. Good(s)
    BY <2>1 DEF Good, Cells
  <2>3. BytesOf(s) = <<>>
    <3>1. BytesOf(s) \in Seq(Byte) /\ Len(BytesOf(s)) = 0
      BY <2>1, <2>2, BytesOfSeq
    <3> QED
      BY <3>1, EmptySeq
  <2>4. SubSeq(BytesOf(r), n + 1, r.len) = <<>>
    BY <1>1, SubSeqEmpty DEF Good
  <2> QED
    BY <2>2, <2>3, <2>4
<1>2. CASE ~(n >= r.len)
  <2>1. /\ s.totallen = r.totallen /\ s.off = r.off + n /\ s.misalign = r.misalign + n
        /\ s.len = r.len - n
        /\ s.mem = [i \in 1..r.totallen |-> IF i > r.off /\ i <= r.off + n THEN Junk ELSE r.mem[i]]
    BY <1>2 DEF Drained, Block
  <2>2. \A i \in 1..r.len - n : /\ s.mem[s.off + i] = r.mem[r.off + (n + i)]
                                /\ r.mem[r.off + (n + i)] \in Byte
    <3> SUFFICES ASSUME NEW i \in 1..r.len - n
                 PROVE  /\ s.mem[s.off + i] = r.mem[r.off + (n + i)]
                        /\ r.mem[r.off + (n + i)] \in Byte
      OBVIOUS
    <3>1. n + i \in 1..r.len
      BY <1>2 DEF Good
    <3>2. /\ s.off + i = r.off + (n + i) /\ r.off + (n + i) \in 1..r.totallen
          /\ ~(r.off + (n + i) <= r.off + n)
      BY <1>2, <2>1, <3>1 DEF Good
    <3>3. s.mem[r.off + (n + i)] = r.mem[r.off + (n + i)]
      BY <2>1, <3>2
    <3> QED
      BY <3>1, <3>2, <3>3 DEF Good
  <2>3. Good(s)
    <3>1. /\ s.totallen \in Nat /\ s.off \in Nat /\ s.misalign \in Nat /\ s.len \in Nat
          /\ s.misalign + s.len <= s.totallen /\ s.off = s.misalign
      BY <1>2, <2>1 DEF Good
    <3>2. \A i \in 1..r.totallen : r.mem[i] \in Byte \cup {Junk}
      BY DEF Good, Cells
    <3>3. s.mem \in Cells(s.totallen)
      BY <2>1, <3>2 DEF Cells
    <3>4. \A i \in 1..s.len : s.mem[s.off + i] \in Byte
      BY <2>1, <2>2
    <3> QED
      BY <3>1, <3>3, <3>4 DEF Good
  <2>4. /\ BytesOf(r) \in Seq(Byte) /\ Len(BytesOf(r)) = r.len
        /\ BytesOf(s) \in Seq(Byte) /\ Len(BytesOf(s)) = r.len - n
        /\ \A i \in 1..r.len : BytesOf(r)[i] = r.mem[r.off + i]
        /\ \A i \in 1..r.len - n : BytesOf(s)[i] = s.mem[s.off + i]
    BY <2>1, <2>3, BytesOfSeq
  <2>5. /\ SubSeq(BytesOf(r), n + 1, r.len) \in Seq(Byte)
        /\ Len(SubSeq(BytesOf(r), n + 1, r.len)) = r.len - n
        /\ \A i \in 1..r.len - n : SubSeq(BytesOf(r), n + 1, r.len)[i] = BytesOf(r)[n + i]
    <3>1. \A i \in n + 1..r.len : BytesOf(r)[i] \in Byte
      BY <2>4, ElementOfSeq DEF Good
    <3>2. n + 1 \in Int /\ r.len \in Int /\ n + 1 <= r.len /\ r.len - (n + 1) + 1 = r.len - n
      BY <1>2 DEF Good
    <3>3. /\ SubSeq(BytesOf(r), n + 1, r.len) \in Seq(Byte)
          /\ Len(SubSeq(BytesOf(r), n + 1, r.len)) = r.len - (n + 1) + 1
          /\ \A i \in 1..r.len - (n + 1) + 1 :
               SubSeq(BytesOf(r), n + 1, r.len)[i] = BytesOf(r)[(n + 1) + i - 1]
      BY <3>1, <3>2, SubSeqProperties
    <3>4. \A i \in 1..r.len - n : (n + 1) + i - 1 = n + i
      OBVIOUS
    <3> QED
      BY <3>2, <3>3, <3>4
  <2>6. \A i \in 1..r.len - n : BytesOf(s)[i] = SubSeq(BytesOf(r), n + 1, r.len)[i]
    <3> SUFFICES ASSUME NEW i \in 1..r.len - n
                 PROVE  BytesOf(s)[i] = SubSeq(BytesOf(r), n + 1, r.len)[i]
      OBVIOUS
    <3>1. n + i \in 1..r.len
      BY <1>2 DEF Good
    <3>2. BytesOf(s)[i] = r.mem[r.off + (n + i)]
      BY <2>2, <2>4
    <3>3. BytesOf(r)[n + i] = r.mem[r.off + (n + i)]
      BY <2>4, <3>1
    <3> QED
      BY <2>5, <3>2, <3>3
  <2>7. BytesOf(s) = SubSeq(BytesOf(r), n + 1, r.len)
    BY <2>4, <2>5, <2>6, SeqEqual
  <2> QED
    BY <1>2, <2>3, <2>7
<1> QED
  BY <1>1, <1>2

-------------------------------------------------------------------------------
(* The records the operations make are blocks *)

Shaped(r) == r = Block(r.mem, r.totallen, r.off, r.misalign, r.len)

LEMMA MadeShaped ==
  /\ Shaped(New)
  /\ \A r : Shaped(Aligned(r))
  /\ \A r, n : Shaped(Reallocated(r, n)) /\ Shaped(Stored(r, n)) /\ Shaped(Drained(r, n))
<1>1. \A mem, totallen, off, misalign, len : Shaped(Block(mem, totallen, off, misalign, len))
  BY DEF Shaped, Block
<1>2. Shaped(New)
  BY <1>1 DEF New
<1>3. \A r : Shaped(Aligned(r))
  BY <1>1 DEF Aligned
<1>4. \A r, n : Shaped(Reallocated(r, n))
  BY <1>1 DEF Reallocated
<1>5. \A r, n : Shaped(Stored(r, n))
  BY <1>1 DEF Stored
<1>6. \A r, n : Shaped(Drained(r, n))
  BY <1>1 DEF Drained
<1> QED
  BY <1>2, <1>3, <1>4, <1>5, <1>6

LEMMA ExpandedShaped ==
  ASSUME NEW r, Shaped(r), NEW n, NEW e \in Expanded(r, n) \cup ExpandFailed(r, n)
  PROVE  Shaped(e)
<1>1. CASE e \in Expanded(r, n)
  BY <1>1, MadeShaped DEF Expanded
<1>2. CASE e \in ExpandFailed(r, n)
  BY <1>2, MadeShaped DEF ExpandFailed
<1> QED
  BY <1>1, <1>2

-------------------------------------------------------------------------------
(* The invariant: TypeOK, InBlock and NoJunk in one formula *)

WellFormed ==
  /\ buf = [b \in Buf |-> buf[b]]
  /\ \A b \in Buf : Good(buf[b]) /\ Shaped(buf[b])
  /\ io \in Seq(Byte)

LEMMA WellFormedSays == WellFormed => TypeOK /\ InBlock /\ NoJunk
BY DEF WellFormed, TypeOK, InBlock, NoJunk, Good, Shaped

\* What the refinement mapping makes of the buffers.
Contents == [b \in Buf |-> BytesOf(buf[b])]

LEMMA ContentsAre ==
  ASSUME WellFormed, NEW b \in Buf
  PROVE  /\ Contents[b] = BytesOf(buf[b])
         /\ Contents[b] \in Seq(Byte)
         /\ Len(Contents[b]) = buf[b].len
<1>1. Good(buf[b])
  BY DEF WellFormed
<1>2. Contents[b] = BytesOf(buf[b])
  BY DEF Contents
<1>3. BytesOf(buf[b]) \in Seq(Byte) /\ Len(BytesOf(buf[b])) = buf[b].len
  BY <1>1, BytesOfSeq
<1> QED
  BY <1>2, <1>3

\* One buffer is changed.
LEMMA PutGood ==
  ASSUME WellFormed, NEW b \in Buf, NEW r, Good(r), Shaped(r), Put(b, r), io' \in Seq(Byte)
  PROVE  WellFormed' /\ Contents' = [Contents EXCEPT ![b] = BytesOf(r)]
<1>1. /\ buf' = [c \in Buf |-> IF c = b THEN r ELSE buf[c]]
  BY DEF WellFormed, Put
<1>2. WellFormed'
  BY <1>1 DEF WellFormed
<1>3. \A c \in Buf : BytesOf(buf'[c]) = IF c = b THEN BytesOf(r) ELSE BytesOf(buf[c])
  BY <1>1
<1>4. Contents' = [c \in Buf |-> BytesOf(buf'[c])]
  BY DEF Contents
<1>5. [Contents EXCEPT ![b] = BytesOf(r)] = [c \in Buf |-> IF c = b THEN BytesOf(r) ELSE BytesOf(buf[c])]
  BY DEF Contents
<1>6. Contents' = [Contents EXCEPT ![b] = BytesOf(r)]
  BY <1>3, <1>4, <1>5
<1> QED
  BY <1>2, <1>6

\* Bytes are stored in a buffer, after it was expanded or as it was.
LEMMA StoresLast ==
  ASSUME WellFormed, NEW b \in Buf, NEW data \in Seq(Byte), io' = data,
         NEW r, Good(r), Shaped(r), BytesOf(r) = BytesOf(buf[b]),
         r.misalign + r.len + Len(data) <= r.totallen,
         Put(b, Stored(r, data))
  PROVE  WellFormed' /\ Queue!AddLast(b)
<1>1. Good(Stored(r, data)) /\ BytesOf(Stored(r, data)) = BytesOf(buf[b]) \o data
  BY StoredGood
<1>2. Shaped(Stored(r, data))
  BY MadeShaped
<1>3. WellFormed' /\ Contents' = [Contents EXCEPT ![b] = BytesOf(Stored(r, data))]
  BY <1>1, <1>2, PutGood
<1>4. Contents[b] = BytesOf(buf[b])
  BY ContentsAre
<1>5. Contents' = [Contents EXCEPT ![b] = Contents[b] \o io']
  BY <1>1, <1>3, <1>4
<1> QED
  BY <1>3, <1>5 DEF Queue!AddLast, Contents

\* Only the place of the bytes is changed.
LEMMA KeepsBytes ==
  ASSUME WellFormed, NEW b \in Buf, io' = <<>>,
         NEW r, Good(r), Shaped(r), BytesOf(r) = BytesOf(buf[b]), Put(b, r)
  PROVE  WellFormed' /\ Queue!Fail
<1>1. io' \in Seq(Byte)
  BY EmptySeq
<1>2. WellFormed' /\ Contents' = [Contents EXCEPT ![b] = BytesOf(r)]
  BY <1>1, PutGood
<1>3. Contents' = Contents
  BY <1>2 DEF Contents
<1> QED
  BY <1>2, <1>3 DEF Queue!Fail, Contents

-------------------------------------------------------------------------------
(* Every operation keeps the invariant and is one of ByteQueue's *)

LEMMA AddStep ==
  ASSUME WellFormed, NEW b \in Buf, NEW data \in Seq(Byte), Add(b, data)
  PROVE  WellFormed' /\ Queue!AddLast(b)
<1>1. Len(data) \in Nat
  BY LenProperties
<1>2. Good(buf[b]) /\ Shaped(buf[b])
  BY DEF WellFormed
<1>3. PICK r \in Expanded(buf[b], Len(data)) : Put(b, Stored(r, data))
  BY DEF Add
<1>4. /\ Good(r) /\ BytesOf(r) = BytesOf(buf[b])
      /\ r.misalign + r.len + Len(data) <= r.totallen
  BY <1>1, <1>2, <1>3, ExpandedGood
<1>5. Shaped(r)
  BY <1>2, <1>3, ExpandedShaped
<1>6. io' = data
  BY DEF Add
<1> QED
  BY <1>3, <1>4, <1>5, <1>6, StoresLast

LEMMA NoMemoryStep ==
  ASSUME WellFormed, NEW b \in Buf, NEW n \in Nat, NoMemory(b, n)
  PROVE  WellFormed' /\ Queue!Fail
<1>1. Good(buf[b]) /\ Shaped(buf[b])
  BY DEF WellFormed
<1>2. PICK r \in ExpandFailed(buf[b], n) : Put(b, r)
  BY DEF NoMemory
<1>3. Good(r) /\ BytesOf(r) = BytesOf(buf[b]) /\ Shaped(r)
  BY <1>1, <1>2, ExpandFailedGood, ExpandedShaped
<1> QED
  BY <1>2, <1>3, KeepsBytes DEF NoMemory

\* The first buffer_expand of buffer_add_vprintf, whose result is not looked at.
LEMMA FirstExpand ==
  ASSUME WellFormed, NEW b \in Buf,
         NEW r \in Expanded(buf[b], MinPrint) \cup ExpandFailed(buf[b], MinPrint)
  PROVE  Good(r) /\ Shaped(r) /\ BytesOf(r) = BytesOf(buf[b])
<1>1. Good(buf[b]) /\ Shaped(buf[b]) /\ MinPrint \in Nat
  BY BufferAssumption DEF WellFormed
<1>2. CASE r \in Expanded(buf[b], MinPrint)
  BY <1>1, <1>2, ExpandedGood, ExpandedShaped
<1>3. CASE r \in ExpandFailed(buf[b], MinPrint)
  BY <1>1, <1>3, ExpandFailedGood, ExpandedShaped
<1> QED
  BY <1>2, <1>3

LEMMA PrintfStep ==
  ASSUME WellFormed, NEW b \in Buf, NEW data \in Seq(Byte), Printf(b, data)
  PROVE  WellFormed' /\ Queue!AddLast(b)
<1>1. Len(data) \in Nat
  BY LenProperties
<1>2. PICK r \in Expanded(buf[b], MinPrint) \cup ExpandFailed(buf[b], MinPrint) :
        \/ Len(data) < Space(r) /\ Put(b, Stored(r, data))
        \/ \E s \in Expanded(r, Len(data) + 1) : Put(b, Stored(s, data))
  BY DEF Printf
<1>3. Good(r) /\ Shaped(r) /\ BytesOf(r) = BytesOf(buf[b])
  BY <1>2, FirstExpand
<1>4. io' = data
  BY DEF Printf
<1>5. CASE Len(data) < Space(r) /\ Put(b, Stored(r, data))
  <2>1. r.misalign + r.len + Len(data) <= r.totallen
    BY <1>1, <1>3, <1>5, GoodNumbers DEF Space
  <2> QED
    BY <1>3, <1>4, <1>5, <2>1, StoresLast
<1>6. CASE \E s \in Expanded(r, Len(data) + 1) : Put(b, Stored(s, data))
  <2>1. PICK s \in Expanded(r, Len(data) + 1) : Put(b, Stored(s, data))
    BY <1>6
  <2>2. Len(data) + 1 \in Nat
    BY <1>1
  <2>3. /\ Good(s) /\ BytesOf(s) = BytesOf(buf[b])
        /\ s.misalign + s.len + (Len(data) + 1) <= s.totallen
    BY <1>3, <2>1, <2>2, ExpandedGood
  <2>4. Shaped(s)
    BY <1>3, <2>1, ExpandedShaped
  <2>5. s.misalign + s.len + Len(data) <= s.totallen
    BY <1>1, <2>3, GoodNumbers
  <2> QED
    BY <1>4, <2>1, <2>3, <2>4, <2>5, StoresLast
<1> QED
  BY <1>2, <1>5, <1>6

LEMMA PrintfFailsStep ==
  ASSUME WellFormed, NEW b \in Buf, NEW n \in Nat, PrintfFails(b, n)
  PROVE  WellFormed' /\ Queue!Fail
<1>1. PICK r \in Expanded(buf[b], MinPrint) \cup ExpandFailed(buf[b], MinPrint) :
        \E s \in ExpandFailed(r, n + 1) : Put(b, s)
  BY DEF PrintfFails
<1>2. PICK s \in ExpandFailed(r, n + 1) : Put(b, s)
  BY <1>1
<1>3. Good(r) /\ Shaped(r) /\ BytesOf(r) = BytesOf(buf[b])
  BY <1>1, FirstExpand
<1>4. n + 1 \in Nat
  OBVIOUS
<1>5. Good(s) /\ BytesOf(s) = BytesOf(buf[b]) /\ Shaped(s)
  BY <1>2, <1>3, <1>4, ExpandFailedGood, ExpandedShaped
<1> QED
  BY <1>2, <1>5, KeepsBytes DEF PrintfFails

\* buffer_drain, whatever is handed out.
LEMMA Drains ==
  ASSUME WellFormed, NEW b \in Buf, NEW n \in Nat, io' \in Seq(Byte),
         Put(b, Drained(buf[b], n))
  PROVE  /\ WellFormed'
         /\ Contents' = [Contents EXCEPT ![b] = SubSeq(Contents[b], n + 1, Len(Contents[b]))]
<1>1. Good(buf[b])
  BY DEF WellFormed
<1>2. /\ Good(Drained(buf[b], n))
      /\ BytesOf(Drained(buf[b], n)) = SubSeq(BytesOf(buf[b]), n + 1, buf[b].len)
  BY <1>1, DrainedGood
<1>3. Shaped(Drained(buf[b], n))
  BY MadeShaped
<1>4. WellFormed' /\ Contents' = [Contents EXCEPT ![b] = BytesOf(Drained(buf[b], n))]
  BY <1>2, <1>3, PutGood
<1>5. Contents[b] = BytesOf(buf[b]) /\ Len(Contents[b]) = buf[b].len
  BY ContentsAre
<1> QED
  BY <1>2, <1>4, <1>5

LEMMA DrainStep ==
  ASSUME WellFormed, NEW b \in Buf, NEW n \in Nat, Drain(b, n)
  PROVE  WellFormed' /\ Queue!Next
<1>1. Put(b, Drained(buf[b], n)) /\ io' = <<>> /\ io' \in Seq(Byte)
  BY EmptySeq DEF Drain
<1>2. /\ WellFormed'
      /\ Contents' = [Contents EXCEPT ![b] = SubSeq(Contents[b], n + 1, Len(Contents[b]))]
  BY <1>1, Drains
<1>3. Len(Contents[b]) \in Nat
  BY ContentsAre, LenProperties
<1>4. CASE n <= Len(Contents[b])
  <2>1. n \in 0..Len(Contents[b])
    BY <1>3, <1>4
  <2>2. Queue!TakeFirst(b, n)
    BY <1>1, <1>2 DEF Queue!TakeFirst, Contents
  <2>3. \E m \in 0..Len(Contents[b]) : Queue!TakeFirst(b, m)
    BY <2>1, <2>2
  <2> QED
    BY <1>2, <2>3 DEF Queue!Next, Contents
<1>5. CASE ~(n <= Len(Contents[b]))
  <2> DEFINE len == Len(Contents[b])
  <2>1. SubSeq(Contents[b], n + 1, len) = <<>>
    BY <1>3, <1>5, SubSeqEmpty
  <2>2. SubSeq(Contents[b], len + 1, len) = <<>>
    BY <1>3, SubSeqEmpty
  <2>3. Queue!TakeFirst(b, len)
    BY <1>1, <1>2, <2>1, <2>2 DEF Queue!TakeFirst, Contents
  <2>4. \E m \in 0..Len(Contents[b]) : Queue!TakeFirst(b, m)
    BY <1>3, <2>3
  <2> QED
    BY <1>2, <2>4 DEF Queue!Next, Contents
<1> QED
  BY <1>4, <1>5

LEMMA RemoveStep ==
  ASSUME WellFormed, NEW b \in Buf, NEW datlen \in Nat, Remove(b, datlen)
  PROVE  WellFormed' /\ Queue!Next
<1> DEFINE n == IF datlen >= buf[b].len THEN buf[b].len ELSE datlen
<1>1. /\ Contents[b] = BytesOf(buf[b]) /\ Contents[b] \in Seq(Byte)
      /\ Len(Contents[b]) = buf[b].len
  BY ContentsAre
<1>2. n \in 0..Len(Contents[b]) /\ n \in Nat
  BY <1>1, LenProperties
<1>3. io' = SubSeq(Contents[b], 1, n) /\ Put(b, Drained(buf[b], n))
  BY <1>1 DEF Remove
<1> HIDE DEF n
<1>4. io' \in Seq(Byte)
  <2>1. \A i \in 1..n : Contents[b][i] \in Byte
    BY <1>1, <1>2, ElementOfSeq
  <2> QED
    BY <1>2, <1>3, <2>1, SubSeqProperties
<1>5. /\ WellFormed'
      /\ Contents' = [Contents EXCEPT ![b] = SubSeq(Contents[b], n + 1, Len(Contents[b]))]
  BY <1>2, <1>3, <1>4, Drains
<1>6. Queue!TakeFirst(b, n)
  BY <1>3, <1>5 DEF Queue!TakeFirst, Contents
<1>7. \E m \in 0..Len(Contents[b]) : Queue!TakeFirst(b, m)
  BY <1>2, <1>6
<1> QED
  BY <1>5, <1>7 DEF Queue!Next, Contents

LEMMA ReadlineStep ==
  ASSUME WellFormed, NEW b \in Buf, Readline(b)
  PROVE  WellFormed' /\ Queue!TakeLine(b)
<1> DEFINE data == BytesOf(buf[b])
           len  == buf[b].len
<1>1. Contents[b] = data /\ data \in Seq(Byte) /\ Len(data) = len /\ len \in Nat
  BY ContentsAre, LenProperties
<1>2. PICK i \in 1..len :
        /\ data[i] \in {CR, LF}
        /\ \A j \in 1..i-1 : data[j] \notin {CR, LF}
        /\ io' = SubSeq(data, 1, i - 1)
        /\ IF i < len /\ data[i + 1] \in {CR, LF} /\ data[i + 1] # data[i]
             THEN Put(b, Drained(buf[b], i + 1))
             ELSE Put(b, Drained(buf[b], i))
  BY DEF Readline
<1> HIDE DEF data, len
<1>3. i \in Queue!LineEnds(data)
  BY <1>1, <1>2 DEF Queue!LineEnds
<1> DEFINE m == i + Queue!Terminator(data, i) - 1
<1>4. m \in Nat /\ m + 1 = i + Queue!Terminator(data, i) /\ Put(b, Drained(buf[b], m))
  <2>1. CASE i < len /\ data[i + 1] \in {CR, LF} /\ data[i + 1] # data[i]
    <3>1. Queue!Terminator(data, i) = 2
      BY <1>1, <2>1 DEF Queue!Terminator
    <3>2. m = i + 1 /\ m \in Nat /\ m + 1 = i + 2
      BY <1>1, <3>1
    <3> QED
      BY <1>2, <2>1, <3>1, <3>2
  <2>2. CASE ~(i < len /\ data[i + 1] \in {CR, LF} /\ data[i + 1] # data[i])
    <3>1. Queue!Terminator(data, i) = 1
      BY <1>1, <2>2 DEF Queue!Terminator
    <3>2. m = i /\ m \in Nat /\ m + 1 = i + 1
      BY <1>1, <3>1
    <3> QED
      BY <1>2, <2>2, <3>1, <3>2
  <2> QED
    BY <2>1, <2>2
<1>5. io' \in Seq(Byte)
  <2>1. \A j \in 1..i - 1 : data[j] \in Byte
    BY <1>1, ElementOfSeq
  <2>2. i - 1 \in Int
    BY <1>1
  <2> QED
    BY <1>2, <2>1, <2>2, SubSeqProperties
<1> HIDE DEF m
<1>6. /\ WellFormed'
      /\ Contents' = [Contents EXCEPT ![b] = SubSeq(Contents[b], m + 1, Len(Contents[b]))]
  BY <1>4, <1>5, Drains
<1>7. /\ io' = SubSeq(Contents[b], 1, i - 1)
      /\ i \in Queue!LineEnds(Contents[b])
      /\ Contents' = [Contents EXCEPT ![b] =
                        SubSeq(Contents[b], i + Queue!Terminator(Contents[b], i), Len(Contents[b]))]
  BY <1>1, <1>2, <1>3, <1>4, <1>6
<1>8. Queue!TakeLine(b)
  BY <1>7 DEF Queue!TakeLine, Contents
<1> QED
  BY <1>6, <1>8

\* Two buffers are changed; the bytes of one end up behind those of the other.
LEMMA AddBufferStep ==
  ASSUME WellFormed, NEW out \in Buf, NEW in \in Buf, AddBuffer(out, in)
  PROVE  WellFormed' /\ Queue!Move(out, in)
<1>1. out # in /\ io' = <<>> /\ io' \in Seq(Byte)
  BY EmptySeq DEF AddBuffer
<1>2. /\ Good(buf[in]) /\ Shaped(buf[in]) /\ Good(buf[out]) /\ Shaped(buf[out])
      /\ buf = [c \in Buf |-> buf[c]]
  BY DEF WellFormed
<1>3. /\ BytesOf(buf[in]) \in Seq(Byte) /\ Len(BytesOf(buf[in])) = buf[in].len
      /\ buf[in].len \in Nat
  BY <1>2, BytesOfSeq, GoodNumbers
<1>4. SUFFICES ASSUME NEW r, NEW s, Good(r), Shaped(r), Good(s), Shaped(s),
                      BytesOf(r) = BytesOf(buf[out]) \o BytesOf(buf[in]),
                      BytesOf(s) = <<>>,
                      buf' = [buf EXCEPT ![out] = r, ![in] = s]
               PROVE  WellFormed' /\ Queue!Move(out, in)
  <2>1. CASE buf[out].len = 0
    <3>1. buf' = [buf EXCEPT ![out] = buf[in], ![in] = buf[out]]
      BY <2>1 DEF AddBuffer
    <3>2. BytesOf(buf[out]) = <<>>
      BY <1>2, <2>1, BytesOfSeq, EmptySeq
    <3>3. BytesOf(buf[in]) = BytesOf(buf[out]) \o BytesOf(buf[in])
      BY <1>3, <3>2, ConcatEmptySeq
    <3> QED
      BY <1>2, <1>4, <3>1, <3>2, <3>3
  <2>2. CASE buf[out].len # 0
    <3>1. PICK e \in Expanded(buf[out], buf[in].len) :
            buf' = [buf EXCEPT ![out] = Stored(e, BytesOf(buf[in])),
                               ![in] = Drained(buf[in], buf[in].len)]
      BY <2>2 DEF AddBuffer
    <3>2. /\ Good(e) /\ BytesOf(e) = BytesOf(buf[out])
          /\ e.misalign + e.len + Len(BytesOf(buf[in])) <= e.totallen
      BY <1>2, <1>3, <3>1, ExpandedGood
    <3>3. /\ Good(Stored(e, BytesOf(buf[in])))
          /\ BytesOf(Stored(e, BytesOf(buf[in]))) = BytesOf(buf[out]) \o BytesOf(buf[in])
      BY <1>3, <3>2, StoredGood
    <3>4. /\ Good(Drained(buf[in], buf[in].len))
          /\ BytesOf(Drained(buf[in], buf[in].len)) = <<>>
      BY <1>2, <1>3, DrainedGood
    <3>5. Shaped(Stored(e, BytesOf(buf[in]))) /\ Shaped(Drained(buf[in], buf[in].len))
      BY MadeShaped
    <3> QED
      BY <1>4, <3>1, <3>3, <3>4, <3>5
  <2> QED
    BY <2>1, <2>2
<1>5. buf' = [c \in Buf |-> IF c = in THEN s ELSE IF c = out THEN r ELSE buf[c]]
  BY <1>1, <1>2, <1>4
<1>6. WellFormed'
  BY <1>1, <1>4, <1>5 DEF WellFormed
<1>7. Contents' = [Contents EXCEPT ![out] = Contents[out] \o Contents[in], ![in] = <<>>]
  <2>1. Contents[out] = BytesOf(buf[out]) /\ Contents[in] = BytesOf(buf[in])
    BY ContentsAre
  <2>2. Contents' = [c \in Buf |-> BytesOf(buf'[c])]
    BY DEF Contents
  <2>3. \A c \in Buf : BytesOf(buf'[c]) =
           IF c = in THEN <<>> ELSE IF c = out THEN Contents[out] \o Contents[in] ELSE BytesOf(buf[c])
    BY <1>4, <1>5, <2>1
  <2>4. [Contents EXCEPT ![out] = Contents[out] \o Contents[in], ![in] = <<>>] =
           [c \in Buf |-> IF c = in THEN <<>> ELSE IF c = out THEN Contents[out] \o Contents[in]
                          ELSE BytesOf(buf[c])]
    BY <1>1 DEF Contents
  <2> QED
    BY <2>2, <2>3, <2>4
<1>8. Queue!Move(out, in)
  BY <1>1, <1>7 DEF Queue!Move, Contents
<1> QED
  BY <1>6, <1>8

LEMMA ReadStep ==
  ASSUME WellFormed, NEW b \in Buf, NEW howmuch \in Nat, NEW data \in Seq(Byte),
         Read(b, howmuch, data)
  PROVE  WellFormed' /\ Queue!AddLast(b)
<1>1. Len(data) \in Nat /\ Len(data) <= howmuch /\ io' = data
  BY LenProperties DEF Read
<1>2. Good(buf[b]) /\ Shaped(buf[b])
  BY DEF WellFormed
<1>3. PICK r \in Expanded(buf[b], howmuch) : Put(b, Stored(r, data))
  BY DEF Read
<1>4. /\ Good(r) /\ BytesOf(r) = BytesOf(buf[b])
      /\ r.misalign + r.len + howmuch <= r.totallen
  BY <1>2, <1>3, ExpandedGood
<1>5. r.misalign + r.len + Len(data) <= r.totallen
  BY <1>1, <1>4, GoodNumbers
<1>6. Shaped(r)
  BY <1>2, <1>3, ExpandedShaped
<1> QED
  BY <1>1, <1>3, <1>4, <1>5, <1>6, StoresLast

-------------------------------------------------------------------------------
(* The theorems *)

LEMMA StartsWell == Init => WellFormed /\ Queue!Init
<1> SUFFICES ASSUME Init PROVE WellFormed /\ Queue!Init
  OBVIOUS
<1>1. Good(New)
  BY DEF Good, New, Block, Cells
<1>2. Shaped(New)
  BY MadeShaped
<1>3. BytesOf(New) = <<>>
  <2>1. BytesOf(New) \in Seq(Byte) /\ Len(BytesOf(New)) = New.len
    BY <1>1, BytesOfSeq
  <2>2. New.len = 0
    BY DEF New, Block
  <2> QED
    BY <2>1, <2>2, EmptySeq
<1>4. WellFormed
  BY <1>1, <1>2, EmptySeq DEF Init, WellFormed
<1>5. Queue!Init
  BY <1>3 DEF Init, Queue!Init
<1> QED
  BY <1>4, <1>5

LEMMA StepsWell == WellFormed /\ [Next]_vars => WellFormed' /\ [Queue!Next]_(Queue!vars)
<1> SUFFICES ASSUME WellFormed, [Next]_vars
             PROVE  WellFormed' /\ [Queue!Next]_(Queue!vars)
  OBVIOUS
<1>1. ASSUME NEW b \in Buf, NEW data \in Data, Add(b, data) \/ Printf(b, data)
      PROVE  WellFormed' /\ Queue!Next
  <2>1. data \in Seq(Byte)
    BY BufferAssumption
  <2> QED
    BY <1>1, <2>1, AddStep, PrintfStep DEF Queue!Next
<1>2. ASSUME NEW b \in Buf, NEW n \in Nat, NoMemory(b, n) \/ PrintfFails(b, n)
      PROVE  WellFormed' /\ Queue!Next
  BY <1>2, NoMemoryStep, PrintfFailsStep DEF Queue!Next
<1>3. ASSUME NEW b \in Buf, NEW n \in Nat, Drain(b, n) \/ Remove(b, n)
      PROVE  WellFormed' /\ Queue!Next
  BY <1>3, DrainStep, RemoveStep
<1>4. ASSUME NEW b \in Buf, Readline(b)
      PROVE  WellFormed' /\ Queue!Next
  BY <1>4, ReadlineStep DEF Queue!Next
<1>5. ASSUME NEW b \in Buf, NEW in \in Buf, AddBuffer(b, in)
      PROVE  WellFormed' /\ Queue!Next
  <2>1. b # in
    BY <1>5 DEF AddBuffer
  <2> QED
    BY <1>5, <2>1, AddBufferStep DEF Queue!Next
<1>6. ASSUME NEW b \in Buf, NEW howmuch \in 1..MaxRead, NEW data \in Data, Read(b, howmuch, data)
      PROVE  WellFormed' /\ Queue!Next
  <2>1. howmuch \in Nat /\ data \in Seq(Byte)
    BY BufferAssumption
  <2> QED
    BY <1>6, <2>1, ReadStep DEF Queue!Next
<1>7. ASSUME UNCHANGED vars
      PROVE  WellFormed' /\ UNCHANGED Queue!vars
  <2>1. buf' = buf /\ io' = io
    BY <1>7 DEF vars
  <2> QED
    BY <2>1 DEF WellFormed, Queue!vars
<1>8. 0..MaxLen \subseteq Nat
  BY BufferAssumption
<1> QED
  BY <1>1, <1>2, <1>3, <1>4, <1>5, <1>6, <1>7, <1>8 DEF Next

LEMMA AlwaysWellFormed == Spec => []WellFormed
<1>1. Init => WellFormed
  BY StartsWell
<1>2. WellFormed /\ [Next]_vars => WellFormed'
  BY StepsWell
<1> QED
  BY <1>1, <1>2, PTL DEF Spec

\* The type invariant of the buffers holds for blocks of any size.
THEOREM BufferTypeOK == Spec => []TypeOK
<1>1. WellFormed => TypeOK
  BY WellFormedSays
<1> QED
  BY <1>1, AlwaysWellFormed, PTL

\* No operation lets the bytes of a buffer reach beyond its block, or lets the
\* pointer and misalign disagree: buffer_expand always makes enough room.
THEOREM BufferInBlock == Spec => []InBlock
<1>1. WellFormed => InBlock
  BY WellFormedSays
<1> QED
  BY <1>1, AlwaysWellFormed, PTL

\* Aligning, reallocating and draining never expose a byte nobody stored.
THEOREM BufferNoJunk == Spec => []NoJunk
<1>1. WellFormed => NoJunk
  BY WellFormedSays
<1> QED
  BY <1>1, AlwaysWellFormed, PTL

\* The buffers implement the queues of bytes that buffer.h promises.
THEOREM BufferIsByteQueue == Spec => IsByteQueue
<1>1. Init => Queue!Init
  BY StartsWell
<1>2. WellFormed /\ [Next]_vars => [Queue!Next]_(Queue!vars)
  BY StepsWell
<1> QED
  BY <1>1, <1>2, AlwaysWellFormed, PTL DEF Spec, IsByteQueue, Queue!Spec
===============================================================================
