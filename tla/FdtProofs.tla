----------------------------- MODULE FdtProofs -----------------------------
(***************************************************************************)
(* Proofs about device trees in a buffer, for every size of it, every part *)
(* of it that is granted, and every name and value: while a tree is        *)
(* written with fdt_sw.c its two ends never meet, and nothing outside the  *)
(* granted bytes is written; a call on a finished tree (fdt_rw.c,          *)
(* fdt_wip.c) that fails leaves no trace.                                  *)
(*                                                                         *)
(* What the reading functions find by walking a tree is defined by         *)
(* recursion over its bytes; the proofs use nothing of it but that the     *)
(* walk over the properties of a node ends.                                *)
(***************************************************************************)
EXTENDS FdtLife, Recursion, SequenceTheorems, FiniteSetTheorems, TLAPS

-----------------------------------------------------------------------------
(* Memory *)

\* The cells there are after a write inside the buffer are those of before.
LEMMA SpanInside ==
  ASSUME NEW N \in Nat, NEW mem, DOMAIN mem = 0 .. (N - 1),
         NEW o \in Nat, NEW n \in Nat, o + n <= N
  PROVE  Span(mem, o, n) = 0 .. (N - 1)
<1>1. Cardinality(0 .. (N - 1)) = N
  <2>1. 0 \in Int /\ N - 1 \in Int
    OBVIOUS
  <2>2. Cardinality(0 .. (N - 1)) = IF 0 > N - 1 THEN 0 ELSE (N - 1) - 0 + 1
    BY <2>1, FS_Interval
  <2> QED
    BY <2>2
<1>2. ~(o < 0) /\ ~(o + n > N)
  OBVIOUS
<1>3. Cardinality(DOMAIN mem) = N
  BY <1>1
<1> DEFINE size == Cardinality(DOMAIN mem)
           lo   == IF o < 0 THEN o ELSE 0
           hi   == IF o + n > size THEN o + n ELSE size
<1>4. Span(mem, o, n) = lo .. (hi - 1)
  BY DEF Span
<1>5. lo = 0 /\ hi = N
  BY <1>2, <1>3
<1> HIDE DEF lo, hi
<1> QED
  BY <1>4, <1>5

\* memcpy inside the buffer.
LEMMA PutInside ==
  ASSUME NEW N \in Nat, NEW mem, DOMAIN mem = 0 .. (N - 1),
         NEW o \in Nat, NEW s, Len(s) \in Nat, o + Len(s) <= N
  PROVE  /\ DOMAIN Put(mem, o, s) = 0 .. (N - 1)
         /\ \A i \in 0 .. (N - 1) : i >= o + Len(s) => Put(mem, o, s)[i] = mem[i]
<1>1. Span(mem, o, Len(s)) = 0 .. (N - 1)
  BY SpanInside
<1> QED
  BY <1>1 DEF Put

\* memmove inside the buffer.
LEMMA MoveInside ==
  ASSUME NEW N \in Nat, NEW mem, DOMAIN mem = 0 .. (N - 1),
         NEW dst \in Nat, NEW src, NEW n \in Nat, dst + n <= N
  PROVE  /\ DOMAIN memmove(mem, dst, src, n) = 0 .. (N - 1)
         /\ \A i \in 0 .. (N - 1) : i >= dst + n => memmove(mem, dst, src, n)[i] = mem[i]
<1>1. Span(mem, dst, n) = 0 .. (N - 1)
  BY SpanInside
<1> QED
  BY <1>1 DEF memmove

\* Sizes are rounded up.
LEMMA TagAlign ==
  ASSUME NEW n \in Nat
  PROVE  FDT_TAGALIGN(n) \in Nat /\ FDT_TAGALIGN(n) >= n
BY DEF FDT_TAGALIGN, FDT_ALIGN, FDT_TAGSIZE

-----------------------------------------------------------------------------
(* A tree that is being written *)

\* While a tree is written, the structure grows up and the strings grow down in
\* the bytes the header claims, and the two do not meet; the structure starts
\* behind the header and the reservations, whose end is marked before it is begun.
Fits(f, room) ==
    /\ f.totalsize \in Nat /\ f.off_dt_struct \in Nat /\ f.off_dt_strings \in Nat
    /\ f.size_dt_struct \in Nat /\ f.size_dt_strings \in Nat
    /\ f.off_mem_rsvmap = 48 /\ f.off_dt_struct >= 48
    /\ IF f.off_dt_strings = 0 THEN f.size_dt_struct = 0 /\ f.size_dt_strings = 0
       ELSE f.off_dt_struct >= 64
    /\ f.off_dt_struct + f.size_dt_struct + f.size_dt_strings <= f.totalsize
    /\ f.totalsize <= room

InBuffer(f, room) ==
    /\ DOMAIN f.mem = 0..(BufSize - 1)
    /\ \A i \in room..(BufSize - 1) : f.mem[i] = Canary

WriterFits == fdt.magic = FDT_SW_MAGIC => Fits(fdt, granted)

Fields == {"magic", "version", "last_comp_version", "totalsize", "off_mem_rsvmap",
           "off_dt_struct", "off_dt_strings", "size_dt_strings", "size_dt_struct", "mem"}

Blob(f) == DOMAIN f = Fields

\* What g, the blob a call leaves, keeps of f.
Keeps(f, g, room) ==
  /\ Blob(g) /\ g.magic = FDT_SW_MAGIC /\ Fits(g, room)
  /\ InBuffer(f, room) => InBuffer(g, room)

Writing(f, room) ==
  Blob(f) /\ f.magic = FDT_SW_MAGIC /\ Fits(f, room) /\ room \in Nat /\ room <= BufSize

\* A write inside the room leaves what is behind it.
LEMMA PutKeeps ==
  ASSUME NEW f, NEW g, NEW room \in Nat, room <= BufSize, NEW o \in Nat, NEW s,
         Len(s) \in Nat, o + Len(s) <= room, g.mem = Put(f.mem, o, s), InBuffer(f, room)
  PROVE  InBuffer(g, room)
<1>1. BufSize \in Nat /\ o + Len(s) <= BufSize /\ DOMAIN f.mem = 0 .. (BufSize - 1)
  BY BufAssumption DEF InBuffer
<1>2. /\ DOMAIN g.mem = 0 .. (BufSize - 1)
      /\ \A i \in 0 .. (BufSize - 1) : i >= o + Len(s) => g.mem[i] = f.mem[i]
  BY <1>1, PutInside
<1>3. ASSUME NEW i \in room .. (BufSize - 1) PROVE g.mem[i] = Canary
  <2>1. i \in 0 .. (BufSize - 1) /\ i >= o + Len(s)
    BY <1>1
  <2> QED
    BY <1>2, <2>1 DEF InBuffer
<1> QED
  BY <1>2, <1>3 DEF InBuffer

\* Room at the end of the structure block: it ends before the strings begin.
LEMMA GrabStep ==
  ASSUME NEW f, NEW room, Writing(f, room), f.off_dt_strings # 0,
         NEW len \in Nat, NEW s, Len(s) \in Nat, Len(s) <= len
  PROVE  Keeps(f, fdt_grab_space_(f, len, s).fdt, room)
<1> DEFINE left == f.totalsize - f.off_dt_struct - f.size_dt_strings
           at   == f.off_dt_struct + f.size_dt_struct
           m    == Put(f.mem, at, s)
           g    == [f EXCEPT !.size_dt_struct = f.size_dt_struct + len, !.mem = m]
<1>1. /\ DOMAIN f = Fields /\ Fits(f, room) /\ room \in Nat /\ room <= BufSize
      /\ f.magic = FDT_SW_MAGIC
  BY DEF Writing, Blob
<1>2. U32(left) = left
  <2>1. left \in Int /\ ~(left < 0)
    BY <1>1, SMTT(60) DEF Fits
  <2> QED
    BY <2>1 DEF U32
<1>3. CASE f.size_dt_struct + len > left
  <2>1. fdt_grab_space_(f, len, s).fdt = f
    BY <1>2, <1>3 DEF fdt_grab_space_
  <2> QED
    BY <1>1, <2>1 DEF Keeps, Blob
<1>4. CASE ~(f.size_dt_struct + len > left)
  <2>1. fdt_grab_space_(f, len, s).fdt = g
    BY <1>2, <1>4 DEF fdt_grab_space_
  <2>2. at \in Nat /\ at + len + f.size_dt_strings <= f.totalsize
    <3>1. /\ f.totalsize \in Nat /\ f.off_dt_struct \in Nat
          /\ f.size_dt_struct \in Nat /\ f.size_dt_strings \in Nat
      BY <1>1 DEF Fits
    <3> QED
      BY <1>4, <3>1, SMTT(60)
  <2> HIDE DEF m
  <2>3. /\ DOMAIN g = Fields /\ g.magic = f.magic /\ g.totalsize = f.totalsize
        /\ g.off_mem_rsvmap = f.off_mem_rsvmap /\ g.off_dt_struct = f.off_dt_struct
        /\ g.off_dt_strings = f.off_dt_strings /\ g.size_dt_strings = f.size_dt_strings
        /\ g.size_dt_struct = f.size_dt_struct + len /\ g.mem = m
    BY <1>1 DEF Fields
  <2> HIDE DEF g, left
  <2>4. Fits(g, room)
    <3>1. /\ f.totalsize \in Nat /\ f.off_dt_struct \in Nat /\ f.off_dt_strings \in Nat
          /\ f.size_dt_struct \in Nat /\ f.size_dt_strings \in Nat
          /\ f.off_mem_rsvmap = 48 /\ f.off_dt_struct >= 64 /\ f.totalsize <= room
      BY <1>1 DEF Fits
    <3>2. /\ g.size_dt_struct \in Nat
          /\ g.off_dt_struct + g.size_dt_struct + g.size_dt_strings <= g.totalsize
      BY <2>2, <2>3, <3>1, SMTT(60) DEF at
    <3> QED
      BY <2>3, <3>1, <3>2 DEF Fits
  <2>5. at + Len(s) <= room
    BY <1>1, <2>2 DEF Fits
  <2> HIDE DEF at
  <2>6. InBuffer(f, room) => InBuffer(g, room)
    BY <1>1, <2>2, <2>3, <2>5, PutKeeps DEF m
  <2> QED
    BY <1>1, <2>1, <2>3, <2>4, <2>6 DEF Keeps, Blob
<1> QED
  BY <1>3, <1>4

\* A blob whose fields are those of f, but for the sizes, the offsets and the
\* memory that are named.
LEMMA FieldsOf ==
  ASSUME NEW f, Blob(f), NEW a, NEW m
  PROVE  /\ LET g == [f EXCEPT !.size_dt_strings = a, !.mem = m]
            IN  /\ DOMAIN g = Fields /\ g.magic = f.magic /\ g.totalsize = f.totalsize
                /\ g.off_mem_rsvmap = f.off_mem_rsvmap /\ g.off_dt_struct = f.off_dt_struct
                /\ g.off_dt_strings = f.off_dt_strings /\ g.size_dt_struct = f.size_dt_struct
                /\ g.size_dt_strings = a /\ g.mem = m
         /\ LET g == [f EXCEPT !.size_dt_strings = a]
            IN  /\ DOMAIN g = Fields /\ g.magic = f.magic /\ g.totalsize = f.totalsize
                /\ g.off_mem_rsvmap = f.off_mem_rsvmap /\ g.off_dt_struct = f.off_dt_struct
                /\ g.off_dt_strings = f.off_dt_strings /\ g.size_dt_struct = f.size_dt_struct
                /\ g.size_dt_strings = a /\ g.mem = f.mem
         /\ LET g == [f EXCEPT !.off_dt_struct = a, !.mem = m]
            IN  /\ DOMAIN g = Fields /\ g.magic = f.magic /\ g.totalsize = f.totalsize
                /\ g.off_mem_rsvmap = f.off_mem_rsvmap /\ g.off_dt_struct = a
                /\ g.off_dt_strings = f.off_dt_strings /\ g.size_dt_struct = f.size_dt_struct
                /\ g.size_dt_strings = f.size_dt_strings /\ g.mem = m
BY DEF Blob, Fields

\* The length of one string behind another.
LEMMA ConcatLen ==
  ASSUME NEW S, NEW s \in Seq(S), NEW t \in Seq(S)
  PROVE  s \o t \in Seq(S) /\ Len(s \o t) = Len(s) + Len(t)
BY ConcatProperties

\* A string of some cells.
IsText(s) == s \in Seq({s[i] : i \in DOMAIN s})

\* A string, alone and with the words and the NUL that the writers put around it.
LEMMA StringLen ==
  ASSUME NEW s, s \in Seq({s[i] : i \in DOMAIN s})
  PROVE  /\ Len(s) \in Nat
         /\ Len(s \o <<0>>) = Len(s) + 1
         /\ \A v : Len(Word(v) \o s \o <<0>>) = Len(s) + 5
         /\ \A u, v, w : Len(Word(u) \o Word(v) \o Word(w) \o s) = Len(s) + 12
<1> DEFINE S == {s[i] : i \in DOMAIN s}
<1>1. s \in Seq(S)
  OBVIOUS
<1> HIDE DEF S
<1>2. Len(s) \in Nat
  BY <1>1, LenProperties
<1> DEFINE n == Len(s)
<1> HIDE DEF n
<1>3. n \in Nat /\ Len(s) = n
  BY <1>2 DEF n
<1>4. ASSUME NEW u, NEW v, NEW w
      PROVE  /\ Len(s \o <<0>>) = n + 1
             /\ Len(Word(v) \o s \o <<0>>) = n + 5
             /\ Len(Word(u) \o Word(v) \o Word(w) \o s) = n + 12
  <2> DEFINE T == S \cup {0, u, v, w}
             a == Word(u)
             b == Word(v)
             c == Word(w)
             z == <<0>>
  <2>1. a \in Seq(T) /\ b \in Seq(T) /\ c \in Seq(T) /\ z \in Seq(T)
    BY DEF Word
  <2>2. Len(a) = 4 /\ Len(b) = 4 /\ Len(c) = 4 /\ Len(z) = 1
    BY DEF Word
  <2>3. s \in Seq(T)
    BY <1>1, SeqMonotonic
  <2> HIDE DEF T, a, b, c, z
  <2>4. n + 1 = Len(s) + Len(z)
    BY <1>3, <2>2
  <2>5. Len(s \o z) = n + 1
    BY <2>1, <2>3, <2>4, ConcatLen
  <2>6. Len(b) + Len(s) = n + 4
    BY <1>3, <2>2
  <2>7. b \o s \in Seq(T) /\ Len(b \o s) = n + 4
    BY <2>1, <2>3, <2>6, ConcatLen
  <2> DEFINE bs == b \o s
             ab == a \o b
  <2>8. ab \in Seq(T) /\ Len(ab) = 8
    <3>1. Len(a) + Len(b) = 8
      BY <2>2
    <3> QED
      BY <2>1, <3>1, ConcatLen
  <2>9. bs \in Seq(T) /\ Len(bs) = n + 4
    BY <2>7
  <2> HIDE DEF ab, bs
  <2>10. Len(bs \o z) = n + 5
    <3>1. Len(bs) + Len(z) = n + 5
      BY <1>3, <2>2, <2>9
    <3> QED
      BY <2>1, <2>9, <3>1, ConcatLen
  <2> DEFINE abc == ab \o c
  <2>11. abc \in Seq(T) /\ Len(abc) = 12
    <3>1. abc \in Seq(T) /\ Len(abc) = Len(ab) + Len(c)
      BY <2>1, <2>8, ConcatLen
    <3> HIDE DEF abc
    <3> QED
      BY <2>2, <2>8, <3>1
  <2> HIDE DEF abc
  <2>12. Len(abc \o s) = n + 12
    <3>1. Len(abc \o s) = Len(abc) + Len(s)
      BY <2>3, <2>11, ConcatLen
    <3> QED
      BY <1>3, <2>11, <3>1
  <2> QED
    BY <2>5, <2>10, <2>12 DEF a, b, c, z, bs, ab, abc
<1> QED
  BY <1>2, <1>4 DEF n

\* A name added before the strings: short enough that totalsize - offset does not
\* wrap, it starts behind the structure block.
LEMMA AddStringStep ==
  ASSUME NEW f, NEW room, Writing(f, room), f.off_dt_strings # 0,
         NEW s, IsText(s), Len(s) < 64
  PROVE  LET r == fdt_add_string_(f, s)
         IN  /\ Keeps(f, r.fdt, room)
             /\ r.off = 0 \/ Keeps(f, fdt_del_last_string_(r.fdt, s), room)
             /\ r.fdt.off_dt_strings # 0
<1> DEFINE offset == f.size_dt_strings + Len(s) + 1
           top    == f.off_dt_struct + f.size_dt_struct
           at     == f.totalsize - offset
           m      == Put(f.mem, at, s \o <<0>>)
           g      == [f EXCEPT !.size_dt_strings = offset, !.mem = m]
<1>1. Len(s) \in Nat /\ Len(s \o <<0>>) = Len(s) + 1
  BY StringLen DEF IsText
<1>2. /\ Blob(f) /\ Fits(f, room) /\ room \in Nat /\ room <= BufSize
      /\ f.magic = FDT_SW_MAGIC
  BY DEF Writing
<1>3. /\ f.totalsize \in Nat /\ f.off_dt_struct \in Nat /\ f.off_dt_strings \in Nat
      /\ f.size_dt_struct \in Nat /\ f.size_dt_strings \in Nat
      /\ f.off_mem_rsvmap = 48 /\ f.off_dt_struct >= 64 /\ f.totalsize <= room
      /\ f.off_dt_struct + f.size_dt_struct + f.size_dt_strings <= f.totalsize
  BY <1>2 DEF Fits
<1> DEFINE n == Len(s)
           T == f.totalsize
           z == f.size_dt_strings
           o == f.off_dt_struct
           u == f.size_dt_struct
<1>4. /\ n \in Nat /\ n < 64 /\ T \in Nat /\ z \in Nat /\ o \in Nat /\ u \in Nat
      /\ o >= 64 /\ o + u + z <= T
  BY <1>3, <1>1
<1>5. offset = z + n + 1 /\ top = o + u /\ at = T - offset
  OBVIOUS
<1> HIDE DEF n, T, z, o, u, offset, top, at
<1>6. offset \in Nat /\ at \in Nat /\ top \in Nat /\ at + (n + 1) <= T
  BY <1>4, <1>5
<1>7. U32(at) = at
  <2>1. ~(at < 0)
    BY <1>6
  <2> HIDE DEF at
  <2> QED
    BY <2>1 DEF U32
<1>8. CASE at < top
  <2>1. fdt_add_string_(f, s) = [off |-> 0, fdt |-> f, allocated |-> TRUE]
    BY <1>7, <1>8 DEF fdt_add_string_, offset, top, at
  <2> QED
    BY <1>2, <2>1 DEF Keeps
<1>9. CASE ~(at < top)
  <2>1. fdt_add_string_(f, s).fdt = g
    BY <1>7, <1>9 DEF fdt_add_string_, offset, top, at
  <2> HIDE DEF m
  <2>2. /\ DOMAIN g = Fields /\ g.magic = f.magic /\ g.totalsize = f.totalsize
        /\ g.off_mem_rsvmap = f.off_mem_rsvmap /\ g.off_dt_struct = f.off_dt_struct
        /\ g.off_dt_strings = f.off_dt_strings /\ g.size_dt_struct = f.size_dt_struct
        /\ g.size_dt_strings = offset /\ g.mem = m
    BY <1>2, FieldsOf
  <2> HIDE DEF g
  <2>3. top + offset <= T
    BY <1>4, <1>5, <1>6, <1>9
  <2>4. Fits(g, room)
    <3>1. o + u + offset <= T
      BY <1>5, <2>3
    <3> QED
      BY <1>3, <1>6, <2>2, <3>1 DEF Fits, o, u, T
  <2>5. at + Len(s \o <<0>>) <= room /\ Len(s \o <<0>>) \in Nat
    <3>1. T \in Nat /\ room \in Nat /\ T <= room /\ Len(s \o <<0>>) = n + 1
      BY <1>2, <1>3, <1>1 DEF T, n
    <3> DEFINE k == Len(s \o <<0>>)
    <3> HIDE DEF k
    <3>2. k = n + 1
      BY <3>1 DEF k
    <3>3. at + k <= room /\ k \in Nat
      BY <1>4, <1>6, <3>1, <3>2
    <3> QED
      BY <3>3 DEF k
  <2>6. InBuffer(f, room) => InBuffer(g, room)
    BY <1>2, <1>6, <2>2, <2>5, PutKeeps DEF m
  <2>7. Keeps(f, g, room)
    BY <1>2, <2>2, <2>4, <2>6 DEF Keeps, Blob
  <2> DEFINE h == fdt_del_last_string_(g, s)
  <2>8. /\ DOMAIN h = Fields /\ h.magic = g.magic /\ h.totalsize = g.totalsize
        /\ h.off_mem_rsvmap = g.off_mem_rsvmap /\ h.off_dt_struct = g.off_dt_struct
        /\ h.off_dt_strings = g.off_dt_strings /\ h.size_dt_struct = g.size_dt_struct
        /\ h.size_dt_strings = g.size_dt_strings - (Len(s) + 1) /\ h.mem = g.mem
    BY <2>2, FieldsOf DEF fdt_del_last_string_, Blob
  <2> HIDE DEF h
  <2>9. h.size_dt_strings = f.size_dt_strings
    <3>1. h.size_dt_strings = offset - (n + 1)
      BY <2>2, <2>8 DEF n
    <3>2. h.size_dt_strings = z
      BY <1>4, <1>5, <3>1
    <3> QED
      BY <3>2 DEF z
  <2>10. Fits(h, room)
    BY <1>3, <2>2, <2>8, <2>9 DEF Fits
  <2>11. Keeps(f, h, room)
    BY <1>2, <2>2, <2>6, <2>8, <2>10 DEF Keeps, Blob, InBuffer
  <2> QED
    BY <2>1, <2>2, <2>7, <2>11 DEF h
<1> QED
  BY <1>8, <1>9

\* A call that is refused, and one call after another.
LEMMA KeepsSteps ==
  ASSUME NEW f, NEW room, Writing(f, room)
  PROVE  /\ Keeps(f, f, room)
         /\ \A g : Keeps(f, g, room) => Writing(g, room)
         /\ \A g, h : Keeps(f, g, room) /\ Keeps(g, h, room) => Keeps(f, h, room)
BY DEF Keeps, Writing

\* The structure is open: a buffer of no bytes holds no header.
LEMMA ProbeStruct ==
  ASSUME NEW f, NEW room, Writing(f, room), fdt_sw_probe_struct_(f) = 0
  PROVE  f.off_dt_strings # 0
<1>1. f.magic = FDT_SW_MAGIC /\ Fits(f, room)
  BY DEF Writing
<1>2. fdt_sw_probe_(f) = 0
  BY <1>1 DEF fdt_sw_probe_, FDT_MAGIC, FDT_SW_MAGIC
<1>3. f.off_dt_strings = f.totalsize
  BY <1>2 DEF fdt_sw_probe_struct_, FDT_ERR_BADSTATE
<1> QED
  BY <1>1, <1>3 DEF Fits

\* A node is begun.
LEMMA BeginNodeStep ==
  ASSUME NEW f, NEW room, Writing(f, room), NEW s, IsText(s)
  PROVE  Keeps(f, fdt_begin_node(f, s).fdt, room)
<1> DEFINE n   == Len(s)
           str == Word(FDT_BEGIN_NODE) \o s \o <<0>>
           len == FDT_TAGSIZE + FDT_TAGALIGN(n + 1)
<1>1. n \in Nat /\ Len(str) = n + 5
  BY StringLen DEF IsText
<1>2. FDT_TAGALIGN(n + 1) \in Nat /\ FDT_TAGALIGN(n + 1) >= n + 1
  <2> HIDE DEF n
  <2> QED
    BY <1>1, TagAlign
<1> HIDE DEF n, str
<1>3. len \in Nat /\ Len(str) \in Nat /\ Len(str) <= len
  BY <1>1, <1>2 DEF FDT_TAGSIZE
<1> HIDE DEF len
<1>4. CASE fdt_sw_probe_struct_(f) # 0
  <2>1. fdt_begin_node(f, s).fdt = f
    BY <1>4 DEF fdt_begin_node
  <2> QED
    BY <2>1, KeepsSteps
<1>5. CASE fdt_sw_probe_struct_(f) = 0
  <2>1. fdt_begin_node(f, s) = fdt_grab_space_(f, len, str)
    BY <1>5 DEF fdt_begin_node, len, str, n
  <2>2. f.off_dt_strings # 0
    BY <1>5, ProbeStruct
  <2> QED
    BY <1>3, <2>1, <2>2, GrabStep
<1> QED
  BY <1>4, <1>5

\* A node is ended.
LEMMA EndNodeStep ==
  ASSUME NEW f, NEW room, Writing(f, room)
  PROVE  Keeps(f, fdt_end_node(f).fdt, room)
<1> DEFINE str == Word(FDT_END_NODE)
<1>1. Len(str) = 4 /\ FDT_TAGSIZE = 4
  BY DEF Word, FDT_TAGSIZE
<1> HIDE DEF str
<1>2. FDT_TAGSIZE \in Nat /\ Len(str) \in Nat /\ Len(str) <= FDT_TAGSIZE
  BY <1>1
<1>3. CASE fdt_sw_probe_struct_(f) # 0
  <2>1. fdt_end_node(f).fdt = f
    BY <1>3 DEF fdt_end_node
  <2> QED
    BY <2>1, KeepsSteps
<1>4. CASE fdt_sw_probe_struct_(f) = 0
  <2>1. fdt_end_node(f) = fdt_grab_space_(f, FDT_TAGSIZE, str)
    BY <1>4 DEF fdt_end_node, str
  <2>2. f.off_dt_strings # 0
    BY <1>4, ProbeStruct
  <2> QED
    BY <1>2, <2>1, <2>2, GrabStep
<1> QED
  BY <1>3, <1>4

\* What a search for a name, or its addition, gives.
Added(f, str, s, room) ==
  /\ Keeps(f, str.fdt, room) /\ str.fdt.off_dt_strings # 0
  /\ str.off # 0 => IF str.allocated THEN Keeps(f, fdt_del_last_string_(str.fdt, s), room)
                    ELSE TRUE

\* A name found in the table, or added to it.
LEMMA FindAddStep ==
  ASSUME NEW f, NEW room, Writing(f, room), f.off_dt_strings # 0,
         NEW s, IsText(s), Len(s) < 64
  PROVE  /\ Added(f, fdt_add_string_(f, s), s, room)
         /\ Added(f, sw_find_add_string_(f, s), s, room)
<1>1. Added(f, fdt_add_string_(f, s), s, room)
  BY AddStringStep DEF Added
<1>2. PICK p : sw_find_add_string_(f, s) =
                 IF p # -1 THEN [off |-> p - f.totalsize, fdt |-> f, allocated |-> FALSE]
                 ELSE fdt_add_string_(f, s)
  BY DEF sw_find_add_string_
<1>3. CASE p # -1
  <2> DEFINE str == [off |-> p - f.totalsize, fdt |-> f, allocated |-> FALSE]
  <2>1. str.fdt = f /\ str.allocated = FALSE
    OBVIOUS
  <2>2. sw_find_add_string_(f, s) = str
    BY <1>2, <1>3
  <2> HIDE DEF str
  <2> QED
    BY <1>1, <2>1, <2>2, KeepsSteps DEF Added
<1> QED
  BY <1>1, <1>2, <1>3

\* A property is written, or its name removed again.
LEMMA PropertyStep ==
  ASSUME NEW f, NEW room, Writing(f, room), NEW s, IsText(s), Len(s) < 64,
         NEW val, IsText(val)
  PROVE  Keeps(f, fdt_property(f, s, val).fdt, room)
<1>1. CASE fdt_sw_probe_struct_(f) # 0
  <2>1. fdt_property(f, s, val).fdt = f
    BY <1>1 DEF fdt_property
  <2> QED
    BY <2>1, KeepsSteps
<1>2. CASE fdt_sw_probe_struct_(f) = 0
  <2> DEFINE n == Len(val)
             Text(off) == Word(FDT_PROP) \o Word(n) \o Word(off) \o val
             len == PropSize + FDT_TAGALIGN(n)
             Grabbed(str, r) ==
               IF r.ret = 0 THEN r
               ELSE [ret |-> -FDT_ERR_NOSPACE,
                     fdt |-> IF str.allocated THEN fdt_del_last_string_(str.fdt, s) ELSE str.fdt]
             Named(str) ==
               IF str.off = 0 THEN [ret |-> -FDT_ERR_NOSPACE, fdt |-> str.fdt]
               ELSE Grabbed(str, fdt_grab_space_(str.fdt, len, Text(str.off)))
  <2>1. \/ fdt_property(f, s, val) = Named(fdt_add_string_(f, s))
        \/ fdt_property(f, s, val) = Named(sw_find_add_string_(f, s))
    BY <1>2 DEF fdt_property
  <2>2. f.off_dt_strings # 0
    BY <1>2, ProbeStruct
  <2>3. n \in Nat /\ \A off : Len(Text(off)) = n + 12
    <3>1. val \in Seq({val[i] : i \in DOMAIN val})
      BY DEF IsText
    <3>2. /\ n \in Nat
          /\ \A u, v, w : Len(Word(u) \o Word(v) \o Word(w) \o val) = n + 12
      BY <3>1, StringLen
    <3> HIDE DEF n
    <3> QED
      BY <3>2
  <2>4. FDT_TAGALIGN(n) \in Nat /\ FDT_TAGALIGN(n) >= n
    <3> HIDE DEF n
    <3> QED
      BY <2>3, TagAlign
  <2> HIDE DEF n, Text
  <2>5. len \in Nat /\ \A off : Len(Text(off)) \in Nat /\ Len(Text(off)) <= len
    <3>1. PropSize = 12
      BY DEF PropSize
    <3>2. len \in Nat /\ n + 12 <= len /\ n + 12 \in Nat
      BY <2>3, <2>4, <3>1
    <3> HIDE DEF len
    <3> QED
      BY <2>3, <3>2
  <2> HIDE DEF len, Grabbed, Named
  <2>6. ASSUME NEW str, Added(f, str, s, room)
        PROVE  Keeps(f, Named(str).fdt, room)
    <3> DEFINE r == fdt_grab_space_(str.fdt, len, Text(str.off))
    <3>1. Keeps(f, str.fdt, room) /\ Writing(str.fdt, room) /\ str.fdt.off_dt_strings # 0
      BY <2>6, KeepsSteps DEF Added
    <3>2. Keeps(str.fdt, r.fdt, room)
      BY <2>5, <3>1, GrabStep
    <3> HIDE DEF r
    <3>3. Keeps(f, r.fdt, room)
      BY <3>1, <3>2, KeepsSteps
    <3>4. CASE str.off = 0
      <4>1. Named(str).fdt = str.fdt
        BY <3>4 DEF Named
      <4> QED
        BY <3>1, <4>1
    <3>5. CASE str.off # 0
      <4>1. Named(str) = Grabbed(str, r)
        BY <3>5 DEF Named, r
      <4>2. Grabbed(str, r).fdt \in {r.fdt, str.fdt} \cup
                (IF str.allocated THEN {fdt_del_last_string_(str.fdt, s)} ELSE {})
        BY DEF Grabbed
      <4> QED
        BY <2>6, <3>1, <3>3, <3>5, <4>1, <4>2 DEF Added
    <3> QED
      BY <3>4, <3>5
  <2> QED
    BY <2>1, <2>2, <2>6, FindAddStep
<1> QED
  BY <1>1, <1>2


\* An entry of the reservation map.
LEMMA ReserveStep ==
  ASSUME NEW f, NEW room, Writing(f, room), NEW addr, NEW size
  PROVE  LET r == fdt_add_reservemap_entry(f, addr, size)
         IN  /\ Keeps(f, r.fdt, room)
             /\ r.ret = 0 => /\ r.fdt.off_dt_struct >= 64 /\ r.fdt.off_dt_strings = 0
                             /\ r.fdt.totalsize # 0
<1> DEFINE re  == <<0, 0, 0, 0, 0, 0, 0, addr, 0, 0, 0, 0, 0, 0, 0, size>>
           o   == f.off_dt_struct
           m   == Put(f.mem, o, re)
           top == o + ReserveSize
           g   == [f EXCEPT !.off_dt_struct = top, !.mem = m]
           r   == fdt_add_reservemap_entry(f, addr, size)
<1>1. /\ Blob(f) /\ Fits(f, room) /\ room \in Nat /\ room <= BufSize
      /\ f.magic = FDT_SW_MAGIC
  BY DEF Writing
<1>2. Len(re) = 16 /\ ReserveSize = 16
  BY DEF ReserveSize
<1> HIDE DEF re, m
<1>3. CASE fdt_sw_probe_memrsv_(f) # 0
  <2>1. r.fdt = f /\ r.ret # 0
    BY <1>3 DEF fdt_add_reservemap_entry
  <2> QED
    BY <2>1, KeepsSteps
<1>4. CASE fdt_sw_probe_memrsv_(f) = 0 /\ top > f.totalsize
  <2>1. r.fdt = f /\ r.ret = -FDT_ERR_NOSPACE
    BY <1>4 DEF fdt_add_reservemap_entry
  <2> QED
    BY <2>1, KeepsSteps DEF FDT_ERR_NOSPACE
<1>5. CASE fdt_sw_probe_memrsv_(f) = 0 /\ ~(top > f.totalsize)
  <2>1. r.fdt = g
    BY <1>5 DEF fdt_add_reservemap_entry, re, m
  <2>2. f.off_dt_strings = 0
    <3>1. fdt_sw_probe_(f) = 0
      BY <1>1 DEF fdt_sw_probe_, FDT_MAGIC, FDT_SW_MAGIC
    <3> QED
      BY <1>5, <3>1 DEF fdt_sw_probe_memrsv_, FDT_ERR_BADSTATE
  <2>3. /\ f.totalsize \in Nat /\ o \in Nat /\ f.off_mem_rsvmap = 48 /\ o >= 48
        /\ f.size_dt_struct = 0 /\ f.size_dt_strings = 0 /\ f.totalsize <= room
    BY <1>1, <2>2 DEF Fits
  <2>4. top \in Nat /\ top >= 64 /\ top <= f.totalsize /\ o + 16 <= room /\ top = o + 16
    BY <1>1, <1>2, <1>5, <2>3
  <2>5. /\ DOMAIN g = Fields /\ g.magic = f.magic /\ g.totalsize = f.totalsize
        /\ g.off_mem_rsvmap = f.off_mem_rsvmap /\ g.off_dt_struct = top
        /\ g.off_dt_strings = f.off_dt_strings /\ g.size_dt_struct = f.size_dt_struct
        /\ g.size_dt_strings = f.size_dt_strings /\ g.mem = m
    BY <1>1, FieldsOf
  <2> HIDE DEF g, top, r
  <2>6. Fits(g, room)
    BY <2>2, <2>3, <2>4, <2>5 DEF Fits
  <2> HIDE DEF o
  <2>7. InBuffer(f, room) => InBuffer(g, room)
    <3>1. Len(re) \in Nat /\ o \in Nat /\ o + Len(re) <= room
      BY <1>2, <2>3, <2>4
    <3>2. g.mem = Put(f.mem, o, re)
      BY <2>5 DEF m
    <3> QED
      BY <1>1, <3>1, <3>2, PutKeeps
  <2>8. Keeps(f, g, room)
    BY <1>1, <2>5, <2>6, <2>7 DEF Keeps, Blob
  <2>9. g.off_dt_struct >= 64 /\ g.off_dt_strings = 0 /\ g.totalsize # 0
    BY <2>2, <2>3, <2>4, <2>5
  <2> QED
    BY <2>1, <2>8, <2>9 DEF r
<1> QED
  BY <1>3, <1>4, <1>5

\* The end of the reservation map: from here on the strings have their place.
LEMMA ReserveEndStep ==
  ASSUME NEW f, NEW room, Writing(f, room)
  PROVE  Keeps(f, fdt_finish_reservemap(f).fdt, room)
<1> DEFINE r == fdt_add_reservemap_entry(f, 0, 0)
           g == r.fdt
           h == [g EXCEPT !.off_dt_strings = g.totalsize]
<1>1. /\ Keeps(f, g, room)
      /\ r.ret = 0 => g.off_dt_struct >= 64 /\ g.off_dt_strings = 0 /\ g.totalsize # 0
  BY ReserveStep
<1>2. fdt_finish_reservemap(f) = IF r.ret # 0 THEN r ELSE [r EXCEPT !.fdt.off_dt_strings = g.totalsize]
  BY DEF fdt_finish_reservemap
<1>3. r = [ret |-> r.ret, fdt |-> g]
  BY DEF fdt_add_reservemap_entry
<1> HIDE DEF r
<1>4. CASE r.ret # 0
  <2>1. fdt_finish_reservemap(f) = r
    BY <1>2, <1>4
  <2> QED
    BY <1>1, <2>1
<1>5. CASE r.ret = 0
  <2>1. fdt_finish_reservemap(f).fdt = h
    <3> DEFINE q == [r EXCEPT !.fdt.off_dt_strings = g.totalsize]
    <3>1. fdt_finish_reservemap(f) = q
      BY <1>2, <1>5
    <3> HIDE DEF g
    <3>2. q.fdt = h
      BY <1>3
    <3> QED
      BY <3>1, <3>2
  <2>2. Blob(g) /\ Fits(g, room) /\ g.magic = FDT_SW_MAGIC
    BY <1>1 DEF Keeps
  <2> HIDE DEF g
  <2>3. /\ DOMAIN h = Fields /\ h.magic = g.magic /\ h.totalsize = g.totalsize
        /\ h.off_mem_rsvmap = g.off_mem_rsvmap /\ h.off_dt_struct = g.off_dt_struct
        /\ h.off_dt_strings = g.totalsize /\ h.size_dt_struct = g.size_dt_struct
        /\ h.size_dt_strings = g.size_dt_strings /\ h.mem = g.mem
    BY <2>2 DEF Blob, Fields
  <2> HIDE DEF h
  <2>4. Fits(h, room)
    BY <1>1, <1>5, <2>2, <2>3 DEF Fits
  <2>5. Keeps(f, h, room)
    BY <1>1, <2>2, <2>3, <2>4 DEF Keeps, Blob, InBuffer
  <2> QED
    BY <2>1, <2>5
<1> QED
  BY <1>4, <1>5

\* The buffer grows or shrinks: the strings move to its new end.
LEMMA ResizeStep ==
  ASSUME NEW f, NEW room, Writing(f, room), NEW size \in Nat, size <= room
  PROVE  Keeps(f, fdt_resize(f, size).fdt, room)
<1> DEFINE tail == f.size_dt_strings
           head == f.off_dt_struct + f.size_dt_struct
           m    == memmove(f.mem, size - tail, f.totalsize - tail, tail)
           g    == [f EXCEPT !.mem = m, !.totalsize = size,
                             !.off_dt_strings = IF @ # 0 THEN size ELSE 0]
<1>1. /\ Blob(f) /\ Fits(f, room) /\ room \in Nat /\ room <= BufSize
      /\ f.magic = FDT_SW_MAGIC
  BY DEF Writing
<1> HIDE DEF m
<1>2. fdt_resize(f, size).fdt = f \/ (head + tail <= size /\ fdt_resize(f, size).fdt = g)
  <2>1. \/ fdt_resize(f, size).fdt = f
        \/ ~(head + tail > size) /\ fdt_resize(f, size).fdt = g
    BY DEF fdt_resize, m
  <2>2. head + tail \in Int
    BY <1>1 DEF Fits
  <2> QED
    BY <2>1, <2>2
<1>3. CASE head + tail <= size
  <2>1. /\ head \in Nat /\ tail \in Nat /\ size - tail \in Nat /\ (size - tail) + tail = size
        /\ head >= 48 /\ size # 0
    BY <1>1, <1>3 DEF Fits
  <2>2. /\ DOMAIN g = Fields /\ g.magic = f.magic /\ g.totalsize = size
        /\ g.off_mem_rsvmap = f.off_mem_rsvmap /\ g.off_dt_struct = f.off_dt_struct
        /\ g.off_dt_strings = (IF f.off_dt_strings # 0 THEN size ELSE 0)
        /\ g.size_dt_struct = f.size_dt_struct
        /\ g.size_dt_strings = f.size_dt_strings /\ g.mem = m
    BY <1>1 DEF Blob, Fields
  <2> HIDE DEF g
  <2>3. Fits(g, room)
    BY <1>1, <1>3, <2>1, <2>2 DEF Fits
  <2> DEFINE to == size - tail
             from == f.totalsize - tail
  <2>4. m = memmove(f.mem, to, from, tail) /\ to \in Nat /\ to + tail = size
    BY <2>1 DEF m
  <2> HIDE DEF to, from, tail
  <2>5. ASSUME InBuffer(f, room) PROVE InBuffer(g, room)
    <3>1. BufSize \in Nat /\ to + tail <= BufSize /\ DOMAIN f.mem = 0 .. (BufSize - 1)
      BY <1>1, <2>4, <2>5, BufAssumption DEF InBuffer
    <3>2. /\ DOMAIN m = 0 .. (BufSize - 1)
          /\ \A i \in 0 .. (BufSize - 1) : i >= to + tail => m[i] = f.mem[i]
      BY <2>1, <2>4, <3>1, MoveInside
    <3>3. ASSUME NEW i \in room .. (BufSize - 1) PROVE m[i] = Canary
      <4>1. i \in 0 .. (BufSize - 1) /\ i >= to + tail
        BY <1>1, <2>4, <3>1
      <4> QED
        BY <2>5, <3>2, <4>1 DEF InBuffer
    <3> QED
      BY <2>2, <3>2, <3>3 DEF InBuffer
  <2> QED
    BY <1>1, <1>2, <2>2, <2>3, <2>5, KeepsSteps DEF Keeps, Blob
<1> QED
  BY <1>2, <1>3, KeepsSteps

\* The header of a new tree, in a buffer whose granted bytes are cleared.
LEMMA CreateStep ==
  ASSUME NEW f, Blob(f), NEW room \in Nat, room <= BufSize, InBuffer(f, room),
         NEW size \in Nat, size <= room, NEW flags
  PROVE  LET g == fdt_create_with_flags(f, size, flags).fdt
         IN  g = f \/ (Keeps(f, g, room) /\ InBuffer(g, room))
<1> DEFINE hdr == FDT_ALIGN(HeaderSize, ReserveSize)
           m   == [i \in DOMAIN f.mem |-> IF i < size THEN 0 ELSE f.mem[i]]
           g   == [magic |-> FDT_SW_MAGIC, version |-> 17, last_comp_version |-> flags,
                   totalsize |-> size, off_mem_rsvmap |-> hdr,
                   off_dt_struct |-> hdr, off_dt_strings |-> 0,
                   size_dt_strings |-> 0, size_dt_struct |-> 0, mem |-> m]
<1>1. hdr = 48
  BY DEF FDT_ALIGN, HeaderSize, ReserveSize
<1> HIDE DEF m, hdr
<1>2. \/ fdt_create_with_flags(f, size, flags).fdt = f
      \/ ~(size < hdr) /\ fdt_create_with_flags(f, size, flags).fdt = g
  BY DEF fdt_create_with_flags, m, hdr
<1>3. ASSUME ~(size < hdr) PROVE Keeps(f, g, room) /\ InBuffer(g, room)
  <2>1. /\ DOMAIN g = Fields /\ g.magic = FDT_SW_MAGIC /\ g.totalsize = size
        /\ g.off_mem_rsvmap = hdr /\ g.off_dt_struct = hdr /\ g.off_dt_strings = 0
        /\ g.size_dt_strings = 0 /\ g.size_dt_struct = 0 /\ g.mem = m
    BY DEF Fields
  <2> HIDE DEF g
  <2>2. Fits(g, room)
    BY <1>1, <1>3, <2>1 DEF Fits
  <2>3. InBuffer(g, room)
    <3>1. ASSUME NEW i \in room .. (BufSize - 1) PROVE m[i] = Canary
      <4>1. i \in DOMAIN f.mem /\ ~(i < size) /\ f.mem[i] = Canary
        BY BufAssumption DEF InBuffer
      <4> QED
        BY <4>1 DEF m
    <3> QED
      BY <2>1, <3>1 DEF InBuffer, m
  <2> QED
    BY <2>1, <2>2, <2>3 DEF Keeps, Blob
<1> QED
  BY <1>2, <1>3


-----------------------------------------------------------------------------
(* The writer *)

\* A tree that is not finished, and the stage the caller sees it in.
SwInv ==
  /\ granted \in Nat /\ granted <= BufSize
  /\ view.stage = Stage(fdt)
  /\ fdt.magic \in {NO_MAGIC, FDT_SW_MAGIC}
  /\ Blob(fdt) /\ InBuffer(fdt, granted)
  /\ WriterFits

\* The calls of fdt_sw.c but fdt_finish, and fdt_create_empty_tree, which calls it.
NotFinished == ~Finish /\ ~\E g \in Grants : CreateEmpty(g)

\* The caller sees the stage the header says.
LEMMA StageOfView ==
  ASSUME NEW f
  PROVE  View(f).stage = Stage(f)
<1>1. CASE Stage(f) = "none"
  BY <1>1 DEF View
<1>2. CASE Stage(f) # "none"
  BY <1>2 DEF View
<1> QED
  BY <1>1, <1>2

\* The caller may grant more.
LEMMA GrantStep ==
  ASSUME SwInv, NEW g \in Grants, Grant(g)
  PROVE  /\ granted' \in Nat /\ granted' <= BufSize /\ g \in Nat /\ g <= granted'
         /\ InBuffer(fdt, granted')
         /\ fdt.magic = FDT_SW_MAGIC => Writing(fdt, granted')
<1>1. /\ granted \in Nat /\ granted <= BufSize /\ BufSize \in Nat
      /\ g \in Nat /\ g <= BufSize
  BY BufAssumption DEF SwInv
<1>2. /\ granted' \in Nat /\ granted' <= BufSize /\ g <= granted' /\ granted <= granted'
  BY <1>1 DEF Grant
<1>3. InBuffer(fdt, granted')
  <2>1. ASSUME NEW i \in granted' .. (BufSize - 1) PROVE i \in granted .. (BufSize - 1)
    BY <1>1, <1>2
  <2> QED
    BY <2>1 DEF SwInv, InBuffer
<1>4. ASSUME fdt.magic = FDT_SW_MAGIC PROVE Fits(fdt, granted')
  <2>1. Fits(fdt, granted)
    BY <1>4 DEF SwInv, WriterFits
  <2> DEFINE T == fdt.totalsize
  <2>2. T \in Nat /\ T <= granted
    BY <2>1 DEF Fits
  <2> HIDE DEF T
  <2>3. T <= granted'
    BY <1>1, <1>2, <2>2
  <2> QED
    BY <2>1, <2>3 DEF Fits, T
<1> QED
  BY <1>1, <1>2, <1>3, <1>4 DEF Writing, SwInv

\* A call that keeps a tree inside its room keeps the invariant.
LEMMA CalledStep ==
  ASSUME NEW r, Called(r), granted' \in Nat, granted' <= BufSize,
         InBuffer(fdt, granted'), Keeps(fdt, r.fdt, granted')
  PROVE  SwInv'
<1>1. fdt' = r.fdt /\ view' = View(fdt')
  BY DEF Called
<1>2. view'.stage = Stage(fdt')
  BY <1>1, StageOfView
<1>3. /\ Blob(fdt') /\ fdt'.magic = FDT_SW_MAGIC /\ Fits(fdt', granted')
      /\ InBuffer(fdt', granted')
  BY <1>1 DEF Keeps
<1>4. Stage(fdt)' = Stage(fdt')
  BY DEF Stage
<1> QED
  BY <1>2, <1>3, <1>4 DEF SwInv, WriterFits, Blob, InBuffer, Fits, Stage

\* A call that is refused changes nothing.
LEMMA RefusedStep ==
  ASSUME SwInv, NEW r, Called(r), r.fdt = fdt, granted' \in Nat, granted' <= BufSize,
         InBuffer(fdt, granted'), fdt.magic = FDT_SW_MAGIC => Fits(fdt, granted')
  PROVE  SwInv'
<1>1. fdt' = fdt /\ view' = View(fdt)
  BY DEF Called
<1>2. view'.stage = Stage(fdt)
  BY <1>1, StageOfView
<1> QED
  BY <1>1, <1>2 DEF SwInv, WriterFits, Blob, InBuffer, Fits, Stage


\* A buffer that holds no tree is refused by every writer.
LEMMA ErasedRefused ==
  ASSUME NEW f, f.magic = NO_MAGIC
  PROVE  /\ \A n : fdt_resize(f, n).fdt = f
         /\ \A a, n : fdt_add_reservemap_entry(f, a, n).fdt = f
         /\ fdt_finish_reservemap(f).fdt = f
         /\ \A s : fdt_begin_node(f, s).fdt = f
         /\ fdt_end_node(f).fdt = f
         /\ \A s, val : fdt_property(f, s, val).fdt = f
<1>1. fdt_sw_probe_(f) # 0
  BY DEF fdt_sw_probe_, NO_MAGIC, FDT_MAGIC, FDT_SW_MAGIC, FDT_ERR_BADMAGIC
<1>2. fdt_sw_probe_memrsv_(f) # 0 /\ fdt_sw_probe_struct_(f) # 0
  BY <1>1 DEF fdt_sw_probe_memrsv_, fdt_sw_probe_struct_
<1>3. \A n : fdt_resize(f, n).fdt = f
  BY <1>1 DEF fdt_resize
<1>4. \A a, n : /\ fdt_add_reservemap_entry(f, a, n).fdt = f
                /\ fdt_add_reservemap_entry(f, a, n).ret # 0
  BY <1>2 DEF fdt_add_reservemap_entry
<1>5. fdt_finish_reservemap(f).fdt = f
  BY <1>4 DEF fdt_finish_reservemap
<1>6. (\A s : fdt_begin_node(f, s).fdt = f) /\ fdt_end_node(f).fdt = f
  BY <1>2 DEF fdt_begin_node, fdt_end_node
<1>7. \A s, val : fdt_property(f, s, val).fdt = f
  BY <1>2 DEF fdt_property
<1> QED
  BY <1>3, <1>4, <1>5, <1>6, <1>7

\* A name whose end the strings block and the structure block always leave room
\* to count back to: totalsize - offset does not wrap in fdt_add_string_.
ShortNames == \A p \in Props : Len(p[1]) < 64

\* Each call keeps the invariant.
LEMMA SwStep ==
  ASSUME SwInv, [Next]_vars, [NotFinished]_vars, ShortNames
  PROVE  SwInv'
<1>1. CASE UNCHANGED vars
  BY <1>1 DEF SwInv, vars, WriterFits, Blob, InBuffer, Fits, Stage
<1> SUFFICES ASSUME Next, NotFinished
             PROVE  SwInv'
  BY <1>1
<1>2. /\ Blob(fdt) /\ InBuffer(fdt, granted) /\ granted \in Nat /\ granted <= BufSize
      /\ fdt.magic = FDT_SW_MAGIC => Writing(fdt, granted)
      /\ fdt.magic \in {NO_MAGIC, FDT_SW_MAGIC}
  BY DEF SwInv, WriterFits, Writing
<1>3. view.stage # "complete"
  <2>1. CASE fdt.magic = NO_MAGIC
    <3>1. Stage(fdt) = "none"
      BY <2>1 DEF Stage, NO_MAGIC, FDT_SW_MAGIC, FDT_MAGIC
    <3> QED
      BY <3>1 DEF SwInv
  <2>2. CASE fdt.magic = FDT_SW_MAGIC
    <3>1. Stage(fdt) = IF fdt.off_dt_strings = 0 THEN "memrsv" ELSE "struct"
      BY <2>2 DEF Stage, NO_MAGIC, FDT_SW_MAGIC, FDT_MAGIC
    <3> QED
      BY <3>1 DEF SwInv
  <2> QED
    BY <1>2, <2>1, <2>2
<1>4. ASSUME NEW g \in Grants, NEW flags \in Flags, Create(g, flags)
      PROVE  SwInv'
  <2> DEFINE r == fdt_create_with_flags(fdt, g, flags)
  <2>1. Called(r) /\ Grant(g) /\ fdt.magic # FDT_SW_MAGIC
    BY <1>4 DEF Create, SwInv, Stage, NO_MAGIC, FDT_SW_MAGIC
  <2>2. /\ granted' \in Nat /\ granted' <= BufSize /\ g \in Nat /\ g <= granted'
        /\ InBuffer(fdt, granted')
    BY <2>1, GrantStep
  <2>3. r.fdt = fdt \/ Keeps(fdt, r.fdt, granted')
    BY <1>2, <2>2, CreateStep
  <2> HIDE DEF r
  <2> QED
    BY <2>1, <2>2, <2>3, CalledStep, RefusedStep
<1>5. ASSUME NEW g \in Grants, Resize(g)
      PROVE  SwInv'
  <2> DEFINE r == fdt_resize(fdt, g)
  <2>1. Called(r) /\ Grant(g)
    BY <1>5 DEF Resize, Counted
  <2>2. /\ granted' \in Nat /\ granted' <= BufSize /\ g \in Nat /\ g <= granted'
        /\ InBuffer(fdt, granted')
        /\ fdt.magic = FDT_SW_MAGIC => Writing(fdt, granted')
    BY <2>1, GrantStep
  <2>3. fdt.magic = FDT_SW_MAGIC => Keeps(fdt, r.fdt, granted')
    BY <2>2, ResizeStep
  <2>4. fdt.magic = NO_MAGIC => r.fdt = fdt
    BY ErasedRefused
  <2> HIDE DEF r
  <2> QED
    BY <1>2, <2>1, <2>2, <2>3, <2>4, CalledStep, RefusedStep DEF NO_MAGIC, FDT_SW_MAGIC
<1>6. ASSUME NEW r, Called(r), UNCHANGED granted,
             fdt.magic = FDT_SW_MAGIC => Keeps(fdt, r.fdt, granted),
             fdt.magic = NO_MAGIC => r.fdt = fdt
      PROVE  SwInv'
  <2>1. granted' \in Nat /\ granted' <= BufSize /\ InBuffer(fdt, granted')
    BY <1>2, <1>6
  <2>2. CASE fdt.magic = FDT_SW_MAGIC
    <3>1. Keeps(fdt, r.fdt, granted')
      BY <1>6, <2>2
    <3> QED
      BY <1>6, <2>1, <3>1, CalledStep
  <2>3. CASE fdt.magic = NO_MAGIC
    <3>1. r.fdt = fdt /\ fdt.magic # FDT_SW_MAGIC
      BY <1>6, <2>3 DEF NO_MAGIC, FDT_SW_MAGIC
    <3> QED
      BY <1>6, <2>1, <3>1, RefusedStep
  <2> QED
    BY <1>2, <2>2, <2>3
<1>7. ASSUME NEW a \in Ranges, Reserve(a)
      PROVE  SwInv'
  <2>1. Called(fdt_add_reservemap_entry(fdt, a[1], a[2])) /\ UNCHANGED granted
    BY <1>7 DEF Reserve, Counted
  <2>2. fdt.magic = FDT_SW_MAGIC =>
          Keeps(fdt, fdt_add_reservemap_entry(fdt, a[1], a[2]).fdt, granted)
    BY <1>2, ReserveStep
  <2> QED
    BY <1>6, <2>1, <2>2, ErasedRefused
<1>8. ASSUME ReserveEnd
      PROVE  SwInv'
  <2>1. Called(fdt_finish_reservemap(fdt)) /\ UNCHANGED granted
    BY <1>8 DEF ReserveEnd
  <2>2. fdt.magic = FDT_SW_MAGIC => Keeps(fdt, fdt_finish_reservemap(fdt).fdt, granted)
    BY <1>2, ReserveEndStep
  <2> QED
    BY <1>6, <2>1, <2>2, ErasedRefused
<1>9. ASSUME NEW n \in NodeNames \cup {<< >>}, BeginNode(n)
      PROVE  SwInv'
  <2>1. Called(fdt_begin_node(fdt, n)) /\ UNCHANGED granted
    BY <1>9 DEF BeginNode, Counted
  <2>2. IsText(n)
    <3>1. CASE n \in NodeNames
      BY <3>1, StringAssumption DEF IsText
    <3>2. CASE n = << >>
      BY <3>2 DEF IsText
    <3> QED
      BY <3>1, <3>2
  <2>3. fdt.magic = FDT_SW_MAGIC => Keeps(fdt, fdt_begin_node(fdt, n).fdt, granted)
    BY <1>2, <2>2, BeginNodeStep
  <2> QED
    BY <1>6, <2>1, <2>3, ErasedRefused
<1>10. ASSUME EndNode
       PROVE  SwInv'
  <2>1. Called(fdt_end_node(fdt)) /\ UNCHANGED granted
    BY <1>10 DEF EndNode
  <2>2. fdt.magic = FDT_SW_MAGIC => Keeps(fdt, fdt_end_node(fdt).fdt, granted)
    BY <1>2, EndNodeStep
  <2> QED
    BY <1>6, <2>1, <2>2, ErasedRefused
<1>11. ASSUME NEW p \in Props, Property(p)
       PROVE  SwInv'
  <2>1. Called(fdt_property(fdt, p[1], p[2])) /\ UNCHANGED granted
    BY <1>11 DEF Property, Counted
  <2>2. IsText(p[1]) /\ IsText(p[2])
    BY StringAssumption DEF IsText
  <2>3. Len(p[1]) < 64
    BY DEF ShortNames
  <2>4. fdt.magic = FDT_SW_MAGIC => Keeps(fdt, fdt_property(fdt, p[1], p[2]).fdt, granted)
    BY <1>2, <2>2, <2>3, PropertyStep
  <2> QED
    BY <1>6, <2>1, <2>4, ErasedRefused
<1>12. /\ \A g \in Grants : ~OpenInto(g)
       /\ ~Pack /\ ~ForeignLayout /\ \A calls : ~Edit(calls)
  BY <1>3 DEF OpenInto, Pack, ForeignLayout, Edit, Sound
<1>13. ~(SetProp \/ SetPropInPlace \/ AppendProp \/ DelProp \/ NopProp
          \/ AddSubnode \/ SetName \/ DelNode \/ NopNode \/ AddRsv \/ DelRsv)
  BY <1>12 DEF SetProp, SetPropInPlace, AppendProp, DelProp, NopProp,
               AddSubnode, SetName, DelNode, NopNode, AddRsv, DelRsv
<1>14. ~Finish /\ \A g \in Grants : ~CreateEmpty(g)
  BY DEF NotFinished
<1> QED
  BY <1>4, <1>5, <1>7, <1>8, <1>9, <1>10, <1>11, <1>12, <1>13, <1>14 DEF Next

\* While a tree is written with the calls of fdt_sw.c, in any order, with any
\* names and values, and whatever of them fail, no call writes outside the
\* bytes the caller has granted; and the structure that grows up never meets
\* the strings that grow down (fdt_grab_space_, fdt_add_string_, fdt_resize).
THEOREM WritersStayInBuffer ==
  ASSUME ShortNames
  PROVE  Spec /\ [][NotFinished]_vars => [](WritesInBuffer /\ WriterFits)
<1>1. Init => SwInv
  <2> SUFFICES ASSUME Init
               PROVE  SwInv
    OBVIOUS
  <2>1. /\ Blob(fdt) /\ fdt.magic = NO_MAGIC /\ granted = 0 /\ view = View(fdt)
        /\ fdt.mem = [i \in 0 .. (BufSize - 1) |-> Canary]
    BY DEF Init, Blob, Fields
  <2>2. InBuffer(fdt, granted)
    BY <2>1, BufAssumption DEF InBuffer
  <2>3. view.stage = Stage(fdt)
    BY <2>1, StageOfView
  <2> QED
    BY <2>1, <2>2, <2>3, BufAssumption DEF SwInv, WriterFits, NO_MAGIC, FDT_SW_MAGIC
<1>2. SwInv /\ [Next]_vars /\ [NotFinished]_vars => SwInv'
  BY SwStep
<1>3. SwInv => WritesInBuffer /\ WriterFits
  BY DEF SwInv, WritesInBuffer, InBuffer
<1> QED
  BY <1>1, <1>2, <1>3, PTL DEF Spec

-----------------------------------------------------------------------------
(* Edits that fail *)

\* g has the header of f and the same bytes in use.
NoTrace(f, g) ==
  /\ [g EXCEPT !.mem = 0] = [f EXCEPT !.mem = 0]
  /\ Bytes(g.mem, 0, fdt_data_size_(g)) = Bytes(f.mem, 0, fdt_data_size_(f))

\* What the proofs need of a blob: a header with an end of the strings block in
\* it, and a buffer with an end.
Plain(f) ==
  /\ Blob(f) /\ f.off_dt_strings \in Nat /\ f.size_dt_strings \in Nat
  /\ IsFiniteSet(DOMAIN f.mem)

\* A blob that a call has not touched has no trace of it.
LEMMA Untouched ==
  ASSUME NEW f
  PROVE  NoTrace(f, f)
BY DEF NoTrace

\* The cells below the place of a write are what they were.
LEMMA PutBelow ==
  ASSUME NEW mem, IsFiniteSet(DOMAIN mem), NEW o \in Nat, NEW s, Len(s) \in Nat
  PROVE  /\ IsFiniteSet(DOMAIN Put(mem, o, s))
         /\ \A i \in 0 .. (o - 1) : Put(mem, o, s)[i] = mem[i]
<1> DEFINE size == Cardinality(DOMAIN mem)
           hi == (IF o + Len(s) > size THEN o + Len(s) ELSE size) - 1
<1>1. size \in Nat
  BY FS_CardinalityType
<1> HIDE DEF size
<1>2. hi \in Int /\ o + Len(s) <= hi + 1 /\ ~(o < 0)
  BY <1>1
<1>3. Span(mem, o, Len(s)) = 0 .. hi
  BY <1>2 DEF Span, size
<1> HIDE DEF hi
<1>4. IsFiniteSet(0 .. hi)
  BY <1>2, FS_Interval
<1>5. DOMAIN Put(mem, o, s) = 0 .. hi
  BY <1>3 DEF Put
<1>6. ASSUME NEW i \in 0 .. (o - 1) PROVE Put(mem, o, s)[i] = mem[i]
  <2>1. i \in 0 .. hi /\ ~(i >= o)
    BY <1>2
  <2> QED
    BY <1>3, <2>1 DEF Put
<1> QED
  BY <1>4, <1>5, <1>6

\* Nor does moving nothing change them.
LEMMA MoveNothing ==
  ASSUME NEW mem, IsFiniteSet(DOMAIN mem), NEW dst \in Nat, NEW src
  PROVE  /\ IsFiniteSet(DOMAIN memmove(mem, dst, src, 0))
         /\ \A i \in 0 .. (dst - 1) : memmove(mem, dst, src, 0)[i] = mem[i]
<1> DEFINE size == Cardinality(DOMAIN mem)
           hi == (IF dst + 0 > size THEN dst + 0 ELSE size) - 1
<1>1. size \in Nat
  BY FS_CardinalityType
<1> HIDE DEF size
<1>2. hi \in Int /\ dst <= hi + 1 /\ ~(dst < 0)
  BY <1>1
<1>3. Span(mem, dst, 0) = 0 .. hi
  BY <1>2 DEF Span, size
<1> HIDE DEF hi
<1>4. IsFiniteSet(0 .. hi)
  BY <1>2, FS_Interval
<1>5. DOMAIN memmove(mem, dst, src, 0) = 0 .. hi
  BY <1>3 DEF memmove
<1>6. ASSUME NEW i \in 0 .. (dst - 1) PROVE memmove(mem, dst, src, 0)[i] = mem[i]
  <2>1. i \in 0 .. hi /\ ~(i >= dst)
    BY <1>2
  <2> QED
    BY <1>3, <2>1 DEF memmove
<1> QED
  BY <1>4, <1>5, <1>6

\* A splice that fails has done nothing, and one that succeeds returns 0.
LEMMA SpliceFails ==
  ASSUME NEW f, NEW p, NEW oldlen, NEW newlen
  PROVE  LET r == fdt_splice_(f, p, oldlen, newlen)
         IN  r.ret = 0 \/ r.fdt = f
BY DEF fdt_splice_

\* The same of the splices that adjust the header.
LEMMA SplicesFail ==
  ASSUME NEW f
  PROVE  /\ \A p, oldlen, newlen :
              LET r == fdt_splice_struct_(f, p, oldlen, newlen) IN r.ret = 0 \/ r.fdt = f
         /\ \A n, oldn, newn :
              LET r == fdt_splice_mem_rsv_(f, n, oldn, newn) IN r.ret = 0 \/ r.fdt = f
<1>1. ASSUME NEW p, NEW oldlen, NEW newlen
      PROVE  LET r == fdt_splice_struct_(f, p, oldlen, newlen) IN r.ret = 0 \/ r.fdt = f
  BY SpliceFails DEF fdt_splice_struct_, fdt_splice_
<1>2. ASSUME NEW n, NEW oldn, NEW newn
      PROVE  LET r == fdt_splice_mem_rsv_(f, n, oldn, newn) IN r.ret = 0 \/ r.fdt = f
  BY SpliceFails DEF fdt_splice_mem_rsv_, fdt_splice_
<1> QED
  BY <1>1, <1>2

\* g is f with the buffer a and n bytes more of strings; k is g with the buffer
\* b and n bytes less.
Grown(f, a, n, g) == g = [[f EXCEPT !.mem = a] EXCEPT !.size_dt_strings = @ + n]
Shrunk(g, b, n, k) == k = [[g EXCEPT !.mem = b] EXCEPT !.size_dt_strings = @ - n]

\* A blob whose strings block grows by n and shrinks again.
LEMMA GrownAndShrunk ==
  ASSUME NEW f, Blob(f), f.size_dt_strings \in Int, NEW a, NEW b, NEW n \in Int,
         NEW g, Grown(f, a, n, g), NEW k, Shrunk(g, b, n, k)
  PROVE  /\ g.mem = a /\ k.mem = b /\ k.off_dt_strings = f.off_dt_strings
         /\ k.size_dt_strings = f.size_dt_strings
         /\ [k EXCEPT !.mem = 0] = [f EXCEPT !.mem = 0]
<1> DEFINE h == [g EXCEPT !.mem = b]
           z == [k EXCEPT !.mem = 0]
           y == [f EXCEPT !.mem = 0]
           m == f.size_dt_strings
<1>1. m \in Int /\ (m + n) - n = m
  OBVIOUS
<1> HIDE DEF m
<1>2. /\ DOMAIN g = Fields /\ g.mem = a /\ g.size_dt_strings = m + n
      /\ \A x \in Fields \ {"mem", "size_dt_strings"} : g[x] = f[x]
  BY DEF Blob, Fields, m, Grown
<1>3. /\ DOMAIN h = Fields /\ h.mem = b /\ h.size_dt_strings = m + n
      /\ \A x \in Fields \ {"mem", "size_dt_strings"} : h[x] = f[x]
  BY <1>2 DEF Fields
<1> k = [h EXCEPT !.size_dt_strings = @ - n]
  BY DEF Shrunk
<1> HIDE DEF h
<1>4. /\ DOMAIN k = Fields /\ k.mem = b /\ k.size_dt_strings = (m + n) - n
      /\ \A x \in Fields \ {"mem", "size_dt_strings"} : k[x] = f[x]
  BY <1>3 DEF Fields
<1>5. k.size_dt_strings = f.size_dt_strings
  BY <1>1, <1>4 DEF m
<1>6. \A x \in Fields \ {"mem"} : k[x] = f[x]
  BY <1>4, <1>5
<1>7. z = y
  <2>1. z = [x \in Fields |-> IF x = "mem" THEN 0 ELSE k[x]]
    BY <1>4
  <2>2. y = [x \in Fields |-> IF x = "mem" THEN 0 ELSE f[x]]
    BY DEF Blob
  <2> QED
    BY <1>6, <2>1, <2>2
<1>8. k.off_dt_strings = f.off_dt_strings
  BY <1>6 DEF Fields
<1> QED
  BY <1>2, <1>4, <1>5, <1>7, <1>8

\* A string put behind the strings block and taken off again leaves no trace;
\* one that was found, or that did not fit, is no change.
LEMMA StringRolledBack ==
  ASSUME NEW f, Plain(f), NEW s, NEW S, s \in Seq(S)
  PROVE  LET str == rw_find_add_string_(f, s)
         IN  IF str.allocated THEN str.off \in Nat /\ NoTrace(f, fdt_del_last_string_(str.fdt, s))
             ELSE str.fdt = f
<1>1. /\ Blob(f) /\ f.off_dt_strings \in Nat /\ f.size_dt_strings \in Nat
      /\ IsFiniteSet(DOMAIN f.mem) /\ Len(s) \in Nat
  BY LenProperties DEF Plain
<1>0. PICK end, n :
        /\ end = fdt_data_size_(f) /\ end = f.off_dt_strings + f.size_dt_strings
        /\ n = Len(s) + 1 /\ end \in Nat /\ n \in Nat
  BY <1>1 DEF fdt_data_size_
<1> DEFINE str == rw_find_add_string_(f, s)
           r   == fdt_splice_string_(f, n)
           q   == fdt_find_string_len_(f.mem, f.off_dt_strings, f.size_dt_strings, s)
<1>2. CASE q # -1
  BY <1>0, <1>2 DEF rw_find_add_string_
<1>3. CASE q = -1 /\ r.ret # 0
  BY <1>0, <1>3 DEF rw_find_add_string_
<1>4. CASE q = -1 /\ r.ret = 0
  <2> DEFINE moved == memmove(f.mem, end + n, end + 0, end - (end + 0))
             last == Put(moved, end, s \o <<0>>)
             g == [[f EXCEPT !.mem = moved] EXCEPT !.size_dt_strings = @ + n]
             h == [g EXCEPT !.mem = last]
             k == [h EXCEPT !.size_dt_strings = @ - n]
  <2>1. str = [off |-> end - f.off_dt_strings, allocated |-> TRUE,
               fdt |-> [r.fdt EXCEPT !.mem = Put(@, end, s \o <<0>>)]]
    BY <1>0, <1>4 DEF rw_find_add_string_
  <2>2. r.fdt = g
    <3> DEFINE t == fdt_splice_(f, end, 0, n)
    <3>1. t.ret = 0 /\ r = [t EXCEPT !.fdt.size_dt_strings = @ + n]
      BY <1>0, <1>4 DEF fdt_splice_string_
    <3>2. t = [ret |-> 0, fdt |-> [f EXCEPT !.mem = moved]]
      BY <1>0, <3>1 DEF fdt_splice_, FDT_ERR_BADOFFSET, FDT_ERR_NOSPACE
    <3> HIDE DEF t, moved, r
    <3>3. r = [[ret |-> 0, fdt |-> [f EXCEPT !.mem = moved]] EXCEPT !.fdt.size_dt_strings = @ + n]
      BY <3>1, <3>2
    <3> QED
      BY <3>3
  <2>3. end + n \in Nat /\ end - (end + 0) = 0 /\ n \in Int /\ f.size_dt_strings \in Int
    <3>1. end + n \in Nat
      BY <1>0, <1>1
    <3>2. end - (end + 0) = 0
      BY <1>0, <1>1
    <3>3. n \in Int
      BY <1>0, <1>1
    <3>4. f.size_dt_strings \in Int
      BY <1>0, <1>1
    <3> QED
      BY <3>1, <3>2, <3>3, <3>4
  <2>4. IsFiniteSet(DOMAIN moved) /\ \A i \in 0 .. ((end + n) - 1) : moved[i] = f.mem[i]
    <3> DEFINE dst == end + n
    <3> HIDE DEF dst
    <3>1. moved = memmove(f.mem, dst, end + 0, 0)
      BY <2>3 DEF dst
    <3>2. dst \in Nat /\ IsFiniteSet(DOMAIN f.mem)
      BY <1>1, <2>3 DEF dst
    <3> HIDE DEF moved
    <3>3. IsFiniteSet(DOMAIN moved) /\ \A i \in 0 .. (dst - 1) : moved[i] = f.mem[i]
      BY <3>1, <3>2, MoveNothing
    <3> QED
      BY <3>3 DEF dst
  <2> HIDE DEF moved
  <2>5. Len(s \o <<0>>) \in Nat
    <3>1. s \in Seq(S \cup {0}) /\ <<0>> \in Seq(S \cup {0})
      BY SeqMonotonic
    <3> QED
      BY <3>1, ConcatProperties, LenProperties
  <2>6. \A i \in 0 .. (end - 1) : last[i] = moved[i]
    <3>1. end \in Nat
      BY <1>0
    <3> QED
      BY <2>4, <2>5, <3>1, PutBelow
  <2> HIDE DEF last
  <2>7. \A i \in 1 .. end : last[0 + i - 1] = f.mem[0 + i - 1]
    <3> SUFFICES ASSUME NEW i \in 1 .. end PROVE last[0 + i - 1] = f.mem[0 + i - 1]
      OBVIOUS
    <3>1. 0 + i - 1 \in 0 .. (end - 1) /\ 0 + i - 1 \in 0 .. ((end + n) - 1)
      BY <1>0, <1>1
    <3> QED
      BY <2>4, <2>6, <3>1
  <2>8. /\ g.mem = moved /\ k.mem = last /\ k.off_dt_strings = f.off_dt_strings
        /\ k.size_dt_strings = f.size_dt_strings
        /\ [k EXCEPT !.mem = 0] = [f EXCEPT !.mem = 0]
    <3>1. Blob(f) /\ f.size_dt_strings \in Int /\ n \in Int
      BY <1>1, <2>3
    <3>2. Grown(f, moved, n, g)
      BY DEF Grown
    <3>3. Shrunk(g, last, n, k)
      <4> HIDE DEF g
      <4> QED
        BY DEF Shrunk
    <3> HIDE DEF g, h, k
    <3> QED
      BY <3>1, <3>2, <3>3, GrownAndShrunk
  <2>9. str.fdt = h /\ str.off = end - f.off_dt_strings /\ str.allocated
    <3> HIDE DEF g
    <3>1. [g EXCEPT !.mem = Put(@, end, s \o <<0>>)] = [g EXCEPT !.mem = last]
      BY <2>8 DEF last
    <3> QED
      BY <2>1, <2>2, <3>1
  <2>10. k = fdt_del_last_string_(h, s)
    BY <1>0 DEF fdt_del_last_string_
  <2> HIDE DEF h, k
  <2>11. NoTrace(f, k)
    <3>1. fdt_data_size_(k) = end /\ fdt_data_size_(f) = end
      BY <1>0, <1>1, <2>8 DEF fdt_data_size_
    <3>2. Bytes(last, 0, end) = Bytes(f.mem, 0, end)
      BY <2>7 DEF Bytes
    <3> QED
      BY <2>8, <3>1, <3>2 DEF NoTrace
  <2>12. str.off \in Nat
    <3>1. end - f.off_dt_strings = f.size_dt_strings
      BY <1>0, <1>1
    <3> QED
      BY <1>1, <2>9, <3>1
  <2> QED
    BY <2>9, <2>10, <2>11, <2>12
<1> QED
  BY <1>2, <1>3, <1>4

\* A call that returns an error has left no trace.
Careful(f, r) == r.ret \in Nat \/ NoTrace(f, r.fdt)

\* A call that has not touched the blob is careful, whatever it returns.
LEMMA Rejected ==
  ASSUME NEW f, NEW r, r.ret \in Nat \/ r.fdt = f
  PROVE  Careful(f, r)
BY Untouched DEF Careful

\* A splice that is followed by a write when it succeeds is careful.
LEMMA SpliceCareful ==
  ASSUME NEW f, NEW p, NEW oldlen, NEW newlen, NEW m
  PROVE  /\ Careful(f, fdt_splice_struct_(f, p, oldlen, newlen))
         /\ LET r == fdt_splice_struct_(f, p, oldlen, newlen)
            IN  Careful(f, IF r.ret # 0 THEN r ELSE [r EXCEPT !.fdt.mem = m])
         /\ Careful(f, fdt_splice_mem_rsv_(f, p, oldlen, newlen))
         /\ LET r == fdt_splice_mem_rsv_(f, p, oldlen, newlen)
            IN  Careful(f, IF r.ret # 0 THEN r ELSE [r EXCEPT !.fdt.mem = m])
<1> DEFINE s == fdt_splice_struct_(f, p, oldlen, newlen)
           t == fdt_splice_mem_rsv_(f, p, oldlen, newlen)
<1>1. s.ret = 0 \/ s.fdt = f
  BY SplicesFail
<1>2. t.ret = 0 \/ t.fdt = f
  BY SplicesFail
<1> HIDE DEF s, t
<1>3. ASSUME NEW r, r.ret = 0 \/ r.fdt = f
      PROVE  Careful(f, r) /\ Careful(f, IF r.ret # 0 THEN r ELSE [r EXCEPT !.fdt.mem = m])
  <2>1. r.ret = 0 => [r EXCEPT !.fdt.mem = m].ret = 0
    <3> SUFFICES ASSUME r.ret = 0 PROVE [r EXCEPT !.fdt.mem = m].ret = 0
      OBVIOUS
    <3> QED
      OBVIOUS
  <2>2. Careful(f, r)
    BY <1>3, Rejected
  <2>3. CASE r.ret = 0
    <3> DEFINE w == [r EXCEPT !.fdt.mem = m]
    <3>1. w.ret \in Nat
      BY <2>1, <2>3
    <3> HIDE DEF w
    <3>2. Careful(f, w)
      BY <3>1, Rejected
    <3> QED
      BY <2>2, <2>3, <3>2 DEF w
  <2> QED
    BY <2>2, <2>3
<1> QED
  BY <1>1, <1>2, <1>3 DEF s, t

\* The calls on reservations are careful.
LEMMA RsvCareful ==
  ASSUME NEW f, NEW a, NEW b, NEW n
  PROVE  Careful(f, fdt_add_mem_rsv(f, a, b)) /\ Careful(f, fdt_del_mem_rsv(f, n))
<1>1. Careful(f, fdt_add_mem_rsv(f, a, b))
  <2> DEFINE num == fdt_num_mem_rsv(f)
             r == fdt_splice_mem_rsv_(f, num, 0, 1)
             re == <<0, 0, 0, 0, 0, 0, 0, a, 0, 0, 0, 0, 0, 0, 0, b>>
             w == [r EXCEPT !.fdt.mem = Put(@, f.off_mem_rsvmap + num * ReserveSize, re)]
             v == fdt_add_mem_rsv(f, a, b)
  <2>1. v.fdt = f \/ v = (IF r.ret # 0 THEN r ELSE w)
    <3> HIDE DEF r, num
    <3> QED
      BY DEF fdt_add_mem_rsv, r, num
  <2>2. Careful(f, IF r.ret # 0 THEN r ELSE w)
    BY SpliceCareful
  <2> HIDE DEF v, r, w
  <2> QED
    BY <2>1, <2>2, Rejected DEF v
<1>2. Careful(f, fdt_del_mem_rsv(f, n))
  <2> DEFINE r == fdt_splice_mem_rsv_(f, n, 1, 0)
             v == fdt_del_mem_rsv(f, n)
  <2>1. v.fdt = f \/ v = r
    BY DEF fdt_del_mem_rsv
  <2>2. Careful(f, r)
    BY SpliceCareful
  <2> HIDE DEF v, r
  <2> QED
    BY <2>1, <2>2, Rejected DEF v
<1> QED
  BY <1>1, <1>2

\* So are the calls that write in place.
LEMMA InPlaceCareful ==
  ASSUME NEW f, NEW o, NEW name, NEW val
  PROVE  /\ Careful(f, fdt_setprop_inplace(f, o, name, val))
         /\ Careful(f, fdt_nop_property(f, o, name))
         /\ Careful(f, fdt_nop_node(f, o))
<1> DEFINE p == fdt_get_property_namelen_(f, o, name)
           e == fdt_node_end_offset_(f, o)
<1> HIDE DEF p, e
<1>1. Careful(f, fdt_setprop_inplace(f, o, name, val))
  <2> DEFINE r == fdt_setprop_inplace_namelen_partial(f, o, name, 0, val)
             v == fdt_setprop_inplace(f, o, name, val)
  <2>1. r.ret = 0 \/ r.fdt = f
    BY DEF fdt_setprop_inplace_namelen_partial, p
  <2>2. v.fdt = f \/ v = r
    <3> HIDE DEF r
    <3> QED
      BY DEF fdt_setprop_inplace, r
  <2> HIDE DEF v, r
  <2> QED
    BY <2>1, <2>2, Rejected DEF v
<1>2. Careful(f, fdt_nop_property(f, o, name))
  <2> DEFINE v == fdt_nop_property(f, o, name)
  <2>1. v.ret = 0 \/ v.fdt = f
    BY DEF fdt_nop_property
  <2> HIDE DEF v
  <2> QED
    BY <2>1, Rejected DEF v
<1>3. Careful(f, fdt_nop_node(f, o))
  <2> DEFINE v == fdt_nop_node(f, o)
  <2>1. v.ret = 0 \/ v.fdt = f
    BY DEF fdt_nop_node
  <2> HIDE DEF v
  <2> QED
    BY <2>1, Rejected DEF v
<1> QED
  BY <1>1, <1>2, <1>3

\* And those that take something out or rename a node.
LEMMA RemovalCareful ==
  ASSUME NEW f, NEW o, NEW name
  PROVE  /\ Careful(f, fdt_delprop(f, o, name))
         /\ Careful(f, fdt_del_node(f, o))
         /\ Careful(f, fdt_set_name(f, o, name))
<1>1. Careful(f, fdt_delprop(f, o, name))
  <2> DEFINE p == fdt_get_property_namelen_(f, o, name)
             r == fdt_splice_struct_(f, f.off_dt_struct + p.off, PropSize + FDT_TAGALIGN(p.len), 0)
             v == fdt_delprop(f, o, name)
  <2>1. v.fdt = f \/ v = r
    <3> HIDE DEF r, p
    <3> QED
      BY DEF fdt_delprop, r, p
  <2>2. Careful(f, r)
    BY SpliceCareful
  <2> HIDE DEF v, r
  <2> QED
    BY <2>1, <2>2, Rejected DEF v
<1>2. Careful(f, fdt_del_node(f, o))
  <2> DEFINE e == fdt_node_end_offset_(f, o)
             r == fdt_splice_struct_(f, f.off_dt_struct + o, e - o, 0)
             v == fdt_del_node(f, o)
  <2>1. v.fdt = f \/ v = r
    <3> HIDE DEF r, e
    <3> QED
      BY DEF fdt_del_node, r, e
  <2>2. Careful(f, r)
    BY SpliceCareful
  <2> HIDE DEF v, r
  <2> QED
    BY <2>1, <2>2, Rejected DEF v
<1>3. Careful(f, fdt_set_name(f, o, name))
  <2> DEFINE old == fdt_get_name(f, o)
             at == f.off_dt_struct + o + FDT_TAGSIZE
             r == fdt_splice_struct_(f, at, FDT_TAGALIGN(old.len + 1), FDT_TAGALIGN(Len(name) + 1))
             w == [r EXCEPT !.fdt.mem = Put(@, at, name \o <<0>>)]
             v == fdt_set_name(f, o, name)
  <2>1. v.fdt = f \/ v = (IF r.ret # 0 THEN r ELSE w)
    <3> HIDE DEF r, old
    <3> QED
      BY DEF fdt_set_name, r, old
  <2>2. Careful(f, IF r.ret # 0 THEN r ELSE w)
    BY SpliceCareful
  <2> HIDE DEF v, r, w
  <2> QED
    BY <2>1, <2>2, Rejected DEF v
<1> QED
  BY <1>1, <1>2, <1>3

\* A property added without room for it takes its name out again.
LEMMA AddPropertyCareful ==
  ASSUME NEW f, Plain(f), NEW o, NEW name, NEW S, name \in Seq(S), NEW len
  PROVE  Careful(f, fdt_add_property_(f, o, name, len))
<1> DEFINE next == fdt_check_node_offset_(f, o)
           str == rw_find_add_string_(f, name)
           at == f.off_dt_struct + next
           r == fdt_splice_struct_(str.fdt, at, 0, PropSize + FDT_TAGALIGN(len))
           back == IF str.allocated THEN fdt_del_last_string_(str.fdt, name) ELSE str.fdt
           v == fdt_add_property_(f, o, name, len)
<1>1. IF str.allocated THEN str.off \in Nat /\ NoTrace(f, fdt_del_last_string_(str.fdt, name))
      ELSE str.fdt = f
  BY StringRolledBack
<1>2. \/ v.fdt = f
      \/ str.off < 0 /\ v.fdt = str.fdt
      \/ ~(str.off < 0) /\ v.fdt = back
      \/ v.ret = 0
  <2> HIDE DEF next, str, r, back
  <2> QED
    BY DEF fdt_add_property_, next, str, r, back
<1>3. NoTrace(f, back)
  <2> HIDE DEF str
  <2> QED
    BY <1>1, Untouched
<1>4. str.off < 0 => str.fdt = f
  <2> HIDE DEF str
  <2>1. \A x \in Nat : ~(x < 0)
    OBVIOUS
  <2> QED
    BY <1>1, <2>1
<1> HIDE DEF v, back, str
<1>5. v.ret \in Nat \/ NoTrace(f, v.fdt)
  BY <1>2, <1>3, <1>4, Untouched
<1> QED
  BY <1>5 DEF Careful, v

\* Setting a property is careful.
LEMMA SetPropCareful ==
  ASSUME NEW f, Plain(f), NEW o, NEW name, NEW S, name \in Seq(S), NEW val
  PROVE  Careful(f, fdt_setprop(f, o, name, val))
<1> DEFINE len == Len(val)
           p == fdt_get_property_namelen_(f, o, name)
           r == fdt_splice_struct_(f, p.data, FDT_TAGALIGN(p.len), FDT_TAGALIGN(len))
           small == fdt_resize_property_(f, o, name, len)
           new == fdt_add_property_(f, o, name, len)
           room == fdt_setprop_placeholder_namelen(f, o, name, len)
           v == fdt_setprop(f, o, name, val)
<1>1. small.ret = 0 \/ small.fdt = f
  BY DEF fdt_resize_property_
<1>2. room.fdt = f \/ room = small \/ room = new
  <2> HIDE DEF small, new
  <2> QED
    BY DEF fdt_setprop_placeholder_namelen, small, new
<1>3. Careful(f, new)
  BY AddPropertyCareful
<1> HIDE DEF small, new, room
<1>4. Careful(f, room)
  BY <1>1, <1>2, <1>3, Rejected
<1>5. v.ret = room.ret /\ (room.ret # 0 => v.fdt = room.fdt)
  BY DEF fdt_setprop, Filled, room
<1> HIDE DEF v
<1>6. v.ret \in Nat \/ NoTrace(f, v.fdt)
  BY <1>4, <1>5 DEF Careful
<1> QED
  BY <1>6 DEF Careful, v

\* Appending to a property is careful, and so is appending an address range.
LEMMA AppendPropCareful ==
  ASSUME NEW f, Plain(f), NEW o, NEW name, NEW S, name \in Seq(S)
  PROVE  /\ \A val : Careful(f, fdt_appendprop(f, o, name, val))
         /\ \A parent, addr, size :
              Careful(f, fdt_appendprop_addrrange(f, parent, o, name, addr, size))
<1>1. ASSUME NEW val PROVE Careful(f, fdt_appendprop(f, o, name, val))
  <2> DEFINE p == fdt_get_property_namelen_(f, o, name)
             r == fdt_splice_struct_(f, p.data, FDT_TAGALIGN(p.len), FDT_TAGALIGN(p.len + Len(val)))
             w == [r EXCEPT !.fdt.mem = Put(fdt32_st(@, p.data - 8, p.len + Len(val)),
                                            p.data + p.len, val)]
             new == fdt_add_property_(f, o, name, Len(val))
             put == Filled(new, val)
             v == fdt_appendprop(f, o, name, val)
  <2>1. v.fdt = f \/ v = put \/ v = (IF r.ret # 0 THEN r ELSE w)
    <3> HIDE DEF p, r, new
    <3> QED
      BY DEF fdt_appendprop, p, r, new
  <2>2. Careful(f, IF r.ret # 0 THEN r ELSE w)
    BY SpliceCareful
  <2>3. Careful(f, new)
    BY AddPropertyCareful
  <2> HIDE DEF r, w, new
  <2>4. put.ret = new.ret /\ (new.ret # 0 => put.fdt = new.fdt)
    BY DEF Filled
  <2> HIDE DEF put, v
  <2>5. Careful(f, put)
    BY <2>3, <2>4 DEF Careful
  <2> QED
    BY <2>1, <2>2, <2>5, Rejected DEF v
<1>2. ASSUME NEW parent, NEW addr, NEW size
      PROVE  Careful(f, fdt_appendprop_addrrange(f, parent, o, name, addr, size))
  <2> DEFINE ac == fdt_address_cells(f, parent)
             sc == fdt_size_cells(f, parent)
             r == fdt_appendprop(f, o, name, Cells(ac, addr) \o Cells(sc, size))
             v == fdt_appendprop_addrrange(f, parent, o, name, addr, size)
  <2>1. v.fdt = f \/ v = r
    <3> HIDE DEF ac, sc, r
    <3> QED
      BY DEF fdt_appendprop_addrrange, ac, sc, r
  <2>2. Careful(f, r)
    BY <1>1
  <2> HIDE DEF r, v
  <2> QED
    BY <2>1, <2>2, Rejected DEF v
<1> QED
  BY <1>1, <1>2

\* A blob in the buffer, of naturals.
Typed(f) ==
  /\ Blob(f) /\ f.mem \in [0 .. (BufSize - 1) -> Nat]
  /\ f.totalsize \in Nat /\ f.off_dt_struct \in Nat /\ f.size_dt_struct \in Nat
  /\ f.off_dt_strings \in Nat /\ f.size_dt_strings \in Nat /\ f.version \in Nat
  /\ f.totalsize <= BufSize

\* Rounding up.
LEMMA AlignUp ==
  ASSUME NEW e \in Nat
  PROVE  FDT_TAGALIGN(e) \in Nat /\ FDT_TAGALIGN(e) >= e
<1>1. (e + 4 - 1) \div 4 \in Nat /\ ((e + 4 - 1) \div 4) * 4 >= e
  OBVIOUS
<1> QED
  BY <1>1 DEF FDT_TAGALIGN, FDT_ALIGN, FDT_TAGSIZE

\* A string that has an end has a first one.
LEMMA StringEndFacts ==
  ASSUME NEW mem, NEW o \in Nat, NEW limit \in Int, HasNul(mem, o, limit)
  PROVE  StringEnd(mem, o, limit) \in Nat /\ o <= StringEnd(mem, o, limit)
<1> DEFINE T == {e \in o .. limit : mem[e] = 0}
           Is(e) == mem[e] = 0 /\ \A i \in o .. (e - 1) : mem[i] # 0
<1>1. T \subseteq Nat /\ T # {}
  BY DEF HasNul
<1>2. PICK m \in T : \A k \in T : m <= k
  <2> HIDE DEF T
  <2> QED
    BY <1>1, Least
<1>3. Is(m)
  <2> SUFFICES ASSUME NEW i \in o .. (m - 1), mem[i] = 0 PROVE FALSE
    OBVIOUS
  <2>1. i \in o .. limit /\ ~(m <= i)
    OBVIOUS
  <2>2. i \in T
    BY <2>1
  <2> QED
    BY <1>2, <2>1, <2>2
<1>4. StringEnd(mem, o, limit) = CHOOSE e \in o .. limit : Is(e)
  BY DEF StringEnd
<1>5. m \in o .. limit
  OBVIOUS
<1> HIDE DEF Is
<1>6. (CHOOSE e \in o .. limit : Is(e)) \in o .. limit
  BY <1>3, <1>5
<1> QED
  BY <1>4, <1>6

\* Behind a node's name, a property or a NOP the walk is further on.
LEMMA NextTagFacts ==
  ASSUME NEW f, Typed(f), NEW o \in Nat
  PROVE  LET t == fdt_next_tag(f, o)
         IN  /\ t.tag \in {FDT_PROP, FDT_NOP} => t.next \in Nat /\ o < t.next /\ o < f.totalsize
             /\ t.tag = FDT_BEGIN_NODE => t.next \in Nat
<1> DEFINE t == fdt_next_tag(f, o)
           tag == At32(f, o)
           end == TagEnd(f, o, tag)
           in  == fdt_offset_ptr(f, o, FDT_TAGSIZE)
<1>1. /\ f.mem \in [0 .. (BufSize - 1) -> Nat] /\ BufSize \in Nat
      /\ f.totalsize \in Nat /\ f.off_dt_struct \in Nat /\ f.totalsize <= BufSize
      /\ f.size_dt_struct \in Nat
  BY BufAssumption DEF Typed
<1>2. \/ t.tag = FDT_END
      \/ in /\ t.tag = tag /\ ~(end < 0) /\ t.next = FDT_TAGALIGN(end)
  <2> HIDE DEF in, tag, end
  <2> QED
    BY DEF fdt_next_tag, in, tag, end
<1>3. in => f.off_dt_struct + o + 4 <= f.totalsize
  BY DEF fdt_offset_ptr, FDT_TAGSIZE
<1>4. ASSUME in, tag = FDT_PROP, ~(end < 0) PROVE end \in Nat /\ o < end
  <2>1. end = IF fdt_offset_ptr(f, o + 4, 4) THEN o + 12 + At32(f, o + 4) ELSE -11
    <3>1. end = TagEnd(f, o, FDT_PROP)
      <4> HIDE DEF tag
      <4> QED
        BY <1>4
    <3>2. TagEnd(f, o, 3) = IF fdt_offset_ptr(f, o + 4, 4) THEN o + 12 + At32(f, o + 4) ELSE -11
      BY DEF TagEnd, FDT_TAGSIZE, FDT_BEGIN_NODE, FDT_PROP, FDT_ERR_BADSTRUCTURE, PropSize,
             FDT_END_NODE, FDT_NOP, FDT_END
    <3> QED
      BY <3>1, <3>2 DEF FDT_PROP
  <2>2. fdt_offset_ptr(f, o + 4, 4)
    BY <1>4, <2>1
  <2>3. f.off_dt_struct + (o + 4) + 4 <= f.totalsize
    BY <2>2 DEF fdt_offset_ptr
  <2>4. f.off_dt_struct + (o + 4) + 3 \in 0 .. (BufSize - 1)
    BY <1>1, <2>3
  <2>5. At32(f, o + 4) \in Nat
    BY <1>1, <2>4 DEF At32, fdt32_ld
  <2> QED
    BY <2>1, <2>2, <2>5
<1>5. ASSUME tag = FDT_NOP PROVE end \in Nat /\ o < end
  BY <1>5 DEF TagEnd, FDT_TAGSIZE, FDT_BEGIN_NODE, FDT_PROP, FDT_NOP, FDT_END_NODE, FDT_END
<1>6. ASSUME tag = FDT_BEGIN_NODE, ~(end < 0) PROVE end \in Nat
  <2> DEFINE from == f.off_dt_struct + (o + 4)
             last == f.off_dt_struct + StructLimit(f) - 1
             nul == StringEnd(f.mem, from, last)
  <2>1. end = IF HasNul(f.mem, from, last) THEN nul + 1 - f.off_dt_struct ELSE -11
    <3>1. end = TagEnd(f, o, FDT_BEGIN_NODE)
      <4> HIDE DEF tag
      <4> QED
        BY <1>6
    <3>2. TagEnd(f, o, 1) = IF HasNul(f.mem, from, last) THEN nul + 1 - f.off_dt_struct ELSE -11
      <4> HIDE DEF nul
      <4> QED
        BY DEF TagEnd, FDT_TAGSIZE, FDT_BEGIN_NODE, FDT_PROP, FDT_ERR_BADSTRUCTURE,
               FDT_END_NODE, FDT_NOP, FDT_END, nul
    <3> QED
      BY <3>1, <3>2 DEF FDT_BEGIN_NODE
  <2>2. from \in Nat /\ last \in Int /\ f.off_dt_struct <= from
    BY <1>1 DEF StructLimit
  <2>3. HasNul(f.mem, from, last)
    BY <1>6, <2>1
  <2> HIDE DEF from, last
  <2>4. nul \in Nat /\ from <= nul
    BY <2>2, <2>3, StringEndFacts
  <2> HIDE DEF nul
  <2>5. nul + 1 - f.off_dt_struct \in Nat
    <3>1. \A a, b \in Nat : a <= from /\ from <= b => b + 1 - a \in Nat
      BY <2>2
    <3> QED
      BY <1>1, <2>2, <2>4, <3>1
  <2> QED
    BY <2>1, <2>3, <2>5
<1>7. FDT_END \notin {FDT_PROP, FDT_NOP} /\ FDT_END # FDT_BEGIN_NODE
  BY DEF FDT_END, FDT_PROP, FDT_NOP, FDT_BEGIN_NODE
<1> HIDE DEF t, tag, end, in
<1>8. ASSUME end \in Nat PROVE FDT_TAGALIGN(end) \in Nat /\ FDT_TAGALIGN(end) >= end
  BY <1>8, AlignUp
<1>9. CASE t.tag \in {FDT_PROP, FDT_NOP}
  <2>1. in /\ t.tag = tag /\ t.next = FDT_TAGALIGN(end) /\ end \in Nat /\ o < end
    BY <1>2, <1>4, <1>5, <1>7, <1>9
  <2>2. t.next \in Nat /\ t.next >= end
    BY <1>8, <2>1
  <2>3. o < t.next
    BY <2>1, <2>2
  <2>4. o < f.totalsize
    BY <1>1, <1>3, <2>1
  <2>5. t.tag # FDT_BEGIN_NODE
    BY <1>9 DEF FDT_PROP, FDT_NOP, FDT_BEGIN_NODE
  <2> QED
    BY <2>2, <2>3, <2>4, <2>5 DEF t
<1>10. CASE t.tag = FDT_BEGIN_NODE
  <2>1. t.next \in Nat
    BY <1>2, <1>6, <1>7, <1>8, <1>10
  <2>2. t.tag \notin {FDT_PROP, FDT_NOP}
    BY <1>10 DEF FDT_PROP, FDT_NOP, FDT_BEGIN_NODE
  <2> QED
    BY <2>1, <2>2 DEF t
<1> QED
  BY <1>9, <1>10 DEF t

\* The walk over the properties of a node ends, at an offset that is no error.
LEMMA AfterPropertiesFacts ==
  ASSUME NEW f, Typed(f), NEW o, fdt_next_tag(f, o).next \in Nat
  PROVE  AfterProperties(f, o) \in Nat
<1> DEFINE tag(x) == fdt_next_tag(f, x).tag
           next(x) == fdt_next_tag(f, x).next
           On(x) == tag(x) \in {FDT_PROP, FDT_NOP}
           Is(g) == g = [x \in Nat |-> IF On(x) THEN g[next(x)] ELSE x]
           g == CHOOSE g : Is(g)
           step == [x \in Nat |-> IF On(x) THEN next(x) ELSE x]
           M == f.totalsize
<1>1. AfterProperties(f, o) = g[next(o)]
  BY DEF AfterProperties
<1>2. \A x \in Nat : On(x) => next(x) \in Nat /\ x < next(x) /\ x < M
  BY NextTagFacts
<1>3. next(o) \in Nat
  OBVIOUS
<1> HIDE DEF tag, next
<1>4. step \in [Nat -> Nat]
  BY <1>2
<1>5. \A x \in Nat : step[x] = x \/ (x < step[x] /\ x < M)
  BY <1>2
<1>6. \A x \in Nat : step[x] = x <=> ~On(x)
  <2> SUFFICES ASSUME NEW x \in Nat PROVE step[x] = x <=> ~On(x)
    OBVIOUS
  <2>1. CASE On(x)
    <3>1. step[x] = next(x) /\ next(x) # x
      BY <1>2, <2>1
    <3> QED
      BY <2>1, <3>1
  <2>2. CASE ~On(x)
    BY <2>2
  <2> QED
    BY <2>1, <2>2
<1>7. \A x \in Nat : On(x) => step[x] = next(x)
  OBVIOUS
<1>8. M \in Nat
  BY DEF Typed
<1> HIDE DEF step, On, M
<1>9. PICK h \in [Nat -> Nat] : \A x \in Nat : h[x] = IF step[x] = x THEN x ELSE h[step[x]]
  BY <1>4, <1>5, <1>8, WalkUp
<1>10. Is(h)
  <2>1. \A x \in Nat : h[x] = IF On(x) THEN h[next(x)] ELSE x
    BY <1>6, <1>7, <1>9
  <2>2. h = [x \in Nat |-> h[x]]
    OBVIOUS
  <2> QED
    BY <2>1, <2>2
<1> HIDE DEF Is
<1>11. Is(g)
  BY <1>10
<1> HIDE DEF g
<1>12. \A x \in Nat : g[x] = IF On(x) THEN g[next(x)] ELSE x
  BY <1>11 DEF Is
<1> DEFINE P == {i \in Nat : \A x \in Nat : x >= M - i => g[x] \in Nat}
<1>13. 0 \in P
  <2> SUFFICES ASSUME NEW x \in Nat, x >= M - 0 PROVE g[x] \in Nat
    OBVIOUS
  <2>1. ~On(x)
    BY <1>2, <1>8
  <2> QED
    BY <1>12, <2>1
<1>14. ASSUME NEW i \in Nat, i \in P PROVE i + 1 \in P
  <2> SUFFICES ASSUME NEW x \in Nat, x >= M - (i + 1) PROVE g[x] \in Nat
    OBVIOUS
  <2>1. CASE On(x)
    <3>1. next(x) \in Nat /\ x < next(x)
      BY <1>2, <2>1
    <3>2. next(x) >= M - i
      BY <1>8, <3>1
    <3>3. g[next(x)] \in Nat
      BY <1>14, <3>1, <3>2
    <3> QED
      BY <1>12, <2>1, <3>3
  <2>2. CASE ~On(x)
    BY <1>12, <2>2
  <2> QED
    BY <2>1, <2>2
<1>15. M \in P
  <2> HIDE DEF P
  <2> QED
    BY <1>8, <1>13, <1>14, Induct
<1>16. g[next(o)] \in Nat
  <2>1. next(o) >= M - M
    BY <1>3, <1>8
  <2> QED
    BY <1>3, <1>15, <2>1
<1> QED
  BY <1>1, <1>16

\* Adding a node is careful: what it returns is no error once it has written.
LEMMA AddSubnodeCareful ==
  ASSUME NEW f, Typed(f), NEW o \in Nat, NEW name
  PROVE  Careful(f, fdt_add_subnode(f, o, name))
<1> DEFINE namesize == FDT_TAGALIGN(Len(name) + 1)
           node == Word(FDT_BEGIN_NODE) \o name \o [i \in 1 .. (namesize - Len(name)) |-> 0]
                   \o Word(FDT_END_NODE)
           there == fdt_subnode_offset_namelen(f, o, name)
           at == AfterProperties(f, o)
           r == fdt_splice_struct_(f, f.off_dt_struct + at, 0, Len(node))
           v == fdt_add_subnode(f, o, name)
           t == fdt_next_tag(f, o)
<1>1. \/ v.fdt = f
      \/ t.tag = FDT_BEGIN_NODE /\ (v.ret = at \/ (r.ret # 0 /\ v = r))
  <2> HIDE DEF there, at, r, t, node
  <2> QED
    BY DEF fdt_add_subnode, there, at, r, t, node
<1>2. t.tag = FDT_BEGIN_NODE => at \in Nat
  <2> SUFFICES ASSUME t.tag = FDT_BEGIN_NODE PROVE at \in Nat
    OBVIOUS
  <2>1. t.next \in Nat
    BY NextTagFacts
  <2> QED
    BY <2>1, AfterPropertiesFacts
<1>3. r.ret = 0 \/ r.fdt = f
  <2> DEFINE p == f.off_dt_struct + at
             n == Len(node)
  <2> HIDE DEF p, n
  <2>1. r = fdt_splice_struct_(f, p, 0, n)
    BY DEF p, n
  <2> HIDE DEF r
  <2> QED
    BY <2>1, SplicesFail
<1> HIDE DEF v, r, at, t
<1>4. v.ret \in Nat \/ v.fdt = f
  BY <1>1, <1>2, <1>3
<1> QED
  BY <1>4, Rejected DEF v

\* The blob of a finished tree whose layout is sound has a well-formed header
\* and lies in the buffer.
LEMMA SoundIsTyped ==
  ASSUME LayoutSound, Sound
  PROVE  Typed(fdt) /\ Plain(fdt) /\ Offsets \subseteq Nat
<1>1. view.stage = "complete" /\ view.stage # "none"
  BY DEF Sound
<1>2. TypeOK /\ fdt.totalsize <= granted
  BY <1>1 DEF LayoutSound
<1>3. /\ DOMAIN fdt = Fields /\ fdt.mem \in [0 .. (BufSize - 1) -> Nat]
      /\ fdt.totalsize \in Nat /\ fdt.off_dt_struct \in Nat /\ fdt.size_dt_struct \in Nat
      /\ fdt.off_dt_strings \in Nat /\ fdt.size_dt_strings \in Nat /\ fdt.version \in Nat
      /\ granted \in 0 .. BufSize /\ Offsets \subseteq Nat
  BY <1>1, <1>2 DEF TypeOK, Fields
<1>4. fdt.totalsize <= BufSize
  BY <1>2, <1>3, BufAssumption
<1>5. IsFiniteSet(DOMAIN fdt.mem)
  <2>1. 0 \in Int /\ BufSize - 1 \in Int
    BY BufAssumption
  <2> QED
    BY <1>3, <2>1, FS_Interval
<1> QED
  BY <1>3, <1>4, <1>5 DEF Typed, Plain, Blob

\* For every tree and every argument, a call on a finished tree that returns an
\* error leaves header and contents as they were, to the byte: every check of
\* fdt_rw.c and fdt_wip.c comes before the first write, and the one write that
\* can be followed by an error, of a new property's name, is taken back
\* (fdt_del_last_string_).
THEOREM FailedEditsLeaveNoTrace ==
  LayoutSound => FailuresLeaveNoTrace
<1> SUFFICES ASSUME LayoutSound, Sound PROVE FailuresLeaveNoTrace
  BY DEF FailuresLeaveNoTrace
<1>1. Typed(fdt) /\ Plain(fdt) /\ Offsets \subseteq Nat
  BY SoundIsTyped
<1>2. ASSUME NEW p \in Props PROVE \E S : p[1] \in Seq(S)
  BY StringAssumption
<1>3. \A r \in SetPropCalls : Careful(fdt, r)
  <2> SUFFICES ASSUME NEW o \in Offsets, NEW p \in Props
               PROVE  Careful(fdt, fdt_setprop(fdt, o, p[1], p[2]))
    BY DEF SetPropCalls
  <2>1. PICK S : p[1] \in Seq(S)
    BY <1>2
  <2> QED
    BY <1>1, <2>1, SetPropCareful
<1>4. \A r \in AppendPropCalls : Careful(fdt, r)
  <2>1. ASSUME NEW o \in Offsets, NEW p \in Props
        PROVE  Careful(fdt, fdt_appendprop(fdt, o, p[1], p[2]))
    <3>1. PICK S : p[1] \in Seq(S)
      BY <1>2
    <3> QED
      BY <1>1, <3>1, AppendPropCareful
  <2>2. ASSUME NEW o \in Offsets, NEW k \in PropNames, NEW r \in Ranges
        PROVE  Careful(fdt, fdt_appendprop_addrrange(fdt, 0, o, k, r[1], r[2]))
    <3>1. PICK S : k \in Seq(S)
      BY <1>2 DEF PropNames
    <3> QED
      BY <1>1, <3>1, AppendPropCareful
  <2> QED
    BY <2>1, <2>2 DEF AppendPropCalls
<1>5. \A r \in InPlaceCalls \cup NopPropCalls \cup NopNodeCalls : Careful(fdt, r)
  <2>1. \A r \in InPlaceCalls : Careful(fdt, r)
    BY InPlaceCareful DEF InPlaceCalls
  <2>2. \A r \in NopPropCalls : Careful(fdt, r)
    BY InPlaceCareful DEF NopPropCalls
  <2>3. \A r \in NopNodeCalls : Careful(fdt, r)
    BY InPlaceCareful DEF NopNodeCalls
  <2> QED
    BY <2>1, <2>2, <2>3
<1>6. \A r \in DelPropCalls \cup SetNameCalls \cup DelNodeCalls : Careful(fdt, r)
  <2>1. \A r \in DelPropCalls : Careful(fdt, r)
    BY RemovalCareful DEF DelPropCalls
  <2>2. \A r \in SetNameCalls : Careful(fdt, r)
    BY RemovalCareful DEF SetNameCalls
  <2>3. \A r \in DelNodeCalls : Careful(fdt, r)
    BY RemovalCareful DEF DelNodeCalls
  <2> QED
    BY <2>1, <2>2, <2>3
<1>7. \A r \in AddSubnodeCalls : Careful(fdt, r)
  BY <1>1, AddSubnodeCareful DEF AddSubnodeCalls
<1>8. \A r \in AddRsvCalls \cup DelRsvCalls : Careful(fdt, r)
  <2>1. \A r \in AddRsvCalls : Careful(fdt, r)
    BY RsvCareful DEF AddRsvCalls
  <2>2. \A r \in DelRsvCalls : Careful(fdt, r)
    BY RsvCareful DEF DelRsvCalls
  <2> QED
    BY <2>1, <2>2
<1>9. ASSUME NEW r, Careful(fdt, r), r.ret < 0
      PROVE  /\ [r.fdt EXCEPT !.mem = 0] = [fdt EXCEPT !.mem = 0]
             /\ Bytes(r.fdt.mem, 0, fdt_data_size_(r.fdt)) = Bytes(fdt.mem, 0, fdt_data_size_(fdt))
  <2>1. \A x \in Nat : ~(x < 0)
    OBVIOUS
  <2> QED
    BY <1>9, <2>1 DEF Careful, NoTrace
<1> DEFINE all == SetPropCalls \cup InPlaceCalls \cup AppendPropCalls \cup DelPropCalls
                  \cup NopPropCalls \cup AddSubnodeCalls \cup SetNameCalls \cup DelNodeCalls
                  \cup NopNodeCalls \cup AddRsvCalls \cup DelRsvCalls
<1>10. \A r \in all : Careful(fdt, r)
  BY <1>3, <1>4, <1>5, <1>6, <1>7, <1>8
<1> QED
  BY <1>9, <1>10 DEF FailuresLeaveNoTrace
=============================================================================
