--------------------------- MODULE NPFCapture_proof ---------------------------
(***************************************************************************)
(* Proofs about NPFCapture, for any number of CPUs, any buffer size, any   *)
(* frames and any sequence of ioctls, on kernels whose spin locks exclude  *)
(* (~Uniprocessor).                                                        *)
(***************************************************************************)
EXTENDS NPFCapture, KernelBuffer_proof, SequenceTheorems, FiniteSetTheorems

(* The packets st lie one after the other in a ring of s bytes, between    *)
(* the linear offsets u0 and u1, the byte of offset u0 being at position o.*)
PositionIn(s, o, u0, x) == At(o, x - u0, s)

CostIn(s, o, u0, r) == PacketCost(PositionIn(s, o, u0, r.at), r.len, s)

Layout(st, s, o, u0, u1) ==
  /\ st = << >> => u0 = u1
  /\ st # << >> => st[1].at = u0
  /\ \A i \in 1 .. Len(st) :
       /\ u0 <= st[i].at
       /\ st[i].at + st[i].len + HdrSize <= u1
       /\ PositionIn(s, o, u0, st[i].at) \in HeaderPositions(s)
       /\ st[i].at + CostIn(s, o, u0, st[i])
            = IF i = Len(st) THEN u1 ELSE st[i + 1].at
  /\ \A i, j \in 1 .. Len(st) :
       i < j => st[i].at + CostIn(s, o, u0, st[i]) <= st[j].at

(* What byte d of a stored packet is: its PacketHeader, then its bytes.    *)
CellOf(r, d) == IF d < HdrSize THEN Header(r.sn, r.len, d)
                               ELSE Data(r.pkt, d - HdrSize)

\* NdisTransferData never fails
TransfersSucceed == "failure" \notin TransferResults

(* Each packet has its header where the layout says, and its bytes after   *)
(* the header if no transfer fails.                                        *)
Contents(b, st, s, o, u0) ==
  \A i \in 1 .. Len(st) : \A d \in 0 .. HdrSize + st[i].len - 1 :
    d < HdrSize \/ TransfersSucceed =>
      b[At(PositionIn(s, o, u0, st[i].at), d, s)] = CellOf(st[i], d)

-------------------------------------------------------------------------------
(* One more packet at the end of the region.                               *)
LEMMA LayoutAppend ==
  ASSUME NEW s \in Nat, NEW o \in HeaderPositions(s),
         NEW u0 \in Int, NEW u1 \in Int, u0 <= u1,
         NEW st \in Seq(Stored), Layout(st, s, o, u0, u1),
         NEW r \in Stored, r.at = u1, u1 - u0 + r.len + HdrSize <= s,
         At(o, u1 - u0, s) \in HeaderPositions(s)
  PROVE  Layout(Append(st, r), s, o, u0,
                u1 + PacketCost(At(o, u1 - u0, s), r.len, s))
<1> DEFINE t == Append(st, r)
           n == Len(st)
           cost == PacketCost(At(o, u1 - u0, s), r.len, s)
<1>0. r.len \in Nat /\ \A i \in 1 .. n : st[i].at \in Int /\ st[i].len \in Nat
  <2>1. \A i \in 1 .. n : st[i] \in Stored  BY ElementOfSeq
  <2> QED  BY <2>1 DEF Stored
<1>1. /\ Len(t) = n + 1 /\ t[n + 1] = r /\ t # << >>
      /\ \A i \in 1 .. n : t[i] = st[i]
      /\ n \in Nat /\ n = Len(st) /\ (n = 0 <=> st = << >>)
  OBVIOUS
<1>2. cost \in r.len + HdrSize .. r.len + HdrSize + HdrSize /\ cost \in Nat
  <2>1. r.len + HdrSize <= s  BY <1>0, HdrSizeAssumption
  <2> QED  BY <2>1, <1>0, PacketBounds
<1>c. u1 + CostIn(s, o, u0, r) = u1 + cost
  BY DEF CostIn, PositionIn
<1> HIDE DEF t, n, cost
<1>3. t[1].at = u0
  BY <1>1 DEF Layout
<1>4. ASSUME NEW i \in 1 .. n
      PROVE  /\ u0 <= t[i].at
             /\ t[i].at + t[i].len + HdrSize <= u1 + cost
             /\ PositionIn(s, o, u0, t[i].at) \in HeaderPositions(s)
             /\ t[i].at + CostIn(s, o, u0, t[i]) = t[i + 1].at
  <2>1. t[i] = st[i]  BY <1>4, <1>1
  <2>2. /\ u0 <= st[i].at
        /\ st[i].at + st[i].len + HdrSize <= u1
        /\ PositionIn(s, o, u0, st[i].at) \in HeaderPositions(s)
        /\ st[i].at + CostIn(s, o, u0, st[i]) = IF i = n THEN u1 ELSE st[i + 1].at
    BY <1>4, <1>1 DEF Layout
  <2>3. t[i + 1].at = IF i = n THEN u1 ELSE st[i + 1].at
    BY <1>4, <1>1
  <2>4. t[i].at \in Int /\ t[i].len \in Nat
    BY <1>4, <2>1, <1>0
  <2>5. t[i].at + t[i].len + HdrSize <= u1 + cost
    BY <2>1, <2>2, <2>4, <1>2, HdrSizeAssumption, SMTT(60)
  <2> QED  BY <2>1, <2>2, <2>3, <2>5
<1>5. /\ u0 <= t[n + 1].at
      /\ t[n + 1].at + t[n + 1].len + HdrSize <= u1 + cost
      /\ PositionIn(s, o, u0, t[n + 1].at) \in HeaderPositions(s)
      /\ t[n + 1].at + CostIn(s, o, u0, t[n + 1]) = u1 + cost
  BY <1>0, <1>1, <1>2, <1>c, HdrSizeAssumption, SMTT(60) DEF PositionIn
<1>6. ASSUME NEW i \in 1 .. n + 1, NEW j \in 1 .. n + 1, i < j
      PROVE  t[i].at + CostIn(s, o, u0, t[i]) <= t[j].at
  <2>1. i \in 1 .. n  BY <1>6, <1>1
  <2>2. t[i].at + CostIn(s, o, u0, t[i]) = IF i = n THEN u1 ELSE st[i + 1].at
    BY <1>6, <2>1, <1>1, <1>0 DEF Layout
  <2>3. CASE j = n + 1
    <3>1. CASE i = n  BY <1>6, <2>2, <2>3, <3>1, <1>0, <1>1
    <3>2. CASE i < n
      <4>1. i + 1 \in 1 .. n  BY <1>1, <2>1, <3>2
      <4>2. st[i + 1].at + st[i + 1].len + HdrSize <= u1
        BY <4>1, <1>1 DEF Layout
      <4>3. st[i + 1].at \in Int /\ st[i + 1].len \in Nat  BY <4>1, <1>0
      <4>4. \A a \in Int, l \in Nat : a + l + HdrSize <= u1 => a <= u1
        BY HdrSizeAssumption
      <4>7. st[i + 1].at <= u1  BY <4>2, <4>3, <4>4
      <4>5. t[i].at + CostIn(s, o, u0, t[i]) = st[i + 1].at
        BY <2>1, <2>2, <3>2
      <4>6. t[j].at = u1  BY <2>3, <1>1
      <4> QED  BY <4>5, <4>6, <4>7
    <3> QED  BY <1>1, <2>1, <3>1, <3>2
  <2>4. CASE j \in 1 .. n
    BY <1>6, <2>1, <2>4, <1>1 DEF Layout
  <2> QED  BY <1>6, <2>3, <2>4, <1>1
<1> QED
  <2>1. \A i \in 1 .. Len(t) :
          /\ u0 <= t[i].at
          /\ t[i].at + t[i].len + HdrSize <= u1 + cost
          /\ PositionIn(s, o, u0, t[i].at) \in HeaderPositions(s)
          /\ t[i].at + CostIn(s, o, u0, t[i])
               = IF i = Len(t) THEN u1 + cost ELSE t[i + 1].at
    <3> TAKE i \in 1 .. Len(t)
    <3>1. CASE i = n + 1  BY <3>1, <1>5, <1>1
    <3>2. CASE i \in 1 .. n  BY <3>2, <1>4, <1>1
    <3> QED  BY <3>1, <3>2, <1>1
  <2>2. \A i, j \in 1 .. Len(t) :
          i < j => t[i].at + CostIn(s, o, u0, t[i]) <= t[j].at
    BY <1>6, <1>1
  <2>3. Layout(t, s, o, u0, u1 + cost)
    BY <2>1, <2>2, <1>1, <1>3 DEF Layout
  <2> QED  BY <2>3 DEF t, cost

(* The oldest packet leaves the region: the others stay where they are.    *)
LEMMA LayoutTail ==
  ASSUME NEW s \in Nat, NEW o \in HeaderPositions(s),
         NEW u0 \in Int, NEW u1 \in Int, u1 - u0 <= s,
         NEW st \in Seq(Stored), Layout(st, s, o, u0, u1), st # << >>,
         NEW cost, cost = PacketCost(o, st[1].len, s),
         NEW o2, o2 = NextPacket(o, st[1].len, s)
  PROVE  /\ cost \in Nat /\ o2 \in HeaderPositions(s)
         /\ st[1].len + HdrSize <= cost
         /\ o2 \in {o + cost, o + cost - s}
         /\ u0 + cost <= u1
         /\ Layout(Tail(st), s, o2, u0 + cost, u1)
         /\ \A i \in 1 .. Len(Tail(st)) :
              PositionIn(s, o2, u0 + cost, Tail(st)[i].at)
                = PositionIn(s, o, u0, st[i + 1].at)
<1> DEFINE t == Tail(st)
           n == Len(st)
<1>1. /\ n \in Nat /\ n >= 1 /\ n = Len(st) /\ Len(t) = n - 1
      /\ \A i \in 1 .. n - 1 : t[i] = st[i + 1]
      /\ t = << >> <=> n = 1
  <2>1. n \in Nat /\ n >= 1
    BY EmptySeq, LenProperties
  <2>2. t \in Seq(Stored) /\ Len(t) = n - 1 /\ \A i \in 1 .. n - 1 : t[i] = st[i + 1]
    BY HeadTailProperties
  <2>3. t = << >> <=> Len(t) = 0
    BY <2>2, EmptySeq
  <2> QED  BY <2>1, <2>2, <2>3
<1>2. \A i \in 1 .. n : st[i].at \in Int /\ st[i].len \in Nat
  <2>1. \A i \in 1 .. n : st[i] \in Stored  BY ElementOfSeq
  <2> QED  BY <2>1 DEF Stored
<1> HIDE DEF t, n
<1>3. /\ st[1].at = u0 /\ st[1].len \in Nat /\ st[1].at \in Int
      /\ st[1].at + st[1].len + HdrSize <= u1
  BY <1>1, <1>2 DEF Layout
<1>4. PositionIn(s, o, u0, st[1].at) = o /\ CostIn(s, o, u0, st[1]) = cost
  BY <1>3, HdrSizeAssumption DEF PositionIn, CostIn, At, HeaderPositions
<1>5. st[1].len + HdrSize <= s
  BY <1>3, HdrSizeAssumption
<1>6. /\ cost \in Nat /\ st[1].len + HdrSize <= cost /\ o2 \in HeaderPositions(s)
      /\ o2 \in {o + cost, o + cost - s}
  BY <1>3, <1>5, PacketBounds, NextIsCostAhead, HdrSizeAssumption, SMTT(60)
<1>7. u0 + cost = IF n = 1 THEN u1 ELSE st[2].at
  BY <1>1, <1>3, <1>4 DEF Layout
<1>8. ASSUME NEW i \in 2 .. n
      PROVE  /\ u0 + cost <= st[i].at
             /\ st[i].at + st[i].len + HdrSize <= u1
             /\ PositionIn(s, o, u0, st[i].at) \in HeaderPositions(s)
             /\ st[i].at + CostIn(s, o, u0, st[i])
                  = IF i = n THEN u1 ELSE st[i + 1].at
             /\ PositionIn(s, o2, u0 + cost, st[i].at)
                  = PositionIn(s, o, u0, st[i].at)
  <2>1. i \in 1 .. n /\ 1 \in 1 .. n /\ 1 < i  BY <1>8, <1>1
  <2>2. /\ st[i].at + st[i].len + HdrSize <= u1
        /\ PositionIn(s, o, u0, st[i].at) \in HeaderPositions(s)
        /\ st[i].at + CostIn(s, o, u0, st[i])
             = IF i = n THEN u1 ELSE st[i + 1].at
    BY <2>1, <1>1 DEF Layout
  <2>3. st[1].at + CostIn(s, o, u0, st[1]) <= st[i].at
    BY <2>1, <1>1 DEF Layout
  <2>4. u0 + cost <= st[i].at  BY <2>3, <1>3, <1>4
  <2>5. st[i].at - u0 \in cost .. s /\ cost \in 0 .. s
    <3>1. \A a \in Int, l \in Nat : a + l + HdrSize <= u1 => a - u0 <= s - 1
      BY HdrSizeAssumption
    <3>2. st[i].at \in Int /\ st[i].len \in Nat  BY <2>1, <1>2
    <3>3. st[i].at - u0 <= s - 1  BY <3>1, <3>2, <2>2
    <3>4. \A a \in Int : u0 + cost <= a /\ a - u0 <= s - 1
                        => a - u0 \in cost .. s /\ cost \in 0 .. s
      <4>1. cost \in Nat  BY <1>6
      <4> QED  BY <4>1
    <3> QED  BY <3>2, <3>3, <3>4, <2>4
  <2>6. At(o2, (st[i].at - u0) - cost, s) = At(o, st[i].at - u0, s)
    BY <2>5, <1>6, PositionKept
  <2>7. st[i].at - (u0 + cost) = (st[i].at - u0) - cost
    BY <2>1, <1>2, <1>6
  <2> QED  BY <2>2, <2>4, <2>6, <2>7 DEF PositionIn
<1>9. ASSUME NEW i \in 1 .. n - 1
      PROVE  /\ u0 + cost <= t[i].at
             /\ t[i].at + t[i].len + HdrSize <= u1
             /\ PositionIn(s, o2, u0 + cost, t[i].at) \in HeaderPositions(s)
             /\ t[i].at + CostIn(s, o2, u0 + cost, t[i])
                  = IF i = n - 1 THEN u1 ELSE t[i + 1].at
             /\ PositionIn(s, o2, u0 + cost, t[i].at)
                  = PositionIn(s, o, u0, st[i + 1].at)
             /\ CostIn(s, o2, u0 + cost, t[i]) = CostIn(s, o, u0, st[i + 1])
             /\ t[i] = st[i + 1]
  <2>1. i + 1 \in 2 .. n /\ t[i] = st[i + 1]  BY <1>9, <1>1
  <2>2. i # n - 1 => t[i + 1] = st[(i + 1) + 1]  BY <1>9, <1>1
  <2>3. i = n - 1 <=> i + 1 = n  BY <1>9, <1>1
  <2>4. CostIn(s, o2, u0 + cost, t[i]) = CostIn(s, o, u0, st[i + 1])
    BY <2>1, <1>8 DEF CostIn
  <2> QED  BY <2>1, <2>2, <2>3, <2>4, <1>8
<1>10. ASSUME NEW i \in 1 .. n - 1, NEW j \in 1 .. n - 1, i < j
       PROVE  t[i].at + CostIn(s, o2, u0 + cost, t[i]) <= t[j].at
  <2>1. i + 1 \in 1 .. n /\ j + 1 \in 1 .. n /\ i + 1 < j + 1  BY <1>10, <1>1
  <2>2. st[i + 1].at + CostIn(s, o, u0, st[i + 1]) <= st[j + 1].at
    BY <2>1, <1>1 DEF Layout
  <2> QED  BY <1>10, <1>9, <2>2
<1>11. u0 + cost <= u1
  <2>1. CASE n = 1  BY <2>1, <1>7
  <2>2. CASE n > 1
    <3>1. 2 \in 2 .. n /\ 2 \in 1 .. n  BY <1>1, <2>2
    <3>2. st[2].at + st[2].len + HdrSize <= u1  BY <3>1, <1>8
    <3>3. st[2].at \in Int /\ st[2].len \in Nat  BY <3>1, <1>2
    <3>4. \A a \in Int, l \in Nat : a + l + HdrSize <= u1 => a <= u1
      BY HdrSizeAssumption
    <3>5. u0 + cost = st[2].at  BY <1>1, <1>7, <2>2
    <3> QED  BY <3>2, <3>3, <3>4, <3>5
  <2> QED  BY <1>1, <2>1, <2>2
<1>12. Layout(t, s, o2, u0 + cost, u1)
  <2>1. t = << >> => u0 + cost = u1  BY <1>1, <1>7
  <2>2. t # << >> => t[1].at = u0 + cost  BY <1>1, <1>7
  <2> QED  BY <2>1, <2>2, <1>1, <1>9, <1>10 DEF Layout
<1> QED  BY <1>1, <1>6, <1>9, <1>11, <1>12 DEF t

-------------------------------------------------------------------------------
\* Moving past a PacketHeader stays inside the buffer and lands HdrSize on.
LEMMA HeaderAdvances ==
  ASSUME NEW s \in Nat, NEW p \in HeaderPositions(s)
  PROVE  /\ AfterHeader(p, s) = At(p, HdrSize, s)
         /\ \A hb, la \in Nat : HdrSize + hb + la < s =>
              TransferFrom(p, hb, la, s) = At(p, HdrSize + hb + la, s)
  BY HdrSizeAssumption DEF HeaderPositions, AfterHeader, TransferFrom,
     StagedCopy, At

(* What a copy into the ring changes and what it leaves alone.             *)
LEMMA DataWritten ==
  ASSUME size \in Nat, NEW p \in 0 .. size - 1, NEW x \in Nat, NEW n \in Nat,
         x + n <= size, NEW q \in 0 .. size - 1, NEW b, DOMAIN b = 0 .. size - 1,
         NEW pkt, NEW from \in Int
  PROVE  WithData(b, At(p, x, size), pkt, from, n)[q]
           = IF Ahead(p, q, size) \in x .. x + n - 1
               THEN Data(pkt, from + (Ahead(p, q, size) - x)) ELSE b[q]
<1>1. x \in 0 .. size  OBVIOUS
<1>2. /\ Ahead(p, q, size) \in 0 .. size - 1
      /\ Ahead(At(p, x, size), q, size)
           = IF Ahead(p, q, size) >= x THEN Ahead(p, q, size) - x
                                       ELSE Ahead(p, q, size) - x + size
  BY <1>1, AheadAt
<1> QED  BY <1>2 DEF WithData

\* A written header is found at its place and nothing else changes.
LEMMA HeaderWritten ==
  ASSUME size \in Nat, NEW p, NEW q \in 0 .. size - 1,
         NEW b, DOMAIN b = 0 .. size - 1, NEW n, NEW l
  PROVE  WithHeader(b, p, n, l)[q]
           = IF Ahead(p, q, size) < HdrSize
               THEN Header(n, l, Ahead(p, q, size)) ELSE b[q]
  BY DEF WithHeader

(* Where byte d of stored packet i is, and that it lies in the used part.  *)
LEMMA StoredCell ==
  ASSUME NEW s \in Nat, NEW o \in HeaderPositions(s),
         NEW u0 \in Int, NEW u1 \in Int, u0 <= u1, u1 - u0 <= s,
         NEW st \in Seq(Stored), Layout(st, s, o, u0, u1),
         NEW i \in 1 .. Len(st), NEW d \in 0 .. HdrSize + st[i].len - 1
  PROVE  /\ st[i].at - u0 + d \in 0 .. u1 - u0 - 1
         /\ At(PositionIn(s, o, u0, st[i].at), d, s)
              = At(o, st[i].at - u0 + d, s)
         /\ At(PositionIn(s, o, u0, st[i].at), d, s) \in 0 .. s - 1
<1>1. st[i] \in Stored  BY ElementOfSeq
<1>2. st[i].at \in Int /\ st[i].len \in Nat  BY <1>1 DEF Stored
<1>3. u0 <= st[i].at /\ st[i].at + st[i].len + HdrSize <= u1  BY DEF Layout
<1> DEFINE a == st[i].at
           l == st[i].len
<1>4. a \in Int /\ l \in Nat /\ u0 <= a /\ a + l + HdrSize <= u1
      /\ d \in 0 .. HdrSize + l - 1
  BY <1>2, <1>3
<1> HIDE DEF a, l
<1>5. /\ a - u0 \in Nat /\ a - u0 + d \in Nat /\ a - u0 + d < s
      /\ a - u0 + d \in 0 .. u1 - u0 - 1 /\ d \in Nat
  BY <1>4, HdrSizeAssumption
<1>6. o \in 0 .. s - 1  BY <1>5, HdrSizeAssumption DEF HeaderPositions
<1>7. /\ At(At(o, a - u0, s), d, s) = At(o, a - u0 + d, s)
      /\ At(o, a - u0 + d, s) \in 0 .. s - 1
  <2>1. At(At(o, a - u0, s), d, s) = At(o, a - u0 + d, s)
    BY <1>5, <1>6, AtAt
  <2>2. a - u0 + d \in 0 .. s - 1  BY <1>5
  <2> QED  BY <2>1, <2>2, <1>6, AheadOfAt
<1> QED  BY <1>5, <1>7 DEF PositionIn, a

(* Copies into the free part of the ring leave the stored packets alone.   *)
LEMMA ContentsKept ==
  ASSUME NEW s \in Nat, NEW o \in HeaderPositions(s),
         NEW u0 \in Int, NEW u1 \in Int, u0 <= u1, u1 - u0 < s,
         NEW st \in Seq(Stored), Layout(st, s, o, u0, u1),
         NEW b, Contents(b, st, s, o, u0),
         NEW b2, NEW p, p = At(o, u1 - u0, s),
         \A q \in 0 .. s - 1 : Ahead(p, q, s) >= s - (u1 - u0) => b2[q] = b[q]
  PROVE  Contents(b2, st, s, o, u0)
<1> SUFFICES ASSUME NEW i \in 1 .. Len(st), NEW d \in 0 .. HdrSize + st[i].len - 1,
                    d < HdrSize \/ TransfersSucceed
             PROVE  b2[At(PositionIn(s, o, u0, st[i].at), d, s)] = CellOf(st[i], d)
  BY DEF Contents
<1> DEFINE x == st[i].at - u0 + d
           q == At(PositionIn(s, o, u0, st[i].at), d, s)
<1>1. x \in 0 .. u1 - u0 - 1 /\ q = At(o, x, s) /\ q \in 0 .. s - 1
  BY StoredCell
<1>2. b[q] = CellOf(st[i], d)  BY DEF Contents
<1> HIDE DEF x, q
<1>3. Ahead(p, q, s) = s - (u1 - u0) + x
  <2>1. o \in 0 .. s - 1 /\ u1 - u0 \in 0 .. s - 1
    BY <1>1, HdrSizeAssumption DEF HeaderPositions
  <2> QED  BY <2>1, <1>1, UsedIsFarAhead
<1>4. Ahead(p, q, s) >= s - (u1 - u0)  BY <1>1, <1>3
<1>5. b2[q] = CellOf(st[i], d)  BY <1>1, <1>2, <1>4
<1> QED  BY <1>5 DEF q

(* A packet copied where the free part starts is stored.                   *)
LEMMA ContentsAppend ==
  ASSUME NEW s \in Nat, NEW o \in HeaderPositions(s),
         NEW u0 \in Int, NEW u1 \in Int, u0 <= u1,
         NEW st \in Seq(Stored), Layout(st, s, o, u0, u1),
         NEW b, Contents(b, st, s, o, u0),
         NEW r \in Stored, r.at = u1, u1 - u0 + r.len + HdrSize <= s,
         NEW b2, NEW p, p = At(o, u1 - u0, s),
         \A q \in 0 .. s - 1 :
            Ahead(p, q, s) >= HdrSize + r.len => b2[q] = b[q],
         \A q \in 0 .. s - 1 :
            Ahead(p, q, s) < HdrSize + r.len
              => (Ahead(p, q, s) < HdrSize \/ TransfersSucceed
                    => b2[q] = CellOf(r, Ahead(p, q, s)))
  PROVE  Contents(b2, Append(st, r), s, o, u0)
<1>1. r.len \in Nat /\ u1 - u0 \in 0 .. s - 1 /\ u1 - u0 < s
      /\ HdrSize + r.len <= s - (u1 - u0)
  <2>1. r.len \in Nat  BY DEF Stored
  <2> QED  BY <2>1, HdrSizeAssumption
<1>2. Contents(b2, st, s, o, u0)
  <2>1. \A q \in 0 .. s - 1 : Ahead(p, q, s) >= s - (u1 - u0) => b2[q] = b[q]
    <3> TAKE q \in 0 .. s - 1
    <3>1. Ahead(p, q, s) \in Int
      <4>1. p \in Int  BY <1>1, HdrSizeAssumption DEF At, HeaderPositions
      <4> QED  BY <4>1 DEF Ahead
    <3>2. \A d \in Int : d >= s - (u1 - u0) => d >= HdrSize + r.len
      BY <1>1, HdrSizeAssumption, SMTT(60)
    <3>3. Ahead(p, q, s) >= s - (u1 - u0) => Ahead(p, q, s) >= HdrSize + r.len
      BY <3>1, <3>2
    <3> QED  BY <3>3
  <2> QED  BY <2>1, <1>1, ContentsKept
<1>3. o \in 0 .. s - 1 /\ p \in 0 .. s - 1
  BY <1>1, HdrSizeAssumption DEF HeaderPositions, At
<1>4. ASSUME NEW d \in 0 .. HdrSize + r.len - 1, d < HdrSize \/ TransfersSucceed
      PROVE  b2[At(PositionIn(s, o, u0, r.at), d, s)] = CellOf(r, d)
  <2>1. PositionIn(s, o, u0, r.at) = p  BY DEF PositionIn
  <2>2. d \in 0 .. s - 1 /\ d < HdrSize + r.len  BY <1>4, <1>1, HdrSizeAssumption
  <2>3. Ahead(p, At(p, d, s), s) = d /\ At(p, d, s) \in 0 .. s - 1
    BY <2>2, <1>3, AheadOfAt
  <2> QED  BY <1>4, <2>1, <2>2, <2>3
<1> DEFINE t == Append(st, r)
           n == Len(st)
<1>5. /\ Len(t) = n + 1 /\ t[n + 1] = r /\ n \in Nat /\ n = Len(st)
      /\ \A i \in 1 .. n : t[i] = st[i]
  OBVIOUS
<1> HIDE DEF t, n
<1>6. Contents(b2, t, s, o, u0)
  <2> SUFFICES ASSUME NEW i \in 1 .. n + 1,
                      NEW d \in 0 .. HdrSize + t[i].len - 1,
                      d < HdrSize \/ TransfersSucceed
               PROVE  b2[At(PositionIn(s, o, u0, t[i].at), d, s)] = CellOf(t[i], d)
    BY <1>5 DEF Contents
  <2>1. CASE i = n + 1  BY <2>1, <1>4, <1>5
  <2>2. CASE i \in 1 .. n
    <3>1. t[i] = st[i] /\ i \in 1 .. Len(st)  BY <2>2, <1>5
    <3> QED  BY <3>1, <1>2 DEF Contents
  <2> QED  BY <2>1, <2>2, <1>5
<1> QED  BY <1>6 DEF t

(* The others keep their contents when the oldest leaves.                  *)
LEMMA ContentsTail ==
  ASSUME NEW s \in Nat, NEW o, NEW u0, NEW o2, NEW u2,
         NEW st \in Seq(Stored), st # << >>,
         NEW b, Contents(b, st, s, o, u0),
         \A i \in 1 .. Len(Tail(st)) :
            PositionIn(s, o2, u2, Tail(st)[i].at) = PositionIn(s, o, u0, st[i + 1].at)
  PROVE  Contents(b, Tail(st), s, o2, u2)
<1> DEFINE t == Tail(st)
<1>1. /\ Len(t) = Len(st) - 1 /\ Len(st) \in Nat
      /\ \A i \in 1 .. Len(t) : t[i] = st[i + 1]
  BY HeadTailProperties, LenProperties
<1>2. \A i \in 1 .. Len(t) :
        PositionIn(s, o2, u2, t[i].at) = PositionIn(s, o, u0, st[i + 1].at)
  OBVIOUS
<1> HIDE DEF t
<1>3. Contents(b, t, s, o2, u2)
  <2> SUFFICES ASSUME NEW i \in 1 .. Len(t), NEW d \in 0 .. HdrSize + t[i].len - 1,
                      d < HdrSize \/ TransfersSucceed
               PROVE  b[At(PositionIn(s, o2, u2, t[i].at), d, s)] = CellOf(t[i], d)
    BY DEF Contents
  <2>1. i + 1 \in 1 .. Len(st) /\ t[i] = st[i + 1]  BY <1>1
  <2>2. d \in 0 .. HdrSize + st[i + 1].len - 1  BY <2>1
  <2>3. b[At(PositionIn(s, o, u0, st[i + 1].at), d, s)] = CellOf(st[i + 1], d)
    BY <2>1, <2>2 DEF Contents
  <2> QED  BY <2>1, <2>3, <1>2
<1> QED  BY <1>3 DEF t

-------------------------------------------------------------------------------
(************************ the inductive invariant ************************)
(* A BufferLock belongs to the tap that fills the buffer, to the transfer  *)
(* the tap left outstanding, or to the ioctl that is collecting them all.  *)
LockOwners ==
  \A c \in Cpus :
    /\ tap[c].pc \in {"publish", "signal"} => lock[c] = "tap"
    /\ transfer[c].pc # "none" => lock[c] = "transfer"
    /\ io.pc = "lock" /\ c < io.next => lock[c] = "ioctl"
    /\ io.pc = "apply" => lock[c] = "ioctl"

(* One IRP at a time; a buffer has room for a header or does not exist.    *)
Irps ==
  /\ io.pc # "idle" => rd.pc = "idle"
  /\ io.pc = "lock" => io.next < NCpu
  /\ io.size = 0 \/ io.size >= HdrSize
  /\ size = 0 \/ size >= HdrSize
  /\ rd.pc # "idle" => size # 0

(* Free starts at Base: OldestAt, less what the reader has copied and not  *)
(* yet given back.                                                         *)
Base(c) ==
  IF rd.pc = "free" /\ rd.cpu = c
    THEN IF C[c] >= rd.inc THEN C[c] - rd.inc ELSE C[c] - rd.inc + size
    ELSE OldestAt(c)

Used(c) == InUse(c) + Unfreed(c)

Ring(c) ==
  /\ Free[c] = size - Used(c) + Unpublished(c)
  /\ InUse(c) >= 0 /\ Unfreed(c) >= 0 /\ Used(c) <= size
  /\ Unpublished(c) >= 0 /\ Unpublished(c) <= InUse(c)
  /\ OldestAt(c) \in {Base(c) + Unfreed(c), Base(c) + Unfreed(c) - size}
  /\ P[c] \in {OldestAt(c) + InUse(c), OldestAt(c) + InUse(c) - size}
  /\ size = 0 => P[c] = 0 /\ C[c] = 0
  /\ size # 0 => /\ P[c] \in HeaderPositions(size)
                 /\ OldestAt(c) \in HeaderPositions(size)
                 /\ Base(c) \in HeaderPositions(size)

Packets(c) ==
  /\ Layout(stored[c], size, OldestAt(c), consumed[c], produced[c])
  /\ Contents(buffer[c], stored[c], size, OldestAt(c), consumed[c])

(* What a producer or the reader has half done.                            *)
LastTakes(c, inc) ==
  /\ stored[c] # << >>
  /\ stored[c][Len(stored[c])].at + inc = produced[c]

HalfRead(c) ==
  /\ stored[c] # << >> /\ rd.plen = stored[c][1].len
  /\ C[c] = AfterHeader(OldestAt(c), size)
  /\ PacketCost(OldestAt(c), rd.plen, size) + Unpublished(c) <= InUse(c)

HalfTransferred(c, t) ==
  /\ t.frame.hdr + t.frame.look < t.len
  /\ t.len + HdrSize <= Free[c]
  /\ t.newP = EndOfPacket(P[c], t.len, size)
  /\ buffer[c][P[c]] = Header(Unset, t.len, 0)
  /\ \A k \in 0 .. t.frame.hdr + t.frame.look - 1 :
       buffer[c][At(P[c], HdrSize + k, size)] = Data(t.pkt, k)

InHand(c) ==
  /\ tap[c].pc = "publish" => LastTakes(c, tap[c].inc)
  /\ transfer[c].pc = "publish" => LastTakes(c, transfer[c].inc)
  /\ transfer[c].pc = "pending" => HalfTransferred(c, transfer[c])
  /\ rd.pc = "copy" /\ rd.cpu = c => HalfRead(c)

IInv ==
  /\ TypeOK /\ LockOwners /\ Irps
  /\ \A c \in Cpus : Ring(c) /\ Packets(c) /\ InHand(c)

-------------------------------------------------------------------------------
(* A step that touches neither the ring of c nor the part of a packet that *)
(* is in hand there keeps what is known of it.                             *)
RingUntouched(c) ==
  /\ size' = size /\ buffer'[c] = buffer[c]
  /\ P'[c] = P[c] /\ C'[c] = C[c] /\ Free'[c] = Free[c]
  /\ stored'[c] = stored[c]
  /\ produced'[c] = produced[c] /\ consumed'[c] = consumed[c]
  /\ transfer'[c] = transfer[c]
  /\ tap[c].pc = "publish" \/ tap'[c].pc = "publish" => tap'[c] = tap[c]
  /\ \/ rd' = rd
     \/ rd.pc \notin {"copy", "free"} /\ rd'.pc \notin {"copy", "free"}
     \/ rd.cpu # c /\ rd'.cpu # c

\* A step that touches neither ring, packets nor work in hand of a CPU
\* keeps the three parts of the invariant for that CPU.
LEMMA RingUntouchedKeeps ==
  ASSUME NEW c \in Cpus, Ring(c), Packets(c), InHand(c), RingUntouched(c)
  PROVE  Ring(c)' /\ Packets(c)' /\ InHand(c)'
<1>1. /\ Unpublished(c)' = Unpublished(c) /\ Unfreed(c)' = Unfreed(c)
      /\ OldestAt(c)' = OldestAt(c) /\ InUse(c)' = InUse(c)
      /\ Base(c)' = Base(c) /\ Used(c)' = Used(c)
  BY DEF RingUntouched, Unpublished, Unfreed, OldestAt, InUse, Base, Used
<1>2. Ring(c)'
  BY <1>1 DEF RingUntouched, Ring
<1>3. Packets(c)'
  BY <1>1 DEF RingUntouched, Packets
<1>4. InHand(c)'
  BY <1>1 DEF RingUntouched, InHand, LastTakes, HalfRead, HalfTransferred
<1> QED  BY <1>2, <1>3, <1>4

\* The idle records of tap, transfer, read and ioctl are of their types.
LEMMA IdleTypes ==
  /\ idleTap \in Tap /\ noTransfer \in Transfer /\ idleRead \in Read
  /\ idleIo \in Io
<1>1. [hdr |-> 0, look |-> 0, total |-> 0] \in Frame  BY DEF Frame
<1>2. 0 \in Cpus /\ 0 \in 0 .. NCpu  BY CaptureAssumption DEF Cpus
<1>3. idleTap \in Tap /\ idleTap.frame \in Frame  BY <1>1 DEF idleTap, Tap
<1>4. noTransfer \in Transfer  BY <1>3 DEF noTransfer, Transfer
<1>5. idleRead \in Read /\ idleIo \in Io  BY <1>2 DEF idleRead, Read, idleIo, Io
<1> QED  BY <1>3, <1>4, <1>5

\* NPF_tap counting a frame preserves the invariant.
LEMMA TapReceiveKeeps ==
  ASSUME IInv, NEW c \in Cpus, NEW f \in Frames, TapReceive(c, f)
  PROVE  IInv'
<1>1. TypeOK'
  <2>1. f \in Frame  BY CaptureAssumption DEF Frame
  <2>2. arrivals \in Nat /\ tap \in [Cpus -> Tap] /\ Received \in [Cpus -> Nat]
    BY DEF IInv, TypeOK
  <2>3. /\ arrivals' \in Nat /\ Received' \in [Cpus -> Nat]
    BY <2>2 DEF TapReceive
  <2>4. [idleTap EXCEPT !.pc = "filter", !.frame = f, !.pkt = arrivals + 1] \in Tap
    <3>1. \A x \in Tap, n \in Nat :
            [x EXCEPT !.pc = "filter", !.frame = f, !.pkt = n] \in Tap
      BY <2>1 DEF Tap
    <3>2. arrivals + 1 \in Nat  BY <2>2
    <3> QED  BY <3>1, <3>2, IdleTypes
  <2>5. tap' \in [Cpus -> Tap]
    BY <2>2, <2>4 DEF TapReceive
  <2> QED  BY <2>3, <2>5 DEF TapReceive, IInv, TypeOK, ringVars, snVars,
                             configVars, historyVars
<1>2. LockOwners' /\ Irps'
  BY DEF TapReceive, IInv, TypeOK, LockOwners, Irps, idleTap, ringVars
<1>3. \A d \in Cpus : RingUntouched(d)
  BY DEF TapReceive, IInv, TypeOK, RingUntouched, idleTap, ringVars, historyVars
<1> QED  BY <1>1, <1>2, <1>3, RingUntouchedKeeps DEF IInv

\* NPF_tap running the filter preserves the invariant.
LEMMA TapFilterKeeps ==
  ASSUME IInv, NEW c \in Cpus, NEW fres \in FilterResults, TapFilter(c, fres)
  PROVE  IInv'
<1>1. TypeOK'
  <2>1. fres \in Nat  BY CaptureAssumption
  <2>2. tap \in [Cpus -> Tap] /\ tap[c] \in Tap /\ filter \in Nat
    BY DEF IInv, TypeOK
  <2>3. tap[c].frame \in Frame  BY <2>2 DEF Tap
  <2>4. tap[c].frame.total \in Nat  BY <2>3 DEF Frame
  <2>5. \A x \in Tap, n \in Nat :
          [x EXCEPT !.pc = "size", !.len = n, !.filter = filter] \in Tap
    BY <2>2 DEF Tap
  <2> DEFINE len == IF fres > tap[c].frame.total THEN tap[c].frame.total ELSE fres
             t == IF fres = 0 THEN idleTap
                  ELSE [tap[c] EXCEPT !.pc = "size", !.len = len, !.filter = filter]
  <2>6. len \in Nat  BY <2>1, <2>4
  <2>7. t \in Tap
    <3> HIDE DEF len
    <3> QED  BY <2>2, <2>5, <2>6, IdleTypes
  <2>8. tap' = [tap EXCEPT ![c] = t]  BY DEF TapFilter
  <2> HIDE DEF t
  <2>9. tap' \in [Cpus -> Tap]  BY <2>2, <2>7, <2>8
  <2> QED  BY <2>9 DEF TapFilter, IInv, TypeOK, ringVars, countVars, snVars,
                       configVars, historyVars
<1>2. LockOwners' /\ Irps'
  BY DEF TapFilter, IInv, TypeOK, LockOwners, Irps, idleTap, ringVars
<1>3. \A d \in Cpus : RingUntouched(d)
  BY SMTT(60) DEF TapFilter, IInv, TypeOK, RingUntouched, idleTap, ringVars, historyVars
<1> QED  BY <1>1, <1>2, <1>3, RingUntouchedKeeps DEF IInv

\* NPF_tap looking for a buffer, without the lock, preserves the invariant.
LEMMA TapCheckSizeKeeps ==
  ASSUME IInv, NEW c \in Cpus, TapCheckSize(c)
  PROVE  IInv'
<1>1. TypeOK'
  <2>1. /\ tap \in [Cpus -> Tap] /\ tap[c] \in Tap
        /\ Dropped \in [Cpus -> Nat]
    BY DEF IInv, TypeOK
  <2>2. \A x \in Tap : [x EXCEPT !.pc = "lock"] \in Tap  BY DEF Tap
  <2>3. tap' \in [Cpus -> Tap] /\ Dropped' \in [Cpus -> Nat]
    BY <2>1, <2>2, IdleTypes DEF TapCheckSize
  <2> QED  BY <2>3 DEF TapCheckSize, IInv, TypeOK, ringVars, snVars,
                       configVars, historyVars
<1>2. /\ tap[c].pc = "size" /\ tap'[c].pc \in {"idle", "lock"}
      /\ \A d \in Cpus : d # c => tap'[d] = tap[d]
  <2>1. tap \in [Cpus -> Tap] /\ tap[c] \in Tap  BY DEF IInv, TypeOK
  <2>2. CASE tap' = [tap EXCEPT ![c] = idleTap]
    BY <2>1, <2>2 DEF TapCheckSize, idleTap
  <2>3. CASE tap' = [tap EXCEPT ![c].pc = "lock"]
    BY <2>1, <2>3 DEF TapCheckSize, Tap
  <2> QED  BY <2>2, <2>3 DEF TapCheckSize
<1>3. LockOwners' /\ Irps'
  BY <1>2 DEF TapCheckSize, IInv, LockOwners, Irps, ringVars
<1>4. \A d \in Cpus : RingUntouched(d)
  BY <1>2 DEF TapCheckSize, RingUntouched, ringVars, historyVars
<1> QED  BY <1>1, <1>3, <1>4, RingUntouchedKeeps DEF IInv

(* What a drop under the BufferLock leaves alone.                          *)
LEMMA TapDropTypes ==
  ASSUME TypeOK, NEW c \in Cpus, TapDrop(c),
         buffer' \in [Cpus -> [0 .. size - 1 -> Cell]]
  PROVE  TypeOK'
<1>1. tap \in [Cpus -> Tap] /\ Dropped \in [Cpus -> Nat]  BY DEF TypeOK
<1>2. tap' \in [Cpus -> Tap] /\ Dropped' \in [Cpus -> Nat]
  BY <1>1, IdleTypes DEF TapDrop
<1> QED  BY <1>2 DEF TapDrop, TypeOK, snVars, configVars, historyVars

\* NPF_tap dropping a packet preserves the invariant.
LEMMA TapDropKeeps ==
  ASSUME IInv, NEW c \in Cpus, TapNoRoom(c) \/ TapDropPending(c)
  PROVE  IInv'
<1>1. TapDrop(c) /\ UNCHANGED buffer /\ tap[c].pc = "lock"
  BY DEF TapNoRoom, TapDropPending, AtLock
<1>2. TypeOK'
  <2>1. buffer' \in [Cpus -> [0 .. size - 1 -> Cell]]
    BY <1>1 DEF IInv, TypeOK
  <2> QED  BY <1>1, <2>1, TapDropTypes DEF IInv
<1>3. LockOwners' /\ Irps'
  BY <1>1 DEF TapDrop, IInv, TypeOK, LockOwners, Irps, idleTap
<1>4. \A d \in Cpus : RingUntouched(d)
  BY <1>1 DEF TapDrop, IInv, TypeOK, RingUntouched, idleTap, historyVars
<1> QED  BY <1>2, <1>3, <1>4, RingUntouchedKeeps DEF IInv

\* NPF_tap setting the event and releasing the lock preserves the invariant.
LEMMA TapSignalKeeps ==
  ASSUME IInv, NEW c \in Cpus, TapSignal(c)
  PROVE  IInv'
<1>1. TypeOK'
  <2>1. /\ tap \in [Cpus -> Tap] /\ readEvent \in BOOLEAN
        /\ lock \in [Cpus -> {"free", "tap", "transfer", "ioctl"}]
    BY DEF IInv, TypeOK
  <2>2. tap' \in [Cpus -> Tap] /\ lock' \in [Cpus -> {"free", "tap", "transfer", "ioctl"}]
    BY <2>1, IdleTypes DEF TapSignal
  <2>3. readEvent' \in BOOLEAN
    BY <2>1, Zenon DEF TapSignal, SignalIf
  <2> QED  BY <2>2, <2>3 DEF TapSignal, IInv, TypeOK, ringVars, countVars, snVars,
                       configVars, historyVars
<1>2. LockOwners' /\ Irps'
  BY DEF TapSignal, IInv, TypeOK, LockOwners, Irps, idleTap
<1>3. \A d \in Cpus : RingUntouched(d)
  BY DEF TapSignal, IInv, TypeOK, RingUntouched, idleTap, historyVars
<1> QED  BY <1>1, <1>2, <1>3, RingUntouchedKeeps DEF IInv

\* The round robin of NPF_Read stays among the CPUs.
LEMMA NextCpuIsACpu ==
  ASSUME NEW c \in Cpus
  PROVE  NextCpu(c) \in Cpus
  BY CaptureAssumption DEF Cpus, NextCpu

(* A step of the reader that neither copies nor frees.                     *)
ReadOnly == <<ringVars, countVars, snVars, configVars, tap, transfer, unfreeze,
              io, arrivals, historyVars>>

\* A step that changes only the event and the read IRP, and leaves the bytes
\* it has in hand alone, preserves the invariant.
LEMMA ReadOnlyKeeps ==
  ASSUME IInv, UNCHANGED ReadOnly, rd' \in Read, readEvent' \in BOOLEAN,
         rd.pc \notin {"copy", "free"}, rd'.pc \notin {"copy", "free"},
         rd'.pc # "idle" => size # 0 /\ io.pc = "idle"
  PROVE  IInv'
<1>1. TypeOK'
  BY DEF IInv, TypeOK, ReadOnly, ringVars, countVars, snVars, configVars, historyVars
<1>2. LockOwners' /\ Irps'
  BY DEF IInv, LockOwners, Irps, ReadOnly, ringVars
<1>3. \A d \in Cpus : RingUntouched(d)
  BY DEF RingUntouched, ReadOnly, ringVars, historyVars
<1> QED  BY <1>1, <1>2, <1>3, RingUntouchedKeeps DEF IInv

\* The steps of NPF_Read that move no packet preserve the invariant.
LEMMA ReadQuietKeeps ==
  ASSUME IInv,
         \/ \E len \in ReadLengths : ReadStart(len)
         \/ ReadOccupation \/ ReadCheck \/ ReadAwake \/ ReadTimeOut
         \/ ReadClear \/ ReadPrepare \/ ReadSkipCpu \/ ReadReturn
  PROVE  IInv'
<1>1. rd \in Read /\ readEvent \in BOOLEAN /\ rd.cpu \in Cpus /\ 0 \in Cpus
      /\ 0 \in 0 .. NCpu
  BY CaptureAssumption DEF IInv, TypeOK, Read, Cpus
<1>2. /\ rd.pc # "idle" => size # 0 /\ io.pc = "idle"
      /\ rd.pc = "idle" <=> ~(rd.pc # "idle")
  BY DEF IInv, Irps
<1>3. ASSUME NEW len \in ReadLengths, ReadStart(len)  PROVE IInv'
  <2>1. len \in Nat  BY CaptureAssumption
  <2>2. \A x \in Read : [x EXCEPT !.pc = "sum", !.available = len] \in Read
    BY <2>1 DEF Read
  <2>3. [idleRead EXCEPT !.pc = "sum", !.available = len].pc = "sum"
    BY DEF idleRead
  <2>4. rd' \in Read /\ rd'.pc \in {"idle", "sum"}
    BY <1>3, <1>1, <2>2, <2>3, IdleTypes DEF ReadStart, NoIrp
  <2> QED  BY <1>1, <1>3, <2>4, ReadOnlyKeeps DEF ReadStart, NoIrp, ReadOnly
<1>4. CASE ReadOccupation
  <2>1. Occupied(rd.cpu) \in Int
    <3>1. size \in Nat /\ Free \in [Cpus -> Int]  BY DEF IInv, TypeOK
    <3>2. Free[rd.cpu] \in Int  BY <3>1, <1>1
    <3> QED  BY <3>1, <3>2 DEF Occupied
  <2>2. rd.occupation \in Int  BY <1>1 DEF Read
  <2>3. \A x \in Read, o \in Int, d \in Cpus, p \in {"check", "sum"} :
          [x EXCEPT !.occupation = o, !.cpu = d, !.pc = p] \in Read
    BY DEF Read
  <2>4. rd' \in Read /\ rd'.pc \in {"check", "sum"} /\ rd.pc = "sum"
    <3>1. rd' = [rd EXCEPT !.occupation = rd.occupation + Occupied(rd.cpu),
                           !.cpu = NextCpu(rd.cpu),
                           !.pc = IF rd.cpu = NCpu - 1 THEN "check" ELSE "sum"]
      BY <1>4 DEF ReadOccupation
    <3>2. rd.occupation + Occupied(rd.cpu) \in Int  BY <2>1, <2>2
    <3>3. rd' \in Read  BY <3>1, <3>2, <2>3, <1>1, NextCpuIsACpu
    <3>4. rd'.pc = IF rd.cpu = NCpu - 1 THEN "check" ELSE "sum"
      BY <3>1, <1>1 DEF Read
    <3> QED  BY <3>3, <3>4, <1>4 DEF ReadOccupation
  <2> QED  BY <1>1, <1>2, <1>4, <2>4, ReadOnlyKeeps DEF ReadOccupation, ReadOnly
<1>5. CASE ReadCheck \/ ReadAwake \/ ReadTimeOut \/ ReadClear
  <2>1. \A x \in Read, p \in {"prepare", "clear", "wait"} :
          [x EXCEPT !.pc = p] \in Read /\ [x EXCEPT !.pc = p].pc = p
    BY DEF Read
  <2>2. /\ rd' \in Read /\ rd'.pc \in {"prepare", "clear", "wait"}
        /\ rd.pc \in {"check", "wait", "clear"}
    BY <1>1, <1>5, <2>1 DEF ReadCheck, ReadAwake, ReadTimeOut, ReadClear
  <2>3. readEvent' \in BOOLEAN /\ UNCHANGED ReadOnly
    BY <1>1, <1>5 DEF ReadCheck, ReadAwake, ReadTimeOut, ReadClear, ReadOnly
  <2> QED  BY <1>2, <2>2, <2>3, ReadOnlyKeeps
<1>6. CASE ReadPrepare
  <2>1. \A x \in Read :
          [x EXCEPT !.pc = "scan", !.copied = 0, !.count = 0, !.cpu = 0] \in Read
    BY <1>1 DEF Read
  <2>2. rd' \in Read /\ rd'.pc = "scan"
    BY <1>1, <1>6, <2>1 DEF ReadPrepare, Read
  <2> QED  BY <1>2, <1>6, <2>2, ReadOnlyKeeps DEF ReadPrepare, ReadOnly
<1>7. CASE ReadSkipCpu
  <2>1. rd.count \in 0 .. NCpu - 1 /\ rd.count + 1 \in 0 .. NCpu
    BY <1>1, <1>7, CaptureAssumption DEF ReadSkipCpu, Scanning, Read
  <2>2. \A x \in Read, d \in Cpus, n \in 0 .. NCpu :
          [x EXCEPT !.cpu = d, !.count = n] \in Read
    BY DEF Read
  <2>3. rd' = [rd EXCEPT !.cpu = NextCpu(rd.cpu), !.count = rd.count + 1]
    BY <1>7 DEF ReadSkipCpu
  <2>4. rd' \in Read  BY <1>1, <2>1, <2>2, <2>3, NextCpuIsACpu
  <2>5. rd.pc = "scan" /\ rd'.pc = "scan"
    BY <1>1, <1>7, <2>3 DEF ReadSkipCpu, Scanning, Read
  <2> QED  BY <1>1, <1>2, <1>7, <2>4, <2>5, ReadOnlyKeeps DEF ReadSkipCpu, ReadOnly
<1>8. CASE ReadReturn
  <2>1. rd' \in Read /\ rd'.pc = "idle" /\ rd.pc = "scan"
    BY <1>8, IdleTypes DEF ReadReturn, idleRead
  <2> QED  BY <1>1, <1>8, <2>1, ReadOnlyKeeps DEF ReadReturn, ReadOnly
<1> QED  BY <1>3, <1>4, <1>5, <1>6, <1>7, <1>8

\* NPF_TransferDataComplete releasing the lock preserves the invariant.
LEMMA TransferReleaseKeeps ==
  ASSUME IInv, NEW c \in Cpus, TransferRelease(c)
  PROVE  IInv'
<1>1. TypeOK'
  <2>1. /\ transfer \in [Cpus -> Transfer] /\ readEvent \in BOOLEAN
        /\ lock \in [Cpus -> {"free", "tap", "transfer", "ioctl"}]
        /\ unfreeze \in [Cpus -> BOOLEAN]
    BY DEF IInv, TypeOK
  <2>2. /\ transfer' \in [Cpus -> Transfer]
        /\ lock' \in [Cpus -> {"free", "tap", "transfer", "ioctl"}]
        /\ unfreeze' \in [Cpus -> BOOLEAN]
    BY <2>1, IdleTypes DEF TransferRelease
  <2>3. readEvent' \in BOOLEAN
    BY <2>1, Zenon DEF TransferRelease, SignalIf
  <2> QED  BY <2>2, <2>3 DEF TransferRelease, IInv, TypeOK, countVars, snVars,
                             configVars, historyVars
<1>2. LockOwners' /\ Irps'
  BY DEF TransferRelease, IInv, TypeOK, LockOwners, Irps, noTransfer
<1>3. \A d \in Cpus : d # c => RingUntouched(d)
  BY DEF TransferRelease, IInv, TypeOK, RingUntouched, historyVars
<1>4. /\ transfer[c].pc = "signal" /\ transfer'[c].pc = "none"
      /\ UNCHANGED <<size, buffer, P, C, Free, tap, rd, historyVars>>
  BY DEF TransferRelease, IInv, TypeOK, noTransfer
<1>5. Ring(c)' /\ Packets(c)' /\ InHand(c)'
  <2>1. /\ Unpublished(c)' = Unpublished(c) /\ Unfreed(c)' = Unfreed(c)
        /\ OldestAt(c)' = OldestAt(c) /\ InUse(c)' = InUse(c)
        /\ Base(c)' = Base(c) /\ Used(c)' = Used(c)
    BY <1>4 DEF Unpublished, Unfreed, OldestAt, InUse, Base, Used, historyVars
  <2>2. Ring(c) /\ Packets(c) /\ InHand(c)  BY DEF IInv
  <2>3. Ring(c)' /\ Packets(c)'
    BY <1>4, <2>1, <2>2 DEF Ring, Packets, historyVars
  <2>4. InHand(c)'
    BY <1>4, <2>1, <2>2 DEF InHand, LastTakes, HalfRead, historyVars
  <2> QED  BY <2>3, <2>4
<1> QED  BY <1>1, <1>2, <1>3, <1>5, RingUntouchedKeeps DEF IInv

\* NPF_TransferDataComplete setting the event once more preserves the
\* invariant.
LEMMA TransferUnfreezeKeeps ==
  ASSUME IInv, NEW c \in Cpus, TransferUnfreeze(c)
  PROVE  IInv'
<1>1. TypeOK'
  <2>1. readEvent \in BOOLEAN /\ unfreeze \in [Cpus -> BOOLEAN]
    BY DEF IInv, TypeOK
  <2>2. unfreeze' \in [Cpus -> BOOLEAN]
    BY <2>1 DEF TransferUnfreeze
  <2>3. readEvent' \in BOOLEAN
    BY <2>1, Zenon DEF TransferUnfreeze, SignalIf
  <2> QED  BY <2>2, <2>3 DEF TransferUnfreeze, IInv, TypeOK, ringVars, countVars,
                             snVars, configVars, historyVars
<1>2. LockOwners' /\ Irps'
  BY DEF TransferUnfreeze, IInv, LockOwners, Irps, ringVars
<1>3. \A d \in Cpus : RingUntouched(d)
  BY DEF TransferUnfreeze, RingUntouched, ringVars, historyVars
<1> QED  BY <1>1, <1>2, <1>3, RingUntouchedKeeps DEF IInv

-------------------------------------------------------------------------------
(* An ioctl step that leaves rings, counters and producers alone.          *)
IoctlQuiet == <<size, buffer, P, C, Free, countVars, snVars, readEvent, tap,
                transfer, unfreeze, rd, arrivals, historyVars>>

\* A step that changes only the ioctl IRP, the filter and the configuration
\* preserves the invariant.
LEMMA IoctlQuietKeeps ==
  ASSUME IInv, UNCHANGED IoctlQuiet, io' \in Io,
         minToCopy' \in Nat, timeOut' \in TimeOutKinds, filter' \in Nat,
         lock' \in [Cpus -> {"free", "tap", "transfer", "ioctl"}],
         LockOwners', Irps'
  PROVE  IInv'
<1>1. TypeOK'
  BY DEF IInv, TypeOK, IoctlQuiet, countVars, snVars, historyVars
<1>2. \A d \in Cpus : RingUntouched(d)
  BY DEF RingUntouched, IoctlQuiet, historyVars
<1> QED  BY <1>1, <1>2, RingUntouchedKeeps DEF IInv

\* The size BIOCSETBUFFERSIZE computes is a size a ring can have.
LEMMA BufferSizes ==
  ASSUME NEW dim \in Nat
  PROVE  /\ BufferSize(dim) \in Nat
         /\ BufferSize(dim) = 0 \/ BufferSize(dim) >= HdrSize
  BY CaptureAssumption, HdrSizeAssumption DEF BufferSize

\* Starting any of the ioctls preserves the invariant.
LEMMA IoctlKeeps ==
  ASSUME IInv, Ioctl
  PROVE  IInv'
<1>1. /\ io \in Io /\ minToCopy \in Nat /\ timeOut \in TimeOutKinds
      /\ filter \in Nat /\ filter + 1 \in Nat
      /\ lock \in [Cpus -> {"free", "tap", "transfer", "ioctl"}]
      /\ 0 \in 0 .. NCpu /\ 0 < NCpu /\ io.calls \in Nat /\ io.calls + 1 \in Nat
  BY CaptureAssumption DEF IInv, TypeOK, Io
<1>2. LockOwners /\ Irps  BY DEF IInv
<1>3. CASE SetFilter \/ DisableLoopback
  <2>1. io' = [io EXCEPT !.pc = "lock", !.op = "reset", !.next = 0,
                         !.calls = io.calls + 1]
        /\ rd.pc = "idle" /\ io.pc = "idle"
    BY <1>3 DEF SetFilter, DisableLoopback, CanIoctl, NoIrp
  <2>2. \A x \in Io, n \in Nat :
          /\ [x EXCEPT !.pc = "lock", !.op = "reset", !.next = 0, !.calls = n] \in Io
    BY <1>1 DEF Io
  <2>3. io' \in Io  BY <1>1, <2>1, <2>2
  <2>4. io'.pc = "lock" /\ io'.next = 0 /\ io'.size = io.size
    BY <1>1, <2>1 DEF Io
  <2>5. UNCHANGED <<IoctlQuiet, lock, minToCopy, timeOut>> /\ filter' \in Nat
    BY <1>1, <1>3 DEF SetFilter, DisableLoopback, IoctlQuiet, ringVars, configVars
  <2>6. LockOwners'
    <3>1. \A c \in Cpus : ~(c < 0)  BY CaptureAssumption DEF Cpus
    <3> QED  BY <1>2, <2>4, <2>5, <3>1 DEF LockOwners, IoctlQuiet
  <2>7. Irps'
    BY <1>1, <1>2, <2>1, <2>4, <2>5 DEF Irps, IoctlQuiet
  <2> QED  BY <1>1, <2>3, <2>5, <2>6, <2>7, IoctlQuietKeeps
<1>4. ASSUME NEW dim \in Dims, SetBufferSize(dim)  PROVE IInv'
  <2>0. /\ BufferSize(dim) \in Nat
        /\ BufferSize(dim) = 0 \/ BufferSize(dim) >= HdrSize
    BY CaptureAssumption, BufferSizes
  <2>1. io' = [io EXCEPT !.pc = "lock", !.op = "resize", !.size = BufferSize(dim),
                         !.next = 0, !.calls = io.calls + 1]
        /\ rd.pc = "idle" /\ io.pc = "idle"
    BY <1>4 DEF SetBufferSize, CanIoctl, NoIrp
  <2>2. \A x \in Io, m, n \in Nat :
          [x EXCEPT !.pc = "lock", !.op = "resize", !.size = m, !.next = 0,
                    !.calls = n] \in Io
    BY <1>1 DEF Io
  <2>3. io' \in Io  BY <1>1, <2>0, <2>1, <2>2
  <2>4. io'.pc = "lock" /\ io'.next = 0 /\ io'.size = BufferSize(dim)
    BY <1>1, <2>1 DEF Io
  <2>5. UNCHANGED <<IoctlQuiet, lock, configVars>>
    BY <1>4 DEF SetBufferSize, IoctlQuiet, ringVars
  <2>6. LockOwners'
    <3>1. \A c \in Cpus : ~(c < 0)  BY CaptureAssumption DEF Cpus
    <3> QED  BY <1>2, <2>4, <2>5, <3>1 DEF LockOwners, IoctlQuiet
  <2>7. Irps'
    BY <1>1, <1>2, <2>0, <2>1, <2>4, <2>5 DEF Irps, IoctlQuiet
  <2> QED  BY <1>1, <2>3, <2>5, <2>6, <2>7, IoctlQuietKeeps DEF configVars
<1>5. CASE \/ \E m \in MinToCopies : SetMinToCopy(m)
           \/ \E t \in TimeOuts : SetTimeOut(t)
  <2>1. io' = [io EXCEPT !.calls = io.calls + 1]
    BY <1>5 DEF SetMinToCopy, SetTimeOut
  <2>2. \A x \in Io, n \in Nat : [x EXCEPT !.calls = n] \in Io
    BY DEF Io
  <2>3. io' \in Io  BY <1>1, <2>1, <2>2
  <2>4. io'.pc = io.pc /\ io'.next = io.next /\ io'.size = io.size
    BY <1>1, <2>1 DEF Io
  <2>5. minToCopy' \in Nat /\ timeOut' \in TimeOutKinds
    BY <1>1, <1>5, CaptureAssumption DEF SetMinToCopy, SetTimeOut, PerCpuMinToCopy
  <2>6. UNCHANGED <<IoctlQuiet, lock, filter>>
    BY <1>5 DEF SetMinToCopy, SetTimeOut, IoctlQuiet, ringVars
  <2>7. LockOwners' /\ Irps'
    BY <1>2, <2>4, <2>6 DEF LockOwners, Irps, IoctlQuiet
  <2> QED  BY <1>1, <2>3, <2>5, <2>6, <2>7, IoctlQuietKeeps
<1> QED  BY <1>3, <1>4, <1>5 DEF Ioctl

\* An ioctl taking the next BufferLock preserves the invariant.
LEMMA IoctlLockKeeps ==
  ASSUME IInv, ~Uniprocessor, IoctlLock
  PROVE  IInv'
<1>1. /\ io \in Io /\ minToCopy \in Nat /\ timeOut \in TimeOutKinds
      /\ filter \in Nat
      /\ lock \in [Cpus -> {"free", "tap", "transfer", "ioctl"}]
  BY DEF IInv, TypeOK
<1>2. LockOwners /\ Irps  BY DEF IInv
<1>3. /\ io.pc = "lock" /\ io.next \in 0 .. NCpu - 1 /\ io.next \in Cpus
      /\ lock[io.next] = "free"
  BY <1>1, <1>2, CaptureAssumption DEF IoctlLock, Irps, CanAcquire, Io, Cpus
<1>4. \A x \in Io, n \in 0 .. NCpu, p \in {"apply", "lock"} :
        [x EXCEPT !.next = n, !.pc = p] \in Io
  BY DEF Io
<1>5. io.next + 1 \in 0 .. NCpu  BY <1>3, CaptureAssumption
<1>6. io' = [io EXCEPT !.next = io.next + 1,
                       !.pc = IF io.next = NCpu - 1 THEN "apply" ELSE "lock"]
  BY DEF IoctlLock
<1>7. io' \in Io  BY <1>1, <1>4, <1>5, <1>6
<1>8. /\ io'.next = io.next + 1 /\ io'.size = io.size
      /\ io'.pc = IF io.next = NCpu - 1 THEN "apply" ELSE "lock"
  BY <1>1, <1>6 DEF Io
<1>9. lock' \in [Cpus -> {"free", "tap", "transfer", "ioctl"}]
      /\ \A c \in Cpus : lock'[c] = IF c = io.next THEN "ioctl" ELSE lock[c]
  BY <1>1 DEF IoctlLock
<1>10. UNCHANGED <<IoctlQuiet, configVars>>
  BY DEF IoctlLock, IoctlQuiet
<1>11. LockOwners'
  <2> SUFFICES ASSUME NEW c \in Cpus
               PROVE  /\ tap[c].pc \in {"publish", "signal"} => lock'[c] = "tap"
                      /\ transfer[c].pc # "none" => lock'[c] = "transfer"
                      /\ io'.pc = "lock" /\ c < io'.next => lock'[c] = "ioctl"
                      /\ io'.pc = "apply" => lock'[c] = "ioctl"
    BY <1>10 DEF LockOwners, IoctlQuiet
  <2>1. c < io'.next => c < io.next \/ c = io.next
    BY <1>3, <1>8 DEF Cpus
  <2>2. io'.pc = "apply" => c < io.next \/ c = io.next
    BY <1>3, <1>8, CaptureAssumption DEF Cpus
  <2> QED  BY <1>2, <1>3, <1>9, <2>1, <2>2 DEF LockOwners
<1>12. Irps'
  <2>1. io'.pc = "lock" => io'.next < NCpu
    BY <1>3, <1>8, CaptureAssumption
  <2> QED  BY <1>2, <1>3, <1>8, <1>10, <2>1 DEF Irps, IoctlQuiet
<1> QED  BY <1>1, <1>7, <1>9, <1>10, <1>11, <1>12, IoctlQuietKeeps DEF configVars

-------------------------------------------------------------------------------
(* An empty ring, before and after a reset.                                *)
Emptied(c) ==
  /\ size \in Nat /\ (size = 0 \/ size >= HdrSize)
  /\ P[c] = 0 /\ C[c] = 0 /\ Free[c] = size
  /\ stored[c] = << >> /\ produced[c] = 0 /\ consumed[c] = 0
  /\ rd.pc = "idle" /\ tap[c].pc # "publish" /\ transfer[c].pc = "none"

\* An emptied buffer satisfies the three parts of the invariant.
LEMMA EmptiedIsGood ==
  ASSUME NEW c \in Cpus, Emptied(c)
  PROVE  Ring(c) /\ Packets(c) /\ InHand(c)
<1>1. /\ InUse(c) = 0 /\ Unpublished(c) = 0 /\ Unfreed(c) = 0 /\ Used(c) = 0
      /\ OldestAt(c) = 0 /\ Base(c) = 0
  BY DEF Emptied, InUse, Unpublished, Unfreed, Used, OldestAt, Base
<1>2. Ring(c)
  BY <1>1, HdrSizeAssumption DEF Emptied, Ring, HeaderPositions
<1>3. Packets(c)
  BY <1>1 DEF Emptied, Packets, Layout, Contents
<1>4. InHand(c)
  BY DEF Emptied, InHand
<1> QED  BY <1>2, <1>3, <1>4

\* The same of the next state.
LEMMA EmptiedIsGoodNext ==
  ASSUME NEW c \in Cpus
  PROVE  Emptied(c)' => Ring(c)' /\ Packets(c)' /\ InHand(c)'
<1>1. Emptied(c) => Ring(c) /\ Packets(c) /\ InHand(c)
  BY EmptiedIsGood
<1> QED  BY <1>1, PTL

\* A newly allocated buffer is of its type.
LEMMA NewBuffersType ==
  ASSUME NEW s \in Nat
  PROVE  NewBuffers(s) \in [Cpus -> [0 .. s - 1 -> Cell]]
<1>1. Garbage \in Cell  BY DEF Garbage, Cell
<1> QED  BY <1>1 DEF NewBuffers

\* Emptying or replacing the buffers under all the locks preserves the
\* invariant.
LEMMA ResetKeeps ==
  ASSUME IInv, ResetBufferContents \/ ReplaceBuffers
  PROVE  IInv'
<1>1. PICK s : /\ ResetBuffers(s) /\ size' = s
               /\ s \in Nat /\ (s = 0 \/ s >= HdrSize)
               /\ buffer' \in [Cpus -> [0 .. s - 1 -> Cell]]
               /\ io.pc = "apply"
  <2>1. /\ size \in Nat /\ io \in Io /\ io.size \in Nat
        /\ size = 0 \/ size >= HdrSize
        /\ io.size = 0 \/ io.size >= HdrSize
        /\ buffer \in [Cpus -> [0 .. size - 1 -> Cell]]
    BY DEF IInv, TypeOK, Irps, Io
  <2>2. CASE ResetBufferContents
    BY <2>1, <2>2 DEF ResetBufferContents
  <2>3. CASE ReplaceBuffers
    BY <2>1, <2>3, NewBuffersType DEF ReplaceBuffers
  <2> QED  BY <2>2, <2>3
<1>2. rd.pc = "idle" /\ \A c \in Cpus : lock[c] = "ioctl"
  BY <1>1 DEF IInv, LockOwners, Irps
<1>3. \A c \in Cpus : tap[c].pc \notin {"publish", "signal"} /\ transfer[c].pc = "none"
  BY <1>2 DEF IInv, LockOwners
<1>4. TypeOK'
  <2>1. /\ io \in Io /\ rd \in Read  BY DEF IInv, TypeOK
  <2>2. [io EXCEPT !.pc = "idle", !.op = "none", !.size = 0, !.next = 0] \in Io
    <3>1. 0 \in 0 .. NCpu  BY CaptureAssumption
    <3>2. \A x \in Io :
            [x EXCEPT !.pc = "idle", !.op = "none", !.size = 0, !.next = 0] \in Io
      BY <3>1 DEF Io
    <3> QED  BY <2>1, <3>2
  <2>3. /\ size' \in Nat /\ buffer' \in [Cpus -> [0 .. size' - 1 -> Cell]]
        /\ P' \in [Cpus -> Int] /\ C' \in [Cpus -> Int] /\ Free' \in [Cpus -> Int]
        /\ lock' \in [Cpus -> {"free", "tap", "transfer", "ioctl"}]
        /\ Received' \in [Cpus -> Nat] /\ Accepted' \in [Cpus -> Nat]
        /\ Dropped' \in [Cpus -> Nat] /\ WriterSN' \in Nat /\ ReaderSN' \in Nat
    BY <1>1 DEF ResetBuffers, ResetCounters
  <2>4. /\ stored' \in [Cpus -> Seq(Stored)]
        /\ captured' \in Seq([pkt : Nat, len : Nat, cpu : Cpus, filter : Nat])
        /\ produced' \in [Cpus -> Int] /\ consumed' \in [Cpus -> Int]
        /\ delivered' \in Seq(Seq(Cell)) /\ io' \in Io
    BY <1>1, <2>2 DEF ResetBuffers
  <2> QED  BY <1>1, <2>3, <2>4 DEF ResetBuffers, IInv, TypeOK, configVars
<1>5. io'.pc = "idle" /\ io'.size = 0
  <2>1. io \in Io  BY DEF IInv, TypeOK
  <2> QED  BY <1>1, <2>1 DEF ResetBuffers, Io
<1>6. LockOwners' /\ Irps'
  <2>1. UNCHANGED <<tap, transfer, rd>>  BY <1>1 DEF ResetBuffers
  <2> QED  BY <1>1, <1>2, <1>3, <1>5, <2>1 DEF LockOwners, Irps
<1>7. \A c \in Cpus : Emptied(c)'
  BY <1>1, <1>2, <1>3 DEF ResetBuffers, Emptied
<1> QED  BY <1>4, <1>6, <1>7, EmptiedIsGoodNext DEF IInv

-------------------------------------------------------------------------------
\* The fields of a read IRP.
LEMMA ReadRecord ==
  ASSUME NEW x \in Read
  PROVE  /\ x.inc \in Nat /\ x.plen \in Nat /\ x.cpu \in Cpus
         /\ x.copied \in Nat
<1>1. x.inc \in Nat  BY DEF Read
<1>2. x.plen \in Nat  BY DEF Read
<1>3. x.cpu \in Cpus  BY DEF Read
<1>4. x.copied \in Nat  BY DEF Read
<1> QED  BY <1>1, <1>2, <1>3, <1>4

\* The types of what a CPU's ring is made of.
LEMMA RingTypes ==
  ASSUME TypeOK, NEW c \in Cpus
  PROVE  /\ size \in Nat /\ Free[c] \in Int /\ P[c] \in Int /\ C[c] \in Int
         /\ produced[c] \in Int /\ consumed[c] \in Int
         /\ InUse(c) \in Int /\ Unfreed(c) \in Nat /\ Used(c) \in Int
         /\ OldestAt(c) \in Int /\ Base(c) \in Int
         /\ tap[c] \in Tap /\ tap[c].inc \in Nat /\ tap[c].len \in Nat
         /\ tap[c].pkt \in Nat /\ tap[c].filter \in Nat
         /\ transfer[c] \in Transfer /\ transfer[c].inc \in Int
         /\ Unpublished(c) \in Int
         /\ rd \in Read /\ rd.inc \in Nat /\ rd.plen \in Nat /\ rd.cpu \in Cpus
         /\ stored[c] \in Seq(Stored)
         /\ buffer[c] \in [0 .. size - 1 -> Cell]
<1>1. /\ size \in Nat /\ Free[c] \in Int /\ P[c] \in Int /\ C[c] \in Int
      /\ produced[c] \in Int /\ consumed[c] \in Int
      /\ tap[c] \in Tap /\ transfer[c] \in Transfer /\ rd \in Read
      /\ stored[c] \in Seq(Stored)
      /\ buffer[c] \in [0 .. size - 1 -> Cell]
  BY DEF TypeOK
<1>2. /\ tap[c].inc \in Nat /\ tap[c].len \in Nat /\ tap[c].pkt \in Nat
      /\ tap[c].filter \in Nat /\ transfer[c].inc \in Int
      /\ rd.inc \in Nat /\ rd.plen \in Nat /\ rd.cpu \in Cpus
  <2>1. /\ tap[c].inc \in Nat /\ tap[c].len \in Nat /\ tap[c].pkt \in Nat
        /\ tap[c].filter \in Nat
    BY <1>1 DEF Tap
  <2>2. transfer[c].inc \in Int  BY <1>1 DEF Transfer
  <2>3. rd.inc \in Nat /\ rd.plen \in Nat /\ rd.cpu \in Cpus
    BY <1>1, ReadRecord
  <2> QED  BY <2>1, <2>2, <2>3
<1>3. InUse(c) \in Int /\ Unfreed(c) \in Nat  BY <1>1, <1>2 DEF InUse, Unfreed
<1>4. Used(c) \in Int  BY <1>3 DEF Used
<1>5. OldestAt(c) \in Int  BY <1>1, HdrSizeAssumption DEF OldestAt
<1>6. Base(c) \in Int  BY <1>1, <1>2, <1>5 DEF Base
<1>7. Unpublished(c) \in Int  BY <1>2 DEF Unpublished
<1> QED  BY <1>1, <1>2, <1>3, <1>4, <1>5, <1>6, <1>7

(* The bytes in hand become visible to the reader.                         *)
LEMMA PublishKeepsRing ==
  ASSUME TypeOK, NEW c \in Cpus, Ring(c), Packets(c),
         UNCHANGED <<size, buffer, P, C, rd, stored, produced, consumed>>,
         Free'[c] = Free[c] - Unpublished(c), Unpublished(c)' = 0
  PROVE  Ring(c)' /\ Packets(c)' /\ (HalfRead(c) => HalfRead(c)')
<1>1. /\ Unfreed(c)' = Unfreed(c) /\ OldestAt(c)' = OldestAt(c)
      /\ InUse(c)' = InUse(c) /\ Base(c)' = Base(c) /\ Used(c)' = Used(c)
  BY DEF Unfreed, OldestAt, InUse, Base, Used
<1>2. /\ size \in Nat /\ Free[c] \in Int /\ Used(c) \in Int /\ InUse(c) \in Int
      /\ Unpublished(c) \in Int
  BY RingTypes
<1>3. Free[c] - Unpublished(c) = size - Used(c) + 0
  BY <1>2 DEF Ring
<1>4. Ring(c)'
  BY <1>1, <1>2, <1>3 DEF Ring
<1>5. Packets(c)'
  BY <1>1 DEF Packets
<1>6. ASSUME HalfRead(c)  PROVE HalfRead(c)'
  <2> DEFINE cost == PacketCost(OldestAt(c), rd.plen, size)
  <2>1. /\ stored[c] # << >> /\ rd.plen = stored[c][1].len
        /\ C[c] = AfterHeader(OldestAt(c), size)
        /\ cost + Unpublished(c) <= InUse(c)
    BY <1>6 DEF HalfRead
  <2>2. OldestAt(c) \in Int /\ rd.plen \in Nat  BY RingTypes
  <2>3. cost \in Int
    BY <1>2, <2>2, HdrSizeAssumption DEF PacketCost, Increment, EndOfPacket,
       AfterData, AfterHeader, InTail
  <2>4. cost + 0 <= InUse(c)
    <3> HIDE DEF cost
    <3>1. Unpublished(c) >= 0  BY DEF Ring
    <3> QED  BY <1>2, <2>1, <2>3, <3>1
  <2> QED  BY <1>1, <2>1, <2>4 DEF HalfRead
<1> QED  BY <1>4, <1>5, <1>6

\* NPF_tap taking its bytes from Free preserves the invariant.
LEMMA TapPublishKeeps ==
  ASSUME IInv, NEW c \in Cpus, TapPublish(c)
  PROVE  IInv'
<1>1. /\ tap \in [Cpus -> Tap] /\ Free \in [Cpus -> Int] /\ tap[c] \in Tap
      /\ Free[c] \in Int /\ tap[c].inc \in Nat /\ TypeOK
  BY RingTypes DEF IInv, TypeOK
<1>2. /\ tap[c].pc = "publish" /\ tap'[c].pc = "signal"
      /\ \A d \in Cpus : d # c => tap'[d] = tap[d] /\ Free'[d] = Free[d]
      /\ Free'[c] = Free[c] - tap[c].inc
      /\ UNCHANGED <<size, buffer, P, C, lock, transfer, rd, io, historyVars>>
  BY <1>1 DEF TapPublish, Tap
<1>3. TypeOK'
  <2>1. \A x \in Tap : [x EXCEPT !.pc = "signal"] \in Tap  BY DEF Tap
  <2>2. tap' \in [Cpus -> Tap]  BY <1>1, <2>1 DEF TapPublish
  <2>3. Free' \in [Cpus -> Int]
    <3>1. Free[c] - tap[c].inc \in Int  BY <1>1
    <3> QED  BY <1>1, <3>1 DEF TapPublish
  <2> QED  BY <2>2, <2>3 DEF TapPublish, IInv, TypeOK, countVars, snVars,
                             configVars, historyVars
<1>4. transfer[c].pc = "none"
  BY <1>2 DEF IInv, LockOwners
<1>5. LockOwners' /\ Irps'
  BY <1>2 DEF IInv, LockOwners, Irps
<1>6. \A d \in Cpus : d # c => RingUntouched(d)
  BY <1>2 DEF RingUntouched, historyVars
<1>7. Unpublished(c) = tap[c].inc /\ Unpublished(c)' = 0
  BY <1>1, <1>2, <1>4 DEF Unpublished
<1>8. Ring(c) /\ Packets(c) /\ InHand(c)  BY DEF IInv
<1>9. Ring(c)' /\ Packets(c)' /\ (HalfRead(c) => HalfRead(c)')
  BY <1>1, <1>2, <1>7, <1>8, PublishKeepsRing DEF historyVars
<1>10. InHand(c)'
  BY <1>2, <1>4, <1>8, <1>9 DEF InHand
<1> QED  BY <1>3, <1>5, <1>6, <1>9, <1>10, RingUntouchedKeeps DEF IInv

\* NPF_TransferDataComplete taking its bytes from Free preserves the
\* invariant.
LEMMA TransferPublishKeeps ==
  ASSUME IInv, NEW c \in Cpus, TransferPublish(c)
  PROVE  IInv'
<1>1. /\ transfer \in [Cpus -> Transfer] /\ Free \in [Cpus -> Int]
      /\ transfer[c] \in Transfer /\ Free[c] \in Int /\ transfer[c].inc \in Int
      /\ TypeOK
  BY RingTypes DEF IInv, TypeOK
<1>2. /\ transfer[c].pc = "publish" /\ transfer'[c].pc = "signal"
      /\ \A d \in Cpus : d # c => transfer'[d] = transfer[d] /\ Free'[d] = Free[d]
      /\ Free'[c] = Free[c] - transfer[c].inc
      /\ UNCHANGED <<size, buffer, P, C, lock, tap, rd, io, historyVars>>
  BY <1>1 DEF TransferPublish, Transfer
<1>3. TypeOK'
  <2>1. \A x \in Transfer : [x EXCEPT !.pc = "signal"] \in Transfer  BY DEF Transfer
  <2>2. transfer' \in [Cpus -> Transfer]  BY <1>1, <2>1 DEF TransferPublish
  <2>3. Free' \in [Cpus -> Int]
    <3>1. Free[c] - transfer[c].inc \in Int  BY <1>1
    <3> QED  BY <1>1, <3>1 DEF TransferPublish
  <2> QED  BY <2>2, <2>3 DEF TransferPublish, IInv, TypeOK, countVars, snVars,
                             configVars, historyVars
<1>4. tap[c].pc # "publish"
  BY <1>2 DEF IInv, LockOwners
<1>5. LockOwners' /\ Irps'
  BY <1>2 DEF IInv, LockOwners, Irps
<1>6. \A d \in Cpus : d # c => RingUntouched(d)
  BY <1>2 DEF RingUntouched, historyVars
<1>7. Unpublished(c) = transfer[c].inc /\ Unpublished(c)' = 0
  BY <1>1, <1>2, <1>4 DEF Unpublished
<1>8. Ring(c) /\ Packets(c) /\ InHand(c)  BY DEF IInv
<1>9. Ring(c)' /\ Packets(c)' /\ (HalfRead(c) => HalfRead(c)')
  BY <1>1, <1>2, <1>7, <1>8, PublishKeepsRing DEF historyVars
<1>10. InHand(c)'
  BY <1>2, <1>4, <1>8, <1>9 DEF InHand
<1> QED  BY <1>3, <1>5, <1>6, <1>9, <1>10, RingUntouchedKeeps DEF IInv

-------------------------------------------------------------------------------
(* The reader gives the bytes of a packet back.                            *)
LEMMA ReadFreeKeeps ==
  ASSUME IInv, ReadFree, NEW c \in Cpus, c = rd.cpu
  PROVE  IInv'
<1>1. /\ TypeOK /\ rd \in Read /\ c \in Cpus /\ rd.inc \in Nat
      /\ Free \in [Cpus -> Int]
  BY ReadRecord DEF IInv, TypeOK
<1>2. /\ rd.pc = "free"
      /\ Free' = [Free EXCEPT ![c] = Free[c] + rd.inc]
      /\ UNCHANGED <<size, buffer, P, C, lock, countVars, snVars, readEvent,
                     configVars, tap, transfer, unfreeze, io, arrivals, historyVars>>
  BY DEF ReadFree
<1>3. rd' \in Read /\ rd'.pc = "scan" /\ rd'.cpu = c
  <2>1. 0 \in 0 .. NCpu  BY CaptureAssumption
  <2>2. \A x \in Read :
          [x EXCEPT !.pc = "scan", !.count = 0, !.inc = 0, !.plen = 0] \in Read
    <3>1. \A x \in Read : [x EXCEPT !.pc = "scan", !.count = 0] \in Read
      BY <2>1 DEF Read
    <3>2. \A x \in Read : [x EXCEPT !.inc = 0, !.plen = 0] \in Read
      BY DEF Read
    <3>3. \A x \in Read :
            [x EXCEPT !.pc = "scan", !.count = 0, !.inc = 0, !.plen = 0]
              = [[x EXCEPT !.pc = "scan", !.count = 0] EXCEPT !.inc = 0, !.plen = 0]
      OBVIOUS
    <3> QED  BY <3>1, <3>2, <3>3
  <2>3. \A x \in Read :
          LET y == [x EXCEPT !.pc = "scan", !.count = 0, !.inc = 0, !.plen = 0]
          IN  y.pc = "scan" /\ y.cpu = x.cpu
    BY DEF Read
  <2> QED  BY <1>1, <2>2, <2>3 DEF ReadFree
<1>4. c \in Cpus /\ Free[c] \in Int  BY <1>1
<1>5. /\ Free' \in [Cpus -> Int]
      /\ Free'[c] = Free[c] + rd.inc
      /\ \A d \in Cpus : d # c => Free'[d] = Free[d]
  <2>1. Free[c] + rd.inc \in Int  BY <1>1, <1>4
  <2> QED  BY <1>1, <1>2, <1>4, <2>1
<1>6. TypeOK'
  BY <1>1, <1>2, <1>3, <1>5 DEF TypeOK, countVars, snVars, configVars, historyVars
<1>7. LockOwners' /\ Irps'
  BY <1>2, <1>3 DEF IInv, LockOwners, Irps
<1>8. \A d \in Cpus : d # c => RingUntouched(d)
  BY <1>2, <1>3, <1>5 DEF RingUntouched, historyVars
<1>9. Ring(c) /\ Packets(c) /\ InHand(c)  BY <1>4 DEF IInv
<1>10. /\ OldestAt(c) = C[c] /\ OldestAt(c)' = C[c] /\ Base(c)' = C[c]
       /\ Unfreed(c) = rd.inc /\ Unfreed(c)' = 0
       /\ InUse(c)' = InUse(c) /\ Unpublished(c)' = Unpublished(c)
       /\ Used(c)' = InUse(c) + 0 /\ Used(c) = InUse(c) + rd.inc
  BY <1>2, <1>3 DEF OldestAt, Base, Unfreed, InUse, Unpublished, Used, historyVars
<1>11. Ring(c)'
  <2>1. /\ size \in Nat /\ InUse(c) \in Int /\ Unpublished(c) \in Int
        /\ C[c] \in Int /\ P[c] \in Int /\ rd.inc \in Nat
    BY <1>1, <1>4, RingTypes
  <2>2. /\ Free[c] + rd.inc = size - (InUse(c) + 0) + Unpublished(c)
        /\ InUse(c) >= 0 /\ InUse(c) + 0 <= size
        /\ C[c] \in {C[c] + 0, C[c] + 0 - size}
    BY <1>4, <1>9, <1>10, <2>1 DEF Ring
  <2> QED  BY <1>2, <1>5, <1>9, <1>10, <2>1, <2>2 DEF Ring
<1>12. Packets(c)'
  BY <1>2, <1>9, <1>10 DEF Packets, historyVars
<1>13. InHand(c)'
  <2>1. transfer[c].pc = "pending" => HalfTransferred(c, transfer[c])'
    <3> SUFFICES ASSUME transfer[c].pc = "pending"
                 PROVE  HalfTransferred(c, transfer[c])'
      OBVIOUS
    <3>1. HalfTransferred(c, transfer[c])  BY <1>9 DEF InHand
    <3>2. transfer[c].len \in Nat /\ HdrSize \in Nat
      BY <1>4, HdrSizeAssumption DEF IInv, TypeOK, Transfer
    <3>3. transfer[c].len + HdrSize <= Free[c] + rd.inc
      BY <1>1, <1>4, <3>1, <3>2 DEF HalfTransferred
    <3> QED  BY <1>2, <1>5, <3>1, <3>3 DEF HalfTransferred
  <2> QED  BY <1>2, <1>3, <1>9, <2>1 DEF InHand, LastTakes, historyVars
<1> QED  BY <1>6, <1>7, <1>8, <1>11, <1>12, <1>13, RingUntouchedKeeps DEF IInv

(* What Layout says of the oldest and of the newest packet.                *)
LEMMA LayoutEnds ==
  ASSUME NEW s \in Nat, NEW o \in HeaderPositions(s),
         NEW u0 \in Int, NEW u1 \in Int, u1 - u0 <= s,
         NEW st \in Seq(Stored), Layout(st, s, o, u0, u1), st # << >>
  PROVE  /\ st[1].at = u0 /\ st[1].len \in Nat /\ st[1] \in Stored
         /\ st[1].len + HdrSize <= s
         /\ PacketCost(o, st[1].len, s) \in Nat
         /\ u0 + PacketCost(o, st[1].len, s) <= u1
         /\ Len(st) > 1 => u0 + PacketCost(o, st[1].len, s) <= st[Len(st)].at
         /\ Len(st) \in Nat /\ Len(st) >= 1 /\ st[Len(st)].at \in Int
         /\ PositionIn(s, o, u0, st[1].at) = o
<1>1. Len(st) \in Nat /\ Len(st) >= 1  BY EmptySeq, LenProperties
<1>2. 1 \in 1 .. Len(st) /\ Len(st) \in 1 .. Len(st)  BY <1>1
<1>3. st[1] \in Stored /\ st[Len(st)] \in Stored  BY <1>2, ElementOfSeq
<1>4. st[1].len \in Nat /\ st[Len(st)].at \in Int  BY <1>3 DEF Stored
<1>5. st[1].at = u0 /\ st[1].at + st[1].len + HdrSize <= u1
  BY <1>2 DEF Layout
<1>6. st[1].len + HdrSize <= s  BY <1>4, <1>5, HdrSizeAssumption
<1>7. PositionIn(s, o, u0, st[1].at) = o
  BY <1>4, <1>5, <1>6, HdrSizeAssumption, SMTT(60) DEF PositionIn, At, HeaderPositions
<1>8. CostIn(s, o, u0, st[1]) = PacketCost(o, st[1].len, s)
  BY <1>7 DEF CostIn
<1>9. Len(st) > 1 => u0 + PacketCost(o, st[1].len, s) <= st[Len(st)].at
  BY <1>2, <1>5, <1>8 DEF Layout
<1>10. /\ PacketCost(o, st[1].len, s) \in Nat
       /\ u0 + PacketCost(o, st[1].len, s) <= u1
  BY <1>4, <1>6, LayoutTail
<1> QED  BY <1>1, <1>3, <1>4, <1>5, <1>6, <1>7, <1>9, <1>10

(* A packet the reader can see is published, and so is all that precedes   *)
(* what a producer has in hand.                                            *)
LEMMA VisibleIsPublished ==
  ASSUME IInv, NEW c \in Cpus, Free[c] < size, Unfreed(c) = 0
  PROVE  /\ stored[c] # << >>
         /\ PacketCost(OldestAt(c), stored[c][1].len, size) + Unpublished(c)
              <= InUse(c)
<1>1. /\ Ring(c) /\ Packets(c) /\ InHand(c) /\ TypeOK
  BY DEF IInv
<1>2. /\ size \in Nat /\ Free[c] \in Int /\ InUse(c) \in Int /\ Unpublished(c) \in Int
      /\ produced[c] \in Int /\ consumed[c] \in Int
      /\ InUse(c) = produced[c] - consumed[c]
      /\ stored[c] \in Seq(Stored)
      /\ tap[c].inc \in Nat /\ transfer[c].inc \in Int
  BY <1>1, RingTypes DEF InUse
<1>3. /\ Free[c] = size - InUse(c) + Unpublished(c)
      /\ Unpublished(c) >= 0 /\ InUse(c) >= 0 /\ InUse(c) <= size
  <2>1. Used(c) = InUse(c) /\ Used(c) <= size  BY <1>1, <1>2 DEF Used, Ring
  <2> QED  BY <1>1, <2>1 DEF Ring
<1>4. InUse(c) > Unpublished(c) /\ InUse(c) > 0 /\ size # 0
  BY <1>2, <1>3
<1>5. Layout(stored[c], size, OldestAt(c), consumed[c], produced[c])
      /\ OldestAt(c) \in HeaderPositions(size)
  BY <1>1, <1>4 DEF Packets, Ring
<1>6. stored[c] # << >>
  BY <1>2, <1>4, <1>5 DEF Layout
<1> DEFINE cost == PacketCost(OldestAt(c), stored[c][1].len, size)
           n == Len(stored[c])
<1>7. /\ cost \in Nat /\ consumed[c] + cost <= produced[c]
      /\ n > 1 => consumed[c] + cost <= stored[c][n].at
      /\ n \in Nat /\ n >= 1 /\ stored[c][n].at \in Int
      /\ stored[c][1].at = consumed[c]
  <2> DEFINE st == stored[c]
             o == OldestAt(c)
             u0 == consumed[c]
             u1 == produced[c]
  <2>1. u1 - u0 <= size  BY <1>2, <1>3
  <2>2. /\ st \in Seq(Stored) /\ st # << >> /\ o \in HeaderPositions(size)
        /\ u0 \in Int /\ u1 \in Int /\ Layout(st, size, o, u0, u1)
        /\ size \in Nat
    BY <1>2, <1>5, <1>6
  <2> HIDE DEF st, o, u0, u1
  <2>3. /\ st[1].at = u0
        /\ PacketCost(o, st[1].len, size) \in Nat
        /\ u0 + PacketCost(o, st[1].len, size) <= u1
        /\ Len(st) > 1 => u0 + PacketCost(o, st[1].len, size) <= st[Len(st)].at
        /\ Len(st) \in Nat /\ Len(st) >= 1 /\ st[Len(st)].at \in Int
    BY <2>1, <2>2, LayoutEnds, ZenonT(90)
  <2> QED  BY <2>3 DEF st, o, u0, u1
<1>8. Unpublished(c) # 0 => stored[c][n].at + Unpublished(c) = produced[c]
  <2>1. CASE tap[c].pc = "publish"
    <3>1. transfer[c].pc = "none"  BY <2>1 DEF IInv, LockOwners
    <3> QED  BY <1>1, <1>2, <2>1, <3>1 DEF InHand, LastTakes, Unpublished
  <2>2. CASE tap[c].pc # "publish" /\ transfer[c].pc = "publish"
    BY <1>1, <1>2, <2>2 DEF InHand, LastTakes, Unpublished
  <2>3. CASE tap[c].pc # "publish" /\ transfer[c].pc # "publish"
    BY <2>3 DEF Unpublished
  <2> QED  BY <2>1, <2>2, <2>3
<1>9. cost + Unpublished(c) <= InUse(c)
  <2> HIDE DEF cost, n
  <2>1. CASE Unpublished(c) = 0  BY <1>2, <1>7, <2>1
  <2>2. CASE Unpublished(c) # 0
    <3>1. n # 1  BY <1>2, <1>4, <1>7, <1>8, <2>2
    <3>2. consumed[c] + cost <= stored[c][n].at  BY <1>7, <3>1
    <3>3. stored[c][n].at = produced[c] - Unpublished(c)  BY <1>2, <1>7, <1>8, <2>2, SMTT(60)
    <3> QED  BY <1>2, <1>7, <3>2, <3>3
  <2> QED  BY <2>1, <2>2
<1> QED  BY <1>6, <1>9

(* What the reader looks at in a buffer that is not empty: the header of   *)
(* the oldest packet.                                                      *)
LEMMA OldestAtC ==
  ASSUME IInv, NEW c \in Cpus, c = rd.cpu, rd.pc = "scan", Free[c] < size
  PROVE  /\ size # 0 /\ Unfreed(c) = 0 /\ OldestAt(c) = C[c] /\ Base(c) = C[c]
         /\ C[c] \in HeaderPositions(size)
         /\ stored[c] # << >>
         /\ PacketCost(C[c], stored[c][1].len, size) + Unpublished(c) <= InUse(c)
         /\ buffer[c][C[c]] = Header(stored[c][1].sn, stored[c][1].len, 0)
         /\ stored[c][1].len \in Nat
<1> DEFINE st == stored[c]
<1>1. /\ TypeOK /\ Ring(c) /\ Packets(c)
      /\ size \in Nat /\ C[c] \in Int
  BY RingTypes DEF IInv
<1>3. size # 0 /\ Unfreed(c) = 0 /\ OldestAt(c) = C[c] /\ Base(c) = C[c]
  BY DEF IInv, Irps, Unfreed, OldestAt, Base
<1>4. C[c] \in HeaderPositions(size)
  BY <1>1, <1>3 DEF Ring
<1>5. /\ st # << >>
      /\ PacketCost(C[c], st[1].len, size) + Unpublished(c) <= InUse(c)
  BY <1>3, VisibleIsPublished
<1>6. buffer[c][C[c]] = Header(st[1].sn, st[1].len, 0) /\ st[1].len \in Nat
  <2>1. /\ produced[c] \in Int /\ consumed[c] \in Int /\ st \in Seq(Stored)
        /\ InUse(c) = produced[c] - consumed[c] /\ InUse(c) <= size
        /\ InUse(c) \in Int
    <3>1. Used(c) <= size /\ Used(c) = InUse(c) + 0 /\ InUse(c) \in Int
      BY <1>1, <1>3, RingTypes DEF Ring, Used
    <3> QED  BY <1>1, <3>1, RingTypes DEF InUse
  <2>2. /\ Layout(st, size, C[c], consumed[c], produced[c])
        /\ Contents(buffer[c], st, size, C[c], consumed[c])
    BY <1>1, <1>3 DEF Packets
  <2>3. /\ PositionIn(size, C[c], consumed[c], st[1].at) = C[c]
        /\ 1 \in 1 .. Len(st) /\ st[1].len \in Nat
    BY <1>1, <1>4, <1>5, <2>1, <2>2, LayoutEnds, SMTT(60)
  <2>4. 0 \in 0 .. HdrSize + st[1].len - 1 /\ 0 < HdrSize
    BY <2>3, HdrSizeAssumption
  <2>5. buffer[c][At(C[c], 0, size)] = CellOf(st[1], 0)
    BY <2>2, <2>3, <2>4 DEF Contents
  <2>6. At(C[c], 0, size) = C[c]
    BY <1>1, <1>4, HdrSizeAssumption DEF At, HeaderPositions
  <2> QED  BY <2>3, <2>4, <2>5, <2>6 DEF CellOf
<1> QED  BY <1>3, <1>4, <1>5, <1>6

\* NPF_Read moving C past a PacketHeader preserves the invariant.
LEMMA ReadHeaderKeeps ==
  ASSUME IInv, ReadHeader, NEW c \in Cpus, c = rd.cpu
  PROVE  IInv'
<1> DEFINE st == stored[c]
<1>1. /\ TypeOK /\ rd \in Read /\ Ring(c) /\ Packets(c) /\ InHand(c)
      /\ size \in Nat /\ C[c] \in Int /\ C \in [Cpus -> Int]
      /\ rd.copied \in Nat
  BY RingTypes, ReadRecord DEF IInv, TypeOK
<1>2. /\ rd.pc = "scan" /\ Free[c] < size
      /\ rd' = [rd EXCEPT !.pc = "copy", !.plen = buffer[c][C[c]].len,
                          !.copied = rd.copied + BpfHdrSize]
      /\ C' = [C EXCEPT ![c] = AfterHeader(C[c], size)]
      /\ UNCHANGED <<size, buffer, P, Free, lock, countVars, snVars, readEvent,
                     configVars, tap, transfer, unfreeze, io, arrivals, historyVars>>
  BY DEF ReadHeader, Scanning, NextIsHere, HeaderAtC
<1>3. /\ size # 0 /\ Unfreed(c) = 0 /\ OldestAt(c) = C[c] /\ Base(c) = C[c]
      /\ C[c] \in HeaderPositions(size)
      /\ st # << >>
      /\ PacketCost(C[c], st[1].len, size) + Unpublished(c) <= InUse(c)
      /\ buffer[c][C[c]] = Header(st[1].sn, st[1].len, 0) /\ st[1].len \in Nat
  BY <1>2, OldestAtC
<1>4. C[c] \in HeaderPositions(size)  BY <1>3
<1>5. /\ st # << >>
      /\ PacketCost(C[c], st[1].len, size) + Unpublished(c) <= InUse(c)
  BY <1>3
<1>6. buffer[c][C[c]].len = st[1].len /\ st[1].len \in Nat
  BY <1>3 DEF Header
<1>7. rd' \in Read /\ rd'.pc = "copy" /\ rd'.cpu = c /\ rd'.plen = st[1].len
  <2>1. rd.copied + BpfHdrSize \in Nat  BY <1>1, CaptureAssumption
  <2>2. \A x \in Read, l, n \in Nat :
          [x EXCEPT !.pc = "copy", !.plen = l, !.copied = n] \in Read
    BY DEF Read
  <2>3. \A x \in Read, l, n \in Nat :
          LET y == [x EXCEPT !.pc = "copy", !.plen = l, !.copied = n]
          IN  y.pc = "copy" /\ y.cpu = x.cpu /\ y.plen = l
    BY DEF Read
  <2> DEFINE l == st[1].len
             m == rd.copied + BpfHdrSize
  <2>4. rd' = [rd EXCEPT !.pc = "copy", !.plen = l, !.copied = m]
    BY <1>2, <1>6
  <2>5. l \in Nat /\ m \in Nat  BY <1>6, <2>1
  <2> HIDE DEF l, m
  <2>6. rd' \in Read  BY <1>1, <2>2, <2>4, <2>5
  <2>7. rd'.pc = "copy" /\ rd'.cpu = rd.cpu /\ rd'.plen = l
    BY <1>1, <2>3, <2>4, <2>5
  <2> QED  BY <2>6, <2>7 DEF l
<1>8. /\ C' \in [Cpus -> Int] /\ C'[c] = AfterHeader(C[c], size)
      /\ \A d \in Cpus : d # c => C'[d] = C[d]
  <2>1. AfterHeader(C[c], size) \in Int
    BY <1>1, HdrSizeAssumption DEF AfterHeader
  <2> QED  BY <1>1, <1>2, <2>1
<1>9. TypeOK'
  BY <1>1, <1>2, <1>7, <1>8 DEF TypeOK, countVars, snVars, configVars, historyVars
<1>10. LockOwners' /\ Irps'
  <2>1. io.pc = "idle"  BY <1>2 DEF IInv, Irps
  <2> QED  BY <1>2, <1>3, <2>1 DEF IInv, LockOwners, Irps
<1>11. \A d \in Cpus : d # c => RingUntouched(d)
  BY <1>2, <1>7, <1>8 DEF RingUntouched, historyVars
<1>12. /\ OldestAt(c)' = C[c] /\ Base(c)' = C[c] /\ Unfreed(c)' = 0
       /\ InUse(c)' = InUse(c) /\ Unpublished(c)' = Unpublished(c)
       /\ Used(c)' = Used(c)
  <2>1. OldestAt(c)' = IF AfterHeader(C[c], size) = 0 THEN size - HdrSize
                       ELSE AfterHeader(C[c], size) - HdrSize
    BY <1>2, <1>7, <1>8 DEF OldestAt
  <2>2. OldestAt(c)' = C[c]
    BY <1>1, <1>4, <2>1, HdrSizeAssumption DEF AfterHeader, HeaderPositions
  <2>3. Base(c)' = C[c] /\ Unfreed(c)' = 0  BY <1>7, <2>2 DEF Base, Unfreed
  <2>4. InUse(c)' = InUse(c) /\ Unpublished(c)' = Unpublished(c)
    BY <1>2 DEF InUse, Unpublished, historyVars
  <2> QED  BY <1>3, <2>2, <2>3, <2>4 DEF Used
<1>13. Ring(c)'
  BY <1>1, <1>2, <1>3, <1>4, <1>12 DEF Ring
<1>14. Packets(c)'
  BY <1>1, <1>2, <1>3, <1>12 DEF Packets, historyVars
<1>15. InHand(c)'
  <2>1. HalfRead(c)'
    BY <1>2, <1>5, <1>7, <1>8, <1>12 DEF HalfRead, historyVars
  <2> QED  BY <1>1, <1>2, <2>1 DEF InHand, LastTakes, HalfTransferred, historyVars
<1> QED  BY <1>9, <1>10, <1>11, <1>13, <1>14, <1>15, RingUntouchedKeeps DEF IInv

(* The reader copies the bytes of the oldest packet and moves C past it.   *)
LEMMA OldestLeaves ==
  ASSUME NEW s \in Nat, NEW o \in HeaderPositions(s), NEW cost \in Nat,
         NEW o2 \in HeaderPositions(s), o2 \in {o + cost, o + cost - s},
         NEW used \in Int, used <= s, cost <= used,
         NEW p \in HeaderPositions(s), p \in {o + used, o + used - s}
  PROVE  /\ (IF o2 >= cost THEN o2 - cost ELSE o2 - cost + s) = o
         /\ p \in {o2 + (used - cost), o2 + (used - cost) - s}
  BY HdrSizeAssumption DEF HeaderPositions

\* The bytes read round the ring are the cells of the buffer.
LEMMA BytesRead ==
  ASSUME NEW s \in Nat, size = s, NEW p \in 0 .. s - 1, NEW n \in Nat, n <= s,
         NEW b \in [0 .. s - 1 -> Cell]
  PROVE  Bytes(b, p, n) \in Seq(Cell)
<1>1. \A k \in 1 .. n : At(p, k - 1, s) \in 0 .. s - 1
  BY DEF At
<1>2. \A k \in 1 .. n : b[At(p, k - 1, s)] \in Cell
  BY <1>1
<1>3. Bytes(b, p, n) = [k \in 1 .. n |-> b[At(p, k - 1, s)]]
  BY DEF Bytes
<1>4. Bytes(b, p, n) \in [1 .. n -> Cell]
  BY <1>2, <1>3
<1> QED  BY <1>4

(* What a producer has in hand is not the packet that leaves.              *)
LEMMA NewestStays ==
  ASSUME NEW st \in Seq(Stored), st # << >>, NEW u0 \in Int, NEW u1 \in Int,
         st[1].at = u0, NEW cost \in Nat, cost > 0, NEW inc \in Int,
         cost + inc <= u1 - u0, st[Len(st)].at + inc = u1
  PROVE  /\ Tail(st) # << >>
         /\ Tail(st)[Len(Tail(st))] = st[Len(st)]
<1> DEFINE t == Tail(st)
           n == Len(st)
<1>1. n \in Nat /\ n >= 1  BY EmptySeq, LenProperties
<1>2. n # 1
  <2> SUFFICES ASSUME n = 1  PROVE FALSE
    OBVIOUS
  <2>1. u0 + inc = u1  OBVIOUS
  <2> QED  BY <2>1
<1>3. t \in Seq(Stored) /\ Len(t) = n - 1 /\ \A i \in 1 .. n - 1 : t[i] = st[i + 1]
  BY HeadTailProperties
<1>4. Len(t) \in 1 .. n - 1 /\ Len(t) + 1 = n  BY <1>1, <1>2, <1>3
<1>5. t[Len(t)] = st[n]  BY <1>3, <1>4
<1>6. t # << >>  BY <1>4
<1> QED  BY <1>5, <1>6

\* A length rounded up to a word is a length.
LEMMA WordAligned ==
  ASSUME NEW n \in Nat
  PROVE  Packet_WORDALIGN(n) \in Nat
  BY CaptureAssumption DEF Packet_WORDALIGN

\* NPF_Read copying a packet and moving C past it preserves the invariant.
LEMMA ReadDataKeeps ==
  ASSUME IInv, ReadData, NEW c \in Cpus, c = rd.cpu
  PROVE  IInv'
<1> DEFINE st == stored[c]
           o == OldestAt(c)
           n == rd.plen
           cost == PacketCost(o, n, size)
           o2 == NextPacket(o, n, size)
           u0 == consumed[c]
           u1 == produced[c]
<1>1. /\ TypeOK /\ Ring(c) /\ Packets(c) /\ InHand(c) /\ LockOwners /\ Irps
      /\ rd \in Read /\ size \in Nat /\ u0 \in Int /\ u1 \in Int
      /\ st \in Seq(Stored) /\ Unpublished(c) \in Int /\ InUse(c) = u1 - u0
      /\ n \in Nat /\ rd.copied \in Nat /\ rd.pc = "copy"
      /\ buffer[c] \in [0 .. size - 1 -> Cell]
  BY RingTypes, ReadRecord DEF IInv, InUse, ReadData
<1>2. /\ size # 0 /\ o \in HeaderPositions(size) /\ P[c] \in HeaderPositions(size)
      /\ Base(c) = o /\ Unfreed(c) = 0 /\ Used(c) = u1 - u0 /\ u1 - u0 <= size
      /\ Unpublished(c) >= 0
      /\ P[c] \in {o + (u1 - u0), o + (u1 - u0) - size}
      /\ Free[c] = size - (u1 - u0) + Unpublished(c)
  <2>1. size # 0  BY <1>1 DEF Irps
  <2>2. Base(c) = o /\ Unfreed(c) = 0  BY <1>1 DEF Base, Unfreed
  <2>3. Used(c) = u1 - u0  BY <1>1, <2>2 DEF Used
  <2> QED  BY <1>1, <2>1, <2>2, <2>3 DEF Ring
<1>3. /\ st # << >> /\ n = st[1].len /\ C[c] = AfterHeader(o, size)
      /\ cost + Unpublished(c) <= u1 - u0
  BY <1>1 DEF InHand, HalfRead
<1>4. /\ Layout(st, size, o, u0, u1)
      /\ Contents(buffer[c], st, size, o, u0)
  BY <1>1 DEF Packets
<1>5. EndOfPacket(o, n, size) = AfterData(C[c], n, size)
      /\ cost = ConsumedBytes(AfterData(C[c], n, size), n)
      /\ o2 = SkipTail(AfterData(C[c], n, size), size)
  BY <1>3 DEF EndOfPacket, PacketCost, NextPacket, ConsumedBytes
<1>6. /\ delivered' = Append(delivered, Bytes(buffer[c], C[c], n))
      /\ C' = [C EXCEPT ![c] = o2]
      /\ rd' = [rd EXCEPT !.pc = "free", !.inc = cost,
                          !.copied = rd.copied + Packet_WORDALIGN(n)]
      /\ consumed' = [consumed EXCEPT ![c] = u0 + cost]
      /\ stored' = [stored EXCEPT ![c] = Tail(st)]
      /\ ReaderSN' = ReaderSN + 1
      /\ UNCHANGED <<size, buffer, P, Free, lock, countVars, WriterSN, readEvent,
                     configVars, tap, transfer, unfreeze, io, arrivals, captured,
                     produced>>
  BY <1>5 DEF ReadData
<1> HIDE DEF cost, o2, o, n, st, u0, u1
<1>7. /\ cost \in Nat /\ o2 \in HeaderPositions(size) /\ n + HdrSize <= cost
      /\ o2 \in {o + cost, o + cost - size} /\ u0 + cost <= u1
      /\ Layout(Tail(st), size, o2, u0 + cost, u1)
      /\ Contents(buffer[c], Tail(st), size, o2, u0 + cost)
      /\ st[1].at = u0
  <2>1. /\ cost = PacketCost(o, st[1].len, size)
        /\ o2 = NextPacket(o, st[1].len, size)
    BY <1>3 DEF cost, o2
  <2>2. /\ cost \in Nat /\ o2 \in HeaderPositions(size)
        /\ st[1].len + HdrSize <= cost
        /\ o2 \in {o + cost, o + cost - size} /\ u0 + cost <= u1
        /\ Layout(Tail(st), size, o2, u0 + cost, u1)
        /\ \A i \in 1 .. Len(Tail(st)) :
             PositionIn(size, o2, u0 + cost, Tail(st)[i].at)
               = PositionIn(size, o, u0, st[i + 1].at)
    BY <1>1, <1>2, <1>3, <1>4, <2>1, LayoutTail, SMTT(60)
  <2>3. Contents(buffer[c], Tail(st), size, o2, u0 + cost)
    BY <1>1, <1>3, <1>4, <2>2, ContentsTail
  <2>4. st[1].at = u0  BY <1>3, <1>4 DEF Layout
  <2> QED  BY <1>3, <2>2, <2>3, <2>4
<1>8. rd' \in Read /\ rd'.pc = "free" /\ rd'.cpu = c /\ rd'.inc = cost
  <2> DEFINE m == rd.copied + Packet_WORDALIGN(n)
  <2>0. Packet_WORDALIGN(n) \in Nat  BY <1>1, WordAligned
  <2>1. m \in Nat  BY <1>1, <2>0
  <2>2. \A x \in Read, l, k \in Nat :
          [x EXCEPT !.pc = "free", !.inc = l, !.copied = k] \in Read
    BY DEF Read
  <2>3. \A x \in Read, l, k \in Nat :
          LET y == [x EXCEPT !.pc = "free", !.inc = l, !.copied = k]
          IN  y.pc = "free" /\ y.cpu = x.cpu /\ y.inc = l
    BY DEF Read
  <2>4. rd' = [rd EXCEPT !.pc = "free", !.inc = cost, !.copied = m]  BY <1>6
  <2> HIDE DEF m
  <2>5. rd' \in Read  BY <1>1, <1>7, <2>1, <2>2, <2>4
  <2>6. rd'.pc = "free" /\ rd'.cpu = rd.cpu /\ rd'.inc = cost
    BY <1>1, <1>7, <2>1, <2>3, <2>4
  <2> QED  BY <2>5, <2>6
<1>9. /\ C'[c] = o2 /\ consumed'[c] = u0 + cost /\ stored'[c] = Tail(st)
      /\ \A d \in Cpus : d # c => /\ C'[d] = C[d] /\ consumed'[d] = consumed[d]
                                  /\ stored'[d] = stored[d]
      /\ C' \in [Cpus -> Int] /\ consumed' \in [Cpus -> Int]
      /\ stored' \in [Cpus -> Seq(Stored)]
  <2>1. /\ C \in [Cpus -> Int] /\ consumed \in [Cpus -> Int]
        /\ stored \in [Cpus -> Seq(Stored)]
    BY <1>1 DEF TypeOK
  <2>2. o2 \in Int /\ u0 + cost \in Int
    BY <1>1, <1>7, HdrSizeAssumption DEF HeaderPositions
  <2>3. Tail(st) \in Seq(Stored)  BY <1>1, <1>3, HeadTailProperties
  <2> QED  BY <1>6, <2>1, <2>2, <2>3
<1>10. TypeOK'
  <2>1. Bytes(buffer[c], C[c], n) \in Seq(Cell)
    <3>1. n <= size /\ C[c] \in 0 .. size - 1
      <4>1. \A w \in Int : n + HdrSize <= cost /\ cost <= w /\ w <= size
                           => n <= size /\ HdrSize <= size
        BY <1>1, <1>7, HdrSizeAssumption
      <4>2. cost <= u1 - u0 /\ u1 - u0 \in Int  BY <1>1, <1>7
      <4>3. n <= size /\ HdrSize <= size  BY <1>2, <1>7, <4>1, <4>2
      <4>4. AfterHeader(o, size) \in 0 .. size - 1
        <5>1. size \in Nat /\ o \in 0 .. size - HdrSize
          BY <1>1, <1>2 DEF HeaderPositions
        <5> QED  BY <5>1, <4>3, HdrSizeAssumption DEF AfterHeader
      <4> QED  BY <1>3, <4>3, <4>4
    <3> QED  BY <1>1, <3>1, BytesRead
  <2>2. delivered' \in Seq(Seq(Cell))
    <3>1. delivered \in Seq(Seq(Cell))  BY <1>1 DEF TypeOK
    <3> QED  BY <1>6, <2>1, <3>1, AppendProperties
  <2>3. ReaderSN' \in Nat
    <3>1. ReaderSN \in Nat  BY <1>1 DEF TypeOK
    <3> QED  BY <1>6, <3>1
  <2> QED  BY <1>1, <1>6, <1>8, <1>9, <2>2, <2>3 DEF TypeOK, countVars, configVars
<1>11. LockOwners' /\ Irps'
  <2>1. io.pc = "idle"  BY <1>1 DEF Irps
  <2> QED  BY <1>1, <1>2, <1>6, <1>8, <2>1 DEF LockOwners, Irps
<1>12. \A d \in Cpus : d # c => RingUntouched(d)
  BY <1>1, <1>6, <1>8, <1>9 DEF RingUntouched
<1>13. /\ (IF o2 >= cost THEN o2 - cost ELSE o2 - cost + size) = o
       /\ P[c] \in {o2 + (u1 - u0 - cost), o2 + (u1 - u0 - cost) - size}
  <2> DEFINE used == u1 - u0
  <2>1. used \in Int /\ cost <= used  BY <1>1, <1>7
  <2>2. used <= size /\ P[c] \in {o + used, o + used - size}  BY <1>2
  <2> HIDE DEF used
  <2>3. /\ (IF o2 >= cost THEN o2 - cost ELSE o2 - cost + size) = o
        /\ P[c] \in {o2 + (used - cost), o2 + (used - cost) - size}
    <3>1. /\ size \in Nat /\ o \in HeaderPositions(size)
          /\ P[c] \in HeaderPositions(size)
          /\ o2 \in HeaderPositions(size) /\ cost \in Nat
          /\ o2 \in {o + cost, o + cost - size}
      BY <1>1, <1>2, <1>7
    <3> QED  BY <3>1, <2>1, <2>2, OldestLeaves, ZenonT(90)
  <2> QED  BY <2>3 DEF used
<1>14. /\ OldestAt(c)' = o2 /\ Base(c)' = o /\ Unfreed(c)' = cost
       /\ InUse(c)' = u1 - u0 - cost /\ Unpublished(c)' = Unpublished(c)
       /\ Used(c)' = u1 - u0
  <2>1. OldestAt(c)' = o2  BY <1>8, <1>9 DEF OldestAt
  <2>2. Base(c)' = o  BY <1>6, <1>8, <1>9, <1>13 DEF Base
  <2>3. Unfreed(c)' = cost  BY <1>8 DEF Unfreed
  <2>4. InUse(c)' = u1 - (u0 + cost)  BY <1>6, <1>9 DEF InUse, u1
  <2>5. InUse(c)' = u1 - u0 - cost  BY <1>1, <1>7, <2>4
  <2>6. Unpublished(c)' = Unpublished(c)  BY <1>6 DEF Unpublished
  <2>7. Used(c)' = u1 - u0  BY <1>1, <1>7, <2>3, <2>5 DEF Used
  <2> QED  BY <2>1, <2>2, <2>3, <2>5, <2>6, <2>7
<1>15. Ring(c)'
  <2>1. /\ Free[c] = size - (u1 - u0) + Unpublished(c)
        /\ u1 - u0 - cost >= 0 /\ cost >= 0 /\ u1 - u0 <= size
        /\ Unpublished(c) >= 0 /\ Unpublished(c) <= u1 - u0 - cost
        /\ o2 \in {o + cost, o + cost - size}
    BY <1>1, <1>2, <1>3, <1>7
  <2> QED  BY <1>2, <1>6, <1>7, <1>13, <1>14, <2>1 DEF Ring
<1>16. Packets(c)'
  BY <1>6, <1>7, <1>9, <1>14 DEF Packets, u1
<1>17. ASSUME NEW inc \in Int, inc = Unpublished(c), LastTakes(c, inc)
       PROVE  LastTakes(c, inc)'
  <2>1. st[Len(st)].at + inc = u1  BY <1>17 DEF LastTakes, st, u1
  <2>2. cost > 0 /\ cost + inc <= u1 - u0
    BY <1>1, <1>3, <1>7, <1>17, HdrSizeAssumption
  <2>3. Tail(st) # << >> /\ Tail(st)[Len(Tail(st))] = st[Len(st)]
    BY <1>1, <1>3, <1>7, <2>1, <2>2, NewestStays
  <2> QED  BY <1>6, <1>9, <2>1, <2>3 DEF LastTakes, u1
<1>18. InHand(c)'
  <2>1. tap'[c].pc = "publish" => LastTakes(c, tap[c].inc)'
    <3> SUFFICES ASSUME tap[c].pc = "publish"  PROVE LastTakes(c, tap[c].inc)'
      BY <1>6
    <3>1. transfer[c].pc = "none"  BY <1>1 DEF LockOwners
    <3>2. tap[c].inc \in Nat  BY <1>1, RingTypes
    <3>3. tap[c].inc = Unpublished(c) /\ LastTakes(c, tap[c].inc)
      BY <1>1, <3>1, <3>2 DEF Unpublished, InHand
    <3>4. tap[c].inc \in Int  BY <3>2
    <3> QED  BY <1>6, <1>17, <3>3, <3>4 DEF LastTakes
  <2>2. transfer'[c].pc = "publish" => LastTakes(c, transfer[c].inc)'
    <3> SUFFICES ASSUME transfer[c].pc = "publish"
                 PROVE  LastTakes(c, transfer[c].inc)'
      BY <1>6
    <3>1. tap[c].pc # "publish"  BY <1>1 DEF LockOwners
    <3>2. transfer[c].inc \in Int  BY <1>1, RingTypes
    <3>3. transfer[c].inc = Unpublished(c) /\ LastTakes(c, transfer[c].inc)
      BY <1>1, <3>1, <3>2 DEF Unpublished, InHand
    <3> QED  BY <1>6, <1>17, <3>2, <3>3 DEF LastTakes
  <2>3. transfer'[c].pc = "pending" => HalfTransferred(c, transfer[c])'
    BY <1>1, <1>6 DEF InHand, HalfTransferred
  <2> QED  BY <1>6, <1>8, <2>1, <2>2, <2>3 DEF InHand, LastTakes
<1> QED  BY <1>10, <1>11, <1>12, <1>15, <1>16, <1>18, RingUntouchedKeeps DEF IInv

-------------------------------------------------------------------------------
(* Where the producer is, and that a packet that fits in Free fits there.  *)
LEMMA FitsAhead ==
  ASSUME NEW s \in Nat, NEW base \in HeaderPositions(s), NEW unfreed \in Nat,
         NEW o \in HeaderPositions(s), o \in {base + unfreed, base + unfreed - s},
         NEW u \in Nat, u + unfreed <= s,
         NEW p \in HeaderPositions(s), p \in {o + u, o + u - s},
         NEW n \in Nat, n + HdrSize <= s - (u + unfreed)
  PROVE  /\ p = At(o, u, s) /\ u + n + HdrSize <= s
         /\ u + unfreed + PacketCost(p, n, s) <= s
         /\ NextPacket(p, n, s) \in {o + (u + PacketCost(p, n, s)),
                                     o + (u + PacketCost(p, n, s)) - s}
         /\ NextPacket(p, n, s) \in HeaderPositions(s)
         /\ PacketCost(p, n, s) \in Nat
<1> DEFINE cost == PacketCost(p, n, s)
           next == NextPacket(p, n, s)
<1>1. n + HdrSize <= s  BY HdrSizeAssumption
<1>2. /\ cost \in Nat /\ next \in HeaderPositions(s)
      /\ next \in {p + cost, p + cost - s}
  BY <1>1, PacketBounds, NextIsCostAhead
<1>3. u + unfreed + cost <= s
  <2>1. u + unfreed \in 0 .. s  OBVIOUS
  <2>2. p \in {base + (u + unfreed), base + (u + unfreed) - s}
    BY HdrSizeAssumption DEF HeaderPositions
  <2>3. u + unfreed + n + HdrSize <= s  BY HdrSizeAssumption
  <2> QED  BY <2>1, <2>2, <2>3, TailFits
<1> HIDE DEF cost, next
<1>4. p = At(o, u, s)  BY HdrSizeAssumption DEF HeaderPositions, At
<1>5. u + n + HdrSize <= s  BY HdrSizeAssumption
<1>6. next \in {o + (u + cost), o + (u + cost) - s}
  BY <1>2, <1>3, HdrSizeAssumption DEF HeaderPositions
<1> QED  BY <1>2, <1>3, <1>4, <1>5, <1>6 DEF cost, next

(* The record a completed packet leaves in stored.                         *)
RecordOf(c, t) == [sn |-> WriterSN, pkt |-> t.pkt, len |-> t.len,
                   filter |-> t.filter, at |-> produced[c]]

(* The packet t is written where the free part of the ring of c starts:    *)
(* b2 is b with the packet in it.                                          *)
WrittenAt(b2, b, p, r) ==
  /\ \A q \in 0 .. size - 1 :
       Ahead(p, q, size) >= HdrSize + r.len => b2[q] = b[q]
  /\ \A q \in 0 .. size - 1 :
       Ahead(p, q, size) < HdrSize + r.len
         => (Ahead(p, q, size) < HdrSize \/ TransfersSucceed
               => b2[q] = CellOf(r, Ahead(p, q, size)))

\* What a packet costs is a number.
LEMMA CostIsInt ==
  ASSUME NEW s \in Int, NEW p \in Int, NEW n \in Int
  PROVE  PacketCost(p, n, s) \in Int
  BY HdrSizeAssumption DEF PacketCost, Increment, EndOfPacket, AfterData,
     AfterHeader, InTail

\* Storing a packet that fits keeps the accounting of the ring and the
\* layout of the packets in it.
LEMMA CompleteKeepsRing ==
  ASSUME TypeOK, NEW c \in Cpus, Ring(c), Packets(c), Unpublished(c) = 0,
         NEW t, t.pkt \in Nat, t.len \in Nat, t.filter \in Nat,
         t.len + HdrSize <= Free[c],
         Complete(c, t, EndOfPacket(P[c], t.len, size)),
         NEW cost, cost = PacketCost(P[c], t.len, size),
         Unpublished(c)' = cost,
         WrittenAt(buffer'[c], buffer[c], P[c], RecordOf(c, t))
  PROVE  /\ Ring(c)' /\ Packets(c)' /\ (HalfRead(c) => HalfRead(c)')
         /\ LastTakes(c, cost)'
<1> DEFINE st == stored[c]
           r == RecordOf(c, t)
           o == OldestAt(c)
           u0 == consumed[c]
           u1 == produced[c]
           next == NextPacket(P[c], t.len, size)
<1>1. /\ size \in Nat /\ Free[c] \in Int /\ u0 \in Int /\ u1 \in Int
      /\ InUse(c) = u1 - u0 /\ InUse(c) \in Int /\ Unfreed(c) \in Nat
      /\ Used(c) = InUse(c) + Unfreed(c) /\ st \in Seq(Stored)
  BY RingTypes DEF InUse, Used
<1>2. /\ Free[c] = size - Used(c) /\ InUse(c) \in Nat /\ u1 - u0 \in Nat
      /\ InUse(c) + Unfreed(c) <= size /\ size # 0
      /\ t.len + HdrSize <= size - (InUse(c) + Unfreed(c))
  <2>1. Free[c] = size - Used(c) + 0 /\ InUse(c) >= 0 /\ Used(c) <= size
    BY DEF Ring
  <2>2. /\ Free[c] = size - Used(c) /\ InUse(c) \in Nat
        /\ InUse(c) + Unfreed(c) <= size
    BY <2>1, <1>1
  <2>3. t.len + HdrSize <= size - (InUse(c) + Unfreed(c))
    BY <2>2, <1>1
  <2>4. size # 0
    <3>1. \A l, i, f \in Nat : l + HdrSize <= size - (i + f) => size # 0
      <4>1. size \in Nat  BY <1>1
      <4> QED  BY <4>1, HdrSizeAssumption
    <3>2. InUse(c) \in Nat /\ Unfreed(c) \in Nat  BY <1>1, <2>2
    <3> QED  BY <3>1, <3>2, <2>3
  <2> QED  BY <2>2, <2>3, <2>4, <1>1
<1>3. /\ o \in HeaderPositions(size) /\ P[c] \in HeaderPositions(size)
      /\ Base(c) \in HeaderPositions(size)
      /\ o \in {Base(c) + Unfreed(c), Base(c) + Unfreed(c) - size}
      /\ P[c] \in {o + InUse(c), o + InUse(c) - size}
  BY <1>2 DEF Ring
<1>4. /\ Layout(st, size, o, u0, u1) /\ Contents(buffer[c], st, size, o, u0)
  BY DEF Packets
<1>5. /\ P'[c] = next /\ stored'[c] = Append(st, r) /\ produced'[c] = u1 + cost
      /\ UNCHANGED <<size, C, Free, rd, consumed>>
  <2>1. /\ P \in [Cpus -> Int] /\ stored \in [Cpus -> Seq(Stored)]
        /\ produced \in [Cpus -> Int]
    BY DEF TypeOK
  <2> QED  BY <2>1 DEF Complete, RecordOf, NextPacket, PacketCost
<1> HIDE DEF st, r, o, u0, u1, next
<1>6. /\ P[c] = At(o, InUse(c), size) /\ InUse(c) + t.len + HdrSize <= size
      /\ InUse(c) + Unfreed(c) + cost <= size
      /\ next \in {o + (InUse(c) + cost), o + (InUse(c) + cost) - size}
      /\ next \in HeaderPositions(size) /\ cost \in Nat
  <2> DEFINE k == PacketCost(P[c], t.len, size)
             m == NextPacket(P[c], t.len, size)
  <2>1. /\ size \in Nat /\ InUse(c) \in Nat /\ Unfreed(c) \in Nat
        /\ InUse(c) + Unfreed(c) <= size
        /\ t.len + HdrSize <= size - (InUse(c) + Unfreed(c))
    BY <1>1, <1>2
  <2>2. /\ P[c] = At(o, InUse(c), size) /\ InUse(c) + t.len + HdrSize <= size
        /\ InUse(c) + Unfreed(c) + k <= size
        /\ m \in {o + (InUse(c) + k), o + (InUse(c) + k) - size}
        /\ m \in HeaderPositions(size) /\ k \in Nat
    BY <2>1, <1>3, FitsAhead, ZenonT(60)
  <2>3. k = cost /\ m = next  BY DEF next
  <2> HIDE DEF k, m
  <2> QED  BY <2>2, <2>3
<1>7. /\ OldestAt(c)' = o /\ Base(c)' = Base(c) /\ Unfreed(c)' = Unfreed(c)
  BY <1>5 DEF OldestAt, Base, Unfreed, o
<1>8. /\ InUse(c)' = InUse(c) + cost /\ Used(c)' = InUse(c) + cost + Unfreed(c)
  <2>1. InUse(c)' = (u1 + cost) - u0  BY <1>5 DEF InUse, u0
  <2>2. InUse(c)' = InUse(c) + cost  BY <1>1, <1>6, <2>1
  <2> QED  BY <2>2, <1>7 DEF Used
<1>9. Ring(c)'
  <2>1. /\ Free[c] = size - (InUse(c) + cost + Unfreed(c)) + cost
        /\ InUse(c) + cost >= 0 /\ Unfreed(c) >= 0
        /\ InUse(c) + cost + Unfreed(c) <= size
        /\ cost >= 0 /\ cost <= InUse(c) + cost
    <3>1. \A i, f \in Nat, k \in Nat : i + f + k <= size =>
            /\ size - (i + f) = size - (i + k + f) + k
            /\ i + k >= 0 /\ i + k + f <= size /\ k <= i + k
      <4>1. size \in Nat  BY <1>1
      <4> QED  BY <4>1
    <3>2. InUse(c) \in Nat /\ Unfreed(c) \in Nat /\ cost \in Nat
      BY <1>1, <1>2, <1>6
    <3>3. Free[c] = size - (InUse(c) + Unfreed(c))  BY <1>1, <1>2
    <3> QED  BY <3>1, <3>2, <3>3, <1>6
  <2> QED  BY <1>2, <1>3, <1>5, <1>6, <1>7, <1>8, <2>1 DEF Ring
<1>10. /\ r \in Stored /\ r.at = u1 /\ r.len = t.len
  BY <1>1 DEF r, RecordOf, Stored, TypeOK, u1
<1>11. Layout(Append(st, r), size, o, u0, u1 + cost)
  <2>1. /\ u0 <= u1 /\ u1 - u0 + r.len + HdrSize <= size
        /\ At(o, u1 - u0, size) = P[c]
    BY <1>1, <1>2, <1>6, <1>10
  <2> QED  BY <1>1, <1>3, <1>4, <1>10, <2>1, LayoutAppend
<1>12. Contents(buffer'[c], Append(st, r), size, o, u0)
  <2>1. /\ u0 <= u1 /\ u1 - u0 + r.len + HdrSize <= size
        /\ P[c] = At(o, u1 - u0, size)
    BY <1>1, <1>2, <1>6, <1>10
  <2>2. /\ \A q \in 0 .. size - 1 :
             Ahead(P[c], q, size) >= HdrSize + r.len => buffer'[c][q] = buffer[c][q]
        /\ \A q \in 0 .. size - 1 :
             Ahead(P[c], q, size) < HdrSize + r.len
               => (Ahead(P[c], q, size) < HdrSize \/ TransfersSucceed
                     => buffer'[c][q] = CellOf(r, Ahead(P[c], q, size)))
    BY DEF WrittenAt, r
  <2>3. /\ size \in Nat /\ o \in HeaderPositions(size) /\ u0 \in Int /\ u1 \in Int
        /\ st \in Seq(Stored) /\ r \in Stored /\ r.at = u1
    BY <1>1, <1>3, <1>10
  <2> DEFINE b == buffer[c]
             b2 == buffer'[c]
             p == P[c]
  <2>4. Layout(st, size, o, u0, u1) /\ Contents(b, st, size, o, u0)
    BY <1>4
  <2>5. /\ p = At(o, u1 - u0, size)
        /\ \A q \in 0 .. size - 1 :
             Ahead(p, q, size) >= HdrSize + r.len => b2[q] = b[q]
        /\ \A q \in 0 .. size - 1 :
             Ahead(p, q, size) < HdrSize + r.len
               => (Ahead(p, q, size) < HdrSize \/ TransfersSucceed
                     => b2[q] = CellOf(r, Ahead(p, q, size)))
    BY <2>1, <2>2
  <2> HIDE DEF b, b2, p
  <2>6. Contents(b2, Append(st, r), size, o, u0)
    BY <2>1, <2>3, <2>4, <2>5, ContentsAppend
  <2> QED  BY <2>6 DEF b2
<1>13. Packets(c)'
  BY <1>5, <1>7, <1>11, <1>12 DEF Packets, u0
<1>14. LastTakes(c, cost)'
  <2>1. Append(st, r) # << >> /\ Append(st, r)[Len(Append(st, r))] = r
    BY <1>1, <1>10, AppendProperties, SMTT(60)
  <2>2. r.at + cost = u1 + cost  BY <1>10
  <2> QED  BY <1>5, <2>1, <2>2 DEF LastTakes
<1>15. ASSUME HalfRead(c)  PROVE HalfRead(c)'
  <2>1. /\ st # << >> /\ rd.plen = st[1].len /\ C[c] = AfterHeader(o, size)
        /\ PacketCost(o, rd.plen, size) + 0 <= InUse(c)
    BY <1>15 DEF HalfRead, st, o
  <2>2. Append(st, r) # << >> /\ Append(st, r)[1] = st[1]
    <3>1. Len(st) \in Nat /\ Len(st) >= 1  BY <1>1, <2>1, EmptySeq, LenProperties
    <3> QED  BY <1>1, <1>10, <3>1, AppendProperties, SMTT(60)
  <2>3. PacketCost(o, rd.plen, size) \in Int
    <3>1. o \in Int /\ rd.plen \in Int /\ size \in Int  BY RingTypes DEF o
    <3> QED  BY <3>1, CostIsInt
  <2>4. PacketCost(o, rd.plen, size) + cost <= InUse(c) + cost
    BY <1>1, <1>6, <2>1, <2>3
  <2> QED  BY <1>5, <1>7, <1>8, <2>1, <2>2, <2>4 DEF HalfRead
<1> QED  BY <1>9, <1>13, <1>14, <1>15

(* Copies keep the buffer a buffer.                                        *)
LEMMA WrittenTypes ==
  ASSUME size \in Nat, NEW b \in [0 .. size - 1 -> Cell], NEW p \in Int
  PROVE  /\ \A n \in Int, l \in Nat : WithHeader(b, p, n, l) \in [0 .. size - 1 -> Cell]
         /\ \A pkt \in Nat, from \in Int, n \in Int :
              WithData(b, p, pkt, from, n) \in [0 .. size - 1 -> Cell]
<1>1. \A i \in 0 .. size - 1 : Ahead(p, i, size) \in Int  BY DEF Ahead
<1>2. ASSUME NEW n \in Int, NEW l \in Nat
      PROVE  WithHeader(b, p, n, l) \in [0 .. size - 1 -> Cell]
  <2>1. \A k \in Int : Header(n, l, k) \in Cell  BY DEF Header, Cell
  <2> QED  BY <1>1, <2>1 DEF WithHeader
<1>3. ASSUME NEW pkt \in Nat, NEW from \in Int, NEW n \in Int
      PROVE  WithData(b, p, pkt, from, n) \in [0 .. size - 1 -> Cell]
  <2>1. \A k \in Int : Data(pkt, k) \in Cell  BY DEF Data, Cell
  <2>2. \A i \in 0 .. size - 1 : from + Ahead(p, i, size) \in Int  BY <1>1
  <2> QED  BY <2>1, <2>2 DEF WithData
<1> QED  BY <1>2, <1>3

\* Storing a packet keeps the types.
LEMMA CompleteTypes ==
  ASSUME TypeOK, NEW c \in Cpus, NEW t, t.pkt \in Nat, t.len \in Nat,
         t.filter \in Nat, NEW e \in Int, Complete(c, t, e),
         buffer' \in [Cpus -> [0 .. size - 1 -> Cell]],
         lock' \in [Cpus -> {"free", "tap", "transfer", "ioctl"}],
         tap' \in [Cpus -> Tap], transfer' \in [Cpus -> Transfer]
  PROVE  TypeOK'
<1>1. /\ size \in Nat /\ P \in [Cpus -> Int] /\ stored \in [Cpus -> Seq(Stored)]
      /\ produced \in [Cpus -> Int] /\ Accepted \in [Cpus -> Nat]
      /\ WriterSN \in Nat
      /\ captured \in Seq([pkt : Nat, len : Nat, cpu : Cpus, filter : Nat])
  BY DEF TypeOK
<1>2. SkipTail(e, size) \in Int /\ Increment(e, t.len, size) \in Int
  BY <1>1, HdrSizeAssumption DEF SkipTail, Increment, InTail
<1>3. P' \in [Cpus -> Int] /\ Accepted' \in [Cpus -> Nat] /\ WriterSN' \in Nat
  <2>1. /\ P' = [P EXCEPT ![c] = SkipTail(e, size)]
        /\ Accepted' = [Accepted EXCEPT ![c] = Accepted[c] + 1]
        /\ WriterSN' = WriterSN + 1
    BY DEF Complete
  <2> QED  BY <1>1, <1>2, <2>1, SMTT(60)
<1>4. produced' \in [Cpus -> Int]
  <2>1. produced[c] + Increment(e, t.len, size) \in Int  BY <1>1, <1>2
  <2> QED  BY <1>1, <2>1 DEF Complete
<1>5. stored' \in [Cpus -> Seq(Stored)]
  <2> DEFINE r == RecordOf(c, t)
  <2>1. r \in Stored  BY <1>1 DEF RecordOf, Stored
  <2>2. stored' = [stored EXCEPT ![c] = Append(stored[c], r)]
    BY DEF Complete, RecordOf
  <2> HIDE DEF r
  <2>3. Append(stored[c], r) \in Seq(Stored)  BY <1>1, <2>1
  <2> QED  BY <1>1, <2>2, <2>3
<1>6. captured' \in Seq([pkt : Nat, len : Nat, cpu : Cpus, filter : Nat])
  BY <1>1 DEF Complete
<1> QED  BY <1>3, <1>4, <1>5, <1>6 DEF Complete, TypeOK, configVars

(* Byte d from the header of a packet of n bytes is in the header, staged, *)
(* transferred, or past the packet.                                        *)
LEMMA CellCases ==
  ASSUME NEW n \in Nat, NEW have \in Nat, have < n, NEW d \in Nat
  PROVE  \/ d < HdrSize /\ ~(d >= HdrSize + n)
         \/ /\ d >= HdrSize + n /\ ~(d < HdrSize) /\ ~(d < HdrSize + n)
            /\ d \notin HdrSize + have .. HdrSize + have + (n - have) - 1
         \/ /\ d \in HdrSize .. HdrSize + have - 1
            /\ ~(d < HdrSize) /\ ~(d >= HdrSize + n)
            /\ d \notin HdrSize + have .. HdrSize + have + (n - have) - 1
         \/ /\ d \in HdrSize + have .. HdrSize + have + (n - have) - 1
            /\ ~(d < HdrSize) /\ ~(d >= HdrSize + n)
            /\ have + (d - (HdrSize + have)) = d - HdrSize
  BY HdrSizeAssumption

\* Where the pieces of a transfer lie when it fits.
LEMMA TransferSizes ==
  ASSUME NEW s \in Nat, NEW n \in Nat, NEW hb \in Nat, NEW la \in Nat,
         hb + la < n, n + HdrSize <= s
  PROVE  /\ HdrSize + hb + la < s /\ HdrSize + hb + la = HdrSize + (hb + la)
         /\ HdrSize + (hb + la) \in Nat /\ n - (hb + la) \in Nat
         /\ HdrSize + (hb + la) + (n - (hb + la)) <= s /\ hb + la \in Int
  BY HdrSizeAssumption

(* The first have bytes of frame pkt, of a packet of n bytes at p, are in  *)
(* b1, which is otherwise b where it is not free.                          *)
StagedAt(b1, b, p, pkt, n, have) ==
  \A q \in 0 .. size - 1 :
    /\ Ahead(p, q, size) >= HdrSize + n => b1[q] = b[q]
    /\ Ahead(p, q, size) \in HdrSize .. HdrSize + have - 1
         => b1[q] = Data(pkt, Ahead(p, q, size) - HdrSize)

(* A packet whose first bytes are in place after the header, the rest      *)
(* transferred, then the header written, is in the ring.                   *)
LEMMA TransferWrites ==
  ASSUME size \in Nat, NEW p \in HeaderPositions(size),
         NEW r, r.len \in Nat, NEW hb \in Nat, NEW la \in Nat,
         hb + la < r.len, r.len + HdrSize <= size,
         NEW b, NEW b1, NEW b2,
         DOMAIN b1 = 0 .. size - 1, DOMAIN b2 = 0 .. size - 1,
         StagedAt(b1, b, p, r.pkt, r.len, hb + la),
         \/ b2 = WithData(b1, TransferFrom(p, hb, la, size), r.pkt, hb + la,
                          r.len - (hb + la))
         \/ b2 = b1 /\ ~TransfersSucceed
  PROVE  WrittenAt(WithHeader(b2, p, r.sn, r.len), b, p, r)
<1> DEFINE b3 == WithHeader(b2, p, r.sn, r.len)
           n == r.len
           have == hb + la
           x == HdrSize + have
           m == n - have
<1>1. /\ HdrSize + hb + la < size /\ HdrSize + hb + la = x
      /\ x \in Nat /\ m \in Nat /\ x + m <= size /\ have \in Int
  <2>1. n \in Nat /\ hb + la < n /\ n + HdrSize <= size  OBVIOUS
  <2> HIDE DEF n
  <2>2. /\ HdrSize + hb + la < size /\ HdrSize + hb + la = HdrSize + (hb + la)
        /\ HdrSize + (hb + la) \in Nat /\ n - (hb + la) \in Nat
        /\ HdrSize + (hb + la) + (n - (hb + la)) <= size /\ hb + la \in Int
    BY <2>1, TransferSizes
  <2> QED  BY <2>2
<1>2. p \in 0 .. size - 1
  BY HdrSizeAssumption DEF HeaderPositions
<1>3. TransferFrom(p, hb, la, size) = At(p, x, size)
  <2>1. \A y, z \in Nat : HdrSize + y + z < size =>
          TransferFrom(p, y, z, size) = At(p, HdrSize + y + z, size)
    BY HeaderAdvances, Zenon
  <2> QED  BY <1>1, <2>1
<1>4. ASSUME NEW q \in 0 .. size - 1
      PROVE  /\ Ahead(p, q, size) >= HdrSize + n => b3[q] = b[q]
             /\ Ahead(p, q, size) < HdrSize + n
                  => (Ahead(p, q, size) < HdrSize \/ TransfersSucceed
                        => b3[q] = CellOf(r, Ahead(p, q, size)))
  <2> DEFINE d == Ahead(p, q, size)
             w == WithData(b1, At(p, x, size), r.pkt, have, m)
  <2>1. d \in Nat
    <3>1. 0 \in 0 .. size  OBVIOUS
    <3>2. d \in 0 .. size - 1  BY <3>1, <1>2, AheadAt
    <3> QED  BY <3>2
  <2>2. b3[q] = IF d < HdrSize THEN Header(r.sn, n, d) ELSE b2[q]
    BY HeaderWritten
  <2>3. w[q] = IF d \in x .. x + m - 1 THEN Data(r.pkt, have + (d - x)) ELSE b1[q]
    <3> HIDE DEF x, m
    <3> QED  BY <1>1, <1>2, DataWritten
  <2>4. /\ d >= HdrSize + n => b1[q] = b[q]
        /\ d \in HdrSize .. HdrSize + have - 1 => b1[q] = Data(r.pkt, d - HdrSize)
    BY DEF StagedAt
  <2>5. \/ d < HdrSize /\ ~(d >= HdrSize + n)
        \/ /\ d >= HdrSize + n /\ ~(d < HdrSize) /\ ~(d < HdrSize + n)
           /\ d \notin x .. x + m - 1
        \/ /\ d \in HdrSize .. HdrSize + have - 1
           /\ ~(d < HdrSize) /\ ~(d >= HdrSize + n)
           /\ d \notin x .. x + m - 1
        \/ /\ d \in x .. x + m - 1
           /\ ~(d < HdrSize) /\ ~(d >= HdrSize + n)
           /\ have + (d - x) = d - HdrSize
    <3>1. have \in Nat /\ have < n /\ n \in Nat  OBVIOUS
    <3> HIDE DEF d, have, n
    <3> QED  BY <2>1, <3>1, CellCases, Zenon
  <2>6. /\ d < HdrSize => CellOf(r, d) = Header(r.sn, n, d)
        /\ ~(d < HdrSize) => CellOf(r, d) = Data(r.pkt, d - HdrSize)
    BY DEF CellOf
  <2>7. b2 = w \/ (b2 = b1 /\ ~TransfersSucceed)
    BY <1>3
  <2>8. /\ d >= HdrSize + n => b3[q] = b[q]
        /\ d < HdrSize + n /\ (d < HdrSize \/ TransfersSucceed)
             => b3[q] = CellOf(r, d)
    <3> HIDE DEF d, b3, x, m, n, w
    <3> QED  BY <2>2, <2>3, <2>4, <2>5, <2>6, <2>7
  <2> QED  BY <2>8
<1> QED
  <2> HIDE DEF b3
  <2>1. WrittenAt(b3, b, p, r)  BY <1>4 DEF WrittenAt
  <2> QED  BY <2>1 DEF b3

(* The tap has the lock, the packet fits, and nothing else is in hand.     *)
LEMMA AtLockFacts ==
  ASSUME IInv, ~Uniprocessor, NEW c \in Cpus, AtLock(c), Fits(c)
  PROVE  /\ lock[c] = "free" /\ tap[c].pc = "lock" /\ transfer[c].pc = "none"
         /\ Unpublished(c) = 0
         /\ size \in Nat /\ size # 0 /\ P[c] \in HeaderPositions(size)
         /\ tap[c].len + HdrSize <= Free[c] /\ Free[c] = size - Used(c)
         /\ Used(c) \in Nat /\ InUse(c) \in Nat /\ InUse(c) <= Used(c)
         /\ tap[c].len + HdrSize <= size
         /\ tap[c] \in Tap /\ tap[c].len \in Nat /\ tap[c].pkt \in Nat
         /\ tap[c].filter \in Nat /\ tap[c].frame \in Frame
         /\ tap[c].frame.hdr \in Nat /\ tap[c].frame.look \in Nat
         /\ ~(io.pc = "lock" /\ c < io.next) /\ io.pc # "apply"
<1>1. /\ lock[c] = "free" /\ tap[c].pc = "lock"
      /\ tap[c].len + HdrSize <= Free[c]
  BY DEF AtLock, CanAcquire, Fits
<1>2. /\ transfer[c].pc = "none" /\ ~(io.pc = "lock" /\ c < io.next)
      /\ io.pc # "apply"
  BY <1>1 DEF IInv, LockOwners
<1>3. Unpublished(c) = 0  BY <1>1, <1>2 DEF Unpublished
<1>4. /\ size \in Nat /\ Free[c] \in Int /\ Used(c) \in Int /\ InUse(c) \in Int
      /\ Unfreed(c) \in Nat /\ Used(c) = InUse(c) + Unfreed(c)
      /\ tap[c] \in Tap /\ tap[c].len \in Nat /\ tap[c].pkt \in Nat
      /\ tap[c].filter \in Nat
  BY RingTypes DEF IInv, Used
<1>5. tap[c].frame \in Frame  BY <1>4 DEF Tap
<1>6. tap[c].frame.hdr \in Nat /\ tap[c].frame.look \in Nat  BY <1>5 DEF Frame
<1>7. Free[c] = size - Used(c) + 0 /\ InUse(c) >= 0
  BY <1>3 DEF IInv, Ring
<1>8. /\ Free[c] = size - Used(c) /\ InUse(c) \in Nat /\ Used(c) \in Nat
      /\ InUse(c) <= Used(c)
  BY <1>4, <1>7
<1>9. tap[c].len + HdrSize <= size /\ size # 0
  <2>1. \A l, u \in Nat : l + HdrSize <= size - u => l + HdrSize <= size /\ size # 0
    BY <1>4, HdrSizeAssumption
  <2> QED  BY <1>1, <1>4, <1>8, <2>1
<1>10. P[c] \in HeaderPositions(size)  BY <1>9 DEF IInv, Ring
<1> QED  BY <1>1, <1>2, <1>3, <1>4, <1>5, <1>6, <1>8, <1>9, <1>10

(* A packet has been stored: what is left to show for IInv is types.       *)
LEMMA StoreKeeps ==
  ASSUME IInv, NEW c \in Cpus,
         Unpublished(c) = 0, NEW t, t.pkt \in Nat, t.len \in Nat,
         t.filter \in Nat, t.len + HdrSize <= Free[c],
         Complete(c, t, EndOfPacket(P[c], t.len, size)),
         NEW cost, cost = PacketCost(P[c], t.len, size), Unpublished(c)' = cost,
         WrittenAt(buffer'[c], buffer[c], P[c], RecordOf(c, t)),
         buffer' \in [Cpus -> [0 .. size - 1 -> Cell]],
         lock' \in [Cpus -> {"free", "tap", "transfer", "ioctl"}],
         tap' \in [Cpus -> Tap], transfer' \in [Cpus -> Transfer],
         \A d \in Cpus : d # c =>
           /\ buffer'[d] = buffer[d] /\ lock'[d] = lock[d]
           /\ tap'[d] = tap[d] /\ transfer'[d] = transfer[d],
         tap'[c].pc = "publish" => tap'[c].inc = cost,
         transfer'[c].pc = "publish" => transfer'[c].inc = cost,
         transfer'[c].pc # "pending",
         LockOwners'
  PROVE  IInv'
<1>1. TypeOK /\ Ring(c) /\ Packets(c) /\ InHand(c) /\ Irps  BY DEF IInv
<1>2. EndOfPacket(P[c], t.len, size) \in Int
  <2>1. P[c] \in Int /\ size \in Int /\ t.len \in Int  BY <1>1, RingTypes
  <2> QED  BY <2>1, HdrSizeAssumption DEF EndOfPacket, AfterData, AfterHeader
<1>3. TypeOK'  BY <1>1, <1>2, CompleteTypes
<1>4. UNCHANGED <<size, C, Free, rd, io, consumed>>  BY DEF Complete
<1>5. Irps'  BY <1>1, <1>4 DEF Irps
<1>6. \A d \in Cpus : d # c => RingUntouched(d)
  <2>1. \A d \in Cpus : d # c => /\ P'[d] = P[d] /\ stored'[d] = stored[d]
                                 /\ produced'[d] = produced[d]
    <3>1. /\ P \in [Cpus -> Int] /\ stored \in [Cpus -> Seq(Stored)]
          /\ produced \in [Cpus -> Int]
      BY <1>1 DEF TypeOK
    <3> QED  BY <3>1 DEF Complete
  <2> QED  BY <1>4, <2>1 DEF RingUntouched
<1>7. Ring(c)' /\ Packets(c)' /\ (HalfRead(c) => HalfRead(c)') /\ LastTakes(c, cost)'
  BY <1>1, CompleteKeepsRing
<1>8. InHand(c)'
  <2>1. rd'.pc = "copy" /\ rd'.cpu = c => HalfRead(c)'
    BY <1>1, <1>4, <1>7 DEF InHand
  <2> QED  BY <1>7, <2>1 DEF InHand, LastTakes
<1> QED  BY <1>3, <1>5, <1>6, <1>7, <1>8, RingUntouchedKeeps DEF IInv

\* After storing a packet, the tap has its bytes in hand.
LEMMA TapPublishes ==
  ASSUME tap \in [Cpus -> Tap], NEW c \in Cpus, NEW inc \in Nat,
         tap' = [tap EXCEPT ![c].pc = "publish", ![c].inc = inc]
  PROVE  /\ tap' \in [Cpus -> Tap]
         /\ tap'[c].pc = "publish" /\ tap'[c].inc = inc
         /\ \A d \in Cpus : d # c => tap'[d] = tap[d]
<1>1. \A x \in Tap : /\ [x EXCEPT !.pc = "publish"] \in Tap
                     /\ [x EXCEPT !.inc = inc] \in Tap
  BY DEF Tap
<1>2. \A x \in Tap : /\ [[x EXCEPT !.pc = "publish"] EXCEPT !.inc = inc].pc = "publish"
                     /\ [[x EXCEPT !.pc = "publish"] EXCEPT !.inc = inc].inc = inc
  BY DEF Tap
<1>3. tap' = [tap EXCEPT ![c] = [[tap[c] EXCEPT !.pc = "publish"] EXCEPT !.inc = inc]]
  OBVIOUS
<1> DEFINE y == [[tap[c] EXCEPT !.pc = "publish"] EXCEPT !.inc = inc]
<1>4. tap[c] \in Tap  OBVIOUS
<1>5. y \in Tap /\ y.pc = "publish" /\ y.inc = inc  BY <1>1, <1>2, <1>4
<1>6. tap' = [tap EXCEPT ![c] = y]  BY <1>3
<1> HIDE DEF y
<1> QED  BY <1>5, <1>6

(* The owner of the lock changes, the lock of the others does not.         *)
LEMMA LockTaken ==
  ASSUME LockOwners, TypeOK, NEW c \in Cpus,
         lock' = [lock EXCEPT ![c] = "tap"],
         tap'[c].pc = "publish", transfer[c].pc = "none",
         \A d \in Cpus : d # c => tap'[d] = tap[d],
         UNCHANGED <<transfer, io>>,
         ~(io.pc = "lock" /\ c < io.next), io.pc # "apply"
  PROVE  /\ LockOwners'
         /\ lock' \in [Cpus -> {"free", "tap", "transfer", "ioctl"}]
         /\ \A d \in Cpus : d # c => lock'[d] = lock[d]
<1>1. lock \in [Cpus -> {"free", "tap", "transfer", "ioctl"}]  BY DEF TypeOK
<1>2. lock' \in [Cpus -> {"free", "tap", "transfer", "ioctl"}] /\ lock'[c] = "tap"
      /\ \A d \in Cpus : d # c => lock'[d] = lock[d]
  BY <1>1
<1> QED  BY <1>2 DEF LockOwners

\* NPF_tap storing a packet it has whole preserves the invariant.
LEMMA TapStoreKeeps ==
  ASSUME IInv, ~Uniprocessor, NEW c \in Cpus, TapStore(c)
  PROVE  IInv'
<1> DEFINE t == tap[c]
           p == P[c]
           b == buffer[c]
           h == WithHeader(b, p, WriterSN, t.len)
           w == WithData(h, AfterHeader(p, size), t.pkt, 0, t.len)
           r == RecordOf(c, t)
           cost == PacketCost(p, t.len, size)
<1>1. /\ TypeOK /\ LockOwners /\ tap \in [Cpus -> Tap] /\ WriterSN \in Nat
      /\ transfer \in [Cpus -> Transfer]
      /\ buffer \in [Cpus -> [0 .. size - 1 -> Cell]]
      /\ b \in [0 .. size - 1 -> Cell]
  BY DEF IInv, TypeOK
<1>2. /\ transfer[c].pc = "none" /\ Unpublished(c) = 0
      /\ size \in Nat /\ size # 0 /\ p \in HeaderPositions(size)
      /\ t.len + HdrSize <= Free[c] /\ t.len + HdrSize <= size
      /\ t.len \in Nat /\ t.pkt \in Nat /\ t.filter \in Nat
      /\ ~(io.pc = "lock" /\ c < io.next) /\ io.pc # "apply"
  BY AtLockFacts DEF TapStore
<1>3. /\ lock' = [lock EXCEPT ![c] = "tap"]
      /\ buffer' = [buffer EXCEPT ![c] = w]
      /\ Complete(c, t, EndOfPacket(p, t.len, size))
      /\ tap' = [tap EXCEPT ![c].pc = "publish", ![c].inc = cost]
      /\ UNCHANGED <<transfer, io>>
  BY DEF TapStore, Complete, PacketCost
<1>4. cost \in Nat  BY <1>2, PacketBounds
<1>5. /\ tap' \in [Cpus -> Tap] /\ tap'[c].pc = "publish" /\ tap'[c].inc = cost
      /\ \A d \in Cpus : d # c => tap'[d] = tap[d]
  <2> HIDE DEF cost
  <2> QED  BY <1>1, <1>3, <1>4, TapPublishes
<1>6. /\ LockOwners'
      /\ lock' \in [Cpus -> {"free", "tap", "transfer", "ioctl"}]
      /\ \A d \in Cpus : d # c => lock'[d] = lock[d]
  BY <1>1, <1>2, <1>3, <1>5, LockTaken
<1>7. Unpublished(c)' = cost
  <2> HIDE DEF cost
  <2> QED  BY <1>2, <1>3, <1>4, <1>5 DEF Unpublished
<1>8. h \in [0 .. size - 1 -> Cell] /\ w \in [0 .. size - 1 -> Cell]
  <2>1. p \in Int /\ AfterHeader(p, size) \in Int /\ WriterSN \in Int
    BY <1>1, <1>2, HdrSizeAssumption DEF HeaderPositions, AfterHeader
  <2>2. h \in [0 .. size - 1 -> Cell]  BY <1>1, <1>2, <2>1, WrittenTypes
  <2> HIDE DEF h, b, p
  <2>3. 0 \in Int /\ t.len \in Int  BY <1>2
  <2> QED  BY <1>2, <2>1, <2>2, <2>3, WrittenTypes
<1>9. /\ buffer' \in [Cpus -> [0 .. size - 1 -> Cell]] /\ buffer'[c] = w
      /\ \A d \in Cpus : d # c => buffer'[d] = buffer[d]
  <2> HIDE DEF w
  <2> QED  BY <1>1, <1>3, <1>8
<1>10. WrittenAt(w, b, p, r)
  <2>1. r.len = t.len /\ r.sn = WriterSN /\ r.pkt = t.pkt  BY DEF RecordOf
  <2>2. /\ p \in 0 .. size - 1 /\ HdrSize \in Nat /\ HdrSize + t.len <= size
        /\ AfterHeader(p, size) = At(p, HdrSize, size)
        /\ \A d \in Nat : 0 + (d - HdrSize) = d - HdrSize
    BY <1>2, HeaderAdvances, HdrSizeAssumption DEF HeaderPositions
  <2>3. ASSUME NEW q \in 0 .. size - 1
        PROVE  /\ Ahead(p, q, size) >= HdrSize + t.len => w[q] = b[q]
               /\ Ahead(p, q, size) < HdrSize + t.len =>
                    w[q] = CellOf(r, Ahead(p, q, size))
    <3> DEFINE d == Ahead(p, q, size)
    <3>1. d \in Nat
      <4>1. 0 \in 0 .. size  BY <1>2
      <4>2. d \in 0 .. size - 1  BY <1>2, <2>2, <4>1, AheadAt
      <4> QED  BY <4>2
    <3>2. h[q] = IF d < HdrSize THEN Header(WriterSN, t.len, d) ELSE b[q]
      BY <1>1, <1>2, HeaderWritten
    <3>3. w[q] = IF d \in HdrSize .. HdrSize + t.len - 1
                   THEN Data(t.pkt, 0 + (d - HdrSize)) ELSE h[q]
      <4>1. DOMAIN h = 0 .. size - 1 /\ 0 \in Int  BY <1>8
      <4>2. w = WithData(h, At(p, HdrSize, size), t.pkt, 0, t.len)
        BY <2>2
      <4> DEFINE n == t.len
      <4>3. n \in Nat /\ HdrSize + n <= size  BY <1>2, <2>2
      <4> HIDE DEF h, p, n
      <4>4. WithData(h, At(p, HdrSize, size), t.pkt, 0, n)[q]
              = IF Ahead(p, q, size) \in HdrSize .. HdrSize + n - 1
                  THEN Data(t.pkt, 0 + (Ahead(p, q, size) - HdrSize)) ELSE h[q]
        BY <1>2, <2>2, <4>1, <4>3, DataWritten, SMTT(60)
      <4> QED  BY <4>2, <4>4 DEF n
    <3>4. \/ d < HdrSize /\ ~(d >= HdrSize + t.len)
             /\ d \notin HdrSize .. HdrSize + t.len - 1
          \/ /\ d \in HdrSize .. HdrSize + t.len - 1 /\ ~(d < HdrSize)
             /\ ~(d >= HdrSize + t.len) /\ 0 + (d - HdrSize) = d - HdrSize
          \/ /\ d >= HdrSize + t.len /\ ~(d < HdrSize) /\ ~(d < HdrSize + t.len)
             /\ d \notin HdrSize .. HdrSize + t.len - 1
      <4>1. \A n \in Nat, x \in Nat :
              \/ x < HdrSize /\ ~(x >= HdrSize + n) /\ x \notin HdrSize .. HdrSize + n - 1
              \/ /\ x \in HdrSize .. HdrSize + n - 1 /\ ~(x < HdrSize)
                 /\ ~(x >= HdrSize + n) /\ 0 + (x - HdrSize) = x - HdrSize
              \/ /\ x >= HdrSize + n /\ ~(x < HdrSize) /\ ~(x < HdrSize + n)
                 /\ x \notin HdrSize .. HdrSize + n - 1
        BY HdrSizeAssumption
      <4> HIDE DEF d
      <4> QED  BY <1>2, <3>1, <4>1
    <3>5. /\ d < HdrSize => CellOf(r, d) = Header(WriterSN, t.len, d)
          /\ ~(d < HdrSize) => CellOf(r, d) = Data(t.pkt, d - HdrSize)
      BY <2>1 DEF CellOf
    <3> HIDE DEF d, h, w, r
    <3>6. /\ d >= HdrSize + t.len => w[q] = b[q]
          /\ d < HdrSize + t.len => w[q] = CellOf(r, d)
      BY <3>2, <3>3, <3>4, <3>5
    <3> QED  BY <3>6 DEF d
  <2> HIDE DEF w, r
  <2> QED  BY <2>1, <2>3 DEF WrittenAt
<1> QED
  <2>1. WrittenAt(buffer'[c], buffer[c], P[c], RecordOf(c, t))  BY <1>9, <1>10
  <2>2. transfer' \in [Cpus -> Transfer] /\ transfer'[c].pc = "none"
        /\ \A d \in Cpus : d # c => transfer'[d] = transfer[d]
    BY <1>1, <1>2, <1>3
  <2> HIDE DEF w, cost
  <2> QED  BY <1>2, <1>3, <1>5, <1>6, <1>7, <1>9, <2>1, <2>2, StoreKeeps, SMTT(60) DEF cost

-------------------------------------------------------------------------------
(* The header and lookahead bytes are where they will stay.                *)
LEMMA BytesStaged ==
  ASSUME size \in Nat, NEW p \in HeaderPositions(size), NEW n \in Nat,
         NEW have \in Nat, have < n, n + HdrSize <= size,
         NEW b \in [0 .. size - 1 -> Cell], NEW pkt \in Nat
  PROVE  /\ WithData(b, AfterHeader(p, size), pkt, 0, have) \in [0 .. size - 1 -> Cell]
         /\ StagedAt(WithData(b, AfterHeader(p, size), pkt, 0, have), b, p, pkt, n, have)
<1> DEFINE w == WithData(b, AfterHeader(p, size), pkt, 0, have)
<1>1. /\ p \in 0 .. size - 1 /\ HdrSize \in Nat /\ HdrSize + have <= size
      /\ AfterHeader(p, size) = At(p, HdrSize, size)
      /\ \A d \in Nat : 0 + (d - HdrSize) = d - HdrSize
  BY HeaderAdvances, HdrSizeAssumption DEF HeaderPositions
<1>2. w \in [0 .. size - 1 -> Cell]
  <2>1. AfterHeader(p, size) \in Int /\ 0 \in Int /\ have \in Int
    BY HdrSizeAssumption DEF HeaderPositions, AfterHeader
  <2> QED  BY <2>1, WrittenTypes
<1>3. ASSUME NEW q \in 0 .. size - 1
      PROVE  /\ Ahead(p, q, size) >= HdrSize + n => w[q] = b[q]
             /\ Ahead(p, q, size) \in HdrSize .. HdrSize + have - 1
                  => w[q] = Data(pkt, Ahead(p, q, size) - HdrSize)
  <2> DEFINE d == Ahead(p, q, size)
  <2>1. d \in Nat
    <3>1. 0 \in 0 .. size  OBVIOUS
    <3>2. d \in 0 .. size - 1  BY <1>1, <3>1, AheadAt
    <3> QED  BY <3>2
  <2>2. w[q] = IF d \in HdrSize .. HdrSize + have - 1
                 THEN Data(pkt, 0 + (d - HdrSize)) ELSE b[q]
    <3>1. DOMAIN b = 0 .. size - 1 /\ 0 \in Int  OBVIOUS
    <3>2. WithData(b, At(p, HdrSize, size), pkt, 0, have)[q]
            = IF Ahead(p, q, size) \in HdrSize .. HdrSize + have - 1
                THEN Data(pkt, 0 + (Ahead(p, q, size) - HdrSize)) ELSE b[q]
      BY <1>1, <3>1, DataWritten
    <3> QED  BY <1>1, <3>2
  <2>3. d >= HdrSize + n => d \notin HdrSize .. HdrSize + have - 1
    <3> HIDE DEF d
    <3> QED  BY <2>1, HdrSizeAssumption
  <2> HIDE DEF w, d
  <2>4. /\ d >= HdrSize + n => w[q] = b[q]
        /\ d \in HdrSize .. HdrSize + have - 1 => w[q] = Data(pkt, d - HdrSize)
    BY <1>1, <2>1, <2>2, <2>3
  <2> QED  BY <2>4 DEF d
<1> HIDE DEF w
<1>4. StagedAt(w, b, p, pkt, n, have)  BY <1>3 DEF StagedAt
<1> QED  BY <1>2, <1>4 DEF w

\* What is known when NdisTransferData is needed.
LEMMA TransferNeeded ==
  ASSUME IInv, ~Uniprocessor, NEW c \in Cpus, NeedsTransfer(c)
  PROVE  /\ tap[c].frame.hdr + tap[c].frame.look < tap[c].len
         /\ Staged(c) \in [0 .. size - 1 -> Cell]
         /\ StagedAt(Staged(c), buffer[c], P[c], tap[c].pkt, tap[c].len,
                     tap[c].frame.hdr + tap[c].frame.look)
         /\ NewP(c) = EndOfPacket(P[c], tap[c].len, size)
<1> DEFINE n == tap[c].len
           hb == tap[c].frame.hdr
           la == tap[c].frame.look
<1>1. /\ size \in Nat /\ P[c] \in HeaderPositions(size)
      /\ n \in Nat /\ hb \in Nat /\ la \in Nat /\ tap[c].pkt \in Nat
      /\ n + HdrSize <= size
  BY AtLockFacts DEF NeedsTransfer
<1>2. ~(la + hb >= n)  BY DEF NeedsTransfer, NoTransferNeeded
<1>3. buffer[c] \in [0 .. size - 1 -> Cell]  BY DEF IInv, TypeOK
<1>4. Staged(c) = WithData(buffer[c], AfterHeader(P[c], size), tap[c].pkt, 0, hb + la)
      /\ NewP(c) = TransferEnd(P[c], hb, la, n, size)
  BY DEF Staged, NewP
<1> HIDE DEF n, hb, la
<1>5. hb + la < n /\ hb + la \in Nat  BY <1>1, <1>2
<1>6. /\ Staged(c) \in [0 .. size - 1 -> Cell]
      /\ StagedAt(Staged(c), buffer[c], P[c], tap[c].pkt, n, hb + la)
  BY <1>1, <1>3, <1>4, <1>5, BytesStaged
<1>7. NewP(c) = EndOfPacket(P[c], n, size)
  BY <1>1, <1>4, <1>5, TransferAgrees
<1> QED  BY <1>5, <1>6, <1>7 DEF n, hb, la

\* Where a transfer starts is a number.
LEMMA TransferFromIsInt ==
  ASSUME NEW s \in Int, NEW p \in Int, NEW y \in Int, NEW z \in Int
  PROVE  TransferFrom(p, y, z, s) \in Int
  BY HdrSizeAssumption DEF TransferFrom, StagedCopy, AfterHeader

(* The rest arrives, or does not, and the header is written.               *)
LEMMA TransferredPacket ==
  ASSUME size \in Nat, NEW p \in HeaderPositions(size), NEW t,
         NEW result \in TransferResults,
         t.len \in Nat, t.pkt \in Nat, t.frame.hdr \in Nat, t.frame.look \in Nat,
         t.frame.hdr + t.frame.look < t.len, t.len + HdrSize <= size,
         NEW b, NEW b1 \in [0 .. size - 1 -> Cell],
         StagedAt(b1, b, p, t.pkt, t.len, t.frame.hdr + t.frame.look),
         NEW r, r.len = t.len, r.pkt = t.pkt, r.sn \in Nat
  PROVE  /\ WithHeader(Transferred(b1, p, t, result), p, r.sn, r.len)
              \in [0 .. size - 1 -> Cell]
         /\ WrittenAt(WithHeader(Transferred(b1, p, t, result), p, r.sn, r.len), b, p, r)
<1> DEFINE hb == t.frame.hdr
           la == t.frame.look
           b2 == Transferred(b1, p, t, result)
           w == WithData(b1, TransferFrom(p, hb, la, size), t.pkt, hb + la,
                         t.len - (hb + la))
<1>1. b2 = w \/ (b2 = b1 /\ ~TransfersSucceed)
  BY CaptureAssumption DEF Transferred, TransfersSucceed
<1>2. /\ p \in Int /\ TransferFrom(p, hb, la, size) \in Int
      /\ hb + la \in Int /\ t.len - (hb + la) \in Int /\ r.sn \in Int /\ r.len \in Nat
  <2>1. p \in Int /\ HdrSize \in Int  BY HdrSizeAssumption DEF HeaderPositions
  <2>2. /\ hb \in Int /\ la \in Int /\ t.len \in Int /\ size \in Int
        /\ r.sn \in Int /\ r.len \in Nat
    OBVIOUS
  <2> HIDE DEF hb, la
  <2>3. TransferFrom(p, hb, la, size) \in Int  BY <2>1, <2>2, TransferFromIsInt
  <2>4. hb + la \in Int /\ t.len - (hb + la) \in Int  BY <2>2
  <2> QED  BY <2>1, <2>2, <2>3, <2>4
<1>3. b2 \in [0 .. size - 1 -> Cell]
  <2>1. w \in [0 .. size - 1 -> Cell]
    <3> HIDE DEF hb, la
    <3> QED  BY <1>2, WrittenTypes
  <2> HIDE DEF w, b2
  <2> QED  BY <1>1, <2>1
<1>4. WithHeader(b2, p, r.sn, r.len) \in [0 .. size - 1 -> Cell]
  <2> HIDE DEF b2
  <2> QED  BY <1>2, <1>3, WrittenTypes
<1>5. WrittenAt(WithHeader(b2, p, r.sn, r.len), b, p, r)
  <2>1. /\ r.len \in Nat /\ hb \in Nat /\ la \in Nat /\ hb + la < r.len
        /\ r.len + HdrSize <= size
        /\ StagedAt(b1, b, p, r.pkt, r.len, hb + la)
        /\ DOMAIN b1 = 0 .. size - 1 /\ DOMAIN b2 = 0 .. size - 1
    BY <1>3
  <2>2. \/ b2 = WithData(b1, TransferFrom(p, hb, la, size), r.pkt, hb + la,
                         r.len - (hb + la))
        \/ b2 = b1 /\ ~TransfersSucceed
    BY <1>1
  <2> HIDE DEF hb, la, b2
  <2> QED  BY <2>1, <2>2, TransferWrites
<1> QED  BY <1>4, <1>5

\* NPF_tap storing a packet whose transfer ends at once preserves the
\* invariant.
LEMMA TapTransferNowKeeps ==
  ASSUME IInv, ~Uniprocessor, NEW c \in Cpus, NEW result \in TransferResults,
         TapTransferNow(c, result)
  PROVE  IInv'
<1> DEFINE t == tap[c]
           p == P[c]
           r == RecordOf(c, t)
           w == WithHeader(Transferred(Staged(c), p, t, result), p, WriterSN, t.len)
           cost == PacketCost(p, t.len, size)
<1>1. /\ TypeOK /\ LockOwners /\ tap \in [Cpus -> Tap] /\ WriterSN \in Nat
      /\ transfer \in [Cpus -> Transfer]
      /\ buffer \in [Cpus -> [0 .. size - 1 -> Cell]]
  BY DEF IInv, TypeOK
<1>2. NeedsTransfer(c) /\ AtLock(c) /\ Fits(c)
  BY DEF TapTransferNow, NeedsTransfer
<1>3. /\ transfer[c].pc = "none" /\ Unpublished(c) = 0
      /\ size \in Nat /\ p \in HeaderPositions(size)
      /\ t.len + HdrSize <= Free[c] /\ t.len + HdrSize <= size
      /\ t.len \in Nat /\ t.pkt \in Nat /\ t.filter \in Nat
      /\ t.frame.hdr \in Nat /\ t.frame.look \in Nat
      /\ ~(io.pc = "lock" /\ c < io.next) /\ io.pc # "apply"
  BY <1>2, AtLockFacts
<1>4. /\ t.frame.hdr + t.frame.look < t.len
      /\ Staged(c) \in [0 .. size - 1 -> Cell]
      /\ StagedAt(Staged(c), buffer[c], p, t.pkt, t.len,
                  t.frame.hdr + t.frame.look)
      /\ NewP(c) = EndOfPacket(p, t.len, size)
  BY <1>2, TransferNeeded
<1>5. /\ lock' = [lock EXCEPT ![c] = "tap"]
      /\ buffer' = [buffer EXCEPT ![c] = w]
      /\ Complete(c, t, EndOfPacket(p, t.len, size))
      /\ tap' = [tap EXCEPT ![c].pc = "publish", ![c].inc = cost]
      /\ UNCHANGED <<transfer, io>>
  BY <1>4 DEF TapTransferNow, Complete, PacketCost
<1>6. cost \in Nat  BY <1>3, PacketBounds
<1>7. /\ tap' \in [Cpus -> Tap] /\ tap'[c].pc = "publish" /\ tap'[c].inc = cost
      /\ \A d \in Cpus : d # c => tap'[d] = tap[d]
  <2> HIDE DEF cost
  <2> QED  BY <1>1, <1>5, <1>6, TapPublishes
<1>8. /\ LockOwners'
      /\ lock' \in [Cpus -> {"free", "tap", "transfer", "ioctl"}]
      /\ \A d \in Cpus : d # c => lock'[d] = lock[d]
  BY <1>1, <1>3, <1>5, <1>7, LockTaken
<1>9. Unpublished(c)' = cost
  <2> HIDE DEF cost
  <2> QED  BY <1>3, <1>5, <1>6, <1>7 DEF Unpublished
<1>10. w \in [0 .. size - 1 -> Cell] /\ WrittenAt(w, buffer[c], p, r)
  <2>1. r.len = t.len /\ r.sn = WriterSN /\ r.pkt = t.pkt /\ r.sn \in Nat
    BY <1>1 DEF RecordOf
  <2>2. w = WithHeader(Transferred(Staged(c), p, t, result), p, r.sn, r.len)
    BY <2>1
  <2> HIDE DEF r, w, p, t
  <2> QED  BY <1>3, <1>4, <2>1, <2>2, TransferredPacket
<1>11. /\ buffer' \in [Cpus -> [0 .. size - 1 -> Cell]] /\ buffer'[c] = w
       /\ \A d \in Cpus : d # c => buffer'[d] = buffer[d]
  <2> HIDE DEF w
  <2> QED  BY <1>1, <1>5, <1>10
<1> QED
  <2>1. WrittenAt(buffer'[c], buffer[c], P[c], RecordOf(c, t))  BY <1>10, <1>11
  <2>2. transfer' \in [Cpus -> Transfer] /\ transfer'[c].pc = "none"
        /\ \A d \in Cpus : d # c => transfer'[d] = transfer[d]
    BY <1>1, <1>3, <1>5
  <2> HIDE DEF w, cost
  <2> QED  BY <1>3, <1>5, <1>7, <1>8, <1>9, <1>11, <2>1, <2>2, StoreKeeps, SMTT(60) DEF cost

(* A transfer that completes publishes what the tap staged.                *)
LEMMA TransferCompleteKeeps ==
  ASSUME IInv, NEW c \in Cpus, NEW result \in TransferResults,
         TransferComplete(c, result)
  PROVE  IInv'
<1> DEFINE t == transfer[c]
           p == P[c]
           b == buffer[c]
           r == RecordOf(c, t)
           w == WithHeader(Transferred(b, p, t, result), p, WriterSN, t.len)
           cost == PacketCost(p, t.len, size)
<1>1. /\ TypeOK /\ LockOwners /\ tap \in [Cpus -> Tap] /\ WriterSN \in Nat
      /\ transfer \in [Cpus -> Transfer] /\ t \in Transfer /\ size \in Nat
      /\ buffer \in [Cpus -> [0 .. size - 1 -> Cell]]
      /\ b \in [0 .. size - 1 -> Cell] /\ Ring(c) /\ InHand(c)
      /\ lock \in [Cpus -> {"free", "tap", "transfer", "ioctl"}]
  BY DEF IInv, TypeOK
<1>2. /\ t.len \in Nat /\ t.pkt \in Nat /\ t.filter \in Nat /\ t.frame \in Frame
      /\ t.newP \in Int
  BY <1>1 DEF Transfer
<1>3. t.frame.hdr \in Nat /\ t.frame.look \in Nat  BY <1>2 DEF Frame
<1>4. t.pc = "pending" /\ HalfTransferred(c, t)
  BY <1>1 DEF TransferComplete, InHand
<1>5. /\ t.frame.hdr + t.frame.look < t.len /\ t.len + HdrSize <= Free[c]
      /\ t.newP = EndOfPacket(p, t.len, size)
      /\ b[p] = Header(Unset, t.len, 0)
      /\ \A k \in 0 .. t.frame.hdr + t.frame.look - 1 :
           b[At(p, HdrSize + k, size)] = Data(t.pkt, k)
  BY <1>4 DEF HalfTransferred
<1>5q. \A k \in 0 .. t.frame.hdr + t.frame.look - 1 :
          b[At(p, HdrSize + k, size)] = Data(t.pkt, k)
  BY <1>5
<1>6. b[p].len = t.len  BY <1>5 DEF Header
<1>7. tap[c].pc \notin {"publish", "signal"} /\ lock[c] = "transfer"
  BY <1>1, <1>4 DEF LockOwners
<1>8. Unpublished(c) = 0  BY <1>4, <1>7 DEF Unpublished
<1>9. p \in HeaderPositions(size) /\ t.len + HdrSize <= size
  <2>1. Free[c] = size - Used(c) + 0 /\ InUse(c) >= 0 /\ Unfreed(c) >= 0
    BY <1>1, <1>8 DEF Ring
  <2>2. /\ Free[c] \in Int /\ InUse(c) \in Int /\ Unfreed(c) \in Nat
        /\ Used(c) = InUse(c) + Unfreed(c)
    BY <1>1, RingTypes DEF Used
  <2>3. Free[c] <= size  BY <1>1, <2>1, <2>2
  <2>4. \A l \in Nat : l + HdrSize <= Free[c] => l + HdrSize <= size /\ size # 0
    BY <1>1, <2>2, <2>3, HdrSizeAssumption
  <2>5. size # 0 /\ t.len + HdrSize <= size  BY <1>2, <1>5, <2>4
  <2> QED  BY <1>1, <2>5 DEF Ring
<1>10. /\ buffer' = [buffer EXCEPT ![c] = w]
       /\ Complete(c, t, EndOfPacket(p, t.len, size))
       /\ transfer' = [transfer EXCEPT ![c].pc = "publish", ![c].inc = cost]
       /\ UNCHANGED <<lock, tap, io>>
  BY <1>5, <1>6 DEF TransferComplete, Complete, PacketCost
<1>11. cost \in Nat  BY <1>2, <1>9, <1>1, PacketBounds
<1>12. /\ transfer' \in [Cpus -> Transfer] /\ transfer'[c].pc = "publish"
       /\ transfer'[c].inc = cost
       /\ \A d \in Cpus : d # c => transfer'[d] = transfer[d]
  <2> DEFINE y == [[t EXCEPT !.pc = "publish"] EXCEPT !.inc = cost]
  <2>1. transfer' = [transfer EXCEPT ![c] = y]  BY <1>1, <1>10
  <2>2. \A x \in Transfer, n \in Nat :
          /\ [x EXCEPT !.pc = "publish"] \in Transfer
          /\ [x EXCEPT !.inc = n] \in Transfer
          /\ [[x EXCEPT !.pc = "publish"] EXCEPT !.inc = n].pc = "publish"
          /\ [[x EXCEPT !.pc = "publish"] EXCEPT !.inc = n].inc = n
    BY DEF Transfer
  <2> HIDE DEF cost, t
  <2>3. y \in Transfer /\ y.pc = "publish" /\ y.inc = cost
    BY <1>1, <1>11, <2>2
  <2> HIDE DEF y
  <2> QED  BY <1>1, <2>1, <2>3
<1>13. LockOwners'
  <2>1. io'.pc = io.pc /\ io'.next = io.next  BY <1>10
  <2> QED  BY <1>1, <1>7, <1>10, <1>12, <2>1 DEF LockOwners
<1>14. Unpublished(c)' = cost
  <2> HIDE DEF cost
  <2> QED  BY <1>7, <1>10, <1>11, <1>12 DEF Unpublished
<1>15. StagedAt(b, b, p, t.pkt, t.len, t.frame.hdr + t.frame.look)
  <2> DEFINE have == t.frame.hdr + t.frame.look
  <2>0. \A k \in 0 .. have - 1 : b[At(p, HdrSize + k, size)] = Data(t.pkt, k)
    <3>1. \A m, n \in Nat : m + n - 1 = (m + n) - 1  OBVIOUS
    <3>2. t.frame.hdr + t.frame.look - 1 = have - 1  BY <1>3, <3>1
    <3> HIDE DEF have, b, p, t
    <3> QED  BY <1>5q, <3>2
  <2>1. ASSUME NEW q \in 0 .. size - 1,
               Ahead(p, q, size) \in HdrSize .. HdrSize + have - 1
        PROVE  b[q] = Data(t.pkt, Ahead(p, q, size) - HdrSize)
    <3> DEFINE d == Ahead(p, q, size)
    <3>1. p \in 0 .. size - 1 /\ 0 \in 0 .. size
      BY <1>1, <1>9, HdrSizeAssumption DEF HeaderPositions
    <3>2. At(p, d, size) = q /\ d \in Int
      <4>1. At(p, d, size) = q /\ d \in 0 .. size - 1
        BY <1>1, <3>1, AheadAt
      <4> QED  BY <4>1
    <3>3. d \in HdrSize .. HdrSize + have - 1  BY <2>1
    <3>4. have \in Nat  BY <1>3
    <3> HIDE DEF d, have
    <3>5. d - HdrSize \in 0 .. have - 1 /\ HdrSize + (d - HdrSize) = d
      BY <3>2, <3>3, <3>4, HdrSizeAssumption
    <3>6. b[At(p, HdrSize + (d - HdrSize), size)] = Data(t.pkt, d - HdrSize)
      <4> HIDE DEF b, p, t
      <4> QED  BY <2>0, <3>5
    <3> QED  BY <3>2, <3>5, <3>6 DEF d
  <2> QED  BY <2>1 DEF StagedAt
<1>16. w \in [0 .. size - 1 -> Cell] /\ WrittenAt(w, b, p, r)
  <2>1. r.len = t.len /\ r.sn = WriterSN /\ r.pkt = t.pkt /\ r.sn \in Nat
    BY <1>1 DEF RecordOf
  <2>2. w = WithHeader(Transferred(b, p, t, result), p, r.sn, r.len)
    BY <2>1
  <2> HIDE DEF r, w, p, t, b
  <2> QED  BY <1>1, <1>2, <1>3, <1>5, <1>9, <1>15, <2>1, <2>2, TransferredPacket
<1>17. /\ buffer' \in [Cpus -> [0 .. size - 1 -> Cell]] /\ buffer'[c] = w
       /\ \A d \in Cpus : d # c => buffer'[d] = buffer[d]
  <2> HIDE DEF w
  <2> QED  BY <1>1, <1>10, <1>16
<1> QED
  <2>1. WrittenAt(buffer'[c], buffer[c], P[c], RecordOf(c, t))  BY <1>16, <1>17
  <2>2. /\ tap' \in [Cpus -> Tap] /\ tap'[c].pc # "publish"
        /\ lock' \in [Cpus -> {"free", "tap", "transfer", "ioctl"}]
        /\ \A d \in Cpus : d # c => tap'[d] = tap[d] /\ lock'[d] = lock[d]
    BY <1>1, <1>7, <1>10
  <2> HIDE DEF w, cost
  <2> QED  BY <1>2, <1>5, <1>8, <1>10, <1>12, <1>13, <1>14, <1>17, <2>1, <2>2,
              StoreKeeps DEF cost

-------------------------------------------------------------------------------
(* The tap only copies into the free part of the ring.                     *)
LEMMA FreePartOnly ==
  ASSUME NEW c \in Cpus, TypeOK, Ring(c), Packets(c), Unpublished(c) = 0, size # 0,
         NEW n \in Nat, n + HdrSize <= Free[c],
         \A q \in 0 .. size - 1 :
           Ahead(P[c], q, size) >= HdrSize + n => buffer'[c][q] = buffer[c][q],
         UNCHANGED <<size, P, C, Free, rd, stored, produced, consumed>>,
         Unpublished(c)' = 0
  PROVE  Ring(c)' /\ Packets(c)' /\ (HalfRead(c) => HalfRead(c)')
<1> DEFINE o == OldestAt(c)
           u0 == consumed[c]
           u1 == produced[c]
           st == stored[c]
           b == buffer[c]
           b2 == buffer'[c]
           p == P[c]
<1>1. /\ Unfreed(c)' = Unfreed(c) /\ OldestAt(c)' = OldestAt(c)
      /\ InUse(c)' = InUse(c) /\ Base(c)' = Base(c) /\ Used(c)' = Used(c)
  BY DEF Unfreed, OldestAt, InUse, Base, Used
<1>2. Ring(c)'  BY <1>1 DEF Ring
<1>3. HalfRead(c) => HalfRead(c)'  BY <1>1 DEF HalfRead
<1>4. /\ size \in Nat /\ InUse(c) \in Nat /\ InUse(c) = u1 - u0
      /\ u0 \in Int /\ u1 \in Int /\ st \in Seq(Stored)
      /\ InUse(c) + HdrSize + n <= size /\ HdrSize \in Nat /\ HdrSize > 0
      /\ o \in HeaderPositions(size) /\ p \in HeaderPositions(size)
      /\ p \in {o + InUse(c), o + InUse(c) - size}
  <2>1. /\ size \in Nat /\ InUse(c) \in Int /\ InUse(c) = u1 - u0
        /\ u0 \in Int /\ u1 \in Int /\ st \in Seq(Stored) /\ Unfreed(c) \in Nat
        /\ Free[c] \in Int
    BY RingTypes DEF InUse
  <2>2. Free[c] = size - (InUse(c) + Unfreed(c)) + 0 /\ InUse(c) >= 0
    BY DEF Ring, Used
  <2>3. \A i \in Int, f \in Nat :
          /\ i >= 0 /\ n + HdrSize <= size - (i + f) + 0
          => i \in Nat /\ i + HdrSize + n <= size
    BY <2>1, HdrSizeAssumption
  <2>4. InUse(c) \in Nat /\ InUse(c) + HdrSize + n <= size
    <3>1. n + HdrSize <= size - (InUse(c) + Unfreed(c)) + 0  BY <2>2
    <3> QED  BY <2>1, <2>2, <2>3, <3>1
  <2>5. /\ o \in HeaderPositions(size) /\ p \in HeaderPositions(size)
        /\ p \in {o + InUse(c), o + InUse(c) - size}
    BY DEF Ring
  <2> QED  BY <2>1, <2>4, <2>5, HdrSizeAssumption
<1>5. Layout(st, size, o, u0, u1) /\ Contents(b, st, size, o, u0)
  BY DEF Packets
<1>6. \A q \in 0 .. size - 1 : Ahead(p, q, size) >= HdrSize + n => b2[q] = b[q]
  OBVIOUS
<1> HIDE DEF o, u0, u1, st, b, b2, p
<1>7. /\ u0 <= u1 /\ u1 - u0 < size /\ p = At(o, u1 - u0, size)
      /\ HdrSize + n <= size - (u1 - u0) /\ u1 - u0 \in Nat
  <2>1. \A u \in Nat : /\ u + HdrSize + n <= size /\ p \in {o + u, o + u - size}
                       => u < size /\ p = At(o, u, size) /\ HdrSize + n <= size - u
    BY <1>4 DEF HeaderPositions, At
  <2> QED  BY <1>4, <2>1
<1>8. \A q \in 0 .. size - 1 :
        Ahead(p, q, size) >= size - (u1 - u0) => b2[q] = b[q]
  <2> TAKE q \in 0 .. size - 1
  <2>1. Ahead(p, q, size) \in Int  BY <1>4 DEF Ahead, HeaderPositions
  <2>2. \A d \in Int : d >= size - (u1 - u0) => d >= HdrSize + n
    BY <1>4, <1>7
  <2>3. Ahead(p, q, size) >= size - (u1 - u0) => Ahead(p, q, size) >= HdrSize + n
    BY <2>1, <2>2
  <2> QED  BY <1>6, <2>3
<1>9. Contents(b2, st, size, o, u0)
  BY <1>4, <1>5, <1>7, <1>8, ContentsKept
<1>10. Packets(c)'
  BY <1>1, <1>5, <1>9 DEF Packets, o, u0, u1, st, b2
<1> QED  BY <1>2, <1>3, <1>10

\* NPF_tap dropping a packet after staging its first bytes preserves the
\* invariant.
LEMMA TapTransferFailsKeeps ==
  ASSUME IInv, ~Uniprocessor, NEW c \in Cpus, TapTransferFails(c)
  PROVE  IInv'
<1>1. /\ TypeOK /\ LockOwners /\ Irps /\ tap \in [Cpus -> Tap]
      /\ buffer \in [Cpus -> [0 .. size - 1 -> Cell]]
      /\ Ring(c) /\ Packets(c) /\ InHand(c)
  BY DEF IInv, TypeOK
<1>2. NeedsTransfer(c) /\ AtLock(c) /\ Fits(c) /\ TapDrop(c)
      /\ buffer' = [buffer EXCEPT ![c] = Staged(c)]
  BY DEF TapTransferFails, NeedsTransfer
<1>3. /\ transfer[c].pc = "none" /\ Unpublished(c) = 0 /\ size # 0 /\ size \in Nat
      /\ tap[c].len + HdrSize <= Free[c] /\ tap[c].len \in Nat
  BY <1>2, AtLockFacts
<1>4. /\ Staged(c) \in [0 .. size - 1 -> Cell]
      /\ StagedAt(Staged(c), buffer[c], P[c], tap[c].pkt, tap[c].len,
                  tap[c].frame.hdr + tap[c].frame.look)
  BY <1>2, TransferNeeded
<1>5. /\ buffer' \in [Cpus -> [0 .. size - 1 -> Cell]] /\ buffer'[c] = Staged(c)
      /\ \A d \in Cpus : d # c => buffer'[d] = buffer[d]
  BY <1>1, <1>2, <1>4
<1>6. TypeOK'  BY <1>1, <1>2, <1>5, TapDropTypes
<1>7. /\ tap'[c].pc = "idle" /\ \A d \in Cpus : d # c => tap'[d] = tap[d]
      /\ UNCHANGED <<size, P, C, Free, lock, transfer, rd, io, historyVars>>
  BY <1>1, <1>2 DEF TapDrop, idleTap
<1>8. LockOwners' /\ Irps'  BY <1>1, <1>7 DEF LockOwners, Irps
<1>9. \A d \in Cpus : d # c => RingUntouched(d)
  BY <1>5, <1>7 DEF RingUntouched, historyVars
<1>10. Ring(c)' /\ Packets(c)' /\ (HalfRead(c) => HalfRead(c)')
  <2>1. Unpublished(c)' = 0  BY <1>3, <1>7 DEF Unpublished
  <2>2. \A q \in 0 .. size - 1 :
          Ahead(P[c], q, size) >= HdrSize + tap[c].len
            => buffer'[c][q] = buffer[c][q]
    BY <1>4, <1>5 DEF StagedAt
  <2> QED  BY <1>1, <1>3, <1>7, <2>1, <2>2, FreePartOnly DEF historyVars
<1>11. InHand(c)'
  BY <1>1, <1>3, <1>7, <1>10 DEF InHand
<1> QED  BY <1>6, <1>8, <1>9, <1>10, <1>11, RingUntouchedKeeps DEF IInv

\* NPF_tap leaving a transfer pending preserves the invariant.
LEMMA TapTransferLaterKeeps ==
  ASSUME IInv, ~Uniprocessor, NEW c \in Cpus, TapTransferLater(c)
  PROVE  IInv'
<1> DEFINE t == tap[c]
           x == [pc |-> "pending", frame |-> t.frame, pkt |-> t.pkt,
                 len |-> t.len, filter |-> t.filter, newP |-> NewP(c), inc |-> 0]
           w == WithHeader(Staged(c), P[c], Unset, t.len)
           have == t.frame.hdr + t.frame.look
<1>1. /\ TypeOK /\ LockOwners /\ Irps /\ tap \in [Cpus -> Tap]
      /\ buffer \in [Cpus -> [0 .. size - 1 -> Cell]]
      /\ transfer \in [Cpus -> Transfer]
      /\ lock \in [Cpus -> {"free", "tap", "transfer", "ioctl"}]
      /\ Ring(c) /\ Packets(c) /\ InHand(c)
  BY DEF IInv, TypeOK
<1>2. NeedsTransfer(c) /\ AtLock(c) /\ Fits(c)
  BY DEF TapTransferLater, NeedsTransfer
<1>3. /\ transfer[c].pc = "none" /\ Unpublished(c) = 0 /\ size # 0 /\ size \in Nat
      /\ t.len + HdrSize <= Free[c] /\ t.len \in Nat /\ P[c] \in HeaderPositions(size)
      /\ t.len + HdrSize <= size /\ t.pkt \in Nat /\ t.filter \in Nat
      /\ t.frame \in Frame /\ t.frame.hdr \in Nat /\ t.frame.look \in Nat
      /\ ~(io.pc = "lock" /\ c < io.next) /\ io.pc # "apply"
  BY <1>2, AtLockFacts
<1>4. /\ have < t.len /\ Staged(c) \in [0 .. size - 1 -> Cell]
      /\ StagedAt(Staged(c), buffer[c], P[c], t.pkt, t.len, have)
      /\ NewP(c) = EndOfPacket(P[c], t.len, size)
  BY <1>2, TransferNeeded
<1>5. /\ lock' = [lock EXCEPT ![c] = "transfer"]
      /\ buffer' = [buffer EXCEPT ![c] = w]
      /\ transfer' = [transfer EXCEPT ![c] = x]
      /\ tap' = [tap EXCEPT ![c] = idleTap]
      /\ UNCHANGED <<size, P, C, Free, countVars, snVars, readEvent, configVars,
                     unfreeze, rd, io, arrivals, historyVars>>
  BY DEF TapTransferLater
<1>6. P[c] \in Int /\ P[c] \in 0 .. size - 1
  BY <1>3, HdrSizeAssumption DEF HeaderPositions
<1>7. w \in [0 .. size - 1 -> Cell]
  <2>1. Unset \in Int  BY DEF Unset
  <2> QED  BY <1>3, <1>4, <1>6, <2>1, WrittenTypes
<1>8. x \in Transfer
  <2>1. NewP(c) \in Int
    <3>1. EndOfPacket(P[c], t.len, size) \in 0 .. size  BY <1>3, PacketBounds
    <3> QED  BY <1>3, <1>4, <3>1
  <2> HIDE DEF t
  <2> QED  BY <1>3, <2>1 DEF Transfer
<1>9. /\ x.pc = "pending" /\ x.frame = t.frame /\ x.pkt = t.pkt /\ x.len = t.len
      /\ x.newP = NewP(c) /\ x.frame.hdr + x.frame.look = have
  OBVIOUS
<1>10. /\ buffer' \in [Cpus -> [0 .. size - 1 -> Cell]] /\ buffer'[c] = w
       /\ transfer' \in [Cpus -> Transfer] /\ transfer'[c] = x
       /\ tap' \in [Cpus -> Tap] /\ tap'[c].pc = "idle"
       /\ lock' \in [Cpus -> {"free", "tap", "transfer", "ioctl"}]
       /\ lock'[c] = "transfer"
       /\ \A d \in Cpus : d # c => /\ buffer'[d] = buffer[d]
                                   /\ transfer'[d] = transfer[d]
                                   /\ tap'[d] = tap[d] /\ lock'[d] = lock[d]
  <2>1. idleTap \in Tap /\ idleTap.pc = "idle"  BY IdleTypes DEF idleTap
  <2> HIDE DEF w, x
  <2> QED  BY <1>1, <1>5, <1>7, <1>8, <2>1
<1> HIDE DEF x, w, t, have
<1>11. TypeOK'
  BY <1>1, <1>5, <1>10 DEF TypeOK, countVars, snVars, configVars, historyVars
<1>12. LockOwners'
  <2>1. io'.pc = io.pc /\ io'.next = io.next  BY <1>5
  <2> QED  BY <1>1, <1>3, <1>10, <2>1 DEF LockOwners
<1>13. Irps'  BY <1>1, <1>5 DEF Irps
<1>14. \A d \in Cpus : d # c => RingUntouched(d)
  BY <1>5, <1>10 DEF RingUntouched, historyVars
<1>15. ASSUME NEW q \in 0 .. size - 1
       PROVE  /\ Ahead(P[c], q, size) \in Nat
              /\ w[q] = IF Ahead(P[c], q, size) < HdrSize
                          THEN Header(Unset, t.len, Ahead(P[c], q, size))
                          ELSE Staged(c)[q]
  <2>1. 0 \in 0 .. size  BY <1>3
  <2>2. Ahead(P[c], q, size) \in 0 .. size - 1  BY <1>3, <1>6, <2>1, AheadAt
  <2> QED  BY <1>3, <1>4, <2>2, HeaderWritten DEF w, t
<1>16. Ring(c)' /\ Packets(c)' /\ (HalfRead(c) => HalfRead(c)')
  <2>1. Unpublished(c)' = 0
    BY <1>9, <1>10 DEF Unpublished
  <2>2. \A q \in 0 .. size - 1 :
          Ahead(P[c], q, size) >= HdrSize + t.len => buffer'[c][q] = buffer[c][q]
    <3> TAKE q \in 0 .. size - 1
    <3>1. \A d \in Nat : d >= HdrSize + t.len => ~(d < HdrSize)
      BY <1>3, HdrSizeAssumption
    <3>2. Ahead(P[c], q, size) >= HdrSize + t.len => Staged(c)[q] = buffer[c][q]
      BY <1>4 DEF StagedAt
    <3> QED  BY <1>10, <1>15, <3>1, <3>2
  <2> QED  BY <1>1, <1>3, <1>5, <2>1, <2>2, FreePartOnly DEF historyVars
<1>17. ASSUME NEW y, y = x PROVE HalfTransferred(c, y)'
  <2>1. w[P[c]] = Header(Unset, t.len, 0)
    <3>1. Ahead(P[c], P[c], size) = 0 /\ 0 < HdrSize
      BY <1>3, <1>6, HdrSizeAssumption DEF Ahead
    <3> QED  BY <1>6, <1>15, <3>1
  <2>2. ASSUME NEW k \in 0 .. have - 1
        PROVE  w[At(P[c], HdrSize + k, size)] = Data(t.pkt, k)
    <3> DEFINE d == HdrSize + k
               q == At(P[c], d, size)
    <3>1. /\ d \in 0 .. size - 1 /\ ~(d < HdrSize) /\ d - HdrSize = k
          /\ d \in HdrSize .. HdrSize + have - 1
      <4>1. \A n \in Nat, h \in Nat : /\ n + HdrSize <= size /\ h < n /\ k \in 0 .. h - 1
              => /\ HdrSize + k \in 0 .. size - 1 /\ ~(HdrSize + k < HdrSize)
                 /\ (HdrSize + k) - HdrSize = k
                 /\ HdrSize + k \in HdrSize .. HdrSize + h - 1
        BY <1>3, HdrSizeAssumption
      <4>2. have \in Nat  BY <1>3 DEF have
      <4> QED  BY <1>3, <1>4, <4>1, <4>2
    <3> HIDE DEF d
    <3>2. Ahead(P[c], q, size) = d /\ q \in 0 .. size - 1
      BY <1>3, <1>6, <3>1, AheadOfAt
    <3> HIDE DEF q
    <3>3. Staged(c)[q] = Data(t.pkt, d - HdrSize)
      BY <1>4, <3>1, <3>2 DEF StagedAt
    <3>4. w[q] = Data(t.pkt, k)  BY <1>15, <3>1, <3>2, <3>3
    <3> QED  BY <3>4 DEF q, d
  <2>3. /\ y.frame = t.frame /\ y.pkt = t.pkt /\ y.len = t.len
        /\ y.newP = NewP(c) /\ y.frame.hdr + y.frame.look = have
    BY <1>9, <1>17
  <2>4. /\ P' = P /\ Free' = Free /\ size' = size /\ buffer'[c] = w
    BY <1>5, <1>10
  <2>5. /\ y.frame.hdr + y.frame.look < y.len
        /\ y.len + HdrSize <= Free'[c]
        /\ y.newP = EndOfPacket(P'[c], y.len, size')
        /\ buffer'[c][P'[c]] = Header(Unset, y.len, 0)
    BY <1>3, <1>4, <2>1, <2>3, <2>4
  <2>6. \A k \in 0 .. y.frame.hdr + y.frame.look - 1 :
          buffer'[c][At(P'[c], HdrSize + k, size')] = Data(y.pkt, k)
    <3>1. \A m, n \in Nat : m + n - 1 = (m + n) - 1  OBVIOUS
    <3>2. y.frame.hdr + y.frame.look - 1 = have - 1  BY <1>3, <2>3, <3>1
    <3> QED  BY <2>2, <2>3, <2>4, <3>2
  <2> QED  BY <2>5, <2>6 DEF HalfTransferred
<1>18. InHand(c)'
  <2>1. rd'.pc = "copy" /\ rd'.cpu = c => HalfRead(c)'
    BY <1>1, <1>5, <1>16 DEF InHand
  <2>2. ASSUME NEW y, y = transfer'[c] PROVE HalfTransferred(c, y)'
    BY <1>10, <1>17, <2>2
  <2>3. HalfTransferred(c, transfer[c])'
    BY <2>2 DEF HalfTransferred
  <2> QED  BY <1>9, <1>10, <2>1, <2>3 DEF InHand
<1> QED  BY <1>11, <1>12, <1>13, <1>14, <1>16, <1>18, RingUntouchedKeeps DEF IInv

-------------------------------------------------------------------------------
(* A new instance has empty rings.                                         *)
LEMMA InitIsGood ==
  ASSUME Init
  PROVE  IInv
<1>1. size \in Nat /\ (size = 0 \/ size >= HdrSize)
  <2>1. PICK d \in Dims : size = BufferSize(d)  BY DEF Init
  <2> QED  BY <2>1, CaptureAssumption, BufferSizes
<1>2. TypeOK
  <2>1. /\ buffer \in [Cpus -> [0 .. size - 1 -> Cell]]
        /\ tap \in [Cpus -> Tap] /\ transfer \in [Cpus -> Transfer]
        /\ rd \in Read /\ io \in Io
    BY <1>1, NewBuffersType, IdleTypes DEF Init
  <2>2. /\ minToCopy \in Nat /\ timeOut \in TimeOutKinds
    BY CaptureAssumption DEF Init, PerCpuMinToCopy
  <2>3. /\ stored \in [Cpus -> Seq(Stored)]
        /\ captured \in Seq([pkt : Nat, len : Nat, cpu : Cpus, filter : Nat])
        /\ delivered \in Seq(Seq(Cell))
    BY DEF Init
  <2>4. /\ P \in [Cpus -> Int] /\ C \in [Cpus -> Int] /\ Free \in [Cpus -> Int]
        /\ lock \in [Cpus -> {"free", "tap", "transfer", "ioctl"}]
        /\ Received \in [Cpus -> Nat] /\ Accepted \in [Cpus -> Nat]
        /\ Dropped \in [Cpus -> Nat] /\ unfreeze \in [Cpus -> BOOLEAN]
        /\ produced \in [Cpus -> Int] /\ consumed \in [Cpus -> Int]
    BY <1>1 DEF Init
  <2>5. /\ WriterSN \in Nat /\ ReaderSN \in Nat /\ readEvent \in BOOLEAN
        /\ filter \in Nat /\ arrivals \in Nat
    BY DEF Init
  <2> QED  BY <1>1, <2>1, <2>2, <2>3, <2>4, <2>5 DEF TypeOK
<1>3. /\ rd.pc = "idle" /\ io.pc = "idle" /\ io.size = 0
      /\ \A c \in Cpus : tap[c].pc = "idle" /\ transfer[c].pc = "none"
  BY DEF Init, idleTap, noTransfer, idleRead, idleIo
<1>4. LockOwners  BY <1>3 DEF LockOwners
<1>5. Irps  BY <1>1, <1>3 DEF Irps
<1>6. \A c \in Cpus : Emptied(c)  BY <1>1, <1>3 DEF Init, Emptied
<1> QED  BY <1>2, <1>4, <1>5, <1>6, EmptiedIsGood DEF IInv

(* Each step of the driver keeps the inductive invariant.                  *)
LEMMA StepKeeps ==
  ASSUME IInv, ~Uniprocessor, [Next]_vars
  PROVE  IInv'
<1>1. rd.cpu \in Cpus  BY RingTypes, ReadRecord DEF IInv, TypeOK
<1>2. ASSUME NEW c \in Cpus, NEW f \in Frames, TapReceive(c, f)  PROVE IInv'
  BY <1>2, TapReceiveKeeps
<1>3. ASSUME NEW c \in Cpus, TapStep(c)  PROVE IInv'
  <2>1. ASSUME NEW fres \in FilterResults, TapFilter(c, fres)  PROVE IInv'
    BY <2>1, TapFilterKeeps
  <2>2. CASE TapCheckSize(c)  BY <2>2, TapCheckSizeKeeps
  <2>3. CASE TapNoRoom(c) \/ TapDropPending(c)  BY <2>3, TapDropKeeps
  <2>4. CASE TapStore(c)  BY <2>4, TapStoreKeeps
  <2>5. CASE TapTransferFails(c)  BY <2>5, TapTransferFailsKeeps
  <2>6. CASE TapTransferLater(c)  BY <2>6, TapTransferLaterKeeps
  <2>7. ASSUME NEW result \in TransferResults, TapTransferNow(c, result)
        PROVE  IInv'
    BY <2>7, TapTransferNowKeeps
  <2>8. CASE TapPublish(c)  BY <2>8, TapPublishKeeps
  <2>9. CASE TapSignal(c)  BY <2>9, TapSignalKeeps
  <2> QED  BY <1>3, <2>1, <2>2, <2>3, <2>4, <2>5, <2>6, <2>7, <2>8, <2>9
              DEF TapStep
<1>4. ASSUME NEW c \in Cpus, TransferStep(c)  PROVE IInv'
  <2>1. ASSUME NEW result \in TransferResults, TransferComplete(c, result)
        PROVE  IInv'
    BY <2>1, TransferCompleteKeeps
  <2>2. CASE TransferPublish(c)  BY <2>2, TransferPublishKeeps
  <2>3. CASE TransferRelease(c)  BY <2>3, TransferReleaseKeeps
  <2>4. CASE TransferUnfreeze(c)  BY <2>4, TransferUnfreezeKeeps
  <2> QED  BY <1>4, <2>1, <2>2, <2>3, <2>4 DEF TransferStep
<1>5. CASE (\E len \in ReadLengths : ReadStart(len)) \/ ReadStep
  <2>1. CASE ReadHeader  BY <2>1, <1>1, ReadHeaderKeeps
  <2>2. CASE ReadData  BY <2>2, <1>1, ReadDataKeeps
  <2>3. CASE ReadFree  BY <2>3, <1>1, ReadFreeKeeps
  <2> QED  BY <1>5, <2>1, <2>2, <2>3, ReadQuietKeeps DEF ReadStep
<1>6. CASE Ioctl  BY <1>6, IoctlKeeps
<1>7. CASE IoctlStep  BY <1>7, IoctlLockKeeps, ResetKeeps DEF IoctlStep
<1>8. CASE UNCHANGED vars
  <2>1. TypeOK' /\ LockOwners' /\ Irps'
    <3>1. TypeOK /\ LockOwners /\ Irps  BY DEF IInv
    <3>2. TypeOK'
      BY <1>8, <3>1 DEF TypeOK, vars, ringVars, countVars, snVars, configVars,
                        historyVars
    <3>3. LockOwners' /\ Irps'
      BY <1>8, <3>1 DEF LockOwners, Irps, vars, ringVars
    <3> QED  BY <3>2, <3>3
  <2>2. \A c \in Cpus : RingUntouched(c)
    BY <1>8 DEF RingUntouched, vars, ringVars, historyVars
  <2> QED  BY <2>1, <2>2, RingUntouchedKeeps DEF IInv
<1> QED  BY <1>2, <1>3, <1>4, <1>5, <1>6, <1>7, <1>8 DEF Next

\* The invariant holds of every behaviour of a kernel whose spin locks
\* exclude (not a uniprocessor one).
LEMMA Invariance ==
  ASSUME ~Uniprocessor
  PROVE  Spec => []IInv
<1>1. Init => IInv  BY InitIsGood
<1>2. IInv /\ [Next]_vars => IInv'  BY StepKeeps
<1> QED  BY <1>1, <1>2, PTL DEF Spec

-------------------------------------------------------------------------------
(* What the invariant says of a ring, in the words of RingAccounting: the  *)
(* Free of NPF_tap and NPF_Read is exact but for what they have in hand.   *)
LEMMA RingIsAccounted ==
  ASSUME IInv
  PROVE  RingAccounting
<1> SUFFICES ASSUME NEW c \in Cpus
             PROVE  /\ Free[c] \in 0 .. size
                    /\ Free[c] = size - InUse(c) + Unpublished(c) - Unfreed(c)
                    /\ InUse(c) \in 0 .. size
                    /\ P[c] \in {OldestAt(c) + InUse(c), OldestAt(c) + InUse(c) - size}
                    /\ size > 0 => {P[c], OldestAt(c)} \subseteq 0 .. size - HdrSize
  BY DEF RingAccounting
<1>1. Ring(c)  BY DEF IInv
<1>2. /\ size \in Nat /\ Free[c] \in Int /\ InUse(c) \in Int
      /\ Unfreed(c) \in Nat /\ Unpublished(c) \in Int
  BY RingTypes DEF IInv
<1>3. /\ Free[c] = size - (InUse(c) + Unfreed(c)) + Unpublished(c)
      /\ InUse(c) >= 0 /\ InUse(c) + Unfreed(c) <= size
      /\ Unpublished(c) >= 0 /\ Unpublished(c) <= InUse(c)
  BY <1>1 DEF Ring, Used
<1>4. /\ Free[c] \in 0 .. size
      /\ Free[c] = size - InUse(c) + Unpublished(c) - Unfreed(c)
      /\ InUse(c) \in 0 .. size
  BY <1>2, <1>3
<1>5. size > 0 => {P[c], OldestAt(c)} \subseteq 0 .. size - HdrSize
  <2>1. size > 0 => size # 0  BY <1>2
  <2> QED  BY <1>1, <2>1 DEF Ring, HeaderPositions
<1> QED  BY <1>1, <1>4, <1>5 DEF Ring

(* And in the words of StoredIntact.                                       *)
LEMMA PacketsAreIntact ==
  ASSUME IInv, TransfersSucceed
  PROVE  StoredIntact
<1> SUFFICES ASSUME NEW c \in Cpus
             PROVE  /\ \A i \in DOMAIN stored[c] :
                         IntactAt(buffer[c], Position(c, stored[c][i]), stored[c][i])
                    /\ stored[c] # << >> => Head(stored[c]).at = consumed[c]
  BY DEF StoredIntact
<1> DEFINE st == stored[c]
           o == OldestAt(c)
           u0 == consumed[c]
           u1 == produced[c]
           b == buffer[c]
<1>1. /\ Ring(c) /\ Layout(st, size, o, u0, u1) /\ Contents(b, st, size, o, u0)
  BY DEF IInv, Packets
<1>2. /\ size \in Nat /\ u0 \in Int /\ u1 \in Int /\ st \in Seq(Stored)
      /\ Unfreed(c) \in Nat
  BY RingTypes DEF IInv
<1>3. u0 <= u1 /\ u1 - u0 <= size
  BY <1>1, <1>2 DEF Ring, Used, InUse
<1>5. st # << >> => Head(st).at = u0
  <2>1. st # << >> => Head(st) = st[1]  BY <1>2
  <2> QED  BY <1>1, <2>1 DEF Layout
<1>6. DOMAIN st = 1 .. Len(st)  BY <1>2
<1>7. \A x : Position(c, x) = PositionIn(size, o, u0, x.at)
  BY DEF Position, PositionIn
<1> HIDE DEF st, o, u0, u1, b
<1>8. ASSUME NEW i \in 1 .. Len(st)
      PROVE  IntactAt(b, PositionIn(size, o, u0, st[i].at), st[i])
  <2> DEFINE p == PositionIn(size, o, u0, st[i].at)
             n == st[i].len
  <2>1. st[i] \in Stored  BY <1>2, ElementOfSeq
  <2>2. st[i].at \in Int /\ n \in Nat  BY <2>1 DEF Stored
  <2>3. u0 <= st[i].at /\ st[i].at + n + HdrSize <= u1 /\ p \in HeaderPositions(size)
    BY <1>1 DEF Layout
  <2>4. \A d \in 0 .. HdrSize + n - 1 : b[At(p, d, size)] = CellOf(st[i], d)
    BY <1>1 DEF Contents
  <2>5. n + HdrSize <= size
    <3>1. \A a \in Int, l \in Nat : u0 <= a /\ a + l + HdrSize <= u1
            => l + HdrSize <= size
      BY <1>2, <1>3, HdrSizeAssumption
    <3> QED  BY <2>2, <2>3, <3>1
  <2> HIDE DEF p, n
  <2>6. p \in 0 .. size - 1  BY <1>2, <2>3, HdrSizeAssumption DEF HeaderPositions
  <2>7. ASSUME NEW k \in 0 .. HdrSize - 1
        PROVE  b[At(p, k, size)] = Header(st[i].sn, st[i].len, k)
    <3>1. k \in 0 .. HdrSize + n - 1 /\ k < HdrSize  BY <2>2, HdrSizeAssumption
    <3> QED  BY <2>4, <3>1 DEF CellOf
  <2>8. ASSUME NEW k \in 0 .. n - 1
        PROVE  b[At(AfterHeader(p, size), k, size)] = Data(st[i].pkt, k)
    <3>1. /\ HdrSize + k \in 0 .. HdrSize + n - 1 /\ ~(HdrSize + k < HdrSize)
          /\ (HdrSize + k) - HdrSize = k /\ HdrSize + k < size
          /\ HdrSize \in Nat /\ k \in Nat
      <4>1. \A m \in Nat : m + HdrSize <= size /\ k \in 0 .. m - 1
              => /\ HdrSize + k \in 0 .. HdrSize + m - 1
                 /\ ~(HdrSize + k < HdrSize) /\ (HdrSize + k) - HdrSize = k
                 /\ HdrSize + k < size /\ HdrSize \in Nat /\ k \in Nat
        BY <1>2, HdrSizeAssumption
      <4> QED  BY <2>2, <2>5, <2>8, <4>1
    <3>2. AfterHeader(p, size) = At(p, HdrSize, size)
      BY <1>2, <2>3, HeaderAdvances
    <3>3. At(At(p, HdrSize, size), k, size) = At(p, HdrSize + k, size)
      BY <1>2, <2>6, <3>1, AtAt
    <3>4. b[At(p, HdrSize + k, size)] = Data(st[i].pkt, (HdrSize + k) - HdrSize)
      BY <2>4, <3>1 DEF CellOf
    <3> QED  BY <3>1, <3>2, <3>3, <3>4
  <2> QED  BY <2>7, <2>8 DEF IntactAt, p, n
<1> QED  BY <1>5, <1>6, <1>7, <1>8 DEF st, o, u0, b

-------------------------------------------------------------------------------
(* The driver's state is well typed: no counter or position leaves its     *)
(* range, for any number of CPUs.                                          *)
THEOREM TypeCorrect ==
  ASSUME ~Uniprocessor
  PROVE  Spec => []TypeOK
<1>1. IInv => TypeOK  BY DEF IInv
<1> QED  BY <1>1, Invariance, PTL

(* Free, P and C of NPF_tap, NPF_TransferDataComplete and NPF_Read always  *)
(* agree: NPF_Read takes no lock, and computes what a packet took from the *)
(* ring on its own.                                                        *)
THEOREM FreeIsExact ==
  ASSUME ~Uniprocessor
  PROVE  Spec => []RingAccounting
<1>1. IInv => RingAccounting  BY RingIsAccounted
<1> QED  BY <1>1, Invariance, PTL

(* No producer and no ioctl ever touches a stored packet that NPF_Read has *)
(* not copied yet, if every NdisTransferData succeeds.                     *)
THEOREM NoPacketOverwritten ==
  ASSUME ~Uniprocessor, TransfersSucceed
  PROVE  Spec => []StoredIntact
<1>1. IInv => StoredIntact  BY PacketsAreIntact
<1> QED  BY <1>1, Invariance, PTL

-------------------------------------------------------------------------------
(* The five ways a step changes what has been captured and delivered.      *)
Quiet ==
  /\ UNCHANGED <<stored, captured, delivered, WriterSN, ReaderSN>>
  /\ rd'.pc = "copy" => rd' = rd

\* a tap or a completion gives a packet its sequence number
Completes ==
  \E c \in Cpus : \E t \in Tap \cup Transfer : \E e :
     Complete(c, t, e) /\ rd' = rd

\* an ioctl empties the buffers
Resets == io.pc = "apply" /\ \E s : ResetBuffers(s)

\* The steps of NPF_Read that move no packet change no history.
LEMMA ReadsAreQuiet ==
  ASSUME IInv,
         \/ \E len \in ReadLengths : ReadStart(len)
         \/ ReadOccupation \/ ReadCheck \/ ReadAwake \/ ReadTimeOut
         \/ ReadClear \/ ReadPrepare \/ ReadSkipCpu \/ ReadReturn \/ ReadFree
  PROVE  Quiet
<1>1. rd \in Read  BY DEF IInv, TypeOK
<1>2. UNCHANGED <<stored, captured, delivered, WriterSN, ReaderSN>>
  BY DEF ReadStart, ReadOccupation, ReadCheck, ReadAwake, ReadTimeOut, ReadClear,
     ReadPrepare, ReadSkipCpu, ReadReturn, ReadFree, historyVars, snVars
<1>3. rd'.pc = "copy" => rd' = rd
  <2>1. CASE (\E len \in ReadLengths : ReadStart(len)) \/ ReadReturn
    <3>1. ASSUME NEW len \in ReadLengths, ReadStart(len)
          PROVE  rd' = rd \/ rd'.pc = "sum"
      BY <3>1 DEF ReadStart, idleRead
    <3>2. ReadReturn => rd'.pc = "idle"
      BY DEF ReadReturn, idleRead
    <3> QED  BY <2>1, <3>1, <3>2
  <2>2. CASE ReadOccupation \/ ReadCheck \/ ReadAwake \/ ReadTimeOut
    BY <1>1, <2>2 DEF ReadOccupation, ReadCheck, ReadAwake, ReadTimeOut, Read
  <2>3. CASE ReadClear \/ ReadPrepare \/ ReadSkipCpu \/ ReadFree
    BY <1>1, <2>3 DEF ReadClear, ReadPrepare, ReadSkipCpu, Scanning, ReadFree, Read
  <2> QED  BY <2>1, <2>2, <2>3
<1> QED  BY <1>2, <1>3 DEF Quiet

\* Every step of the driver is one of the five.
LEMMA StepKinds ==
  ASSUME IInv, [Next]_vars
  PROVE  Quiet \/ Completes \/ ReadHeader \/ ReadData \/ Resets
<1>0. /\ \A c \in Cpus : tap[c] \in Tap /\ transfer[c] \in Transfer
  BY DEF IInv, TypeOK
<1>1. ASSUME NEW c \in Cpus, NEW f \in Frames, TapReceive(c, f)  PROVE Quiet
  BY <1>1 DEF TapReceive, Quiet, historyVars, snVars
<1>2. ASSUME NEW c \in Cpus, TapStep(c)  PROVE Quiet \/ Completes
  <2>1. ASSUME NEW fres \in FilterResults, TapFilter(c, fres)  PROVE Quiet
    BY <2>1 DEF TapFilter, Quiet, historyVars, snVars
  <2>2. CASE TapCheckSize(c) \/ TapPublish(c) \/ TapSignal(c)
    BY <2>2 DEF TapCheckSize, TapPublish, TapSignal, Quiet, historyVars, snVars
  <2>3. CASE TapNoRoom(c) \/ TapDropPending(c) \/ TapTransferFails(c)
    BY <2>3 DEF TapNoRoom, TapDropPending, TapTransferFails, TapDrop, Quiet,
                historyVars, snVars
  <2>4. CASE TapTransferLater(c)
    BY <2>4 DEF TapTransferLater, Quiet, historyVars, snVars
  <2>5. CASE TapStore(c)
    <3>1. Complete(c, tap[c], EndOfPacket(P[c], tap[c].len, size))
      BY <2>5 DEF TapStore
    <3> QED  BY <1>0, <3>1 DEF Completes, Complete
  <2>6. ASSUME NEW result \in TransferResults, TapTransferNow(c, result)
        PROVE  Completes
    <3>1. Complete(c, tap[c], NewP(c))  BY <2>6 DEF TapTransferNow
    <3> QED  BY <1>0, <3>1 DEF Completes, Complete
  <2> QED  BY <1>2, <2>1, <2>2, <2>3, <2>4, <2>5, <2>6 DEF TapStep
<1>3. ASSUME NEW c \in Cpus, TransferStep(c)  PROVE Quiet \/ Completes
  <2>1. ASSUME NEW result \in TransferResults, TransferComplete(c, result)
        PROVE  Completes
    <3>1. Complete(c, transfer[c], transfer[c].newP)  BY <2>1 DEF TransferComplete
    <3> QED  BY <1>0, <3>1 DEF Completes, Complete
  <2>2. CASE TransferPublish(c) \/ TransferRelease(c) \/ TransferUnfreeze(c)
    BY <2>2 DEF TransferPublish, TransferRelease, TransferUnfreeze, Quiet,
                historyVars, snVars
  <2> QED  BY <1>3, <2>1, <2>2 DEF TransferStep
<1>4. CASE (\E len \in ReadLengths : ReadStart(len)) \/ ReadStep
  BY <1>4, ReadsAreQuiet DEF ReadStep
<1>5. CASE Ioctl
  BY <1>5 DEF Ioctl, SetFilter, DisableLoopback, SetBufferSize, SetMinToCopy,
              SetTimeOut, Quiet, historyVars, snVars
<1>6. CASE IoctlStep
  BY <1>6 DEF IoctlStep, IoctlLock, ResetBufferContents, ReplaceBuffers, Resets,
              Quiet, historyVars, snVars
<1>7. CASE UNCHANGED vars
  BY <1>7 DEF vars, Quiet, historyVars, snVars
<1> QED  BY <1>1, <1>2, <1>3, <1>4, <1>5, <1>6, <1>7 DEF Next

-------------------------------------------------------------------------------
(* Which packet a record of a buffer stands for.                           *)
Matches(s, cap) ==
  /\ s.sn \in 0 .. Len(cap) - 1
  /\ cap[s.sn + 1].pkt = s.pkt /\ cap[s.sn + 1].len = s.len

(* The packets of the buffers are the captured ones, each under its        *)
(* sequence number; the reader copies the one whose turn it is.            *)
Merged ==
  /\ Len(captured) = WriterSN /\ Len(delivered) = ReaderSN /\ ReaderSN <= WriterSN
  /\ \A c \in Cpus : \A i \in 1 .. Len(stored[c]) : Matches(stored[c][i], captured)
  /\ rd.pc = "copy" => stored[rd.cpu][1].sn = ReaderSN

\* what the application got is what was captured
DeliveredBytes == \A i \in 1 .. Len(delivered) : delivered[i] = BytesOf(captured[i])

\* a record of captured
Captured == [pkt : Nat, len : Nat, cpu : Cpus, filter : Nat]

\* A record of a buffer keeps its packet when another one is captured,
LEMMA MatchesStill ==
  ASSUME NEW cap \in Seq(Captured), NEW x \in Captured, NEW s, Matches(s, cap)
  PROVE  Matches(s, Append(cap, x))
<1>1. /\ Append(cap, x) \in Seq(Captured) /\ Len(Append(cap, x)) = Len(cap) + 1
      /\ \A i \in 1 .. Len(cap) : Append(cap, x)[i] = cap[i]
  BY AppendProperties
<1>2. Len(cap) \in Nat  BY LenProperties
<1>3. /\ s.sn + 1 \in 1 .. Len(cap) /\ s.sn \in 0 .. (Len(cap) + 1) - 1
  BY <1>2 DEF Matches
<1> QED  BY <1>1, <1>3 DEF Matches

\* and the record of that one has it at the end.
LEMMA MatchesLast ==
  ASSUME NEW cap \in Seq(Captured), NEW x \in Captured, NEW s,
         s.sn = Len(cap), s.pkt = x.pkt, s.len = x.len
  PROVE  Matches(s, Append(cap, x))
<1>1. /\ Len(Append(cap, x)) = Len(cap) + 1 /\ Append(cap, x)[Len(cap) + 1] = x
  BY AppendProperties
<1>2. Len(cap) \in Nat  BY LenProperties
<1>3. s.sn \in 0 .. (Len(cap) + 1) - 1  BY <1>2
<1> QED  BY <1>1, <1>3 DEF Matches

(* What a packet that gets a sequence number adds to the histories.        *)
LEMMA CompletesAdds ==
  ASSUME IInv, NEW c \in Cpus, NEW t \in Tap \cup Transfer, NEW e, Complete(c, t, e)
  PROVE  /\ WriterSN' = WriterSN + 1 /\ UNCHANGED <<ReaderSN, delivered, filter>>
         /\ \E x \in Captured :
              /\ captured' = Append(captured, x)
              /\ x.pkt = t.pkt /\ x.len = t.len /\ x.cpu = c /\ x.filter = t.filter
         /\ \E r : /\ stored' = [stored EXCEPT ![c] = Append(stored[c], r)]
                   /\ r.sn = WriterSN /\ r.pkt = t.pkt /\ r.len = t.len
<1>1. t.pkt \in Nat /\ t.len \in Nat /\ t.filter \in Nat
  BY DEF Tap, Transfer
<1>2. /\ WriterSN' = WriterSN + 1 /\ UNCHANGED <<ReaderSN, delivered, filter>>
  BY DEF Complete, configVars
<1> DEFINE x == [pkt |-> t.pkt, len |-> t.len, cpu |-> c, filter |-> t.filter]
           r == [sn |-> WriterSN, pkt |-> t.pkt, len |-> t.len,
                 filter |-> t.filter, at |-> produced[c]]
<1>3. /\ captured' = Append(captured, x)
      /\ stored' = [stored EXCEPT ![c] = Append(stored[c], r)]
  BY DEF Complete
<1>4. /\ x \in Captured /\ x.pkt = t.pkt /\ x.len = t.len /\ x.cpu = c
      /\ x.filter = t.filter /\ r.sn = WriterSN /\ r.pkt = t.pkt /\ r.len = t.len
  BY <1>1 DEF Captured
<1> QED  BY <1>2, <1>3, <1>4

\* A packet that gets a sequence number keeps the buffers merged.
LEMMA CompletesKeepsMerged ==
  ASSUME IInv, Merged, Completes
  PROVE  Merged'
<1>1. PICK c \in Cpus : \E t \in Tap \cup Transfer : \E e : Complete(c, t, e) /\ rd' = rd
  BY DEF Completes
<1>2. PICK t \in Tap \cup Transfer : \E e : Complete(c, t, e) /\ rd' = rd
  BY <1>1
<1>3. PICK x \in Captured : /\ captured' = Append(captured, x)
                            /\ x.pkt = t.pkt /\ x.len = t.len
  BY <1>2, CompletesAdds
<1>4. PICK r : /\ stored' = [stored EXCEPT ![c] = Append(stored[c], r)]
               /\ r.sn = WriterSN /\ r.pkt = t.pkt /\ r.len = t.len
  BY <1>2, CompletesAdds
<1>5. WriterSN' = WriterSN + 1 /\ ReaderSN' = ReaderSN /\ delivered' = delivered /\ rd' = rd
  BY <1>2, CompletesAdds
<1>6. /\ captured \in Seq(Captured) /\ stored \in [Cpus -> Seq(Stored)]
      /\ WriterSN \in Nat /\ ReaderSN \in Nat /\ rd.cpu \in Cpus
  BY RingTypes, ReadRecord DEF IInv, TypeOK, Captured
<1>7. /\ Len(captured') = WriterSN' /\ Len(delivered') = ReaderSN' /\ ReaderSN' <= WriterSN'
  <2>1. Len(captured') = Len(captured) + 1  BY <1>3, <1>6, AppendProperties
  <2> QED  BY <1>5, <1>6, <2>1 DEF Merged
<1>8. ASSUME NEW d \in Cpus, NEW i \in 1 .. Len(stored'[d])
      PROVE  Matches(stored'[d][i], captured')
  <2>1. CASE d # c
    <3>1. stored'[d] = stored[d]  BY <1>4, <1>6, <2>1
    <3> QED  BY <1>3, <1>6, <3>1, MatchesStill DEF Merged
  <2>2. CASE d = c
    <3>1. stored'[c] = Append(stored[c], r) /\ stored[c] \in Seq(Stored)
      BY <1>4, <1>6
    <3>2. /\ Len(stored'[c]) = Len(stored[c]) + 1 /\ Len(stored[c]) \in Nat
          /\ \A j \in 1 .. Len(stored[c]) : stored'[c][j] = stored[c][j]
          /\ stored'[c][Len(stored[c]) + 1] = r
      BY <3>1
    <3>3. CASE i = Len(stored[c]) + 1
      BY <1>3, <1>4, <1>6, <2>2, <3>2, <3>3, MatchesLast DEF Merged
    <3>4. CASE i # Len(stored[c]) + 1
      <4>1. i \in 1 .. Len(stored[c])  BY <2>2, <3>2, <3>4
      <4>2. Matches(stored[c][i], captured)  BY <4>1 DEF Merged
      <4> QED  BY <1>3, <1>6, <2>2, <3>2, <4>1, <4>2, MatchesStill
    <3> QED  BY <3>3, <3>4
  <2> QED  BY <2>1, <2>2
<1>9. ASSUME rd'.pc = "copy"  PROVE stored'[rd'.cpu][1].sn = ReaderSN'
  <2>1. rd.pc = "copy" /\ rd'.cpu = rd.cpu  BY <1>5, <1>9
  <2>2. stored[rd.cpu] # << >> /\ stored[rd.cpu] \in Seq(Stored)
    BY <1>6, <2>1 DEF IInv, InHand, HalfRead
  <2>3. stored'[rd.cpu][1] = stored[rd.cpu][1]
    <3>1. CASE rd.cpu # c  BY <1>4, <1>6, <3>1
    <3>2. CASE rd.cpu = c
      <4>1. stored'[c] = Append(stored[c], r)  BY <1>4, <1>6
      <4>2. 1 \in 1 .. Len(stored[c])  BY <2>2, <3>2
      <4> QED  BY <2>2, <3>2, <4>1, <4>2
    <3> QED  BY <3>1, <3>2
  <2> QED  BY <1>5, <2>1, <2>3 DEF Merged
<1> QED  BY <1>7, <1>8, <1>9 DEF Merged

\* Steps that move no packet keep the merge and what was delivered.
LEMMA QuietKeepsMerged ==
  ASSUME Merged, Quiet
  PROVE  Merged' /\ (DeliveredBytes => DeliveredBytes')
BY DEF Quiet, Merged, DeliveredBytes

\* NPF_Read copying a bpf_hdr has the next packet in hand.
LEMMA ReadHeaderKeepsMerged ==
  ASSUME IInv, Merged, ReadHeader
  PROVE  Merged' /\ (DeliveredBytes => DeliveredBytes')
<1>1. rd.cpu \in Cpus /\ rd \in Read  BY RingTypes, ReadRecord DEF IInv, TypeOK
<1>2. /\ rd.pc = "scan" /\ Free[rd.cpu] < size /\ HeaderAtC.sn = ReaderSN
      /\ UNCHANGED <<stored, captured, delivered, WriterSN, ReaderSN>>
  BY DEF ReadHeader, Scanning, NextIsHere, historyVars, snVars
<1>3. rd'.cpu = rd.cpu
  BY <1>1 DEF ReadHeader, Read
<1>4. HeaderAtC = Header(stored[rd.cpu][1].sn, stored[rd.cpu][1].len, 0)
  BY <1>1, <1>2, OldestAtC DEF HeaderAtC
<1>5. stored[rd.cpu][1].sn = ReaderSN
  BY <1>2, <1>4 DEF Header
<1> QED  BY <1>2, <1>3, <1>5 DEF Merged, DeliveredBytes

\* A new packet changes nothing of what was delivered.
LEMMA CompletesKeepsDelivered ==
  ASSUME IInv, Merged, DeliveredBytes, Completes
  PROVE  DeliveredBytes'
<1>1. PICK c \in Cpus : \E t \in Tap \cup Transfer : \E e : Complete(c, t, e)
  BY DEF Completes
<1>2. PICK t \in Tap \cup Transfer : \E e : Complete(c, t, e)
  BY <1>1
<1>3. PICK x \in Captured : captured' = Append(captured, x)
  BY <1>2, CompletesAdds
<1>4. delivered' = delivered  BY <1>2, CompletesAdds
<1>5. captured \in Seq(Captured) /\ Len(delivered) <= Len(captured)
  BY DEF IInv, TypeOK, Captured, Merged
<1>6. ASSUME NEW i \in 1 .. Len(delivered)
      PROVE  delivered[i] = BytesOf(captured'[i])
  <2>1. i \in 1 .. Len(captured)
    BY <1>5, LenProperties DEF IInv, TypeOK
  <2>2. captured'[i] = captured[i]
    BY <1>3, <1>5, <2>1, AppendProperties
  <2> QED  BY <2>2 DEF DeliveredBytes
<1> QED  BY <1>4, <1>6 DEF DeliveredBytes

(* The packet the reader hands over is the next one that was captured.     *)
LEMMA NextIsRead ==
  ASSUME IInv, Merged, ReadData
  PROVE  /\ stored[rd.cpu] # << >> /\ stored[rd.cpu] \in Seq(Stored)
         /\ ReaderSN + 1 \in 1 .. Len(captured)
         /\ Len(delivered) \in Nat
         /\ rd.plen = captured[ReaderSN + 1].len
         /\ stored[rd.cpu][1].pkt = captured[ReaderSN + 1].pkt
<1>1. rd.cpu \in Cpus /\ rd.pc = "copy" /\ stored \in [Cpus -> Seq(Stored)]
      /\ captured \in Seq(Captured) /\ delivered \in Seq(Seq(Cell)) /\ ReaderSN \in Nat
  BY RingTypes, ReadRecord DEF ReadData, IInv, TypeOK, Captured
<1>2. stored[rd.cpu] # << >> /\ rd.plen = stored[rd.cpu][1].len
  BY <1>1 DEF IInv, InHand, HalfRead
<1>3. 1 \in 1 .. Len(stored[rd.cpu])  BY <1>1, <1>2
<1>4. Matches(stored[rd.cpu][1], captured) /\ stored[rd.cpu][1].sn = ReaderSN
  BY <1>1, <1>3 DEF Merged
<1>5. Len(captured) \in Nat /\ Len(delivered) \in Nat  BY <1>1, LenProperties
<1> QED  BY <1>1, <1>2, <1>4, <1>5 DEF Matches

\* NPF_Read copying the bytes of a packet keeps the buffers merged,
LEMMA ReadDataKeepsMerged ==
  ASSUME IInv, Merged, ReadData
  PROVE  Merged'
<1>1. /\ delivered' = Append(delivered, Bytes(buffer[rd.cpu], C[rd.cpu], rd.plen))
      /\ stored' = [stored EXCEPT ![rd.cpu] = Tail(stored[rd.cpu])]
      /\ ReaderSN' = ReaderSN + 1 /\ UNCHANGED <<WriterSN, captured>>
      /\ rd' = [rd EXCEPT !.pc = "free", !.inc = rd'.inc, !.copied = rd'.copied]
  <2>1. rd \in Read  BY DEF IInv, TypeOK
  <2> QED  BY <2>1 DEF ReadData, Read
<1>2. rd \in Read /\ rd.cpu \in Cpus /\ stored \in [Cpus -> Seq(Stored)]
      /\ delivered \in Seq(Seq(Cell)) /\ WriterSN \in Nat /\ ReaderSN \in Nat
      /\ rd'.pc = "free"
  BY <1>1, RingTypes, ReadRecord DEF IInv, TypeOK, Read
<1>3. Len(delivered') = Len(delivered) + 1
  <2> DEFINE b == Bytes(buffer[rd.cpu], C[rd.cpu], rd.plen)
  <2> HIDE DEF b
  <2>1. delivered' = Append(delivered, b)  BY <1>1 DEF b
  <2> QED  BY <1>2, <2>1
<1>4. ReaderSN' <= WriterSN'
  BY <1>1, <1>2, NextIsRead DEF Merged
<1>5. ASSUME NEW d \in Cpus, NEW i \in 1 .. Len(stored'[d])
      PROVE  Matches(stored'[d][i], captured)
  <2>1. CASE d # rd.cpu
    <3>1. stored'[d] = stored[d]  BY <1>1, <1>2, <2>1
    <3> QED  BY <3>1 DEF Merged
  <2>2. CASE d = rd.cpu
    <3>1. stored'[d] = Tail(stored[d]) /\ stored[d] \in Seq(Stored) /\ stored[d] # << >>
      BY <1>1, <1>2, <2>2, NextIsRead
    <3>2. i + 1 \in 1 .. Len(stored[d]) /\ stored'[d][i] = stored[d][i + 1]
      BY <3>1
    <3> QED  BY <3>2 DEF Merged
  <2> QED  BY <2>1, <2>2
<1> QED  BY <1>1, <1>2, <1>3, <1>4, <1>5 DEF Merged

(* The bytes NPF_Read copies round the ring are those of the next packet,  *)
(* as they were on the wire.                                               *)
LEMMA BytesOfTheNext ==
  ASSUME IInv, Merged, TransfersSucceed, ReadData
  PROVE  Bytes(buffer[rd.cpu], C[rd.cpu], rd.plen) = BytesOf(captured[ReaderSN + 1])
<1> DEFINE c == rd.cpu
           s == stored[c][1]
<1>1. c \in Cpus /\ rd.pc = "copy"
  BY RingTypes, ReadRecord DEF ReadData, IInv, TypeOK
<1>2. stored[c] # << >> /\ rd.plen = s.len /\ C[c] = AfterHeader(OldestAt(c), size)
  BY <1>1 DEF IInv, InHand, HalfRead
<1>3. stored[c] \in Seq(Stored) /\ size \in Nat /\ consumed[c] \in Int
      /\ OldestAt(c) \in Int /\ s \in Stored /\ 1 \in DOMAIN stored[c]
      /\ Head(stored[c]) = s
  <2>1. stored[c] \in Seq(Stored) /\ size \in Nat /\ consumed[c] \in Int
        /\ OldestAt(c) \in Int
    BY <1>1, RingTypes DEF IInv, TypeOK
  <2>2. 1 \in 1 .. Len(stored[c])  BY <1>2, <2>1
  <2> QED  BY <1>2, <2>1, <2>2
<1>4. /\ IntactAt(buffer[c], Position(c, s), s)
      /\ s.at = consumed[c]
  BY <1>1, <1>2, <1>3, PacketsAreIntact DEF StoredIntact
<1>5. OldestAt(c) \in HeaderPositions(size)
  <2>1. size # 0  BY <1>1 DEF IInv, Irps
  <2> QED  BY <1>1, <2>1 DEF IInv, Ring
<1>6. Position(c, s) = OldestAt(c)
  <2> DEFINE o == OldestAt(c)
  <2>1. Position(c, s) = At(o, consumed[c] - consumed[c], size)
    BY <1>4 DEF Position
  <2>2. consumed[c] - consumed[c] = 0 /\ o \in 0 .. size - HdrSize /\ o \in Int
    BY <1>3, <1>5 DEF HeaderPositions
  <2> HIDE DEF o
  <2>3. At(o, 0, size) = o
    BY <1>3, <2>2, HdrSizeAssumption DEF At
  <2> QED  BY <2>1, <2>2, <2>3 DEF o
<1>7. \A k \in 0 .. s.len - 1 : buffer[c][At(C[c], k, size)] = Data(s.pkt, k)
  BY <1>2, <1>4, <1>6 DEF IntactAt
<1>8. s.len \in Nat /\ rd.plen = captured[ReaderSN + 1].len
      /\ s.pkt = captured[ReaderSN + 1].pkt
  BY <1>3, NextIsRead DEF Stored
<1> HIDE DEF s, c
<1>9. \A k \in 1 .. s.len : buffer[c][At(C[c], k - 1, size)] = Data(s.pkt, k - 1)
  <2>1. \A k \in 1 .. s.len : k - 1 \in 0 .. s.len - 1  BY <1>8
  <2> QED  BY <1>7, <2>1
<1>10. [k \in 1 .. s.len |-> buffer[c][At(C[c], k - 1, size)]]
         = [k \in 1 .. s.len |-> Data(s.pkt, k - 1)]
  BY <1>9
<1>11. Bytes(buffer[c], C[c], s.len) = [k \in 1 .. s.len |-> Data(s.pkt, k - 1)]
  BY <1>10 DEF Bytes
<1> QED  BY <1>2, <1>8, <1>11 DEF BytesOf, c

\* so what is delivered stays what was captured.
LEMMA ReadDataKeepsDelivered ==
  ASSUME IInv, Merged, DeliveredBytes, TransfersSucceed, ReadData
  PROVE  DeliveredBytes'
<1> DEFINE b == Bytes(buffer[rd.cpu], C[rd.cpu], rd.plen)
<1>1. delivered' = Append(delivered, b) /\ captured' = captured
  BY DEF ReadData
<1>2. b = BytesOf(captured[ReaderSN + 1])
  BY BytesOfTheNext
<1>3. Len(delivered) = ReaderSN /\ delivered \in Seq(Seq(Cell)) /\ Len(delivered) \in Nat
  BY NextIsRead DEF Merged, IInv, TypeOK
<1> HIDE DEF b
<1>4. /\ Len(delivered') = Len(delivered) + 1 /\ delivered'[Len(delivered) + 1] = b
      /\ \A i \in 1 .. Len(delivered) : delivered'[i] = delivered[i]
  BY <1>1, <1>3
<1>5. ASSUME NEW i \in 1 .. Len(delivered')
      PROVE  delivered'[i] = BytesOf(captured[i])
  <2>1. CASE i = ReaderSN + 1  BY <1>2, <1>3, <1>4, <2>1
  <2>2. CASE i # ReaderSN + 1
    <3>1. i \in 1 .. Len(delivered)  BY <1>3, <1>4, <2>2
    <3> QED  BY <1>4, <3>1 DEF DeliveredBytes
  <2> QED  BY <2>1, <2>2
<1> QED  BY <1>1, <1>5 DEF DeliveredBytes

\* After an ioctl that empties the buffers there is nothing to merge.
LEMMA ResetsKeepMerged ==
  ASSUME IInv, Resets
  PROVE  Merged' /\ DeliveredBytes'
<1>1. PICK s : ResetBuffers(s)  BY DEF Resets
<1>2. rd'.pc = "idle"  BY <1>1 DEF Resets, ResetBuffers, IInv, Irps
<1> QED  BY <1>1, <1>2 DEF ResetBuffers, Merged, DeliveredBytes

(* The buffers of all CPUs, merged by sequence number, are the packets not *)
(* delivered yet, in every reachable state.                                *)
LEMMA MergedInvariance ==
  ASSUME ~Uniprocessor
  PROVE  Spec => [](IInv /\ Merged /\ (TransfersSucceed => DeliveredBytes))
<1>1. Init => IInv /\ Merged /\ DeliveredBytes
  <2>1. Init => Merged /\ DeliveredBytes
    BY DEF Init, Merged, DeliveredBytes, idleRead
  <2> QED  BY <2>1, InitIsGood
<1>2. IInv /\ Merged /\ (TransfersSucceed => DeliveredBytes) /\ [Next]_vars
        => (IInv /\ Merged /\ (TransfersSucceed => DeliveredBytes))'
  <2> SUFFICES ASSUME IInv, Merged, TransfersSucceed => DeliveredBytes, [Next]_vars
               PROVE  IInv' /\ Merged' /\ (TransfersSucceed => DeliveredBytes')
    OBVIOUS
  <2>1. IInv'  BY StepKeeps
  <2>2. CASE Quiet  BY <2>1, <2>2, QuietKeepsMerged
  <2>3. CASE Completes  BY <2>1, <2>3, CompletesKeepsMerged, CompletesKeepsDelivered
  <2>4. CASE ReadHeader  BY <2>1, <2>4, ReadHeaderKeepsMerged
  <2>5. CASE ReadData  BY <2>1, <2>5, ReadDataKeepsMerged, ReadDataKeepsDelivered
  <2>6. CASE Resets  BY <2>1, <2>6, ResetsKeepMerged
  <2> QED  BY <2>2, <2>3, <2>4, <2>5, <2>6, StepKinds
<1> QED  BY <1>1, <1>2, PTL DEF Spec

(* NPF_Read hands every packet over once, in the order the taps captured   *)
(* them on all the CPUs, with the bytes that were on the wire: merging by  *)
(* WriterSN and ReaderSN without a lock loses and reorders nothing, for    *)
(* any number of CPUs, if every NdisTransferData succeeds.                 *)
THEOREM PacketsAreInOrder ==
  ASSUME ~Uniprocessor, TransfersSucceed
  PROVE  Spec => []DeliveredInOrder
<1>1. Merged /\ (TransfersSucceed => DeliveredBytes) => DeliveredInOrder
  BY DEF Merged, DeliveredBytes, DeliveredInOrder
<1> QED  BY <1>1, MergedInvariance, PTL

-------------------------------------------------------------------------------
(* What is still to be delivered of cap when n packets have been.          *)
Waiting(cap, n) == [i \in 1 .. Len(cap) - n |-> BytesOf(cap[n + i])]

\* The types of what is waiting.
LEMMA BytesAreCells == ASSUME NEW x \in Captured PROVE BytesOf(x) \in Seq(Cell)
<1>1. x.pkt \in Nat /\ x.len \in Nat  BY DEF Captured
<1>2. \A k \in 1 .. x.len : Data(x.pkt, k - 1) \in Cell  BY <1>1 DEF Data, Cell
<1>3. BytesOf(x) \in [1 .. x.len -> Cell]  BY <1>2 DEF BytesOf
<1> QED  BY <1>1, <1>3

LEMMA WaitingType ==
  ASSUME NEW cap \in Seq(Captured), NEW n \in 0 .. Len(cap)
  PROVE  /\ Waiting(cap, n) \in Seq(Seq(Cell)) /\ Len(Waiting(cap, n)) = Len(cap) - n
         /\ Len(cap) - n \in Nat
         /\ \A i \in 1 .. Len(cap) - n : Waiting(cap, n)[i] = BytesOf(cap[n + i])
<1>1. Len(cap) \in Nat /\ Len(cap) - n \in Nat  BY LenProperties
<1>2. \A i \in 1 .. Len(cap) - n : BytesOf(cap[n + i]) \in Seq(Cell)
  <2> SUFFICES ASSUME NEW i \in 1 .. Len(cap) - n  PROVE BytesOf(cap[n + i]) \in Seq(Cell)
    OBVIOUS
  <2>1. n + i \in 1 .. Len(cap)  BY <1>1
  <2> QED  BY <2>1, ElementOfSeq, BytesAreCells
<1>3. Waiting(cap, n) \in [1 .. Len(cap) - n -> Seq(Cell)]  BY <1>2 DEF Waiting
<1>4. Waiting(cap, n) \in Seq(Seq(Cell)) /\ Len(Waiting(cap, n)) = Len(cap) - n
  BY <1>1, <1>3
<1> QED  BY <1>1, <1>4 DEF Waiting

\* A packet that is captured waits last;
LEMMA WaitingAppend ==
  ASSUME NEW cap \in Seq(Captured), NEW n \in 0 .. Len(cap), NEW x \in Captured
  PROVE  Waiting(Append(cap, x), n) = Append(Waiting(cap, n), BytesOf(x))
<1> DEFINE w == Waiting(cap, n)
           r == Append(cap, x)
           b == BytesOf(x)
           m == Len(cap) - n
<1>1. /\ r \in Seq(Captured) /\ Len(r) = Len(cap) + 1 /\ r[Len(cap) + 1] = x
      /\ \A i \in 1 .. Len(cap) : r[i] = cap[i]
  BY AppendProperties
<1>2. Len(cap) \in Nat /\ n \in 0 .. Len(r) /\ n \in Nat  BY <1>1, LenProperties
<1>3. /\ w \in Seq(Seq(Cell)) /\ Len(w) = m /\ m \in Nat
      /\ \A i \in 1 .. m : w[i] = BytesOf(cap[n + i])
  BY WaitingType
<1>4. /\ Waiting(r, n) \in Seq(Seq(Cell)) /\ Len(Waiting(r, n)) = Len(r) - n
      /\ \A i \in 1 .. Len(r) - n : Waiting(r, n)[i] = BytesOf(r[n + i])
  BY <1>1, <1>2, WaitingType
<1>5. b \in Seq(Cell)  BY BytesAreCells
<1>6. Len(r) - n = m + 1 /\ n + (m + 1) = Len(cap) + 1  BY <1>1, <1>2
<1> HIDE DEF w, b
<1>7. /\ Append(w, b) \in Seq(Seq(Cell)) /\ Len(Append(w, b)) = m + 1
      /\ Append(w, b)[m + 1] = b /\ \A i \in 1 .. m : Append(w, b)[i] = w[i]
  <2> HIDE DEF m, r
  <2> QED  BY <1>3, <1>5, AppendProperties
<1>8. ASSUME NEW i \in 1 .. m + 1  PROVE Waiting(r, n)[i] = Append(w, b)[i]
  <2>1. CASE i = m + 1
    BY <1>1, <1>4, <1>6, <1>7, <2>1 DEF b
  <2>2. CASE i # m + 1
    <3>1. i \in 1 .. m /\ n + i \in 1 .. Len(cap) /\ i \in 1 .. Len(r) - n
      <4> DEFINE l == Len(cap)
                 k == Len(r) - n
      <4>1. l \in Nat /\ n \in 0 .. l /\ m = l - n /\ k = m + 1 /\ i \in 1 .. m + 1
        BY <1>2, <1>6
      <4> HIDE DEF l, k, m
      <4>2. i \in 1 .. m /\ n + i \in 1 .. l /\ i \in 1 .. k
        BY <2>2, <4>1
      <4> QED  BY <4>2 DEF l, k
    <3> QED  BY <1>1, <1>3, <1>4, <1>7, <3>1
  <2> QED  BY <2>1, <2>2
<1> HIDE DEF m, r
<1>9. Waiting(r, n) = Append(w, b)
  BY <1>4, <1>6, <1>7, <1>8, SeqEqual
<1> QED  BY <1>9 DEF r, w, b

\* the one that is delivered waited first.
LEMMA WaitingTail ==
  ASSUME NEW cap \in Seq(Captured), NEW n \in 0 .. Len(cap), n < Len(cap)
  PROVE  /\ Waiting(cap, n) # << >> /\ Head(Waiting(cap, n)) = BytesOf(cap[n + 1])
         /\ Waiting(cap, n + 1) = Tail(Waiting(cap, n))
<1> DEFINE w == Waiting(cap, n)
           v == Waiting(cap, n + 1)
           m == Len(cap) - n
<1>1. Len(cap) \in Nat /\ n + 1 \in 0 .. Len(cap) /\ n \in Nat  BY LenProperties
<1>2. /\ w \in Seq(Seq(Cell)) /\ Len(w) = m /\ m \in Nat
      /\ \A i \in 1 .. m : w[i] = BytesOf(cap[n + i])
  BY WaitingType
<1>3. /\ v \in Seq(Seq(Cell)) /\ Len(v) = Len(cap) - (n + 1)
      /\ \A i \in 1 .. Len(cap) - (n + 1) : v[i] = BytesOf(cap[(n + 1) + i])
  BY <1>1, WaitingType
<1>4. m > 0 /\ Len(cap) - (n + 1) = m - 1 /\ 1 \in 1 .. m  BY <1>1
<1> HIDE DEF w, v, m
<1>5. w # << >> /\ Head(w) = w[1]  BY <1>2, <1>4
<1>6. /\ Tail(w) \in Seq(Seq(Cell)) /\ Len(Tail(w)) = m - 1
      /\ \A i \in 1 .. m - 1 : Tail(w)[i] = w[i + 1]
  BY <1>2, <1>5, HeadTailProperties
<1>7. ASSUME NEW i \in 1 .. m - 1  PROVE v[i] = Tail(w)[i]
  <2>1. i + 1 \in 1 .. m /\ n + (i + 1) = (n + 1) + i  BY <1>1, <1>2
  <2> QED  BY <1>2, <1>3, <1>4, <1>6, <2>1
<1>8. v = Tail(w)  BY <1>3, <1>4, <1>6, <1>7, SeqEqual
<1> QED  BY <1>2, <1>4, <1>5, <1>8 DEF w, v

-------------------------------------------------------------------------------
\* The queue of PacketFIFO is what waits in the buffers.
LEMMA MergedQueue ==
  ASSUME IInv, Merged
  PROVE  /\ captured \in Seq(Captured) /\ Len(delivered) \in 0 .. Len(captured)
         /\ Queue = Waiting(captured, Len(delivered))
<1>1. captured \in Seq(Captured) /\ Len(captured) \in Nat /\ Len(delivered) \in Nat
  BY LenProperties DEF IInv, TypeOK, Captured
<1>2. Len(delivered) \in 0 .. Len(captured)  BY <1>1 DEF Merged
<1> QED  BY <1>1, <1>2 DEF Queue, Waiting

\* Every step of the driver is a step of PacketFIFO or changes nothing there.
LEMMA QueueSteps ==
  ASSUME IInv, Merged, TransfersSucceed, [Next]_vars
  PROVE  [FIFO!Next]_<<Queue, delivered>>
<1>0. /\ captured \in Seq(Captured) /\ Len(delivered) \in 0 .. Len(captured)
      /\ Queue = Waiting(captured, Len(delivered))
  BY MergedQueue
<1>1. CASE Quiet \/ ReadHeader
  <2>1. UNCHANGED <<captured, delivered>>
    BY <1>1 DEF Quiet, ReadHeader, historyVars
  <2> QED  BY <2>1 DEF Queue
<1>2. CASE Completes
  <2>1. PICK c \in Cpus : \E t \in Tap \cup Transfer : \E e : Complete(c, t, e)
    BY <1>2 DEF Completes
  <2>2. PICK t \in Tap \cup Transfer : \E e : Complete(c, t, e)
    BY <2>1
  <2>3. PICK x \in Captured : captured' = Append(captured, x)
    BY <2>2, CompletesAdds
  <2>4. delivered' = delivered  BY <2>2, CompletesAdds
  <2>5. Queue' = Waiting(captured', Len(delivered'))
    BY DEF Queue, Waiting
  <2>6. Queue' = Append(Queue, BytesOf(x))
    BY <1>0, <2>3, <2>4, <2>5, WaitingAppend
  <2>7. /\ Queue \in Seq(Seq(Cell)) /\ BytesOf(x) \in Seq(Cell)
    BY <1>0, WaitingType, BytesAreCells
  <2> DEFINE q == Queue
             r == Queue'
             b == BytesOf(x)
  <2>8. r = Append(q, b) /\ q \in Seq(Seq(Cell)) /\ b \in Seq(Cell)
    BY <2>6, <2>7
  <2> HIDE DEF q, r, b
  <2>9. r # << >> /\ r[Len(r)] = b
    <3>1. Len(r) = Len(q) + 1 /\ r[Len(q) + 1] = b /\ Len(q) \in Nat /\ r \in Seq(Seq(Cell))
      BY <2>8, AppendProperties
    <3> QED  BY <3>1
  <2>10. FIFO!Accept
    BY <2>4, <2>8, <2>9 DEF FIFO!Accept, q, r
  <2> QED  BY <2>10 DEF FIFO!Next
<1>3. CASE ReadData
  <2> DEFINE n == Len(delivered)
  <2>1. /\ captured' = captured /\ n < Len(captured)
        /\ delivered' = Append(delivered, BytesOf(captured[n + 1]))
        /\ Len(delivered') = n + 1
    <3>1. Len(delivered) = ReaderSN /\ delivered \in Seq(Seq(Cell))
          /\ ReaderSN + 1 \in 1 .. Len(captured) /\ Len(captured) \in Nat
      BY <1>0, <1>3, NextIsRead, LenProperties DEF Merged, IInv, TypeOK
    <3>2. /\ captured' = captured
          /\ delivered' = Append(delivered, Bytes(buffer[rd.cpu], C[rd.cpu], rd.plen))
      BY <1>3 DEF ReadData
    <3>3. delivered' = Append(delivered, BytesOf(captured[n + 1]))
      BY <1>3, <3>1, <3>2, BytesOfTheNext
    <3>4. captured[n + 1] \in Captured
      BY <1>0, <3>1, ElementOfSeq
    <3>5. BytesOf(captured[n + 1]) \in Seq(Cell)
      BY <3>4, BytesAreCells
    <3> QED  BY <3>1, <3>2, <3>3, <3>5, AppendProperties
  <2>2. Queue' = Waiting(captured', Len(delivered'))
    BY DEF Queue, Waiting
  <2>3. Queue' = Waiting(captured, n + 1)
    BY <2>1, <2>2
  <2>4. Queue # << >> /\ Head(Queue) = BytesOf(captured[n + 1]) /\ Queue' = Tail(Queue)
    <3> HIDE DEF n
    <3>1. n \in 0 .. Len(captured)  BY <1>0 DEF n
    <3>2. Queue = Waiting(captured, n)  BY <1>0 DEF n
    <3>3. /\ Waiting(captured, n) # << >>
          /\ Head(Waiting(captured, n)) = BytesOf(captured[n + 1])
          /\ Waiting(captured, n + 1) = Tail(Waiting(captured, n))
      BY <1>0, <2>1, <3>1, WaitingTail
    <3> QED  BY <2>3, <3>2, <3>3
  <2>5. FIFO!Deliver
    BY <2>1, <2>4 DEF FIFO!Deliver
  <2> QED  BY <2>5 DEF FIFO!Next
<1>4. CASE Resets
  <2>1. captured' = << >> /\ delivered' = << >>
    BY <1>4 DEF Resets, ResetBuffers
  <2>2. Queue' = << >>
    BY <2>1 DEF Queue
  <2>3. FIFO!Reset  BY <2>1, <2>2 DEF FIFO!Reset
  <2> QED  BY <2>3 DEF FIFO!Next
<1> QED  BY <1>1, <1>2, <1>3, <1>4, StepKinds

(* The driver implements the safety part of PacketFIFO: whatever NPF_tap,  *)
(* NPF_TransferDataComplete, NPF_Read and NPF_IoControl do, the buffers    *)
(* behave like one queue that grows at one end, is delivered from the      *)
(* other and is discarded as a whole by a reset.                           *)
THEOREM CaptureIsAFifo ==
  ASSUME ~Uniprocessor, TransfersSucceed
  PROVE  Spec => FIFO!SafeSpec
<1>1. Init => FIFO!Init
  <2>1. Init => captured = << >> /\ delivered = << >>  BY DEF Init
  <2>2. captured = << >> => Queue = << >>
    BY DEF Queue
  <2> QED  BY <2>1, <2>2 DEF FIFO!Init
<1>2. IInv /\ Merged /\ [Next]_vars => [FIFO!Next]_<<Queue, delivered>>
  BY QueueSteps
<1> QED  BY <1>1, <1>2, MergedInvariance, PTL DEF Spec, FIFO!SafeSpec

-------------------------------------------------------------------------------
(* The counters of a CPU and the frames it has in flight.                  *)
LEMMA Counters ==
  ASSUME TypeOK, NEW c \in Cpus
  PROVE  /\ Received[c] \in Nat /\ Accepted[c] \in Nat /\ Dropped[c] \in Nat
         /\ InFlight(c) \in {0, 1, 2}
         /\ Received \in [Cpus -> Nat] /\ Accepted \in [Cpus -> Nat]
         /\ Dropped \in [Cpus -> Nat] /\ tap \in [Cpus -> Tap]
         /\ transfer \in [Cpus -> Transfer]
BY DEF TypeOK, InFlight

\* a step that counts nothing and moves no frame
StillFlying ==
  UNCHANGED countVars /\ \A c \in Cpus : InFlight(c)' = InFlight(c)

\* Such a step keeps the drift.
LEMMA DriftStill ==
  ASSUME StatisticsDrift, StillFlying
  PROVE  StatisticsDrift'
BY DEF StatisticsDrift, StillFlying, countVars

\* NPF_tap turns a frame in flight into one accepted or dropped,
LEMMA TapDrift ==
  ASSUME IInv, StatisticsDrift, NEW c \in Cpus, TapStep(c)
  PROVE  StatisticsDrift'
<1>0. TypeOK /\ tap \in [Cpus -> Tap] /\ tap[c] \in Tap /\ transfer \in [Cpus -> Transfer]
      /\ Received \in [Cpus -> Nat] /\ Accepted \in [Cpus -> Nat] /\ Dropped \in [Cpus -> Nat]
  BY DEF IInv, TypeOK
<1>1. ASSUME NEW fres \in FilterResults, TapFilter(c, fres)  PROVE StatisticsDrift'
  <2>1. /\ tap[c].pc = "filter" /\ tap'[c].pc \in {"idle", "size"}
        /\ \A b \in Cpus : b # c => tap'[b] = tap[b]
        /\ UNCHANGED <<transfer, Received, Accepted, Dropped>>
    BY <1>0, <1>1 DEF TapFilter, idleTap, Tap, countVars
  <2>2. InFlight(c)' \in {InFlight(c) - 1, InFlight(c) + 0}
    BY <2>1 DEF InFlight
  <2>3. \A b \in Cpus : b # c => InFlight(b)' = InFlight(b)
    BY <2>1 DEF InFlight
  <2> QED  BY <1>0, <2>1, <2>2, <2>3, Counters DEF StatisticsDrift
<1>2. CASE TapCheckSize(c)
  <2>1. /\ tap[c].pc = "size" /\ \A b \in Cpus : b # c => tap'[b] = tap[b]
        /\ UNCHANGED <<transfer, Received, Accepted>>
    BY <1>0, <1>2 DEF TapCheckSize, countVars
  <2>2. \A b \in Cpus : b # c => InFlight(b)' = InFlight(b)
    BY <2>1 DEF InFlight
  <2>3. CASE size = 0
    <3>1. /\ Dropped' = [Dropped EXCEPT ![c] = Dropped[c] + 1] /\ tap'[c].pc = "idle"
      BY <1>0, <1>2, <2>3 DEF TapCheckSize, idleTap
    <3>2. InFlight(c)' = InFlight(c) - 1
      BY <2>1, <3>1 DEF InFlight
    <3> QED  BY <1>0, <2>1, <2>2, <3>1, <3>2, Counters DEF StatisticsDrift
  <2>4. CASE size # 0
    <3>1. Dropped' = Dropped /\ tap'[c].pc = "lock"
      BY <1>0, <1>2, <2>4 DEF TapCheckSize, Tap
    <3>2. InFlight(c)' = InFlight(c)
      BY <2>1, <3>1 DEF InFlight
    <3> QED  BY <2>1, <2>2, <3>1, <3>2 DEF StatisticsDrift
  <2> QED  BY <2>3, <2>4
<1>3. CASE TapNoRoom(c) \/ TapDropPending(c) \/ TapTransferFails(c)
  <2>1. /\ tap[c].pc = "lock" /\ tap'[c].pc = "idle"
        /\ \A b \in Cpus : b # c => tap'[b] = tap[b]
        /\ Dropped' = [Dropped EXCEPT ![c] = Dropped[c] + 1]
        /\ UNCHANGED <<transfer, Received, Accepted>>
    BY <1>0, <1>3 DEF TapNoRoom, TapDropPending, TapTransferFails, TapDrop, AtLock,
                      NeedsTransfer, idleTap
  <2>2. InFlight(c)' = InFlight(c) - 1 /\ \A b \in Cpus : b # c => InFlight(b)' = InFlight(b)
    BY <2>1 DEF InFlight
  <2> QED  BY <1>0, <2>1, <2>2, Counters DEF StatisticsDrift
<1>4. CASE TapStore(c) \/ \E result \in TransferResults : TapTransferNow(c, result)
  <2>1. /\ tap[c].pc = "lock" /\ tap'[c].pc = "publish"
        /\ \A b \in Cpus : b # c => tap'[b] = tap[b]
        /\ Accepted' = [Accepted EXCEPT ![c] = Accepted[c] + 1]
        /\ UNCHANGED <<transfer, Received, Dropped>>
    BY <1>0, <1>4, SMTT(40) DEF TapStore, TapTransferNow, Complete, AtLock, NeedsTransfer, Tap
  <2>2. InFlight(c)' = InFlight(c) - 1 /\ \A b \in Cpus : b # c => InFlight(b)' = InFlight(b)
    BY <2>1 DEF InFlight
  <2> QED  BY <1>0, <2>1, <2>2, Counters DEF StatisticsDrift
<1>5. CASE TapTransferLater(c)
  <2>1. /\ tap[c].pc = "lock" /\ tap'[c].pc = "idle" /\ transfer[c].pc # "pending"
        /\ transfer'[c].pc = "pending"
        /\ \A b \in Cpus : b # c => tap'[b] = tap[b] /\ transfer'[b] = transfer[b]
        /\ UNCHANGED <<Received, Accepted, Dropped>>
    BY <1>0, <1>5 DEF TapTransferLater, NeedsTransfer, TransferPending, AtLock, idleTap,
                      countVars
  <2>2. \A b \in Cpus : InFlight(b)' = InFlight(b)
    BY <2>1 DEF InFlight
  <2> QED  BY <2>1, <2>2 DEF StatisticsDrift
<1>6. CASE TapPublish(c) \/ TapSignal(c)
  <2>1. /\ tap[c].pc \in {"publish", "signal"} /\ tap'[c].pc \in {"signal", "idle"}
        /\ \A b \in Cpus : b # c => tap'[b] = tap[b]
        /\ UNCHANGED <<transfer, countVars>>
    BY <1>0, <1>6 DEF TapPublish, TapSignal, idleTap, Tap
  <2>2. \A b \in Cpus : InFlight(b)' = InFlight(b)
    BY <2>1 DEF InFlight
  <2> QED  BY <2>1, <2>2, DriftStill DEF StillFlying
<1> QED  BY <1>1, <1>2, <1>3, <1>4, <1>5, <1>6 DEF TapStep

\* and so does NPF_TransferDataComplete.
LEMMA TransferDrift ==
  ASSUME IInv, StatisticsDrift, NEW c \in Cpus, TransferStep(c)
  PROVE  StatisticsDrift'
<1>0. TypeOK /\ transfer \in [Cpus -> Transfer] /\ transfer[c] \in Transfer
      /\ Received \in [Cpus -> Nat] /\ Accepted \in [Cpus -> Nat] /\ Dropped \in [Cpus -> Nat]
  BY DEF IInv, TypeOK
<1>1. CASE \E result \in TransferResults : TransferComplete(c, result)
  <2>1. /\ transfer[c].pc = "pending" /\ transfer'[c].pc = "publish"
        /\ \A b \in Cpus : b # c => transfer'[b] = transfer[b]
        /\ Accepted' = [Accepted EXCEPT ![c] = Accepted[c] + 1]
        /\ UNCHANGED <<tap, Received, Dropped>>
    BY <1>0, <1>1 DEF TransferComplete, Complete, Transfer
  <2>2. InFlight(c)' = InFlight(c) - 1 /\ \A b \in Cpus : b # c => InFlight(b)' = InFlight(b)
    BY <2>1 DEF InFlight
  <2> QED  BY <1>0, <2>1, <2>2, Counters DEF StatisticsDrift
<1>2. CASE TransferPublish(c) \/ TransferRelease(c) \/ TransferUnfreeze(c)
  <2>1. /\ \/ transfer' = transfer
           \/ /\ transfer[c].pc # "pending" /\ transfer'[c].pc # "pending"
              /\ \A b \in Cpus : b # c => transfer'[b] = transfer[b]
        /\ UNCHANGED <<tap, countVars>>
    BY <1>0, <1>2 DEF TransferPublish, TransferRelease, TransferUnfreeze, noTransfer, Transfer
  <2>2. \A b \in Cpus : InFlight(b)' = InFlight(b)
    BY <2>1 DEF InFlight
  <2> QED  BY <2>1, <2>2, DriftStill DEF StillFlying
<1> QED  BY <1>1, <1>2 DEF TransferStep

\* No step, a reset of the counters included, makes the drift grow.
LEMMA DriftStep ==
  ASSUME IInv, StatisticsDrift, [Next]_vars
  PROVE  StatisticsDrift'
<1>1. ASSUME NEW c \in Cpus, NEW f \in Frames, TapReceive(c, f)  PROVE StatisticsDrift'
  <2>0. TypeOK /\ tap \in [Cpus -> Tap] /\ Received \in [Cpus -> Nat]
    BY DEF IInv, TypeOK
  <2>1. /\ tap[c].pc = "idle" /\ tap'[c].pc = "filter"
        /\ \A b \in Cpus : b # c => tap'[b] = tap[b]
        /\ Received' = [Received EXCEPT ![c] = Received[c] + 1]
        /\ UNCHANGED <<transfer, Accepted, Dropped>>
    BY <1>1, <2>0 DEF TapReceive, idleTap
  <2>2. InFlight(c)' = InFlight(c) + 1 /\ \A b \in Cpus : b # c => InFlight(b)' = InFlight(b)
    BY <2>1 DEF InFlight
  <2> QED  BY <2>0, <2>1, <2>2, Counters DEF StatisticsDrift
<1>2. CASE (\E len \in ReadLengths : ReadStart(len)) \/ ReadStep
  <2>1. UNCHANGED <<tap, transfer, countVars>>
    BY <1>2 DEF ReadStart, ReadStep, ReadOccupation, ReadCheck, ReadAwake, ReadTimeOut,
       ReadClear, ReadPrepare, ReadSkipCpu, ReadHeader, ReadData, ReadFree, ReadReturn
  <2> QED  BY <2>1, DriftStill DEF StillFlying, InFlight
<1>3. CASE Ioctl \/ IoctlLock \/ UNCHANGED vars
  <2>1. UNCHANGED <<tap, transfer, countVars>>
    BY <1>3 DEF Ioctl, SetFilter, DisableLoopback, SetBufferSize, SetMinToCopy,
       SetTimeOut, IoctlLock, vars
  <2> QED  BY <2>1, DriftStill DEF StillFlying, InFlight
<1>4. CASE ResetBufferContents \/ ReplaceBuffers
  <2>1. PICK s : ResetBuffers(s) /\ io.pc = "apply"
    BY <1>4 DEF ResetBufferContents, ReplaceBuffers
  <2>2. \A c \in Cpus : transfer[c].pc = "none"
    BY <2>1 DEF IInv, LockOwners
  <2>3. \A c \in Cpus : InFlight(c)' \in {0, 1}
    BY <2>1, <2>2 DEF ResetBuffers, InFlight
  <2>4. \A c \in Cpus : Received'[c] = 0 /\ Accepted'[c] = 0 /\ Dropped'[c] = 0
    BY <2>1 DEF ResetBuffers, ResetCounters
  <2> QED  BY <2>3, <2>4 DEF StatisticsDrift
<1> QED  BY <1>1, <1>2, <1>3, <1>4, TapDrift, TransferDrift DEF Next, IoctlStep

(* The statistics of a CPU exceed what it received by one frame at most,   *)
(* although NPF_IoControl zeroes Received, Accepted and Dropped while      *)
(* frames are between their counting and their fate in NPF_tap.            *)
THEOREM StatisticsDriftByOne ==
  ASSUME ~Uniprocessor
  PROVE  Spec => []StatisticsDrift
<1>1. Init => StatisticsDrift
  BY DEF Init, StatisticsDrift, InFlight, idleTap, noTransfer
<1>2. IInv /\ StatisticsDrift /\ [Next]_vars => StatisticsDrift'
  BY DriftStep
<1> QED  BY <1>1, <1>2, Invariance, PTL DEF Spec

-------------------------------------------------------------------------------
(* Whole numbers of ints.                                                  *)
Multiple(x) == \E k \in Nat : x = k * Align

\* sizeof(int) is not 0
LEMMA AlignIsPositive == Align \in Nat /\ Align > 0
BY CaptureAssumption

\* A multiple below the next one is no larger than this one.
LEMMA NoMoreMultiples ==
  ASSUME NEW a \in Nat, a > 0, NEW q \in Nat, NEW r \in Nat, q * a < (r + 1) * a
  PROVE  q * a <= r * a
<1>1. CASE q <= r  BY <1>1
<1>2. CASE q >= r + 1
  <2>1. q * a >= (r + 1) * a  BY <1>2
  <2> QED  BY <2>1
<1> QED  BY <1>1, <1>2

(* Packet_WORDALIGN(n) is the least whole number of ints that holds n.     *)
LEMMA RoundedUp ==
  ASSUME NEW n \in Nat
  PROVE  /\ Multiple(Packet_WORDALIGN(n)) /\ Packet_WORDALIGN(n) \in Nat
         /\ \A m \in Nat : Multiple(m) /\ n <= m => Packet_WORDALIGN(n) <= m
<1> DEFINE q == (n + Align - 1) \div Align
<1>1. q \in Nat /\ q * Align <= n + Align - 1
  <2> DEFINE x == n + Align - 1
             a == Align
  <2>1. x \in Nat /\ a \in Nat /\ a > 0  BY AlignIsPositive
  <2> HIDE DEF x, a
  <2>2. x \div a \in Nat /\ (x \div a) * a <= x  BY <2>1
  <2> QED  BY <2>2 DEF x, a
<1>2. Packet_WORDALIGN(n) = q * Align  BY DEF Packet_WORDALIGN
<1> HIDE DEF q
<1>3. Multiple(Packet_WORDALIGN(n)) /\ Packet_WORDALIGN(n) \in Nat
  BY <1>1, <1>2, AlignIsPositive DEF Multiple
<1>4. ASSUME NEW m \in Nat, Multiple(m), n <= m  PROVE q * Align <= m
  <2>1. PICK r \in Nat : m = r * Align  BY <1>4 DEF Multiple
  <2>2. (r + 1) * Align = r * Align + Align  BY <2>1, AlignIsPositive
  <2> DEFINE x == q * Align
             y == r * Align
             z == (r + 1) * Align
  <2>3. x \in Nat /\ y \in Nat /\ z \in Nat /\ z = y + Align /\ x <= n + Align - 1 /\ n <= y
    BY <1>1, <1>4, <2>1, <2>2, AlignIsPositive
  <2> HIDE DEF x, y, z
  <2>4. x < z  BY <2>3, AlignIsPositive
  <2> QED  BY <1>1, <2>1, <2>4, AlignIsPositive, NoMoreMultiples DEF x, y, z
<1> QED  BY <1>2, <1>3, <1>4

\* Whole numbers of ints add up to one,
LEMMA SumOfMultiples ==
  ASSUME NEW x \in Nat, NEW y \in Nat, Multiple(x), Multiple(y)
  PROVE  Multiple(x + y)
<1>1. PICK k \in Nat : x = k * Align  BY DEF Multiple
<1>2. PICK l \in Nat : y = l * Align  BY DEF Multiple
<1>3. x + y = (k + l) * Align /\ k + l \in Nat
  BY <1>1, <1>2, AlignIsPositive
<1> QED  BY <1>3 DEF Multiple

\* and so do differences.
LEMMA DifferenceOfMultiples ==
  ASSUME NEW x \in Nat, NEW y \in Nat, Multiple(x), Multiple(y), y <= x
  PROVE  Multiple(x - y)
<1>1. PICK k \in Nat : x = k * Align  BY DEF Multiple
<1>2. PICK l \in Nat : y = l * Align  BY DEF Multiple
<1>3. CASE l <= k
  <2>1. k - l \in Nat /\ x - y = (k - l) * Align
    BY <1>1, <1>2, <1>3, AlignIsPositive
  <2> QED  BY <2>1 DEF Multiple
<1>4. CASE l >= k + 1
  <2>1. l * Align >= (k + 1) * Align  BY <1>4, AlignIsPositive
  <2>2. (k + 1) * Align = k * Align + Align  BY AlignIsPositive
  <2> QED  BY <1>1, <1>2, <2>1, <2>2, AlignIsPositive
<1> QED  BY <1>3, <1>4

\* A remainder is no larger than the number.
LEMMA AtMostMod ==
  ASSUME NEW x \in Nat, NEW w \in Nat, w > 0
  PROVE  x % w \in Nat /\ x % w <= x
OBVIOUS

(* The header the driver puts before a packet and the buffers the          *)
(* application reads with are whole numbers of ints.                       *)
AlignedReads == Multiple(BpfHdrSize) /\ \A len \in ReadLengths : Multiple(len)

(* What has been copied never passes the end of the user buffer, nor will  *)
(* the packet that is being copied, its padding included.                  *)
FitsSoFar(r) ==
  /\ Multiple(r.available)
  /\ r.pc \in {"scan", "free"} => Multiple(r.copied) /\ r.copied <= r.available
  /\ r.pc = "copy" => Multiple(r.copied) /\ r.copied + r.plen <= r.available

\* Every step keeps what has been copied within the user buffer.
LEMMA FitsStep ==
  ASSUME IInv, AlignedReads, FitsSoFar(rd), [Next]_vars
  PROVE  FitsSoFar(rd')
<1>0. /\ rd \in Read /\ rd.available \in Nat /\ rd.copied \in Nat /\ rd.plen \in Nat
  BY DEF IInv, TypeOK, Read
<1>z. Multiple(0)
  <2>1. 0 \in Nat /\ 0 = 0 * Align  BY AlignIsPositive
  <2> QED  BY <2>1 DEF Multiple
<1>1. CASE rd' = rd  BY <1>1
<1>2. ASSUME NEW len \in ReadLengths, ReadStart(len)  PROVE FitsSoFar(rd')
  <2>1. CASE size = 0  BY <1>2, <2>1 DEF ReadStart
  <2>2. CASE size # 0
    <3>1. rd'.pc = "sum" /\ rd'.available = len
      BY <1>2, <2>2 DEF ReadStart, idleRead
    <3> QED  BY <3>1 DEF AlignedReads, FitsSoFar
  <2> QED  BY <2>1, <2>2
<1>3. CASE ReadOccupation \/ ReadCheck \/ ReadAwake \/ ReadTimeOut \/ ReadClear
  <2>1. rd'.available = rd.available /\ rd'.pc \notin {"scan", "free", "copy"}
    BY <1>0, <1>3 DEF ReadOccupation, ReadCheck, ReadAwake, ReadTimeOut, ReadClear, Read
  <2> QED  BY <2>1 DEF FitsSoFar
<1>4. CASE ReadPrepare
  <2>1. rd'.available = rd.available /\ rd'.pc = "scan" /\ rd'.copied = 0
    BY <1>0, <1>4 DEF ReadPrepare, Read
  <2> QED  BY <1>0, <1>z, <2>1 DEF FitsSoFar
<1>5. CASE ReadSkipCpu
  <2>1. /\ rd'.available = rd.available /\ rd'.pc = "scan" /\ rd'.copied = rd.copied
        /\ rd.pc = "scan"
    BY <1>0, <1>5 DEF ReadSkipCpu, Scanning, Read
  <2> QED  BY <2>1 DEF FitsSoFar
<1>6. CASE ReadReturn
  <2>1. rd'.available = 0 /\ rd'.pc = "idle"  BY <1>6 DEF ReadReturn, idleRead
  <2> QED  BY <1>z, <2>1 DEF FitsSoFar
<1>7. CASE ReadHeader
  <2> DEFINE n == HeaderAtC.len
             room == rd.available - rd.copied
  <2>1. /\ rd.pc = "scan" /\ ~(n + BpfHdrSize > room % Word)
        /\ rd'.available = rd.available /\ rd'.pc = "copy" /\ rd'.plen = n
        /\ rd'.copied = rd.copied + BpfHdrSize
    BY <1>0, <1>7 DEF ReadHeader, Scanning, NoSpaceFor, Read
  <2>2. Multiple(rd.copied) /\ rd.copied <= rd.available /\ room \in Nat
    BY <1>0, <2>1 DEF FitsSoFar
  <2>3. n \in Nat
    <3>1. rd.cpu \in Cpus /\ Free[rd.cpu] < size
      BY <1>0, <1>7 DEF ReadHeader, NextIsHere, Read
    <3>2. /\ HeaderAtC = Header(stored[rd.cpu][1].sn, stored[rd.cpu][1].len, 0)
          /\ stored[rd.cpu][1].len \in Nat
      BY <2>1, <3>1, OldestAtC DEF HeaderAtC
    <3>3. HeaderAtC.len = stored[rd.cpu][1].len
      BY <3>2 DEF Header
    <3> QED  BY <3>2, <3>3
  <2>4. BpfHdrSize \in Nat /\ Word \in Nat /\ Word > 0  BY CaptureAssumption
  <2> HIDE DEF n
  <2>5. room % Word \in Nat /\ room % Word <= room
    <3> HIDE DEF room
    <3> QED  BY <2>2, <2>4, AtMostMod
  <2>6. n + BpfHdrSize <= room
    <3> HIDE DEF room
    <3> QED  BY <2>1, <2>2, <2>3, <2>4, <2>5
  <2>7. (rd.copied + BpfHdrSize) + n <= rd.available
    BY <1>0, <2>3, <2>4, <2>6
  <2>8. Multiple(rd.copied + BpfHdrSize)
    BY <1>0, <2>2, <2>4, SumOfMultiples DEF AlignedReads
  <2> QED  BY <2>1, <2>7, <2>8 DEF FitsSoFar
<1>8. CASE ReadData
  <2> DEFINE w == Packet_WORDALIGN(rd.plen)
             room == rd.available - rd.copied
  <2>1. /\ rd.pc = "copy" /\ rd'.available = rd.available /\ rd'.pc = "free"
        /\ rd'.copied = rd.copied + w
    BY <1>0, <1>8 DEF ReadData, Read
  <2>2. Multiple(rd.copied) /\ Multiple(rd.available) /\ rd.copied + rd.plen <= rd.available
    BY <2>1 DEF FitsSoFar
  <2>3. room \in Nat /\ rd.plen <= room /\ rd.copied <= rd.available
    BY <1>0, <2>2
  <2>4. Multiple(room)  BY <1>0, <2>2, <2>3, DifferenceOfMultiples
  <2>5. Multiple(w) /\ w \in Nat /\ w <= room
    <3> HIDE DEF room
    <3> QED  BY <1>0, <2>3, <2>4, RoundedUp
  <2> HIDE DEF w
  <2>6. rd.copied + w <= rd.available  BY <1>0, <2>5
  <2>7. Multiple(rd.copied + w)  BY <1>0, <2>2, <2>5, SumOfMultiples
  <2> QED  BY <2>1, <2>2, <2>6, <2>7 DEF FitsSoFar
<1>9. CASE ReadFree
  <2>1. /\ rd'.available = rd.available /\ rd'.pc = "scan" /\ rd'.copied = rd.copied
        /\ rd.pc = "free"
    BY <1>0, <1>9 DEF ReadFree, Read
  <2> QED  BY <2>1 DEF FitsSoFar
<1>10. ASSUME NEW c \in Cpus, NEW f \in Frames, TapReceive(c, f)  PROVE rd' = rd
  BY <1>10 DEF TapReceive
<1>11. ASSUME NEW c \in Cpus, TapStep(c) \/ TransferStep(c)  PROVE rd' = rd
  BY <1>11 DEF TapStep, TapFilter, TapCheckSize, TapNoRoom, TapDropPending,
     TapTransferFails, TapDrop, TapStore, TapTransferNow, TapTransferLater, TapPublish,
     TapSignal, TransferStep, TransferComplete, TransferPublish, TransferRelease,
     TransferUnfreeze, Complete
<1>12. CASE Ioctl \/ IoctlStep \/ UNCHANGED vars
  BY <1>12, <1>1 DEF Ioctl, SetFilter, DisableLoopback, SetBufferSize, SetMinToCopy, SetTimeOut,
     IoctlStep, IoctlLock, ResetBufferContents, ReplaceBuffers, ResetBuffers, vars
<1> QED
  BY <1>1, <1>2, <1>3, <1>4, <1>5, <1>6, <1>7, <1>8, <1>9, <1>10, <1>11, <1>12
  DEF Next, ReadStep

(* NPF_Read never copies past the end of the user buffer, although the     *)
(* room left is computed in unsigned arithmetic and copied is rounded up   *)
(* after each packet: if the buffers the application reads with and        *)
(* sizeof(bpf_hdr) are whole numbers of ints.                              *)
THEOREM ReadsFitTheirBuffer ==
  ASSUME ~Uniprocessor, AlignedReads
  PROVE  Spec => []ReadFitsUserBuffer
<1>1. Init => FitsSoFar(rd)
  <2>1. 0 \in Nat /\ 0 = 0 * Align  BY AlignIsPositive
  <2> QED  BY <2>1 DEF Init, idleRead, FitsSoFar, Multiple
<1>2. IInv /\ FitsSoFar(rd) /\ [Next]_vars => FitsSoFar(rd)'
  BY FitsStep
<1>3. FitsSoFar(rd) => ReadFitsUserBuffer
  BY DEF FitsSoFar, ReadFitsUserBuffer
<1> QED  BY <1>1, <1>2, <1>3, Invariance, PTL DEF Spec

-------------------------------------------------------------------------------
(* The packets of cap that came to c from another filter than f.           *)
StaleIn(cap, c, f) ==
  {i \in 1 .. Len(cap) : cap[i].cpu = c /\ cap[i].filter # f}

\* These packets can be counted.
LEMMA StaleCounted ==
  ASSUME NEW cap \in Seq(Captured), NEW c, NEW f
  PROVE  IsFiniteSet(StaleIn(cap, c, f)) /\ Cardinality(StaleIn(cap, c, f)) \in Nat
<1>1. Len(cap) \in Nat  BY LenProperties
<1>2. IsFiniteSet(1 .. Len(cap))  BY <1>1, FS_Interval
<1>3. StaleIn(cap, c, f) \subseteq 1 .. Len(cap)  BY DEF StaleIn
<1> QED  BY <1>2, <1>3, FS_Subset, FS_CardinalityType

\* A captured packet adds one to them if it is of c and of another filter.
LEMMA OneMoreStale ==
  ASSUME NEW cap \in Seq(Captured), NEW x \in Captured, NEW c, NEW f
  PROVE  Cardinality(StaleIn(Append(cap, x), c, f))
           = Cardinality(StaleIn(cap, c, f)) + (IF x.cpu = c /\ x.filter # f THEN 1 ELSE 0)
<1> DEFINE r == Append(cap, x)
           n == Len(cap) + 1
           s == StaleIn(cap, c, f)
<1>1. /\ Len(r) = n /\ r[n] = x /\ \A i \in 1 .. Len(cap) : r[i] = cap[i]
  BY AppendProperties
<1>2. Len(cap) \in Nat /\ n \notin s /\ 1 .. n = (1 .. Len(cap)) \cup {n}
  BY LenProperties DEF StaleIn
<1>3. IsFiniteSet(s) /\ Cardinality(s) \in Nat  BY StaleCounted
<1> HIDE DEF n, r
<1>4. CASE x.cpu = c /\ x.filter # f
  <2>1. StaleIn(r, c, f) = s \cup {n}
    BY <1>1, <1>2, <1>4 DEF StaleIn
  <2>2. Cardinality(s \cup {n}) = Cardinality(s) + 1
    <3> HIDE DEF s
    <3> QED  BY <1>2, <1>3, FS_AddElement
  <2> QED  BY <1>4, <2>1, <2>2 DEF r
<1>5. CASE ~(x.cpu = c /\ x.filter # f)
  <2>1. StaleIn(r, c, f) = s
    BY <1>1, <1>2, <1>5 DEF StaleIn
  <2>2. Cardinality(s) + 0 = Cardinality(s)
    <3> HIDE DEF s
    <3> QED  BY <1>3
  <2> QED  BY <1>5, <2>1, <2>2 DEF r
<1> QED  BY <1>4, <1>5

\* Nothing is stale when nothing has been captured.
LEMMA NothingIsStale == ASSUME NEW c, NEW f PROVE Cardinality(StaleIn(<< >>, c, f)) = 0
<1>1. StaleIn(<< >>, c, f) = {}  BY DEF StaleIn
<1> QED  BY <1>1, FS_EmptySet

(* A packet of another filter than f that can still be captured on c.      *)
OldTap(t, f) == IF t.pc \in {"size", "lock"} /\ t.filter # f THEN 1 ELSE 0
OldTransfer(t, f) == IF t.pc = "pending" /\ t.filter # f THEN 1 ELSE 0

\* A tap and a transfer have one packet each.
LEMMA OldTypes == \A t, f : OldTap(t, f) \in {0, 1} /\ OldTransfer(t, f) \in {0, 1}
BY DEF OldTap, OldTransfer

\* packets of c of another filter than the installed one, captured or to come
StaleOf(c) ==
  Cardinality(StaleIn(captured, c, filter)) + OldTap(tap[c], filter)
    + OldTransfer(transfer[c], filter)

(* With no ioctl under way there is at most one of them on each CPU:       *)
(* NPF_tap runs the filter before it takes the lock that BIOCSETF waits    *)
(* for.                                                                    *)
FewStale == io.pc = "idle" => \A c \in Cpus : StaleOf(c) <= 1

\* a step on c that keeps the packets of other CPUs
LEMMA StaleStep ==
  ASSUME IInv, FewStale, io' = io, filter' = filter, NEW c \in Cpus,
         \A d \in Cpus : d # c => tap'[d] = tap[d] /\ transfer'[d] = transfer[d],
         NEW k \in {0, 1},
         Cardinality(StaleIn(captured', c, filter))
           = Cardinality(StaleIn(captured, c, filter)) + k,
         \A d \in Cpus : d # c =>
            Cardinality(StaleIn(captured', d, filter))
              = Cardinality(StaleIn(captured, d, filter)),
         k + OldTap(tap'[c], filter) + OldTransfer(transfer'[c], filter)
           <= OldTap(tap[c], filter) + OldTransfer(transfer[c], filter)
  PROVE  FewStale'
<1> SUFFICES ASSUME io.pc = "idle", NEW d \in Cpus  PROVE StaleOf(d)' <= 1
  BY DEF FewStale
<1>1. captured \in Seq(Captured)  BY DEF IInv, TypeOK, Captured
<1>2. StaleOf(d) <= 1  BY DEF FewStale
<1>3. Cardinality(StaleIn(captured, d, filter)) \in Nat  BY <1>1, StaleCounted
<1>4. StaleOf(d)' = Cardinality(StaleIn(captured', d, filter)) + OldTap(tap'[d], filter)
                      + OldTransfer(transfer'[d], filter)
  BY DEF StaleOf
<1>5. CASE d # c  BY <1>2, <1>4, <1>5 DEF StaleOf
<1>6. CASE d = c
  <2> DEFINE m == Cardinality(StaleIn(captured, c, filter))
             m2 == Cardinality(StaleIn(captured', c, filter))
             a == OldTap(tap[c], filter)
             a2 == OldTap(tap'[c], filter)
             b == OldTransfer(transfer[c], filter)
             b2 == OldTransfer(transfer'[c], filter)
  <2>1. /\ m \in Nat /\ m2 = m + k /\ m + a + b <= 1 /\ k + a2 + b2 <= a + b
        /\ a \in {0, 1} /\ b \in {0, 1} /\ a2 \in {0, 1} /\ b2 \in {0, 1}
        /\ StaleOf(c)' = m2 + a2 + b2
    BY <1>2, <1>3, <1>4, <1>6, OldTypes DEF StaleOf
  <2> HIDE DEF m, m2, a, a2, b, b2
  <2>2. m2 + a2 + b2 <= 1  BY <2>1
  <2> QED  BY <1>6, <2>1, <2>2
<1> QED  BY <1>5, <1>6

\* a step that captures nothing
LEMMA StaleUncaptured ==
  ASSUME IInv, FewStale, io' = io, filter' = filter, captured' = captured, NEW c \in Cpus,
         \A d \in Cpus : d # c => tap'[d] = tap[d] /\ transfer'[d] = transfer[d],
         OldTap(tap'[c], filter) + OldTransfer(transfer'[c], filter)
           <= OldTap(tap[c], filter) + OldTransfer(transfer[c], filter)
  PROVE  FewStale'
<1>1. captured \in Seq(Captured)  BY DEF IInv, TypeOK, Captured
<1>2. \A d \in Cpus : Cardinality(StaleIn(captured, d, filter)) \in Nat
  BY <1>1, StaleCounted
<1> DEFINE m(d) == Cardinality(StaleIn(captured, d, filter))
           k == 0
<1>3. k \in {0, 1} /\ m(c) = m(c) + k
  BY <1>2
<1>4. k + OldTap(tap'[c], filter) + OldTransfer(transfer'[c], filter)
           <= OldTap(tap[c], filter) + OldTransfer(transfer[c], filter)
  BY OldTypes
<1> HIDE DEF k
<1> QED  BY <1>3, <1>4, StaleStep DEF m

\* a step that captures the packet t
LEMMA StaleCaptured ==
  ASSUME IInv, FewStale, NEW c \in Cpus, NEW t \in Tap \cup Transfer, NEW e, Complete(c, t, e),
         io' = io,
         \A d \in Cpus : d # c => tap'[d] = tap[d] /\ transfer'[d] = transfer[d],
         (IF t.filter # filter THEN 1 ELSE 0)
            + OldTap(tap'[c], filter) + OldTransfer(transfer'[c], filter)
           <= OldTap(tap[c], filter) + OldTransfer(transfer[c], filter)
  PROVE  FewStale'
<1>1. captured \in Seq(Captured)  BY DEF IInv, TypeOK, Captured
<1>2. PICK x \in Captured : captured' = Append(captured, x) /\ x.cpu = c /\ x.filter = t.filter
  BY CompletesAdds
<1>3. filter' = filter  BY CompletesAdds
<1> DEFINE k == IF t.filter # filter THEN 1 ELSE 0
<1>4. Cardinality(StaleIn(captured', c, filter))
        = Cardinality(StaleIn(captured, c, filter)) + k
  BY <1>1, <1>2, OneMoreStale
<1>5. ASSUME NEW d \in Cpus, d # c
      PROVE  Cardinality(StaleIn(captured', d, filter))
               = Cardinality(StaleIn(captured, d, filter))
  <2>1. Cardinality(StaleIn(captured', d, filter))
          = Cardinality(StaleIn(captured, d, filter))
              + (IF x.cpu = d /\ x.filter # filter THEN 1 ELSE 0)
    BY <1>1, <1>2, OneMoreStale
  <2>2. Cardinality(StaleIn(captured, d, filter)) \in Nat
    BY <1>1, StaleCounted
  <2> QED  BY <1>2, <1>5, <2>1, <2>2
<1>6. k \in {0, 1}  OBVIOUS
<1>7. k + OldTap(tap'[c], filter) + OldTransfer(transfer'[c], filter)
           <= OldTap(tap[c], filter) + OldTransfer(transfer[c], filter)
  OBVIOUS
<1> HIDE DEF k
<1> QED  BY <1>3, <1>4, <1>5, <1>6, <1>7, StaleStep

\* No step of NPF_tap adds one,
LEMMA TapStale ==
  ASSUME IInv, FewStale, NEW c \in Cpus, TapStep(c)
  PROVE  FewStale'
<1>0. /\ tap \in [Cpus -> Tap] /\ tap[c] \in Tap /\ transfer \in [Cpus -> Transfer]
      /\ transfer[c] \in Transfer
  BY DEF IInv, TypeOK
<1>1. ASSUME NEW fres \in FilterResults, TapFilter(c, fres)  PROVE FewStale'
  <2>1. /\ tap'[c].pc = "idle" \/ tap'[c].filter = filter
        /\ \A b \in Cpus : b # c => tap'[b] = tap[b]
        /\ UNCHANGED <<transfer, io, filter, captured>>
    BY <1>0, <1>1 DEF TapFilter, idleTap, Tap, configVars, historyVars
  <2>2. OldTap(tap'[c], filter) = 0  BY <2>1 DEF OldTap
  <2>3. OldTap(tap'[c], filter) + OldTransfer(transfer'[c], filter)
           <= OldTap(tap[c], filter) + OldTransfer(transfer[c], filter)
    BY <2>1, <2>2, OldTypes
  <2> QED  BY <2>1, <2>3, StaleUncaptured
<1>2. CASE TapCheckSize(c)
  <2>1. /\ tap[c].pc = "size"
        /\ tap'[c].pc = "idle" \/ (tap'[c].pc = "lock" /\ tap'[c].filter = tap[c].filter)
        /\ \A b \in Cpus : b # c => tap'[b] = tap[b]
        /\ UNCHANGED <<transfer, io, filter, captured>>
    BY <1>0, <1>2 DEF TapCheckSize, idleTap, Tap, configVars, historyVars
  <2>2. OldTap(tap'[c], filter) <= OldTap(tap[c], filter)
    BY <2>1 DEF OldTap
  <2>3. OldTap(tap'[c], filter) + OldTransfer(transfer'[c], filter)
           <= OldTap(tap[c], filter) + OldTransfer(transfer[c], filter)
    BY <2>1, <2>2, OldTypes
  <2> QED  BY <2>1, <2>3, StaleUncaptured
<1>3. CASE TapNoRoom(c) \/ TapDropPending(c) \/ TapTransferFails(c) \/ TapSignal(c)
  <2>1. /\ tap'[c].pc = "idle"
        /\ \A b \in Cpus : b # c => tap'[b] = tap[b]
        /\ UNCHANGED <<transfer, io, filter, captured>>
    BY <1>0, <1>3 DEF TapNoRoom, TapDropPending, TapTransferFails, TapDrop, TapSignal,
                      idleTap, configVars, historyVars
  <2>2. OldTap(tap'[c], filter) = 0  BY <2>1 DEF OldTap
  <2>3. OldTap(tap'[c], filter) + OldTransfer(transfer'[c], filter)
           <= OldTap(tap[c], filter) + OldTransfer(transfer[c], filter)
    BY <2>1, <2>2, OldTypes
  <2> QED  BY <2>1, <2>3, StaleUncaptured
<1>4. CASE TapPublish(c)
  <2>1. /\ tap'[c].pc = "signal"
        /\ \A b \in Cpus : b # c => tap'[b] = tap[b]
        /\ UNCHANGED <<transfer, io, filter, captured>>
    BY <1>0, <1>4 DEF TapPublish, Tap, configVars, historyVars
  <2>2. OldTap(tap'[c], filter) = 0  BY <2>1 DEF OldTap
  <2>3. OldTap(tap'[c], filter) + OldTransfer(transfer'[c], filter)
           <= OldTap(tap[c], filter) + OldTransfer(transfer[c], filter)
    BY <2>1, <2>2, OldTypes
  <2> QED  BY <2>1, <2>3, StaleUncaptured
<1>5. CASE TapStore(c) \/ \E result \in TransferResults : TapTransferNow(c, result)
  <2>1. /\ tap[c].pc = "lock" /\ tap'[c].pc = "publish"
        /\ \A b \in Cpus : b # c => tap'[b] = tap[b]
        /\ UNCHANGED <<transfer, io>>
    BY <1>0, <1>5 DEF TapStore, TapTransferNow, Complete, AtLock, NeedsTransfer, Tap
  <2>5. \E e : Complete(c, tap[c], e)
    <3>1. CASE TapStore(c)
      <4>1. Complete(c, tap[c], EndOfPacket(P[c], tap[c].len, size))  BY <3>1 DEF TapStore
      <4> QED  BY <4>1
    <3>2. CASE \E result \in TransferResults : TapTransferNow(c, result)
      <4>1. Complete(c, tap[c], NewP(c))  BY <3>2 DEF TapTransferNow
      <4> QED  BY <4>1
    <3> QED  BY <1>5, <3>1, <3>2
  <2>2. /\ OldTap(tap'[c], filter) = 0
        /\ OldTap(tap[c], filter) = IF tap[c].filter # filter THEN 1 ELSE 0
    BY <2>1 DEF OldTap
  <2>3. (IF tap[c].filter # filter THEN 1 ELSE 0)
            + OldTap(tap'[c], filter) + OldTransfer(transfer'[c], filter)
           <= OldTap(tap[c], filter) + OldTransfer(transfer[c], filter)
    BY <2>1, <2>2, OldTypes
  <2>4. tap[c] \in Tap \cup Transfer  BY <1>0
  <2> QED  BY <2>1, <2>3, <2>4, <2>5, StaleCaptured
<1>6. CASE TapTransferLater(c)
  <2>1. /\ tap[c].pc = "lock" /\ tap'[c].pc = "idle" /\ transfer[c].pc # "pending"
        /\ transfer'[c].pc = "pending" /\ transfer'[c].filter = tap[c].filter
        /\ \A b \in Cpus : b # c => tap'[b] = tap[b] /\ transfer'[b] = transfer[b]
        /\ UNCHANGED <<io, filter, captured>>
    BY <1>0, <1>6 DEF TapTransferLater, NeedsTransfer, TransferPending, AtLock, idleTap,
                      configVars, historyVars
  <2>2. /\ OldTap(tap'[c], filter) = 0 /\ OldTransfer(transfer[c], filter) = 0
        /\ OldTransfer(transfer'[c], filter) = OldTap(tap[c], filter)
    BY <2>1 DEF OldTap, OldTransfer
  <2>3. OldTap(tap'[c], filter) + OldTransfer(transfer'[c], filter)
           <= OldTap(tap[c], filter) + OldTransfer(transfer[c], filter)
    BY <2>2, OldTypes
  <2> QED  BY <2>1, <2>3, StaleUncaptured
<1> QED  BY <1>1, <1>2, <1>3, <1>4, <1>5, <1>6 DEF TapStep

\* nor one of NPF_TransferDataComplete,
LEMMA TransferStale ==
  ASSUME IInv, FewStale, NEW c \in Cpus, TransferStep(c)
  PROVE  FewStale'
<1>0. transfer \in [Cpus -> Transfer] /\ transfer[c] \in Transfer
  BY DEF IInv, TypeOK
<1>1. CASE \E result \in TransferResults : TransferComplete(c, result)
  <2>1. /\ transfer[c].pc = "pending" /\ transfer'[c].pc = "publish"
        /\ \A b \in Cpus : b # c => transfer'[b] = transfer[b]
        /\ UNCHANGED <<tap, io>>
    BY <1>0, <1>1 DEF TransferComplete, Complete, Transfer
  <2>5. \E e : Complete(c, transfer[c], e)
    <3>1. Complete(c, transfer[c], transfer[c].newP)  BY <1>1 DEF TransferComplete
    <3> QED  BY <3>1
  <2>2. /\ OldTransfer(transfer'[c], filter) = 0
        /\ OldTransfer(transfer[c], filter) = IF transfer[c].filter # filter THEN 1 ELSE 0
    BY <2>1 DEF OldTransfer
  <2>3. (IF transfer[c].filter # filter THEN 1 ELSE 0)
            + OldTap(tap'[c], filter) + OldTransfer(transfer'[c], filter)
           <= OldTap(tap[c], filter) + OldTransfer(transfer[c], filter)
    BY <2>1, <2>2, OldTypes
  <2>4. transfer[c] \in Tap \cup Transfer  BY <1>0
  <2> QED  BY <2>1, <2>3, <2>4, <2>5, StaleCaptured
<1>2. CASE TransferPublish(c) \/ TransferRelease(c) \/ TransferUnfreeze(c)
  <2>1. /\ \/ transfer' = transfer
           \/ /\ transfer'[c].pc # "pending"
              /\ \A b \in Cpus : b # c => transfer'[b] = transfer[b]
        /\ UNCHANGED <<tap, io, filter, captured>>
    BY <1>0, <1>2 DEF TransferPublish, TransferRelease, TransferUnfreeze, noTransfer, Transfer,
                      configVars, historyVars
  <2>2. OldTransfer(transfer'[c], filter) <= OldTransfer(transfer[c], filter)
    BY <2>1, OldTypes DEF OldTransfer
  <2>3. OldTap(tap'[c], filter) + OldTransfer(transfer'[c], filter)
           <= OldTap(tap[c], filter) + OldTransfer(transfer[c], filter)
    BY <2>1, <2>2, OldTypes
  <2> QED  BY <2>1, <2>3, StaleUncaptured
<1> QED  BY <1>1, <1>2 DEF TransferStep

\* nor one that does not touch what is counted,
LEMMA StaleUntouched ==
  ASSUME FewStale, UNCHANGED <<tap, transfer, filter, captured>>,
         io'.pc = "idle" => io.pc = "idle"
  PROVE  FewStale'
BY DEF FewStale, StaleOf

\* nor any other: BIOCSETF empties the buffers before it returns.
LEMMA StaleNext ==
  ASSUME IInv, FewStale, [Next]_vars
  PROVE  FewStale'
<1>1. ASSUME NEW c \in Cpus, NEW f \in Frames, TapReceive(c, f)  PROVE FewStale'
  <2>0. tap \in [Cpus -> Tap]  BY DEF IInv, TypeOK
  <2>1. /\ tap'[c].pc = "filter"
        /\ \A b \in Cpus : b # c => tap'[b] = tap[b]
        /\ UNCHANGED <<transfer, io, filter, captured>>
    BY <1>1, <2>0 DEF TapReceive, idleTap, configVars, historyVars
  <2>2. OldTap(tap'[c], filter) = 0  BY <2>1 DEF OldTap
  <2>3. OldTap(tap'[c], filter) + OldTransfer(transfer'[c], filter)
           <= OldTap(tap[c], filter) + OldTransfer(transfer[c], filter)
    BY <2>1, <2>2, OldTypes
  <2> QED  BY <2>1, <2>3, StaleUncaptured
<1>2. CASE (\E len \in ReadLengths : ReadStart(len)) \/ ReadStep
  <2>1. UNCHANGED <<tap, transfer, filter, captured, io>>
    BY <1>2 DEF ReadStart, ReadStep, ReadOccupation, ReadCheck, ReadAwake, ReadTimeOut,
       ReadClear, ReadPrepare, ReadSkipCpu, ReadHeader, ReadData, ReadFree, ReadReturn,
       configVars, historyVars
  <2> QED  BY <2>1, StaleUntouched
<1>3. CASE UNCHANGED vars
  <2>1. UNCHANGED <<tap, transfer, filter, captured, io>>
    BY <1>3 DEF vars, configVars, historyVars
  <2> QED  BY <2>1, StaleUntouched
<1>4. CASE Ioctl \/ IoctlLock
  <2>0. io \in Io  BY DEF IInv, TypeOK
  <2>1. CASE SetFilter
    <3>1. io'.pc = "lock"  BY <2>0, <2>1 DEF SetFilter, Io
    <3> QED  BY <3>1 DEF FewStale
  <2>2. CASE DisableLoopback \/ (\E dim \in Dims : SetBufferSize(dim)) \/ IoctlLock
    <3>1. UNCHANGED <<tap, transfer, filter, captured>> /\ io'.pc \in {"lock", "apply"}
      BY <2>0, <2>2 DEF DisableLoopback, SetBufferSize, IoctlLock, Io, configVars, historyVars
    <3> QED  BY <3>1, StaleUntouched
  <2>3. CASE (\E m \in MinToCopies : SetMinToCopy(m)) \/ (\E t \in TimeOuts : SetTimeOut(t))
    <3>1. UNCHANGED <<tap, transfer, filter, captured>> /\ io'.pc = io.pc
      BY <2>0, <2>3 DEF SetMinToCopy, SetTimeOut, Io, historyVars
    <3> QED  BY <3>1, StaleUntouched
  <2> QED  BY <1>4, <2>1, <2>2, <2>3 DEF Ioctl
<1>5. CASE ResetBufferContents \/ ReplaceBuffers
  <2>1. PICK s : ResetBuffers(s) /\ io.pc = "apply"
    BY <1>5 DEF ResetBufferContents, ReplaceBuffers
  <2>2. \A c \in Cpus : transfer[c].pc = "none"
    BY <2>1 DEF IInv, LockOwners
  <2>3. captured' = << >> /\ transfer' = transfer
    BY <2>1 DEF ResetBuffers
  <2>4. \A c \in Cpus : /\ Cardinality(StaleIn(captured', c, filter')) = 0
                        /\ OldTransfer(transfer'[c], filter') = 0
                        /\ OldTap(tap'[c], filter') \in {0, 1}
    BY <2>2, <2>3, NothingIsStale, OldTypes DEF OldTransfer
  <2>5. \A c \in Cpus : StaleOf(c)' <= 1
    BY <2>4 DEF StaleOf
  <2> QED  BY <2>5 DEF FewStale
<1> QED  BY <1>1, <1>2, <1>3, <1>4, <1>5, TapStale, TransferStale DEF Next, IoctlStep

(* After BIOCSETF has returned, at most one packet per CPU of those        *)
(* NPF_Read may deliver was accepted by an older filter: the one whose     *)
(* NPF_tap had run the filter when it was replaced.                        *)
THEOREM AtMostOneStalePacket ==
  ASSUME ~Uniprocessor
  PROVE  Spec => []OneStalePacketPerCpu
<1>1. Init => FewStale
  <2> SUFFICES ASSUME Init, NEW c \in Cpus  PROVE StaleOf(c) <= 1
    BY DEF FewStale
  <2>1. captured = << >> /\ transfer[c].pc = "none"
    BY DEF Init, noTransfer
  <2>2. Cardinality(StaleIn(captured, c, filter)) = 0 /\ OldTransfer(transfer[c], filter) = 0
    BY <2>1, NothingIsStale DEF OldTransfer
  <2> QED  BY <2>2, OldTypes DEF StaleOf
<1>2. IInv /\ FewStale /\ [Next]_vars => FewStale'
  BY StaleNext
<1>3. IInv /\ FewStale => OneStalePacketPerCpu
  <2> SUFFICES ASSUME IInv, FewStale, io.pc = "idle", NEW c \in Cpus
               PROVE  Cardinality(StalePackets(c)) <= 1
    BY DEF OneStalePacketPerCpu
  <2>1. captured \in Seq(Captured)  BY DEF IInv, TypeOK, Captured
  <2>2. StalePackets(c) = StaleIn(captured, c, filter)
    BY <2>1, LenProperties DEF StalePackets, StaleIn
  <2>3. StaleOf(c) <= 1 /\ Cardinality(StaleIn(captured, c, filter)) \in Nat
    BY <2>1, StaleCounted DEF FewStale
  <2> QED  BY <2>2, <2>3, OldTypes DEF StaleOf
<1> QED  BY <1>1, <1>2, <1>3, Invariance, PTL DEF Spec

-------------------------------------------------------------------------------
\* the reader is asleep, or has made up its mind to be
Sleeping == rd.pc = "wait" \/ (rd.pc = "check" /\ ~EnoughToCopy(rd.occupation))

\* a producer of CPU 0 is past Free and has not looked at the event yet
SignalComes ==
  tap[0].pc = "signal" \/ transfer[0].pc = "signal" \/ unfreeze[0]

(* With one CPU: a reader that sleeps over more than MinToCopy bytes has   *)
(* its event set, or a producer is about to set it.                        *)
WakeUp ==
  /\ Sleeping /\ Occupied(0) > minToCopy => readEvent \/ SignalComes
  /\ rd.pc = "sum" => rd.occupation = 0

\* The only CPU.
LEMMA OneCpu ==
  ASSUME NCpu = 1
  PROVE  Cpus = {0} /\ 0 \in Cpus
  BY DEF Cpus

\* NPF_tap sets the event of a reader it has given enough,
LEMMA WakeUpTap ==
  ASSUME NCpu = 1, IInv, WakeUp, NEW c \in Cpus, TapStep(c)
  PROVE  WakeUp'
<1>0. c = 0 /\ tap \in [Cpus -> Tap] /\ tap[c] \in Tap /\ transfer \in [Cpus -> Transfer]
      /\ 0 \in Cpus
  BY OneCpu DEF IInv, TypeOK
<1>1. CASE TapPublish(c)
  <2>1. tap'[c].pc = "signal" /\ rd' = rd
    BY <1>0, <1>1 DEF TapPublish, Tap
  <2> QED  BY <1>0, <2>1 DEF WakeUp, SignalComes
<1>2. CASE TapSignal(c)
  <2>1. /\ rd' = rd /\ Free' = Free /\ size' = size /\ minToCopy' = minToCopy
        /\ readEvent' = (readEvent \/ Occupied(c) >= minToCopy)
    BY <1>2 DEF TapSignal, SignalIf, configVars
  <2>2. Occupied(0)' = Occupied(0)  BY <2>1 DEF Occupied
  <2>3. Occupied(0) \in Int /\ minToCopy \in Nat
    BY <1>0 DEF Occupied, IInv, TypeOK
  <2>4. Occupied(0)' > minToCopy' => readEvent'
    <3>1. Occupied(0) > minToCopy => Occupied(c) >= minToCopy /\ Occupied(c) > minToCopy
      BY <1>0, <2>3
    <3>2. Occupied(0)' > minToCopy' <=> Occupied(0) > minToCopy
      BY <2>1, <2>2
    <3> QED  BY <2>1, <3>1, <3>2
  <2>5. rd'.pc = "sum" => rd'.occupation = 0
    BY <2>1 DEF WakeUp
  <2>6. (Sleeping /\ Occupied(0) > minToCopy => readEvent \/ SignalComes)'
    BY <2>4
  <2> QED  BY <2>5, <2>6 DEF WakeUp
<1>3. CASE \/ \E fres \in FilterResults : TapFilter(c, fres)
           \/ TapCheckSize(c) \/ TapNoRoom(c) \/ TapDropPending(c) \/ TapStore(c)
           \/ TapTransferFails(c) \/ TapTransferLater(c)
           \/ \E result \in TransferResults : TapTransferNow(c, result)
  <2>1. /\ tap[c].pc # "signal" /\ unfreeze' = unfreeze
        /\ UNCHANGED <<size, Free, readEvent, minToCopy, rd>>
    BY <1>3 DEF TapFilter, TapCheckSize, TapNoRoom, TapDropPending, TapStore,
       TapTransferFails, TapTransferLater, TapTransferNow, NeedsTransfer, TapDrop,
       Complete, AtLock, ringVars, configVars
  <2>2. transfer[c].pc = "signal" => transfer'[c].pc = "signal"
    BY <1>3 DEF TapFilter, TapCheckSize, TapNoRoom, TapDropPending, TapStore,
       TapTransferFails, TapTransferLater, TapTransferNow, NeedsTransfer, TapDrop,
       TransferPending
  <2>3. Sleeping' = Sleeping /\ Occupied(0)' = Occupied(0)
    BY <2>1 DEF Sleeping, Occupied, EnoughToCopy
  <2> QED  BY <1>0, <2>1, <2>2, <2>3 DEF WakeUp, SignalComes
<1> QED  BY <1>1, <1>2, <1>3 DEF TapStep

\* and so does NPF_TransferDataComplete;
LEMMA WakeUpTransfer ==
  ASSUME NCpu = 1, IInv, WakeUp, NEW c \in Cpus, TransferStep(c)
  PROVE  WakeUp'
<1>0. c = 0 /\ transfer \in [Cpus -> Transfer] /\ transfer[c] \in Transfer /\ 0 \in Cpus
  BY OneCpu DEF IInv, TypeOK
<1>1. CASE TransferPublish(c)
  <2>1. transfer'[c].pc = "signal" /\ rd' = rd
    BY <1>0, <1>1 DEF TransferPublish, Transfer
  <2> QED  BY <1>0, <2>1 DEF WakeUp, SignalComes
<1>2. CASE TransferRelease(c) \/ TransferUnfreeze(c)
  <2>1. /\ rd' = rd /\ Free' = Free /\ size' = size /\ minToCopy' = minToCopy
        /\ \/ readEvent' = (readEvent \/ Occupied(c) >= minToCopy)
           \/ readEvent' = (readEvent \/ Occupied(c) > minToCopy)
    BY <1>2 DEF TransferRelease, TransferUnfreeze, SignalIf, ringVars, configVars
  <2>2. Occupied(0)' = Occupied(0)  BY <2>1 DEF Occupied
  <2>3. Occupied(0) \in Int /\ minToCopy \in Nat
    BY <1>0 DEF Occupied, IInv, TypeOK
  <2>4. Occupied(0)' > minToCopy' => readEvent'
    <3>1. Occupied(0) > minToCopy => Occupied(c) >= minToCopy /\ Occupied(c) > minToCopy
      BY <1>0, <2>3
    <3>2. Occupied(0)' > minToCopy' <=> Occupied(0) > minToCopy
      BY <2>1, <2>2
    <3> QED  BY <2>1, <3>1, <3>2
  <2>5. rd'.pc = "sum" => rd'.occupation = 0
    BY <2>1 DEF WakeUp
  <2>6. (Sleeping /\ Occupied(0) > minToCopy => readEvent \/ SignalComes)'
    BY <2>4
  <2> QED  BY <2>5, <2>6 DEF WakeUp
<1>3. CASE \E result \in TransferResults : TransferComplete(c, result)
  <2>1. /\ transfer[c].pc # "signal" /\ tap' = tap
        /\ UNCHANGED <<size, Free, readEvent, minToCopy, rd, unfreeze>>
    BY <1>3 DEF TransferComplete, Complete, configVars
  <2>2. Sleeping' = Sleeping /\ Occupied(0)' = Occupied(0)
    BY <2>1 DEF Sleeping, Occupied, EnoughToCopy
  <2> QED  BY <1>0, <2>1, <2>2 DEF WakeUp, SignalComes
<1> QED  BY <1>1, <1>2, <1>3 DEF TransferStep

\* NPF_Read goes to sleep only over the occupation it has seen.
LEMMA WakeUpRead ==
  ASSUME NCpu = 1, IInv, WakeUp,
         ReadStep \/ \E len \in ReadLengths : ReadStart(len)
  PROVE  WakeUp'
<1>0. rd \in Read /\ Occupied(0) \in Int /\ minToCopy \in Nat
  BY OneCpu DEF IInv, TypeOK, Occupied
<1>1. CASE ReadOccupation
  <2>1. /\ rd.occupation = 0 /\ rd.cpu = 0
    BY <1>0, <1>1, OneCpu DEF ReadOccupation, WakeUp, Read
  <2>2. /\ rd'.pc = "check" /\ rd'.occupation = 0 + Occupied(0)
        /\ UNCHANGED <<size, Free, minToCopy>>
    BY <1>0, <1>1, <2>1 DEF ReadOccupation, Read, ringVars, configVars
  <2>3. Occupied(0)' = rd'.occupation
    BY <1>0, <2>2 DEF Occupied
  <2>4. Sleeping' => ~(Occupied(0)' > minToCopy')
    BY <1>0, <2>2, <2>3 DEF Sleeping, EnoughToCopy
  <2> QED  BY <2>2, <2>4 DEF WakeUp
<1>2. CASE ReadCheck
  <2>1. /\ rd'.pc # "sum" /\ (rd'.pc = "wait" => Sleeping) /\ rd'.pc # "check"
        /\ UNCHANGED <<size, Free, minToCopy, readEvent, tap, transfer, unfreeze>>
    BY <1>0, <1>2 DEF ReadCheck, Read, Sleeping, ringVars, configVars
  <2> QED  BY <2>1 DEF WakeUp, Sleeping, SignalComes, Occupied
<1>3. CASE \/ ReadAwake \/ ReadTimeOut \/ ReadClear \/ ReadPrepare
           \/ ReadSkipCpu \/ ReadHeader \/ ReadData \/ ReadFree \/ ReadReturn
  <2>1. CASE ReadAwake \/ ReadTimeOut \/ ReadClear \/ ReadPrepare
    BY <1>0, <2>1 DEF ReadAwake, ReadTimeOut, ReadClear, ReadPrepare, Read, WakeUp, Sleeping
  <2>2. CASE ReadSkipCpu \/ ReadReturn
    <3>1. ReadSkipCpu => rd'.pc = "scan"
      <4>1. \A x \in Read : \A d, k : [x EXCEPT !.cpu = d, !.count = k].pc = x.pc
        BY DEF Read
      <4> QED  BY <1>0, <4>1 DEF ReadSkipCpu, Scanning
    <3>2. ReadReturn => rd'.pc = "idle"
      BY DEF ReadReturn, idleRead
    <3> QED  BY <2>2, <3>1, <3>2 DEF WakeUp, Sleeping
  <2>3. CASE ReadHeader \/ ReadData \/ ReadFree
    <3>1. rd'.pc \in {"copy", "free", "scan"}
      BY <1>0, <2>3 DEF ReadHeader, ReadData, ReadFree, Read
    <3> QED  BY <3>1 DEF WakeUp, Sleeping
  <2> QED  BY <1>3, <2>1, <2>2, <2>3
<1>4. ASSUME NEW len \in ReadLengths, ReadStart(len)  PROVE WakeUp'
  <2>1. rd'.pc \notin {"wait", "check"} /\ (rd'.pc = "sum" => rd'.occupation = 0)
    BY <1>4 DEF ReadStart, NoIrp, idleRead
  <2> QED  BY <2>1 DEF WakeUp, Sleeping
<1> QED  BY <1>1, <1>2, <1>3, <1>4 DEF ReadStep

\* No step lets a reader sleep on.
LEMMA WakeUpNext ==
  ASSUME NCpu = 1, IInv, WakeUp, [Next]_vars
  PROVE  WakeUp'
<1>1. ASSUME NEW c \in Cpus, NEW f \in Frames, TapReceive(c, f)  PROVE WakeUp'
  <2>1. /\ tap[c].pc # "signal" /\ c = 0
        /\ UNCHANGED <<size, Free, readEvent, minToCopy, rd, transfer, unfreeze>>
    BY <1>1, OneCpu DEF TapReceive, ringVars, configVars
  <2>2. Sleeping' = Sleeping /\ Occupied(0)' = Occupied(0)
    BY <2>1 DEF Sleeping, Occupied, EnoughToCopy
  <2> QED  BY <2>1, <2>2 DEF WakeUp, SignalComes
<1>2. CASE Ioctl \/ IoctlStep
  <2>1. rd.pc = "idle"
    BY <1>2 DEF Ioctl, SetFilter, DisableLoopback, SetBufferSize, SetMinToCopy, SetTimeOut,
       CanIoctl, NoIrp, IoctlStep, IoctlLock, ResetBufferContents, ReplaceBuffers,
       IInv, Irps
  <2>2. rd' = rd
    BY <1>2 DEF Ioctl, SetFilter, DisableLoopback, SetBufferSize, SetMinToCopy, SetTimeOut,
       IoctlStep, IoctlLock, ResetBufferContents, ReplaceBuffers, ResetBuffers
  <2> QED  BY <2>1, <2>2 DEF WakeUp, Sleeping
<1>3. CASE UNCHANGED vars
  BY <1>3 DEF vars, ringVars, configVars, WakeUp, Sleeping, SignalComes, Occupied,
     EnoughToCopy
<1> QED
  BY <1>1, <1>2, <1>3, WakeUpTap, WakeUpTransfer, WakeUpRead DEF Next

\* With one CPU the occupation NPF_Read sums is that of its buffer.
LEMMA OneBuffer ==
  ASSUME NCpu = 1, TypeOK
  PROVE  SumBelow[NCpu] = Occupied(0)
<1>0. Occupied(0) \in Int  BY OneCpu DEF TypeOK, Occupied
<1> DEFINE S == [n \in 0 .. 1 |-> IF n = 0 THEN 0 ELSE Occupied(0)]
<1>1. S = [n \in 0 .. 1 |-> IF n = 0 THEN 0 ELSE S[n - 1] + Occupied(n - 1)]
  <2> SUFFICES ASSUME NEW n \in 0 .. 1
               PROVE  S[n] = IF n = 0 THEN 0 ELSE S[n - 1] + Occupied(n - 1)
    OBVIOUS
  <2>1. CASE n = 0  BY <2>1
  <2>2. CASE n = 1  BY <2>2, <1>0
  <2> QED  BY <2>1, <2>2
<1> HIDE DEF S
<1>2. SumBelow = [n \in 0 .. NCpu |->
                    IF n = 0 THEN 0 ELSE SumBelow[n - 1] + Occupied(n - 1)]
  BY <1>1 DEF SumBelow
<1>3. SumBelow[0] = 0  BY <1>2
<1>4. SumBelow[1] = SumBelow[0] + Occupied(0)  BY <1>2
<1> QED  BY <1>0, <1>3, <1>4

(* NPF_Read never stays blocked in KeWaitForSingleObject over more than    *)
(* MinToCopy bytes: the frames NPF_tap stores between the sum of the       *)
(* occupation and the wait set ReadEvent.  With one CPU only: with several *)
(* each tap compares its own buffer with a share of MinToCopy.             *)
THEOREM ReaderIsWoken ==
  ASSUME ~Uniprocessor, NCpu = 1
  PROVE  Spec => []BlockedOnlyBelowMinToCopy
<1>1. Init => WakeUp
  BY DEF Init, idleRead, WakeUp, Sleeping
<1>2. IInv /\ WakeUp /\ [Next]_vars => WakeUp'
  BY WakeUpNext
<1>3. IInv /\ WakeUp => BlockedOnlyBelowMinToCopy
  <2> SUFFICES ASSUME IInv, WakeUp, rd.pc = "wait", ~readEvent, NoSignalDue,
                      EnoughToCopy(SumBelow[NCpu])
               PROVE  FALSE
    BY DEF BlockedOnlyBelowMinToCopy
  <2>1. SumBelow[NCpu] = Occupied(0)  BY OneBuffer DEF IInv
  <2>2. minToCopy \in Nat  BY DEF IInv, TypeOK
  <2>3. Occupied(0) > minToCopy  BY <2>1, <2>2 DEF EnoughToCopy
  <2>4. ~SignalComes  BY OneCpu DEF NoSignalDue, SignalComes
  <2> QED  BY <2>3, <2>4 DEF WakeUp, Sleeping
<1> QED  BY <1>1, <1>2, <1>3, Invariance, PTL DEF Spec
===============================================================================
