---------------------------- MODULE JtagUartProofs ----------------------------
(***************************************************************************)
(* Proofs about the driver of the JTAG UART, for every number of tasks and *)
(* every size of rings and FIFOs that satisfies JtagUartAssumption.        *)
(***************************************************************************)
EXTENDS JtagUart, SequenceTheorems, TLAPS

Ring == [buf : [Slot -> Byte], in : Slot, out : Slot]

\* Slot i + k of a ring that starts over after the last slot.
WrapSum(i, k) == IF i + k < BufLen THEN i + k ELSE i + k - BufLen

-----------------------------------------------------------------------------
\* Rings.  The remainder is a subtraction wherever the driver takes one.
LEMMA WrapCases ==
  ASSUME NEW i \in Slot, NEW k \in 0..BufLen
  PROVE  /\ Wrap(i + k) = WrapSum(i, k) /\ Wrap(i + k) \in Slot
         /\ Wrap(i) = i
BY JtagUartAssumption DEF JtagUartAssumption, Wrap, WrapSum, Slot

LEMMA FillCases ==
  ASSUME NEW r \in Ring
  PROVE  /\ Fill(r) = IF r.in >= r.out THEN r.in - r.out
                      ELSE r.in - r.out + BufLen
         /\ Fill(r) \in 0..BufLen - 1 /\ Room(r) \in 0..BufLen - 1
<1> DEFINE d == IF r.in >= r.out THEN r.in - r.out ELSE r.in - r.out + BufLen
<1>1. BufLen \in Nat /\ BufLen >= 2 /\ r.in \in Slot /\ r.out \in Slot
  BY JtagUartAssumption DEF JtagUartAssumption, Ring
<1>2. BufLen - r.out \in 0..BufLen
  BY <1>1 DEF Slot
<1>3. Wrap(r.in + (BufLen - r.out)) = WrapSum(r.in, BufLen - r.out)
  BY <1>1, <1>2, WrapCases
<1>4. r.in - r.out + BufLen = r.in + (BufLen - r.out)
  BY <1>1 DEF Slot
<1>5. Fill(r) = d
  BY <1>1, <1>3, <1>4 DEF Fill, WrapSum, Slot
<1>6. d \in 0..BufLen - 1
  BY <1>1 DEF Slot
<1> QED
  BY <1>1, <1>5, <1>6 DEF Room

\* What a task can copy in one piece never exceeds what is there, and is
\* nothing only when nothing is there; the same for the free places.
LEMMA Pieces ==
  ASSUME NEW r \in Ring
  PROVE  /\ Available(r) \in 0..Fill(r) /\ (Available(r) = 0 => Fill(r) = 0)
         /\ r.out + Available(r) <= BufLen
         /\ FreePiece(r) \in 0..Room(r) /\ (FreePiece(r) = 0 => Room(r) = 0)
         /\ r.in + FreePiece(r) <= BufLen
<1>1. BufLen \in Nat /\ BufLen >= 2 /\ r.in \in 0..BufLen - 1 /\ r.out \in 0..BufLen - 1
  BY JtagUartAssumption DEF JtagUartAssumption, Ring, Slot
<1> DEFINE f == Fill(r)
<1>2. f = IF r.in >= r.out THEN r.in - r.out ELSE r.in - r.out + BufLen
  BY FillCases
<1> HIDE DEF f
<1>3. /\ Available(r) \in 0..f /\ (Available(r) = 0 => f = 0)
      /\ r.out + Available(r) <= BufLen
  BY <1>1, <1>2 DEF Available
<1>4. /\ FreePiece(r) \in 0..BufLen - 1 - f
      /\ FreePiece(r) = 0 => BufLen - 1 - f = 0
      /\ r.in + FreePiece(r) <= BufLen
  BY <1>1, <1>2 DEF FreePiece
<1> QED
  BY <1>3, <1>4 DEF f, Room

LEMMA MovesIn ==
  ASSUME NEW r \in Ring, NEW n \in 0..Room(r)
  PROVE  /\ MoveIn(r, n) \in Ring /\ MoveIn(r, n).buf = r.buf
         /\ MoveIn(r, n).in = WrapSum(r.in, n) /\ MoveIn(r, n).out = r.out
         /\ Fill(MoveIn(r, n)) = Fill(r) + n
         /\ Room(MoveIn(r, n)) = Room(r) - n
<1> DEFINE m == MoveIn(r, n)
<1>1. /\ BufLen \in Nat /\ BufLen >= 2 /\ r.in \in Slot /\ r.out \in Slot
      /\ r.in \in 0..BufLen - 1 /\ r.out \in 0..BufLen - 1
      /\ r.buf \in [Slot -> Byte]
  BY JtagUartAssumption DEF JtagUartAssumption, Ring, Slot
<1>2. /\ Fill(r) = IF r.in >= r.out THEN r.in - r.out ELSE r.in - r.out + BufLen
      /\ n \in 0..BufLen /\ n \in 0..BufLen - 1 - Fill(r)
  BY <1>1, FillCases DEF Room
<1>3. Wrap(r.in + n) = WrapSum(r.in, n) /\ WrapSum(r.in, n) \in Slot
  BY <1>1, <1>2, WrapCases
<1>4. m = [buf |-> r.buf, in |-> WrapSum(r.in, n), out |-> r.out]
  BY <1>3 DEF MoveIn, Ring
<1>5. m \in Ring
  BY <1>1, <1>3, <1>4 DEF Ring
<1>6. Fill(m) = IF m.in >= m.out THEN m.in - m.out ELSE m.in - m.out + BufLen
  BY <1>5, FillCases
<1>7. Fill(m) = Fill(r) + n
  BY <1>1, <1>2, <1>4, <1>6 DEF WrapSum
<1>8. Room(m) = Room(r) - n
  BY <1>1, <1>2, <1>7 DEF Room
<1> QED
  BY <1>4, <1>5, <1>7, <1>8

LEMMA MovesOut ==
  ASSUME NEW r \in Ring, NEW n \in 0..Fill(r)
  PROVE  /\ MoveOut(r, n) \in Ring /\ MoveOut(r, n).buf = r.buf
         /\ MoveOut(r, n).in = r.in /\ MoveOut(r, n).out = WrapSum(r.out, n)
         /\ Fill(MoveOut(r, n)) = Fill(r) - n
         /\ Room(MoveOut(r, n)) = Room(r) + n
<1> DEFINE m == MoveOut(r, n)
<1>1. /\ BufLen \in Nat /\ BufLen >= 2 /\ r.in \in Slot /\ r.out \in Slot
      /\ r.in \in 0..BufLen - 1 /\ r.out \in 0..BufLen - 1
      /\ r.buf \in [Slot -> Byte]
  BY JtagUartAssumption DEF JtagUartAssumption, Ring, Slot
<1>2. /\ Fill(r) = IF r.in >= r.out THEN r.in - r.out ELSE r.in - r.out + BufLen
      /\ n \in 0..BufLen
  BY <1>1, FillCases
<1>3. Wrap(r.out + n) = WrapSum(r.out, n) /\ WrapSum(r.out, n) \in Slot
  BY <1>1, <1>2, WrapCases
<1>4. m = [buf |-> r.buf, in |-> r.in, out |-> WrapSum(r.out, n)]
  BY <1>3 DEF MoveOut, Ring
<1>5. m \in Ring
  BY <1>1, <1>3, <1>4 DEF Ring
<1>6. Fill(m) = IF m.in >= m.out THEN m.in - m.out ELSE m.in - m.out + BufLen
  BY <1>5, FillCases
<1>7. Fill(m) = Fill(r) - n
  BY <1>1, <1>2, <1>4, <1>6 DEF WrapSum
<1>8. Room(m) = Room(r) + n
  BY <1>1, <1>2, <1>7 DEF Room
<1> QED
  BY <1>4, <1>5, <1>7, <1>8

\* What is put behind slot in moves no pointer.
LEMMA Stores ==
  ASSUME NEW r \in Ring, NEW s \in Seq(Byte)
  PROVE  /\ Stored(r, s) \in Ring
         /\ Stored(r, s).in = r.in /\ Stored(r, s).out = r.out
         /\ Fill(Stored(r, s)) = Fill(r) /\ Room(Stored(r, s)) = Room(r)
         /\ \A i \in Slot : LET k == Wrap(i - r.in + BufLen)
              IN  Stored(r, s).buf[i] = IF k < Len(s) THEN s[k + 1] ELSE r.buf[i]
<1> DEFINE m == Stored(r, s)
           k(i) == Wrap(i - r.in + BufLen)
           f == [i \in Slot |-> IF k(i) < Len(s) THEN s[k(i) + 1] ELSE r.buf[i]]
<1>1. m = [buf |-> f, in |-> r.in, out |-> r.out]
  BY DEF Stored, Ring
<1>2. \A i \in Slot : k(i) \in Nat
  BY JtagUartAssumption DEF JtagUartAssumption, Wrap, Slot, Ring
<1>3. \A i \in Slot : k(i) < Len(s) => s[k(i) + 1] \in Byte
  <2> SUFFICES ASSUME NEW i \in Slot, k(i) < Len(s) PROVE s[k(i) + 1] \in Byte
    OBVIOUS
  <2> HIDE DEF k
  <2>1. k(i) + 1 \in 1..Len(s)
    BY <1>2
  <2> QED
    BY <2>1
<1>4. f \in [Slot -> Byte]
  <2> HIDE DEF k
  <2> QED
    BY <1>3 DEF Ring
<1>5. m \in Ring
  <2> HIDE DEF f
  <2> QED
    BY <1>1, <1>4 DEF Ring
<1> QED
  BY <1>1, <1>5 DEF Fill, Room

-----------------------------------------------------------------------------
\* What a ring holds, as a sequence.
LEMMA ContentsAreSeq ==
  ASSUME NEW r \in Ring
  PROVE  /\ Contents(r) \in Seq(Byte) /\ Len(Contents(r)) = Fill(r)
         /\ \A i \in 1..Fill(r) : Contents(r)[i] = r.buf[WrapSum(r.out, i - 1)]
<1> DEFINE n == Fill(r)
<1>1. n \in Nat /\ n < BufLen /\ BufLen \in Nat
  BY JtagUartAssumption, FillCases DEF JtagUartAssumption
<1> HIDE DEF n
<1>2. \A i \in 1..n : /\ Wrap(r.out + i - 1) = WrapSum(r.out, i - 1)
                      /\ WrapSum(r.out, i - 1) \in Slot
  <2> SUFFICES ASSUME NEW i \in 1..n
               PROVE  /\ Wrap(r.out + i - 1) = WrapSum(r.out, i - 1)
                      /\ WrapSum(r.out, i - 1) \in Slot
    OBVIOUS
  <2>1. r.out \in Slot /\ i - 1 \in 0..BufLen /\ r.out + i - 1 = r.out + (i - 1)
    BY <1>1 DEF Ring, Slot
  <2> QED
    BY <2>1, WrapCases
<1>3. Contents(r) = [i \in 1..n |-> r.buf[WrapSum(r.out, i - 1)]]
  BY <1>2 DEF Contents, n
<1>4. \A i \in 1..n : r.buf[WrapSum(r.out, i - 1)] \in Byte
  BY <1>2 DEF Ring
<1>5. Contents(r) \in [1..n -> Byte]
  BY <1>3, <1>4
<1>6. Contents(r) \in Seq(Byte) /\ Len(Contents(r)) = n
  BY <1>1, <1>5, SeqDef
<1> QED
  BY <1>3, <1>6 DEF n

\* The slot of the i-th character, counted from either pointer.
LEMMA WrapAhead ==
  ASSUME NEW in \in 0..BufLen - 1, NEW out \in 0..BufLen - 1, NEW f \in Int,
         f = IF in >= out THEN in - out ELSE in - out + BufLen,
         NEW i \in f + 1..BufLen - 1
  PROVE  WrapSum(out, i - 1) = WrapSum(in, (i - f) - 1)
BY JtagUartAssumption DEF JtagUartAssumption, WrapSum

\* Characters behind slot in become the end of the contents.
LEMMA MovedInContents ==
  ASSUME NEW r \in Ring, NEW s \in Seq(Byte), Len(s) <= Room(r),
         \A k \in 1..Len(s) : r.buf[WrapSum(r.in, k - 1)] = s[k]
  PROVE  Contents(MoveIn(r, Len(s))) = Contents(r) \o s
<1> DEFINE m == MoveIn(r, Len(s))
           f == Fill(r)
           n == Len(s)
<1>1. /\ BufLen \in Nat /\ BufLen >= 2 /\ r.in \in 0..BufLen - 1
      /\ r.out \in 0..BufLen - 1 /\ n \in Nat
  BY JtagUartAssumption DEF JtagUartAssumption, Ring, Slot
<1>2. /\ f = IF r.in >= r.out THEN r.in - r.out ELSE r.in - r.out + BufLen
      /\ f \in 0..BufLen - 1 /\ f + n <= BufLen - 1 /\ n \in 0..Room(r)
  BY <1>1, FillCases DEF Room
<1>3. /\ m \in Ring /\ m.buf = r.buf /\ m.out = r.out /\ Fill(m) = f + n
  BY <1>2, MovesIn
<1>4. /\ Contents(m) \in Seq(Byte) /\ Len(Contents(m)) = f + n
      /\ \A i \in 1..f + n : Contents(m)[i] = r.buf[WrapSum(r.out, i - 1)]
  BY <1>3, ContentsAreSeq
<1>5. /\ Contents(r) \in Seq(Byte) /\ Len(Contents(r)) = f
      /\ \A i \in 1..f : Contents(r)[i] = r.buf[WrapSum(r.out, i - 1)]
  BY ContentsAreSeq
<1>6. /\ Contents(r) \o s \in Seq(Byte) /\ Len(Contents(r) \o s) = f + n
      /\ \A i \in 1..f + n : (Contents(r) \o s)[i] =
            IF i <= f THEN Contents(r)[i] ELSE s[i - f]
  <2>1. \A t \in Seq(Byte) :
           /\ t \o s \in Seq(Byte) /\ Len(t \o s) = Len(t) + Len(s)
           /\ \A i \in 1..Len(t) + Len(s) : (t \o s)[i] =
                 IF i <= Len(t) THEN t[i] ELSE s[i - Len(t)]
    BY ConcatProperties
  <2> QED BY <1>5, <2>1, Zenon
<1> DEFINE c == Contents(r) \o s
           d == Contents(m)
<1> HIDE DEF m, f, n, c, d
<1>7. ASSUME NEW i \in 1..f + n PROVE d[i] = c[i]
  <2>1. d[i] = r.buf[WrapSum(r.out, i - 1)]
    BY <1>4 DEF d
  <2>2. CASE i <= f
    <3>1. i \in 1..f
      BY <1>1, <1>2, <2>2
    <3> QED
      BY <1>5, <1>6, <2>1, <2>2, <3>1 DEF c
  <2>3. CASE ~(i <= f)
    <3>1. i - f \in 1..n /\ i \in Int
      BY <1>1, <1>2, <2>3
    <3>2. WrapSum(r.out, i - 1) = WrapSum(r.in, (i - f) - 1)
      <4>1. i \in f + 1..BufLen - 1
        BY <1>1, <1>2, <3>1
      <4>2. /\ r.in \in 0..BufLen - 1 /\ r.out \in 0..BufLen - 1 /\ f \in Int
            /\ f = IF r.in >= r.out THEN r.in - r.out ELSE r.in - r.out + BufLen
        BY <1>1, <1>2
      <4> QED
        BY <4>1, <4>2, WrapAhead
    <3>3. s[i - f] = r.buf[WrapSum(r.in, (i - f) - 1)]
      BY <3>1 DEF n
    <3> QED
      BY <1>6, <2>1, <2>3, <3>2, <3>3 DEF c
  <2> QED
    BY <2>2, <2>3
<1>8. d \in Seq(Byte) /\ c \in Seq(Byte) /\ Len(d) = Len(c) /\ Len(d) = f + n
  BY <1>4, <1>6 DEF c, d
<1>9. d = c
  BY <1>7, <1>8, SeqEqual
<1> QED
  BY <1>9 DEF c, d, m, n

\* Characters taken from slot out on are the beginning of the contents.
LEMMA MovedOutContents ==
  ASSUME NEW r \in Ring, NEW n \in 0..Fill(r)
  PROVE  /\ Contents(MoveOut(r, n)) = SubSeq(Contents(r), n + 1, Fill(r))
         /\ Contents(r) = SubSeq(Contents(r), 1, n) \o Contents(MoveOut(r, n))
<1> DEFINE m == MoveOut(r, n)
           f == Fill(r)
           a == Contents(r)
           b == Contents(m)
           c == SubSeq(a, n + 1, f)
<1>1. /\ BufLen \in Nat /\ BufLen >= 2
      /\ r.out \in 0..BufLen - 1 /\ n \in Nat
  BY JtagUartAssumption, FillCases DEF JtagUartAssumption, Ring, Slot
<1>2. f \in 0..BufLen - 1 /\ n \in 0..f
  BY <1>1, FillCases
<1>3. /\ m \in Ring /\ m.buf = r.buf /\ m.out = WrapSum(r.out, n)
      /\ Fill(m) = f - n
  BY <1>2, MovesOut
<1>4. /\ b \in Seq(Byte) /\ Len(b) = f - n
      /\ \A i \in 1..f - n : b[i] = r.buf[WrapSum(WrapSum(r.out, n), i - 1)]
  BY <1>3, ContentsAreSeq
<1>5. /\ a \in Seq(Byte) /\ Len(a) = f
      /\ \A i \in 1..f : a[i] = r.buf[WrapSum(r.out, i - 1)]
  BY ContentsAreSeq
<1> HIDE DEF m, f, a, b
<1>6. \A i \in n + 1..f : a[i] \in Byte
  BY <1>1, <1>2, <1>5
<1>7. /\ c \in Seq(Byte) /\ Len(c) = f - n
      /\ \A i \in 1..f - n : c[i] = a[n + i]
  <2>1. /\ c \in Seq(Byte) /\ Len(c) = IF n + 1 <= f THEN f - (n + 1) + 1 ELSE 0
        /\ \A i \in 1..f - (n + 1) + 1 : c[i] = a[n + 1 + i - 1]
    BY <1>1, <1>2, <1>6, SubSeqProperties
  <2>2. f - (n + 1) + 1 = f - n /\ (~(n + 1 <= f) => f - n = 0)
    BY <1>1, <1>2
  <2>3. \A i \in 1..f - n : n + 1 + i - 1 = n + i
    BY <1>1, <1>2
  <2> HIDE DEF c
  <2> QED
    BY <2>1, <2>2, <2>3
<1> HIDE DEF c
<1>8. ASSUME NEW i \in 1..f - n PROVE b[i] = c[i]
  <2>1. n + i \in 1..f /\ i \in Int
    BY <1>1, <1>2
  <2>2. WrapSum(WrapSum(r.out, n), i - 1) = WrapSum(r.out, (n + i) - 1)
    BY <1>1, <1>2, <2>1 DEF WrapSum
  <2> QED
    BY <1>4, <1>5, <1>7, <2>1, <2>2
<1>9. b = c
  BY <1>4, <1>7, <1>8, SeqEqual
<1>10. a = SubSeq(a, 1, n) \o c
  <2>1. n \in 0..Len(a) + 1 /\ f = Len(a)
    BY <1>1, <1>2, <1>5
  <2> QED
    BY <1>1, <1>2, <1>5 DEF c
<1> QED
  BY <1>9, <1>10 DEF a, b, c, f, m

\* Slots behind in and slots with contents, as Stored tells them apart.
LEMMA WrapBehind ==
  ASSUME NEW in \in 0..BufLen - 1, NEW k \in 1..BufLen
  PROVE  /\ WrapSum(in, k - 1) \in Slot
         /\ Wrap(WrapSum(in, k - 1) - in + BufLen) = k - 1
<1>1. BufLen \in Nat /\ BufLen >= 2
  BY JtagUartAssumption DEF JtagUartAssumption
<1>2. WrapSum(in, k - 1) \in Slot
  BY <1>1 DEF WrapSum, Slot
<1>3. CASE in + (k - 1) < BufLen
  <2>1. WrapSum(in, k - 1) - in + BufLen = (k - 1) + BufLen
    BY <1>1, <1>3 DEF WrapSum
  <2>2. k - 1 \in Slot /\ BufLen \in 0..BufLen
    BY <1>1 DEF Slot
  <2>3. Wrap((k - 1) + BufLen) = WrapSum(k - 1, BufLen)
    BY <2>2, WrapCases
  <2> QED
    BY <1>1, <1>2, <2>1, <2>3 DEF WrapSum
<1>4. CASE ~(in + (k - 1) < BufLen)
  <2>1. WrapSum(in, k - 1) - in + BufLen = k - 1 /\ k - 1 \in Slot
    BY <1>1, <1>4 DEF WrapSum, Slot
  <2> QED
    BY <1>2, <2>1, WrapCases, <1>1
<1> QED
  BY <1>3, <1>4

\* Storing changes no character of the contents.
LEMMA StoredContents ==
  ASSUME NEW r \in Ring, NEW s \in Seq(Byte), Len(s) <= Room(r)
  PROVE  /\ Contents(Stored(r, s)) = Contents(r)
         /\ \A k \in 1..Len(s) : Stored(r, s).buf[WrapSum(r.in, k - 1)] = s[k]
<1> DEFINE m == Stored(r, s)
           f == Fill(r)
           n == Len(s)
<1>1. /\ BufLen \in Nat /\ BufLen >= 2 /\ r.in \in 0..BufLen - 1
      /\ r.out \in 0..BufLen - 1 /\ n \in Nat
  BY JtagUartAssumption DEF JtagUartAssumption, Ring, Slot
<1>2. /\ f = IF r.in >= r.out THEN r.in - r.out ELSE r.in - r.out + BufLen
      /\ f \in 0..BufLen - 1 /\ f + n <= BufLen - 1
  BY <1>1, FillCases DEF Room
<1>3. /\ m \in Ring /\ m.in = r.in /\ m.out = r.out /\ Fill(m) = f
      /\ \A i \in Slot : m.buf[i] = IF Wrap(i - r.in + BufLen) < n
              THEN s[Wrap(i - r.in + BufLen) + 1] ELSE r.buf[i]
  BY Stores
<1>4. /\ Contents(m) \in Seq(Byte) /\ Len(Contents(m)) = f
      /\ \A i \in 1..f : Contents(m)[i] = m.buf[WrapSum(r.out, i - 1)]
  BY <1>3, ContentsAreSeq
<1>5. /\ Contents(r) \in Seq(Byte) /\ Len(Contents(r)) = f
      /\ \A i \in 1..f : Contents(r)[i] = r.buf[WrapSum(r.out, i - 1)]
  BY ContentsAreSeq
<1> HIDE DEF m, f, n
<1>6. ASSUME NEW k \in 1..n PROVE m.buf[WrapSum(r.in, k - 1)] = s[k]
  <2>1. k \in 1..BufLen /\ k - 1 < n /\ (k - 1) + 1 = k
    BY <1>1, <1>2
  <2>2. /\ WrapSum(r.in, k - 1) \in Slot
        /\ Wrap(WrapSum(r.in, k - 1) - r.in + BufLen) = k - 1
    BY <1>1, <2>1, WrapBehind
  <2> QED
    BY <1>3, <2>1, <2>2
<1>7. ASSUME NEW i \in 1..f PROVE m.buf[WrapSum(r.out, i - 1)] = r.buf[WrapSum(r.out, i - 1)]
  <2> DEFINE k == BufLen - f + i
             in == r.in
             out == r.out
  <2>1. /\ in \in 0..BufLen - 1 /\ out \in 0..BufLen - 1
        /\ f = IF in >= out THEN in - out ELSE in - out + BufLen
    BY <1>1, <1>2
  <2>2. n \in Nat /\ f \in 0..BufLen - 1 /\ f + n <= BufLen - 1
    BY <1>1, <1>2
  <2> HIDE DEF in, out
  <2>3. k \in 1..BufLen /\ k - 1 >= n
    BY <1>1, <2>2
  <2>4. WrapSum(r.out, i - 1) = WrapSum(r.in, k - 1)
    <3>1. WrapSum(out, i - 1) = WrapSum(in, k - 1)
      BY <1>1, <2>1, <2>2 DEF WrapSum, k
    <3> QED
      BY <3>1 DEF in, out
  <2> HIDE DEF k
  <2>5. /\ WrapSum(r.in, k - 1) \in Slot
        /\ Wrap(WrapSum(r.in, k - 1) - r.in + BufLen) = k - 1
    BY <1>1, <2>3, WrapBehind
  <2>6. ~(k - 1 < n)
    BY <1>1, <2>3
  <2> QED
    BY <1>3, <2>4, <2>5, <2>6
<1>8. Contents(m) = Contents(r)
  BY <1>4, <1>5, <1>7, SeqEqual
<1> QED
  BY <1>6, <1>8 DEF m, n

LEMMA PieceIsPrefix ==
  ASSUME NEW r \in Ring, NEW n \in 0..Available(r)
  PROVE  /\ Piece(r, n) = SubSeq(Contents(r), 1, n)
         /\ Piece(r, n) \in Seq(Byte) /\ Len(Piece(r, n)) = n
<1> DEFINE f == Fill(r)
           p == Piece(r, n)
           c == SubSeq(Contents(r), 1, n)
<1>1. /\ BufLen \in Nat /\ BufLen >= 2 /\ r.out \in 0..BufLen - 1
      /\ n \in Nat /\ f \in 0..BufLen - 1 /\ n \in 0..f /\ r.out + n <= BufLen
  BY JtagUartAssumption, FillCases, Pieces DEF JtagUartAssumption, Ring, Slot
<1>2. /\ Contents(r) \in Seq(Byte) /\ Len(Contents(r)) = f
      /\ \A i \in 1..f : Contents(r)[i] = r.buf[WrapSum(r.out, i - 1)]
  BY ContentsAreSeq
<1> HIDE DEF f
<1>3. \A i \in 1..n : /\ r.buf[r.out + i - 1] \in Byte
                      /\ r.buf[r.out + i - 1] = Contents(r)[i]
                      /\ Contents(r)[i] \in Byte
  <2> SUFFICES ASSUME NEW i \in 1..n
               PROVE  /\ r.buf[r.out + i - 1] \in Byte
                      /\ r.buf[r.out + i - 1] = Contents(r)[i]
    OBVIOUS
  <2>1. i \in 1..f /\ r.out + i - 1 \in Slot
    BY <1>1 DEF Slot
  <2>2. WrapSum(r.out, i - 1) = r.out + i - 1
    BY <1>1, <2>1 DEF WrapSum, Slot
  <2> QED
    BY <1>2, <2>1, <2>2 DEF Ring
<1>4. p \in [1..n -> Byte]
  BY <1>3 DEF Piece
<1>5. p \in Seq(Byte) /\ Len(p) = n /\ \A i \in 1..n : p[i] = Contents(r)[i]
  BY <1>1, <1>3, <1>4, SeqDef DEF Piece
<1>6. /\ c \in Seq(Byte) /\ Len(c) = n
      /\ \A i \in 1..n : c[i] = Contents(r)[i]
  <2>1. \A i \in 1..n : Contents(r)[i] \in Byte
    BY <1>3
  <2>2. /\ c \in Seq(Byte) /\ Len(c) = IF 1 <= n THEN n - 1 + 1 ELSE 0
        /\ \A i \in 1..n - 1 + 1 : c[i] = Contents(r)[1 + i - 1]
    BY <1>1, <2>1, SubSeqProperties
  <2>3. n - 1 + 1 = n /\ (~(1 <= n) => n = 0) /\ \A i \in 1..n : 1 + i - 1 = i
    BY <1>1
  <2> HIDE DEF c
  <2> QED
    BY <2>2, <2>3
<1> HIDE DEF p, c
<1>7. p = c
  BY <1>5, <1>6, SeqEqual
<1> QED
  BY <1>5, <1>7 DEF p, c

-----------------------------------------------------------------------------
(* The inductive invariant.  Besides the properties it says who holds which *)
(* lock, which flags a sleeping task can have been told of, and what a call *)
(* knows of its ring at every point where the handler may come in between.  *)

ReadPc == {"rd_lock", "rd_copy", "rd_out", "rd_pend", "rd_wait", "rd_check",
           "rd_unlock", "rd_enable"}
WritePc == {"wr_lock", "wr_copy", "wr_in", "wr_kick", "wr_pend", "wr_wait",
            "wr_check", "wr_unlock"}

\* One task at a time is inside each call, with the semaphore taken.
Locks ==
  /\ \A t, u \in Tasks : pc[t] \in InRead /\ pc[u] \in InRead => t = u
  /\ \A t \in Tasks : pc[t] \in InRead => readLock = 0
  /\ \A t, u \in Tasks : pc[t] \in InWrite /\ pc[u] \in InWrite => t = u
  /\ \A t \in Tasks : pc[t] \in InWrite => writeLock = 0

\* A task waits for flags that are not set and resumes with some of those it
\* waited for.
WaitFlags(t) == IF pc[t] = "rd_wait" THEN ReadFlags
                ELSE IF pc[t] = "wr_wait" THEN WriteFlags ELSE {}
GroupExact ==
  \A t \in Tasks : /\ events.wait[t] \in {{}, WaitFlags(t)}
                   /\ events.rdy[t] \subseteq WaitFlags(t)
                   /\ events.wait[t] \cap events.flags = {}

Asleep(t, at) == pc[t] = at /\ events.wait[t] # {}

\* What a call of read knows.
ReadingOf(t) ==
  /\ pc[t] \in ReadPc \ {"rd_unlock", "rd_enable"} => space[t] > 0
  /\ pc[t] = "rd_out" => /\ Len(chunk) \in 1..Fill(rx) /\ Len(chunk) <= space[t]
                        /\ chunk = SubSeq(Contents(rx), 1, Len(chunk))
  /\ pc[t] = "rd_pend" \/ Asleep(t, "rd_wait")
       => Fill(rx) = 0 \/ "READ_RDY" \in events.flags
  /\ pc[t] \notin InRead \cup {"rd_enable"} => got[t] = <<>>
Reading == \A t \in Tasks : ReadingOf(t)

\* What a call of write knows.
WritingOf(t) ==
  /\ pc[t] \in WritePc \ {"wr_kick", "wr_unlock"} => todo[t] # <<>>
  /\ pc[t] = "wr_in" =>
       /\ moved \in 1..Len(todo[t]) /\ moved <= Room(tx)
       /\ \A k \in 1..moved : tx.buf[WrapSum(tx.in, k - 1)] = todo[t][k]
  /\ pc[t] = "wr_kick" /\ todo[t] # <<>>
       => Room(tx) = 0 \/ "WRITE_RDY" \in events.flags
  /\ pc[t] = "wr_pend" \/ Asleep(t, "wr_wait")
       => (Room(tx) = 0 /\ "WE" \in irqEnable) \/ "WRITE_RDY" \in events.flags
Writing == \A t \in Tasks : WritingOf(t)

IInv == /\ TypeOK /\ Locks /\ GroupExact /\ Reading /\ Writing
        /\ ReceiveComesBack /\ SendComesBack

LEMMA IInvImplies == IInv => SleepsOnlyWhenEmpty /\ SleepsOnlyWhenFull
<1> SUFFICES ASSUME IInv, NEW t \in Tasks
             PROVE  /\ Asleep(t, "rd_wait") => Fill(rx) = 0
                    /\ Asleep(t, "wr_wait") => Room(tx) = 0 /\ "WE" \in irqEnable
  BY DEF SleepsOnlyWhenEmpty, SleepsOnlyWhenFull, Asleep
<1>1. ASSUME Asleep(t, "rd_wait") PROVE Fill(rx) = 0
  <2>1. events.wait[t] = ReadFlags /\ events.wait[t] \cap events.flags = {}
    BY <1>1 DEF IInv, GroupExact, WaitFlags, Asleep
  <2>2. "READ_RDY" \notin events.flags
    BY <2>1 DEF ReadFlags
  <2> QED
    BY <1>1, <2>2 DEF IInv, Reading, ReadingOf
<1>2. ASSUME Asleep(t, "wr_wait") PROVE Room(tx) = 0 /\ "WE" \in irqEnable
  <2>1. events.wait[t] = WriteFlags /\ events.wait[t] \cap events.flags = {}
    BY <1>2 DEF IInv, GroupExact, WaitFlags, Asleep
  <2>2. "WRITE_RDY" \notin events.flags
    BY <2>1 DEF WriteFlags
  <2> QED
    BY <1>2, <2>2 DEF IInv, Writing, WritingOf
<1> QED
  BY <1>1, <1>2

LEMMA EmptyRingFacts ==
  EmptyRing \in Ring /\ Fill(EmptyRing) = 0 /\ Room(EmptyRing) = BufLen - 1
<1>1. BufLen \in Nat /\ BufLen >= 2 /\ 0 \in Slot
  BY JtagUartAssumption DEF JtagUartAssumption, Slot
<1>2. (CHOOSE b \in Byte : TRUE) \in Byte
  BY JtagUartAssumption DEF JtagUartAssumption
<1>3. EmptyRing \in Ring /\ EmptyRing.in = 0 /\ EmptyRing.out = 0
  BY <1>1, <1>2 DEF EmptyRing, Ring
<1>4. Fill(EmptyRing) = 0
  BY <1>3, FillCases
<1> QED
  BY <1>1, <1>3, <1>4 DEF Room

LEMMA InitIInv == Init => IInv
<1> SUFFICES ASSUME Init PROVE IInv
  OBVIOUS
<1> USE JtagUartAssumption DEF JtagUartAssumption, Init
<1>1. TypeOK
  <2>1. rx \in Ring /\ tx \in Ring
    BY EmptyRingFacts
  <2>2. events \in GroupType(Tasks, Flag)
    BY DEF NewGroup, GroupType
  <2>3. seen \in Slot /\ Timeout \in Nat /\ FifoLen \in Nat
    BY DEF Slot
  <2>4. /\ rfifo \in Seq(Byte) /\ Len(rfifo) <= FifoLen
        /\ wfifo \in Seq(Byte) /\ Len(wfifo) <= FifoLen
    BY <2>3, EmptySeq
  <2>5. /\ got \in [Tasks -> Seq(Byte)] /\ todo \in [Tasks -> Seq(Byte)]
        /\ chunk \in Seq(Byte)
    BY EmptySeq
  <2>6. /\ irqEnable \subseteq {"RE", "WE"}
        /\ hostInactive \in 0..Timeout /\ readLock \in {0, 1}
        /\ writeLock \in {0, 1} /\ moved \in Nat
        /\ space \in [Tasks -> Nat]
    BY <2>3
  <2>7. pause \in BOOLEAN /\ ac \in BOOLEAN
    OBVIOUS
  <2>8. pc \in [Tasks -> {"idle"}]
    OBVIOUS
  <2> QED
    BY <2>1, <2>2, <2>3, <2>4, <2>5, <2>6, <2>7, <2>8 DEF TypeOK, Ring
<1>2. Locks
  BY DEF Locks, InRead, InWrite
<1>3. GroupExact
  BY DEF GroupExact, WaitFlags, NewGroup
<1>4. Reading
  BY DEF Reading, ReadingOf, ReadPc, Asleep, InRead
<1>5. Writing
  BY DEF Writing, WritingOf, WritePc, Asleep, InWrite
<1>6. ReceiveComesBack /\ SendComesBack
  BY EmptyRingFacts DEF ReceiveComesBack, SendComesBack
<1> QED
  BY <1>1, <1>2, <1>3, <1>4, <1>5, <1>6 DEF IInv

-----------------------------------------------------------------------------
\* What leaves one half of the driver alone keeps its half of the invariant.
LEMMA WritersUndisturbed ==
  ASSUME IInv, UNCHANGED <<tx, todo, moved>>,
         "WE" \in irqEnable => "WE" \in irqEnable',
         "WRITE_RDY" \in events.flags => "WRITE_RDY" \in events.flags',
         \A t \in Tasks :
           /\ pc[t] \in WritePc \/ pc'[t] \in WritePc => pc'[t] = pc[t]
           /\ pc[t] = "wr_wait" => events.wait'[t] \in {{}, events.wait[t]}
  PROVE  Writing' /\ SendComesBack'
<1>1. UNCHANGED <<Room(tx), Fill(tx)>>
  OBVIOUS
<1>2. Writing'
  BY <1>1 DEF IInv, Writing, WritingOf, WritePc, Asleep
<1>3. SendComesBack'
  BY <1>1 DEF IInv, SendComesBack, WritePc
<1> QED
  BY <1>2, <1>3

LEMMA ReadersUndisturbed ==
  ASSUME IInv, UNCHANGED <<rx, space, got, chunk>>,
         "RE" \in irqEnable => "RE" \in irqEnable',
         "READ_RDY" \in events.flags => "READ_RDY" \in events.flags',
         \A t \in Tasks :
           /\ pc[t] \in ReadPc \/ pc'[t] \in ReadPc => pc'[t] = pc[t]
           /\ pc[t] = "rd_wait" => events.wait'[t] \in {{}, events.wait[t]}
  PROVE  Reading' /\ ReceiveComesBack'
<1>1. UNCHANGED <<Room(rx), Fill(rx), Contents(rx)>>
  OBVIOUS
<1>2. Reading'
  BY <1>1 DEF IInv, Reading, ReadingOf, ReadPc, InRead, Asleep
<1>3. ReceiveComesBack'
  BY <1>1 DEF IInv, ReceiveComesBack, ReadPc, InRead
<1> QED
  BY <1>2, <1>3

-----------------------------------------------------------------------------
\* What the calls of the kernel do to the fields of the group.
LEMMA Posts ==
  ASSUME NEW g \in GroupType(Tasks, Flag), NEW set \in SUBSET Flag
  PROVE  LET h == FlagPost(g, set) IN
         /\ h \in GroupType(Tasks, Flag) /\ h.flags = g.flags \cup set
         /\ \A t \in Tasks :
              /\ h.wait[t] \in {{}, g.wait[t]} /\ h.wait[t] \cap h.flags = {}
              /\ h.rdy[t] \subseteq g.wait[t] \cup g.rdy[t]
<1> DEFINE f == g.flags \cup set
           wt == [t \in Tasks |-> IF g.wait[t] \cap f # {} THEN {} ELSE g.wait[t]]
           rd == [t \in Tasks |-> IF g.wait[t] \cap f # {} THEN g.wait[t] \cap f
                                                           ELSE g.rdy[t]]
           h == FlagPost(g, set)
<1>1. /\ g.flags \in SUBSET Flag /\ g.wait \in [Tasks -> SUBSET Flag]
      /\ g.rdy \in [Tasks -> SUBSET Flag] /\ DOMAIN g.wait = Tasks
  BY DEF GroupType
<1>2. h = [flags |-> f, wait |-> wt, rdy |-> rd]
  BY <1>1 DEF FlagPost
<1>3. f \in SUBSET Flag
  BY <1>1
<1>4. wt \in [Tasks -> SUBSET Flag] /\ rd \in [Tasks -> SUBSET Flag]
  BY <1>1
<1>5. \A t \in Tasks : /\ wt[t] \in {{}, g.wait[t]} /\ wt[t] \cap f = {}
                       /\ rd[t] \subseteq g.wait[t] \cup g.rdy[t]
  BY <1>1
<1> HIDE DEF f, wt, rd, h
<1> QED
  BY <1>2, <1>3, <1>4, <1>5 DEF GroupType, h, f

LEMMA Takes ==
  ASSUME NEW g \in GroupType(Tasks, Flag), NEW want \in SUBSET Flag
  PROVE  LET h == FlagTake(g, want) IN
         /\ h \in GroupType(Tasks, Flag) /\ h.flags = g.flags \ want
         /\ h.wait = g.wait /\ h.rdy = g.rdy
BY DEF GroupType, FlagTake

LEMMA Blocks ==
  ASSUME NEW g \in GroupType(Tasks, Flag), NEW want \in SUBSET Flag, NEW t \in Tasks
  PROVE  LET h == FlagBlock(g, t, want) IN
         /\ h \in GroupType(Tasks, Flag) /\ h.flags = g.flags /\ h.rdy = g.rdy
         /\ h.wait = [g.wait EXCEPT ![t] = want]
<1> DEFINE wt == [g.wait EXCEPT ![t] = want]
           h == FlagBlock(g, t, want)
<1>1. wt \in [Tasks -> SUBSET Flag]
  BY DEF GroupType
<1>2. h = [flags |-> g.flags, wait |-> wt, rdy |-> g.rdy]
  BY DEF GroupType, FlagBlock
<1> HIDE DEF wt, h
<1> QED
  BY <1>1, <1>2 DEF GroupType, h, wt

LEMMA Resumes ==
  ASSUME NEW g \in GroupType(Tasks, Flag), NEW t \in Tasks
  PROVE  LET h == FlagResume(g, t) IN
         /\ h \in GroupType(Tasks, Flag) /\ h.flags = g.flags \ g.rdy[t]
         /\ h.wait = g.wait /\ h.rdy = [g.rdy EXCEPT ![t] = {}]
<1> DEFINE rd == [g.rdy EXCEPT ![t] = {}]
           fl == g.flags \ g.rdy[t]
           h == FlagResume(g, t)
<1>1. rd \in [Tasks -> SUBSET Flag] /\ fl \in SUBSET Flag
  BY DEF GroupType
<1>2. h = [flags |-> fl, wait |-> g.wait, rdy |-> rd]
  BY DEF GroupType, FlagResume
<1> HIDE DEF rd, fl, h
<1> QED
  BY <1>1, <1>2 DEF GroupType, h, rd, fl

\* A handler that sets flags wakes whom it must and nobody else.
LEMMA PostKeepsGroup ==
  ASSUME IInv, pc' = pc, NEW set \in SUBSET Flag,
         events' \in {events, FlagPost(events, set)}
  PROVE  /\ GroupExact' /\ events' \in GroupType(Tasks, Flag)
         /\ events.flags \subseteq events'.flags
         /\ \A t \in Tasks : events.wait'[t] \in {{}, events.wait[t]}
<1>1. events \in GroupType(Tasks, Flag)
  BY DEF IInv, TypeOK
<1>2. CASE events' = events
  BY <1>1, <1>2 DEF IInv, GroupExact, WaitFlags
<1>3. CASE events' = FlagPost(events, set)
  <2>1. /\ events' \in GroupType(Tasks, Flag) /\ events'.flags = events.flags \cup set
        /\ \A t \in Tasks :
              /\ events.wait'[t] \in {{}, events.wait[t]}
              /\ events.wait'[t] \cap events'.flags = {}
              /\ events.rdy'[t] \subseteq events.wait[t] \cup events.rdy[t]
    BY <1>1, <1>3, Posts
  <2>2. \A t \in Tasks : WaitFlags(t)' = WaitFlags(t)
    BY DEF WaitFlags
  <2>3. GroupExact'
    BY <2>1, <2>2 DEF IInv, GroupExact
  <2> QED
    BY <2>1, <2>3
<1> QED
  BY <1>2, <1>3

-----------------------------------------------------------------------------
\* The parts of the invariant, when no task moves and the driver's rings and
\* interrupt enables stay as they are.
LEMMA TasksAsleep ==
  ASSUME IInv, TypeOK', UNCHANGED <<rx, tx, irqEnable, taskVars>>,
         NEW set \in SUBSET Flag, events' \in {events, FlagPost(events, set)}
  PROVE  IInv'
<1>1. /\ GroupExact' /\ events.flags \subseteq events'.flags
      /\ \A t \in Tasks : events.wait'[t] \in {{}, events.wait[t]}
  BY PostKeepsGroup DEF taskVars
<1>2. Locks'
  BY DEF IInv, Locks, taskVars
<1>3. Reading' /\ ReceiveComesBack'
  BY <1>1, ReadersUndisturbed DEF taskVars, readVars
<1>4. Writing' /\ SendComesBack'
  BY <1>1, WritersUndisturbed DEF taskVars, writeVars
<1> QED
  BY <1>1, <1>2, <1>3, <1>4 DEF IInv

LEMMA HostKeeps ==
  ASSUME IInv, (\E b \in Byte : HostSends(b)) \/ HostPauses \/ HostFetches
  PROVE  IInv'
<1>1. UNCHANGED <<rx, tx, irqEnable, hostInactive, events, taskVars>>
  BY DEF HostSends, HostPauses, HostFetches
<1>2. /\ rfifo \in Seq(Byte) /\ Len(rfifo) <= FifoLen /\ FifoLen \in Nat
      /\ wfifo \in Seq(Byte) /\ Len(wfifo) <= FifoLen
      /\ pause \in BOOLEAN /\ ac \in BOOLEAN
  BY JtagUartAssumption DEF JtagUartAssumption, IInv, TypeOK
<1>3. /\ rfifo' \in Seq(Byte) /\ Len(rfifo') <= FifoLen
      /\ wfifo' \in Seq(Byte) /\ Len(wfifo') <= FifoLen
  <2>1. CASE \E b \in Byte : HostSends(b)
    BY <1>2, <2>1, AppendProperties DEF HostSends
  <2>2. CASE HostPauses
    BY <1>2, <2>2 DEF HostPauses
  <2>3. CASE HostFetches
    BY <1>2, <2>3, HeadTailProperties DEF HostFetches
  <2> QED
    BY <2>1, <2>2, <2>3
<1>4. pause' \in BOOLEAN /\ ac' \in BOOLEAN
  BY <1>2 DEF HostSends, HostPauses, HostFetches
<1>5. TypeOK'
  BY <1>1, <1>3, <1>4 DEF IInv, TypeOK, taskVars, readVars, writeVars
<1> QED
  BY <1>1, <1>5, TasksAsleep

LEMMA AlarmKeeps == ASSUME IInv, Alarm PROVE IInv'
<1>1. /\ UNCHANGED <<rfifo, wfifo, pause, rx, tx, irqEnable, taskVars>>
      /\ ac' = FALSE /\ events' \in {events, FlagPost(events, {"TIMEOUT"})}
      /\ {"TIMEOUT"} \in SUBSET Flag
  BY DEF Alarm, Flag
<1>2. hostInactive' \in 0..Timeout
  BY JtagUartAssumption
  DEF JtagUartAssumption, Alarm, Least, IInv, TypeOK
<1>3. events' \in GroupType(Tasks, Flag)
  BY <1>1, PostKeepsGroup DEF taskVars
<1>4. TypeOK'
  BY <1>1, <1>2, <1>3 DEF IInv, TypeOK, taskVars, readVars, writeVars
<1> QED
  BY <1>1, <1>4, TasksAsleep

-----------------------------------------------------------------------------
\* One pass of the handler.  Each direction moves characters from one end of
\* a ring to a FIFO or back.
LEMMA ReceivedFacts ==
  ASSUME TypeOK
  PROVE  /\ Received \in 0..Room(rx) /\ Received \in 0..Len(rfifo)
         /\ LET s == SubSeq(rfifo, 1, Received)
            IN  s \in Seq(Byte) /\ Len(s) = Received
         /\ LET s == SubSeq(rfifo, Received + 1, Len(rfifo))
            IN  /\ s \in Seq(Byte) /\ Len(s) = Len(rfifo) - Received
                /\ SubSeq(rfifo, 1, Received) \o s = rfifo
<1>1. rx \in Ring /\ rfifo \in Seq(Byte) /\ Len(rfifo) \in Nat
  BY DEF TypeOK, Ring
<1>2. Room(rx) \in Nat
  BY <1>1, FillCases, JtagUartAssumption DEF JtagUartAssumption
<1>3. Received \in 0..Room(rx) /\ Received \in 0..Len(rfifo)
  BY <1>1, <1>2 DEF Received, Least
<1> DEFINE n == Received
<1> HIDE DEF n
<1>4. n \in Nat /\ n <= Len(rfifo)
  BY <1>1, <1>3 DEF n
<1>5. /\ SubSeq(rfifo, 1, n) \in Seq(Byte) /\ Len(SubSeq(rfifo, 1, n)) = n
      /\ SubSeq(rfifo, n + 1, Len(rfifo)) \in Seq(Byte)
      /\ Len(SubSeq(rfifo, n + 1, Len(rfifo))) = Len(rfifo) - n
  BY <1>1, <1>4
<1>6. SubSeq(rfifo, 1, n) \o SubSeq(rfifo, n + 1, Len(rfifo)) = rfifo
  <2>1. /\ 1 \in 1..Len(rfifo) + 1 /\ n \in 1 - 1..Len(rfifo)
        /\ Len(rfifo) \in n..Len(rfifo)
    BY <1>1, <1>4
  <2> QED
    BY <1>1, <2>1, ConcatAdjacentSubSeq, SubSeqFull
<1> QED
  BY <1>3, <1>5, <1>6 DEF n

LEMMA SentFacts ==
  ASSUME TypeOK
  PROVE  /\ Sent \in 0..Fill(tx) /\ Sent \in 0..FifoLen - Len(wfifo)
         /\ LET s == SubSeq(Contents(tx), 1, Sent)
            IN  s \in Seq(Byte) /\ Len(s) = Sent
<1>1. tx \in Ring /\ wfifo \in Seq(Byte) /\ FifoLen - Len(wfifo) \in Nat
  BY JtagUartAssumption DEF TypeOK, Ring, JtagUartAssumption
<1>2. Fill(tx) \in Nat
  BY <1>1, FillCases, JtagUartAssumption DEF JtagUartAssumption
<1>3. Sent \in 0..Fill(tx) /\ Sent \in 0..FifoLen - Len(wfifo)
  BY <1>1, <1>2 DEF Sent, Least
<1>4. Contents(tx) \in Seq(Byte) /\ Len(Contents(tx)) = Fill(tx)
  BY <1>1, ContentsAreSeq
<1> DEFINE n == Sent
<1>5. n \in Nat /\ n <= Len(Contents(tx))
  BY <1>2, <1>3, <1>4
<1> HIDE DEF n
<1>6. SubSeq(Contents(tx), 1, n) \in Seq(Byte) /\ Len(SubSeq(Contents(tx), 1, n)) = n
  BY <1>4, <1>5
<1> QED
  BY <1>3, <1>6 DEF n

LEMMA IsrRings ==
  ASSUME TypeOK, Isr
  PROVE  /\ rx' \in Ring /\ Fill(rx)' = Fill(rx) + Received
         /\ Room(rx)' = Room(rx) - Received
         /\ Contents(rx)' = Contents(rx) \o SubSeq(rfifo, 1, Received)
         /\ tx' \in Ring /\ tx'.buf = tx.buf /\ tx'.in = tx.in
         /\ Fill(tx)' = Fill(tx) - Sent /\ Room(tx)' = Room(tx) + Sent
         /\ Contents(tx) = SubSeq(Contents(tx), 1, Sent) \o Contents(tx)'
<1> DEFINE s == SubSeq(rfifo, 1, Received)
           r == Stored(rx, s)
<1>1. rx \in Ring /\ tx \in Ring
  BY DEF TypeOK, Ring
<1>2. /\ s \in Seq(Byte) /\ Len(s) = Received /\ Received \in 0..Room(rx)
      /\ Room(rx) \in Nat /\ Len(s) <= Room(rx)
  BY <1>1, ReceivedFacts, FillCases, JtagUartAssumption DEF JtagUartAssumption
<1>3. /\ r \in Ring /\ Fill(r) = Fill(rx) /\ Room(r) = Room(rx) /\ r.in = rx.in
      /\ Contents(r) = Contents(rx)
      /\ \A k \in 1..Len(s) : r.buf[WrapSum(rx.in, k - 1)] = s[k]
  BY <1>1, <1>2, Stores, StoredContents
<1>4. rx' = MoveIn(r, Len(s)) /\ tx' = MoveOut(tx, Sent)
  BY <1>2 DEF Isr
<1> HIDE DEF s, r
<1>5. /\ rx' \in Ring /\ Fill(rx)' = Fill(rx) + Len(s) /\ Room(rx)' = Room(rx) - Len(s)
  BY <1>2, <1>3, <1>4, MovesIn
<1>6. Contents(rx)' = Contents(rx) \o s
  BY <1>2, <1>3, <1>4, MovedInContents
<1>7. Sent \in 0..Fill(tx)
  BY SentFacts
<1>8. /\ tx' \in Ring /\ tx'.buf = tx.buf /\ tx'.in = tx.in
      /\ Fill(tx)' = Fill(tx) - Sent /\ Room(tx)' = Room(tx) + Sent
  BY <1>1, <1>4, <1>7, MovesOut
<1>9. Contents(tx) = SubSeq(Contents(tx), 1, Sent) \o Contents(tx)'
  BY <1>1, <1>4, <1>7, MovedOutContents
<1> QED
  BY <1>2, <1>5, <1>6, <1>8, <1>9 DEF s

LEMMA IsrTyped == ASSUME IInv, Isr PROVE TypeOK'
<1>1. TypeOK
  BY DEF IInv
<1>2. rx' \in Ring /\ tx' \in Ring
  BY <1>1, IsrRings
<1>3. rfifo' \in Seq(Byte) /\ Len(rfifo') <= FifoLen
  <2>1. rfifo' \in Seq(Byte) /\ Len(rfifo') = Len(rfifo) - Received
        /\ Received \in 0..Len(rfifo)
    BY <1>1, ReceivedFacts DEF Isr
  <2>2. Len(rfifo) \in Nat /\ Len(rfifo) <= FifoLen /\ FifoLen \in Nat
    BY <1>1, JtagUartAssumption DEF TypeOK, JtagUartAssumption
  <2> QED
    BY <2>1, <2>2
<1>4. wfifo' \in Seq(Byte) /\ Len(wfifo') <= FifoLen
  <2> DEFINE s == SubSeq(Contents(tx), 1, Sent)
  <2>1. /\ s \in Seq(Byte) /\ Len(s) = Sent /\ Sent \in 0..FifoLen - Len(wfifo)
        /\ wfifo' = wfifo \o s
    BY <1>1, SentFacts DEF Isr
  <2> HIDE DEF s
  <2>2. wfifo \in Seq(Byte) /\ Len(wfifo) \in Nat /\ FifoLen \in Nat
    BY <1>1, JtagUartAssumption DEF TypeOK, JtagUartAssumption
  <2>3. wfifo' \in Seq(Byte) /\ Len(wfifo') = Len(wfifo) + Len(s)
    BY <2>1, <2>2, ConcatProperties
  <2> QED
    BY <2>1, <2>2, <2>3
<1>5. Posted \in SUBSET Flag /\ events' \in {events, FlagPost(events, Posted)}
  BY DEF Isr, Posted, Flag
<1>6. events' \in GroupType(Tasks, Flag)
  BY <1>5, PostKeepsGroup DEF Isr, taskVars
<1>7. pause' \in BOOLEAN
  BY DEF Isr
<1>8. irqEnable' \subseteq {"RE", "WE"}
  BY <1>1 DEF Isr, TypeOK
<1>9. UNCHANGED <<ac, hostInactive, taskVars>>
  BY DEF Isr
<1> QED
  BY <1>1, <1>2, <1>3, <1>4, <1>6, <1>7, <1>8, <1>9
  DEF TypeOK, Ring, taskVars, readVars, writeVars

LEMMA IsrKeeps == ASSUME IInv, Isr PROVE IInv'
<1>1. TypeOK /\ rx \in Ring /\ tx \in Ring /\ BufLen \in Nat /\ BufLen >= 2
  BY JtagUartAssumption DEF IInv, TypeOK, Ring, JtagUartAssumption
<1>2. /\ Fill(rx)' = Fill(rx) + Received /\ Room(rx)' = Room(rx) - Received
      /\ Contents(rx)' = Contents(rx) \o SubSeq(rfifo, 1, Received)
      /\ tx'.buf = tx.buf /\ tx'.in = tx.in
      /\ Fill(tx)' = Fill(tx) - Sent /\ Room(tx)' = Room(tx) + Sent
  BY <1>1, IsrRings
<1>3. /\ Fill(rx) \in Nat /\ Room(rx) \in Nat /\ Received \in Nat
      /\ Fill(tx) \in Nat /\ Room(tx) \in Nat /\ Sent \in Nat
      /\ Room(tx) = BufLen - 1 - Fill(tx)
      /\ Received <= Room(rx) /\ Sent <= Fill(tx)
  <2>1. /\ Fill(rx) \in 0..BufLen - 1 /\ Room(rx) \in 0..BufLen - 1
        /\ Fill(tx) \in 0..BufLen - 1 /\ Room(tx) \in 0..BufLen - 1
    BY <1>1, FillCases
  <2>2. Received \in 0..Room(rx) /\ Sent \in 0..Fill(tx)
    BY <1>1, ReceivedFacts, SentFacts
  <2>3. Room(tx) = BufLen - 1 - Fill(tx)
    BY DEF Room
  <2> QED
    BY <1>1, <2>1, <2>2, <2>3
<1>4. UNCHANGED <<pc, space, got, chunk, todo, moved, readLock, writeLock>>
  BY DEF Isr, taskVars, readVars, writeVars
<1>5. /\ GroupExact' /\ events.flags \subseteq events'.flags
      /\ \A t \in Tasks : events.wait'[t] \in {{}, events.wait[t]}
  <2>1. Posted \in SUBSET Flag /\ events' \in {events, FlagPost(events, Posted)}
    BY DEF Isr, Posted, Flag
  <2> QED
    BY <1>4, <2>1, PostKeepsGroup
<1>6. Posted \subseteq events'.flags
  <2>1. CASE Posted = {}
    BY <2>1
  <2>2. CASE Posted # {}
    <3>1. events' = FlagPost(events, Posted) /\ Posted \in SUBSET Flag
      BY <2>2 DEF Isr, Posted, Flag
    <3>2. events \in GroupType(Tasks, Flag)
      BY <1>1 DEF TypeOK
    <3>3. events'.flags = events.flags \cup Posted
      BY <3>1, <3>2, Posts
    <3> QED
      BY <3>3
  <2> QED
    BY <2>1, <2>2
<1>7. Locks'
  BY <1>4 DEF IInv, Locks
<1>8. Reading'
  <2> SUFFICES ASSUME NEW t \in Tasks PROVE ReadingOf(t)'
    BY DEF Reading
  <2>1. ReadingOf(t)
    BY DEF IInv, Reading
  <2>2. ASSUME pc[t] = "rd_out"
        PROVE  /\ Len(chunk) \in 1..Fill(rx)'
               /\ chunk = SubSeq(Contents(rx)', 1, Len(chunk))
    <3> DEFINE a == Contents(rx)
               s == SubSeq(rfifo, 1, Received)
               n == Len(chunk)
    <3>1. n \in 1..Fill(rx) /\ n \in 1..Fill(rx)' /\ chunk = SubSeq(a, 1, n)
      BY <1>2, <1>3, <2>1, <2>2 DEF ReadingOf
    <3>2. a \in Seq(Byte) /\ Len(a) = Fill(rx) /\ s \in Seq(Byte)
      BY <1>1, ContentsAreSeq, ReceivedFacts
    <3>3. 1 \in 1..Len(a) /\ n \in 1..Len(a)
      BY <1>3, <3>1, <3>2
    <3> HIDE DEF a, s, n
    <3>4. SubSeq(a \o s, 1, n) = SubSeq(a, 1, n)
      BY <3>2, <3>3, SubSeqOfConcat1
    <3> QED
      BY <1>2, <3>1, <3>4 DEF a, s, n
  <2>3. ASSUME pc[t] = "rd_pend" \/ Asleep(t, "rd_wait")'
        PROVE  Fill(rx)' = 0 \/ "READ_RDY" \in events'.flags
    <3>1. Fill(rx) = 0 \/ "READ_RDY" \in events.flags
      BY <1>4, <1>5, <2>1, <2>3 DEF Asleep, ReadingOf
    <3>2. CASE Received > 0
      BY <1>6, <3>2 DEF Posted
    <3>3. CASE Received = 0
      BY <1>2, <1>3, <1>5, <3>1, <3>3
    <3> QED
      BY <1>3, <3>2, <3>3
  <2> QED
    BY <1>4, <2>1, <2>2, <2>3 DEF ReadingOf
<1>9. ReceiveComesBack'
  <2>1. \/ "RE" \in irqEnable' \/ Room(rx)' = 0
        \/ "RE" \notin irqEnable /\ Room(rx) # 0
    <3>1. CASE ReceiveStops
      <4>1. Room(rx) = 0 \/ Received = Room(rx)
        BY <1>1, <3>1 DEF ReceiveStops, Received, Least
      <4> QED
        BY <1>2, <1>3, <4>1
    <3>2. CASE ~ReceiveStops /\ "RE" \in irqEnable
      BY <3>2 DEF Isr
    <3>3. CASE ~ReceiveStops /\ Room(rx) = 0
      BY <1>2, <1>3, <3>3
    <3> QED
      BY <3>1, <3>2, <3>3
  <2> QED
    BY <1>4, <2>1 DEF IInv, ReceiveComesBack
<1>10. Writing'
  <2> SUFFICES ASSUME NEW t \in Tasks PROVE WritingOf(t)'
    BY DEF Writing
  <2>1. WritingOf(t)
    BY DEF IInv, Writing
  <2>2. ASSUME pc[t] = "wr_in" PROVE moved <= Room(tx)'
    <3>1. moved \in Nat /\ moved <= Room(tx)
      BY <1>1, <2>1, <2>2 DEF TypeOK, WritingOf
    <3> QED
      BY <1>2, <1>3, <3>1
  <2>3. ASSUME "WRITE_RDY" \notin events'.flags
        PROVE  /\ "WRITE_RDY" \notin events.flags /\ Room(tx)' = Room(tx)
               /\ (Room(tx) = 0 /\ "WE" \in irqEnable) => "WE" \in irqEnable'
    <3>1. Sent = 0 /\ "WRITE_RDY" \notin events.flags
      BY <1>3, <1>5, <1>6, <2>3 DEF Posted
    <3>2. Room(tx)' = Room(tx)
      BY <1>2, <1>3, <3>1
    <3>3. ASSUME Room(tx) = 0 PROVE ~SendStops
      <4>1. Fill(tx) > 0
        BY <1>1, <1>3, <3>3
      <4> QED
        BY <1>1, <1>3, <3>1, <4>1 DEF SendStops, Sent, Least
    <3> QED
      BY <3>1, <3>2, <3>3 DEF Isr
  <2>4. pc[t]' = "wr_wait" /\ events.wait'[t] # {} => Asleep(t, "wr_wait")
    BY <1>4, <1>5 DEF Asleep
  <2> QED
    BY <1>2, <1>4, <2>1, <2>2, <2>3, <2>4 DEF Asleep, WritingOf
<1>11. SendComesBack'
  <2>1. CASE SendStops
    <3>1. Sent = Fill(tx)
      BY <1>1, <1>3, <2>1 DEF SendStops, Sent, Least
    <3>2. Fill(tx)' = 0
      BY <1>2, <1>3, <3>1
    <3> QED
      BY <3>2 DEF SendComesBack
  <2>2. CASE ~SendStops
    <3>1. "WE" \in irqEnable => "WE" \in irqEnable'
      BY <2>2 DEF Isr
    <3>2. Fill(tx) = 0 => Fill(tx)' = 0
      BY <1>2, <1>3
    <3> QED
      BY <1>4, <3>1, <3>2 DEF IInv, SendComesBack
  <2> QED
    BY <2>1, <2>2
<1> QED
  BY <1>5, <1>7, <1>8, <1>9, <1>10, <1>11, IsrTyped DEF IInv

-----------------------------------------------------------------------------
\* A step of read: what it shares with the others.
LEMMA ReadStepTyped ==
  ASSUME IInv, NEW t \in Tasks, NEW from, NEW to, ReadStep(t, from, to),
         to \in ReadPc \cup {"idle"},
         rx' \in Ring, irqEnable' \subseteq {"RE", "WE"},
         events' \in GroupType(Tasks, Flag), readLock' \in {0, 1},
         space' \in [Tasks -> Nat], got' \in [Tasks -> Seq(Byte)],
         seen' \in Slot, chunk' \in Seq(Byte)
  PROVE  TypeOK'
BY DEF IInv, TypeOK, Ring, ReadStep, Step, ReadPc, deviceVars, writeVars

LEMMA ReadStepWriters ==
  ASSUME IInv, NEW t \in Tasks, NEW from, NEW to, ReadStep(t, from, to),
         from \in ReadPc \cup {"idle"}, to \in ReadPc \cup {"idle"},
         irqEnable \subseteq irqEnable',
         events.flags \ ReadFlags \subseteq events'.flags,
         \A u \in Tasks \ {t} : events.wait'[u] = events.wait[u]
  PROVE  Writing' /\ SendComesBack'
<1>1. /\ UNCHANGED <<tx, todo, moved>> /\ pc[t] = from
      /\ pc' = [pc EXCEPT ![t] = to] /\ DOMAIN pc = Tasks
  BY DEF ReadStep, Step, writeVars, IInv, TypeOK
<1>2. "WRITE_RDY" \in events.flags => "WRITE_RDY" \in events'.flags
  BY DEF ReadFlags
<1>3. \A u \in Tasks :
         /\ pc[u] \in WritePc \/ pc'[u] \in WritePc => pc'[u] = pc[u]
         /\ pc[u] = "wr_wait" => events.wait'[u] \in {{}, events.wait[u]}
  BY <1>1 DEF ReadPc, WritePc
<1> QED
  BY <1>1, <1>2, <1>3, WritersUndisturbed

LEMMA ReadStepOthers ==
  ASSUME IInv, NEW t \in Tasks, NEW from, NEW to, ReadStep(t, from, to),
         \A u \in Tasks \ {t} : space'[u] = space[u] /\ got'[u] = got[u],
         from \in InRead \/ UNCHANGED <<rx, chunk, events>>
  PROVE  \A u \in Tasks \ {t} : ReadingOf(u)'
<1> SUFFICES ASSUME NEW u \in Tasks \ {t} PROVE ReadingOf(u)'
  OBVIOUS
<1>1. pc[t] = from /\ pc'[u] = pc[u] /\ ReadingOf(u)
  BY DEF ReadStep, Step, IInv, TypeOK, Reading
<1>2. CASE from \in InRead
  <2>1. pc[u] \notin InRead
    BY <1>1, <1>2 DEF IInv, Locks
  <2> QED
    BY <1>1, <2>1 DEF ReadingOf, ReadPc, InRead, Asleep
<1>3. CASE UNCHANGED <<rx, chunk, events>>
  BY <1>1, <1>3 DEF ReadingOf, Asleep
<1> QED
  BY <1>2, <1>3

\* Steps inside or outside the semaphore.
LEMMA ReadStepLocks ==
  ASSUME IInv, NEW t \in Tasks, NEW from, NEW to, ReadStep(t, from, to),
         from \in ReadPc \cup {"idle"}, to \in ReadPc \cup {"idle"},
         readLock' = readLock, from \in InRead <=> to \in InRead
  PROVE  Locks'
<1>1. /\ pc' = [pc EXCEPT ![t] = to] /\ pc[t] = from /\ DOMAIN pc = Tasks
      /\ writeLock' = writeLock
  BY DEF ReadStep, Step, IInv, TypeOK
<1>2. \A u \in Tasks : /\ pc'[u] \in InRead <=> pc[u] \in InRead
                       /\ pc'[u] \in InWrite <=> pc[u] \in InWrite
  BY <1>1 DEF ReadPc, InWrite
<1> QED
  BY <1>1, <1>2 DEF IInv, Locks

\* Steps without a call of the kernel's flags.
LEMMA ReadStepGroup ==
  ASSUME IInv, NEW t \in Tasks, NEW from, NEW to, ReadStep(t, from, to),
         from \in ReadPc \cup {"idle"}, to \in ReadPc \cup {"idle"},
         from # "rd_wait", to # "rd_wait", events' = events
  PROVE  GroupExact'
<1>1. pc' = [pc EXCEPT ![t] = to] /\ pc[t] = from /\ DOMAIN pc = Tasks
  BY DEF ReadStep, Step, IInv, TypeOK
<1>2. \A u \in Tasks : WaitFlags(u)' = WaitFlags(u)
  BY <1>1 DEF WaitFlags, ReadPc
<1> QED
  BY <1>2 DEF IInv, GroupExact

LEMMA ReadCallKeeps == ASSUME IInv, NEW t \in Tasks, ReadCall(t) PROVE IInv'
<1>1. /\ ReadStep(t, "idle", "rd_lock")
      /\ UNCHANGED <<rx, irqEnable, events, readLock, got, seen, chunk>>
  BY DEF ReadCall
<1>2. PICK n \in Spaces : space' = [space EXCEPT ![t] = n]
  BY DEF ReadCall
<1>3. n \in Nat /\ n > 0
  BY JtagUartAssumption DEF JtagUartAssumption
<1>4. /\ space \in [Tasks -> Nat] /\ got \in [Tasks -> Seq(Byte)]
      /\ events \in GroupType(Tasks, Flag) /\ rx \in Ring
      /\ seen \in Slot /\ chunk \in Seq(Byte) /\ readLock \in {0, 1}
      /\ irqEnable \subseteq {"RE", "WE"}
  BY DEF IInv, TypeOK, Ring
<1>5. TypeOK'
  BY <1>1, <1>2, <1>3, <1>4, ReadStepTyped DEF ReadPc
<1>6. Writing' /\ SendComesBack'
  BY <1>1, ReadStepWriters DEF ReadPc
<1>7. Locks'
  BY <1>1, ReadStepLocks DEF ReadPc, InRead
<1>8. GroupExact'
  BY <1>1, ReadStepGroup DEF ReadPc
<1>9. pc[t] = "idle" /\ pc' = [pc EXCEPT ![t] = "rd_lock"] /\ DOMAIN pc = Tasks
  BY <1>1 DEF ReadStep, Step, IInv, TypeOK
<1>10. Reading'
  <2>1. \A u \in Tasks \ {t} : ReadingOf(u)'
    BY <1>1, <1>2, <1>4, ReadStepOthers
  <2>2. ReadingOf(t)
    BY DEF IInv, Reading
  <2>3. ReadingOf(t)'
    BY <1>1, <1>2, <1>3, <1>4, <1>9, <2>2 DEF ReadingOf, ReadPc, InRead, Asleep
  <2> QED
    BY <2>1, <2>3 DEF Reading
<1>11. ReceiveComesBack'
  BY <1>1, <1>9 DEF IInv, ReceiveComesBack, InRead
<1> QED
  BY <1>5, <1>6, <1>7, <1>8, <1>10, <1>11 DEF IInv

\* The types that a step of either call starts from.
LEMMA Types ==
  ASSUME IInv
  PROVE  /\ space \in [Tasks -> Nat] /\ got \in [Tasks -> Seq(Byte)]
         /\ events \in GroupType(Tasks, Flag) /\ rx \in Ring /\ tx \in Ring
         /\ seen \in Slot /\ chunk \in Seq(Byte)
         /\ todo \in [Tasks -> Seq(Byte)] /\ moved \in Nat
         /\ readLock \in {0, 1} /\ writeLock \in {0, 1}
         /\ irqEnable \subseteq {"RE", "WE"} /\ DOMAIN pc = Tasks
BY DEF IInv, TypeOK, Ring

LEMMA ReadLockKeeps == ASSUME IInv, NEW t \in Tasks, ReadLock(t) PROVE IInv'
<1>1. /\ ReadStep(t, "rd_lock", "rd_copy") /\ readLock > 0 /\ readLock' = readLock - 1
      /\ UNCHANGED <<rx, irqEnable, events, readVars>>
  BY DEF ReadLock
<1>2. readLock' \in {0, 1} /\ readLock = 1 /\ readLock' = 0
  BY <1>1, Types
<1>3. TypeOK'
  BY <1>1, <1>2, Types, ReadStepTyped DEF ReadPc, readVars
<1>4. Writing' /\ SendComesBack'
  BY <1>1, ReadStepWriters DEF ReadPc
<1>5. /\ pc[t] = "rd_lock" /\ pc' = [pc EXCEPT ![t] = "rd_copy"]
      /\ writeLock' = writeLock
  BY <1>1 DEF ReadStep, Step
<1>6. Locks'
  <2>1. \A u \in Tasks : pc[u] \notin InRead
    BY <1>2 DEF IInv, Locks
  <2>2. \A u \in Tasks : /\ pc'[u] \in InRead => u = t
                         /\ pc'[u] \in InWrite <=> pc[u] \in InWrite
    BY <1>5, <2>1, Types DEF InWrite
  <2> QED
    BY <1>2, <1>5, <2>2 DEF IInv, Locks
<1>7. GroupExact'
  BY <1>1, ReadStepGroup DEF ReadPc
<1>8. Reading'
  <2>1. \A u \in Tasks \ {t} : ReadingOf(u)'
    BY <1>1, ReadStepOthers DEF readVars
  <2>2. ReadingOf(t)
    BY DEF IInv, Reading
  <2>3. ReadingOf(t)'
    BY <1>1, <1>5, <2>2, Types DEF ReadingOf, ReadPc, InRead, Asleep, readVars
  <2> QED
    BY <2>1, <2>3 DEF Reading
<1>9. ReceiveComesBack'
  BY <1>1, <1>5, Types DEF IInv, ReceiveComesBack, InRead, readVars
<1> QED
  BY <1>3, <1>4, <1>6, <1>7, <1>8, <1>9 DEF IInv

LEMMA ReadCopyKeeps == ASSUME IInv, NEW t \in Tasks, ReadCopy(t) PROVE IInv'
<1> DEFINE n == Least(Available(rx), space[t])
           to == IF n > 0 THEN "rd_out" ELSE IF got[t] # <<>> THEN "rd_unlock"
                 ELSE "rd_pend"
<1>1. /\ ReadStep(t, "rd_copy", to) /\ seen' = rx.in /\ chunk' = Piece(rx, n)
      /\ UNCHANGED <<rx, irqEnable, events, readLock, space, got>>
  BY DEF ReadCopy
<1>2. /\ pc[t] = "rd_copy" /\ pc' = [pc EXCEPT ![t] = to]
      /\ to \in {"rd_out", "rd_unlock", "rd_pend"} /\ space[t] \in Nat /\ space[t] > 0
  <2>1. ReadingOf(t)
    BY DEF IInv, Reading
  <2> QED
    BY <1>1, <2>1, Types DEF ReadStep, Step, ReadingOf, ReadPc
<1>3. /\ Available(rx) \in 0..Fill(rx) /\ Fill(rx) \in Nat
      /\ Available(rx) = 0 => Fill(rx) = 0
  BY Types, Pieces, FillCases, JtagUartAssumption DEF JtagUartAssumption
<1>4. /\ n \in 0..Available(rx) /\ n <= space[t] /\ n \in Nat /\ n <= Fill(rx)
      /\ n = 0 => Fill(rx) = 0
  BY <1>2, <1>3 DEF Least
<1>5. /\ chunk' = SubSeq(Contents(rx), 1, n) /\ chunk' \in Seq(Byte) /\ Len(chunk') = n
  BY <1>1, <1>4, Types, PieceIsPrefix
<1> HIDE DEF n
<1>6. TypeOK'
  <2>1. seen' \in Slot /\ rx' \in Ring
    BY <1>1, Types DEF Ring
  <2> QED
    BY <1>1, <1>2, <1>5, <2>1, Types, ReadStepTyped DEF ReadPc
<1>7. Writing' /\ SendComesBack'
  BY <1>1, <1>2, ReadStepWriters DEF ReadPc
<1>8. Locks'
  BY <1>1, <1>2, ReadStepLocks DEF ReadPc, InRead
<1>9. GroupExact'
  BY <1>1, <1>2, ReadStepGroup DEF ReadPc
<1>10. Reading'
  <2>1. \A u \in Tasks \ {t} : ReadingOf(u)'
    BY <1>1, ReadStepOthers DEF InRead
  <2>2. ReadingOf(t)
    BY DEF IInv, Reading
  <2>3. pc'[t] = to
    BY <1>2, Types
  <2>4. ReadingOf(t)'
    <3>1. CASE n > 0
      <4>1. Len(chunk') \in 1..Fill(rx) /\ Len(chunk') <= space[t]
            /\ chunk' = SubSeq(Contents(rx), 1, Len(chunk'))
        BY <1>3, <1>4, <1>5, <3>1
      <4> QED
        BY <1>1, <1>2, <2>3, <3>1, <4>1 DEF ReadingOf, ReadPc, InRead, Asleep
    <3>2. CASE ~(n > 0)
      <4>1. Fill(rx) = 0 /\ to \in {"rd_unlock", "rd_pend"}
        BY <1>4, <3>2
      <4> QED
        BY <1>1, <1>2, <2>3, <4>1 DEF ReadingOf, ReadPc, InRead, Asleep
    <3> QED
      BY <3>1, <3>2
  <2> QED
    BY <2>1, <2>4 DEF Reading
<1>11. ReceiveComesBack'
  BY <1>1, <1>2, Types DEF IInv, ReceiveComesBack, InRead
<1> QED
  BY <1>6, <1>7, <1>8, <1>9, <1>10, <1>11 DEF IInv

LEMMA ReadOutKeeps == ASSUME IInv, NEW t \in Tasks, ReadOut(t) PROVE IInv'
<1> DEFINE n == Len(chunk)
           to == IF space[t] > n THEN "rd_copy" ELSE "rd_unlock"
<1>1. /\ ReadStep(t, "rd_out", to)
      /\ got' = [got EXCEPT ![t] = got[t] \o chunk]
      /\ space' = [space EXCEPT ![t] = space[t] - n]
      /\ rx' = MoveOut(rx, n) /\ chunk' = <<>>
      /\ UNCHANGED <<irqEnable, events, readLock, seen>>
  BY DEF ReadOut
<1>2. /\ pc[t] = "rd_out" /\ pc' = [pc EXCEPT ![t] = to] /\ to \in {"rd_copy", "rd_unlock"}
      /\ pc'[t] = to
  BY <1>1, Types DEF ReadStep, Step
<1>3. n \in 1..Fill(rx) /\ n <= space[t] /\ space[t] \in Nat /\ n \in Nat /\ n > 0
  <2>1. ReadingOf(t)
    BY DEF IInv, Reading
  <2>2. n \in 1..Fill(rx) /\ n <= space[t]
    BY <1>2, <2>1 DEF ReadingOf
  <2>3. n \in Nat
    BY Types
  <2>4. Fill(rx) \in Nat
    BY Types, FillCases, JtagUartAssumption DEF JtagUartAssumption
  <2> QED
    BY <2>2, <2>3, <2>4, Types
<1>4. rx' \in Ring /\ n \in 0..Fill(rx)
  <2>1. n \in 0..Fill(rx)
    BY <1>3, Types, FillCases
  <2> QED
    BY <1>1, <2>1, Types, MovesOut
<1>5. /\ got[t] \o chunk \in Seq(Byte) /\ got[t] \o chunk # <<>>
  <2>1. got[t] \in Seq(Byte) /\ chunk \in Seq(Byte) /\ chunk # <<>>
    BY <1>3, Types
  <2> QED
    BY <2>1, ConcatProperties, ConcatEqualIffEmpty
<1> HIDE DEF n
<1>6. space' \in [Tasks -> Nat] /\ got' \in [Tasks -> Seq(Byte)]
  <2>1. space[t] - n \in Nat
    BY <1>3
  <2> QED
    BY <1>1, <1>5, <2>1, Types
<1>7. TypeOK'
  <2>1. chunk' \in Seq(Byte)
    BY <1>1, EmptySeq
  <2> QED
    BY <1>1, <1>2, <1>4, <1>6, <2>1, Types, ReadStepTyped DEF ReadPc
<1>8. Writing' /\ SendComesBack'
  BY <1>1, <1>2, ReadStepWriters DEF ReadPc
<1>9. Locks'
  BY <1>1, <1>2, ReadStepLocks DEF ReadPc, InRead
<1>10. GroupExact'
  BY <1>1, <1>2, ReadStepGroup DEF ReadPc
<1>11. Reading'
  <2>1. \A u \in Tasks \ {t} : ReadingOf(u)'
    BY <1>1, Types, ReadStepOthers DEF InRead
  <2>2. to = "rd_copy" => space'[t] > 0
    BY <1>1, <1>3, Types
  <2>3. ReadingOf(t)'
    BY <1>2, <2>2 DEF ReadingOf, ReadPc, InRead, Asleep
  <2> QED
    BY <2>1, <2>3 DEF Reading
<1>12. ReceiveComesBack'
  <2>1. got'[t] # <<>> /\ pc'[t] \in InRead
    BY <1>1, <1>2, <1>5, Types DEF InRead
  <2> QED
    BY <2>1 DEF ReceiveComesBack
<1> QED
  BY <1>7, <1>8, <1>9, <1>10, <1>11, <1>12 DEF IInv

LEMMA ReadPendKeeps == ASSUME IInv, NEW t \in Tasks, ReadPend(t) PROVE IInv'
<1> DEFINE to == IF events.flags \cap ReadFlags # {} THEN "rd_check" ELSE "rd_wait"
<1>1. ReadStep(t, "rd_pend", to) /\ UNCHANGED <<rx, irqEnable, readLock, readVars>>
  BY DEF ReadPend
<1>2. /\ pc[t] = "rd_pend" /\ pc' = [pc EXCEPT ![t] = to] /\ to \in {"rd_check", "rd_wait"}
      /\ pc'[t] = to
  BY <1>1, Types DEF ReadStep, Step
<1>3. ReadFlags \in SUBSET Flag /\ ReadFlags # {}
  BY DEF ReadFlags, Flag
<1>4. /\ events' \in GroupType(Tasks, Flag) /\ events'.rdy = events.rdy
      /\ events.flags \ ReadFlags \subseteq events'.flags
      /\ events'.flags \subseteq events.flags
      /\ to = "rd_wait" => /\ events'.flags = events.flags
                           /\ events'.wait = [events.wait EXCEPT ![t] = ReadFlags]
                           /\ events.flags \cap ReadFlags = {}
      /\ to = "rd_check" => events'.wait = events.wait
  <2>1. CASE events.flags \cap ReadFlags # {}
    <3>1. events' = FlagTake(events, ReadFlags) /\ to = "rd_check"
      BY <2>1 DEF ReadPend
    <3> QED
      BY <1>3, <3>1, Types, Takes
  <2>2. CASE events.flags \cap ReadFlags = {}
    <3>1. events' = FlagBlock(events, t, ReadFlags) /\ to = "rd_wait"
      BY <2>2 DEF ReadPend
    <3> QED
      BY <1>3, <2>2, <3>1, Types, Blocks
  <2> QED
    BY <2>1, <2>2
<1> HIDE DEF to
<1>5. \A u \in Tasks : events.wait[u] \in SUBSET Flag /\ DOMAIN events.wait = Tasks
  BY Types DEF GroupType
<1>6. TypeOK'
  BY <1>1, <1>2, <1>4, Types, ReadStepTyped DEF ReadPc, readVars
<1>7. \A u \in Tasks \ {t} : events.wait'[u] = events.wait[u]
  BY <1>2, <1>4, <1>5
<1>8. Writing' /\ SendComesBack'
  BY <1>1, <1>2, <1>4, <1>7, ReadStepWriters DEF ReadPc
<1>9. Locks'
  BY <1>1, <1>2, ReadStepLocks DEF ReadPc, InRead
<1>10. GroupExact'
  <2>1. \A u \in Tasks \ {t} : WaitFlags(u)' = WaitFlags(u)
    BY <1>2, Types DEF WaitFlags
  <2>2. WaitFlags(t) = {} /\ WaitFlags(t)' = IF to = "rd_wait" THEN ReadFlags ELSE {}
    BY <1>2 DEF WaitFlags
  <2>3. events.wait'[t] = IF to = "rd_wait" THEN ReadFlags ELSE events.wait[t]
    BY <1>2, <1>4, <1>5
  <2> QED
    BY <1>2, <1>4, <1>7, <2>1, <2>2, <2>3 DEF IInv, GroupExact
<1>11. Reading'
  <2>1. \A u \in Tasks \ {t} : ReadingOf(u)'
    BY <1>1, ReadStepOthers DEF InRead, readVars
  <2>2. ReadingOf(t)
    BY DEF IInv, Reading
  <2>3. ReadingOf(t)'
    BY <1>1, <1>2, <1>4, <2>2 DEF ReadingOf, ReadPc, InRead, Asleep, readVars
  <2> QED
    BY <2>1, <2>3 DEF Reading
<1>12. ReceiveComesBack'
  BY <1>1, <1>2, Types DEF IInv, ReceiveComesBack, InRead, readVars
<1> QED
  BY <1>6, <1>8, <1>9, <1>10, <1>11, <1>12 DEF IInv

LEMMA ReadWakesKeeps == ASSUME IInv, NEW t \in Tasks, ReadWakes(t) PROVE IInv'
<1>1. /\ ReadStep(t, "rd_wait", "rd_check") /\ events.wait[t] = {}
      /\ events' = FlagResume(events, t)
      /\ UNCHANGED <<rx, irqEnable, readLock, readVars>>
  BY DEF ReadWakes
<1>2. /\ pc[t] = "rd_wait" /\ pc' = [pc EXCEPT ![t] = "rd_check"]
      /\ pc'[t] = "rd_check"
  BY <1>1, Types DEF ReadStep, Step
<1>3. /\ events' \in GroupType(Tasks, Flag) /\ events'.flags = events.flags \ events.rdy[t]
      /\ events'.wait = events.wait /\ events'.rdy = [events.rdy EXCEPT ![t] = {}]
  BY <1>1, Types, Resumes
<1>4. DOMAIN events.rdy = Tasks
  BY Types DEF GroupType
<1>5. events.rdy[t] \subseteq ReadFlags
  BY <1>2 DEF IInv, GroupExact, WaitFlags
<1>6. TypeOK'
  BY <1>1, <1>3, Types, ReadStepTyped DEF ReadPc, readVars
<1>7. Writing' /\ SendComesBack'
  <2>1. events.flags \ ReadFlags \subseteq events'.flags
    BY <1>3, <1>5
  <2> QED
    BY <1>1, <1>3, <2>1, ReadStepWriters DEF ReadPc
<1>8. Locks'
  BY <1>1, ReadStepLocks DEF ReadPc, InRead
<1>9. GroupExact'
  <2>1. \A u \in Tasks \ {t} : WaitFlags(u)' = WaitFlags(u)
    BY <1>2, Types DEF WaitFlags
  <2>2. WaitFlags(t)' = {}
    BY <1>2 DEF WaitFlags
  <2> QED
    BY <1>1, <1>3, <1>4, <2>1, <2>2 DEF IInv, GroupExact
<1>10. Reading'
  <2>1. \A u \in Tasks \ {t} : ReadingOf(u)'
    BY <1>1, ReadStepOthers DEF InRead, readVars
  <2>2. ReadingOf(t)
    BY DEF IInv, Reading
  <2>3. ReadingOf(t)'
    BY <1>1, <1>2, <2>2 DEF ReadingOf, ReadPc, InRead, Asleep, readVars
  <2> QED
    BY <2>1, <2>3 DEF Reading
<1>11. ReceiveComesBack'
  BY <1>1, <1>2, Types DEF IInv, ReceiveComesBack, InRead, readVars
<1> QED
  BY <1>6, <1>7, <1>8, <1>9, <1>10, <1>11 DEF IInv

LEMMA ReadCheckKeeps == ASSUME IInv, NEW t \in Tasks, ReadCheck(t) PROVE IInv'
<1> DEFINE to == IF seen = rx.in THEN "rd_unlock" ELSE "rd_copy"
<1>1. /\ ReadStep(t, "rd_check", to) /\ to \in {"rd_unlock", "rd_copy"}
      /\ UNCHANGED <<rx, irqEnable, events, readLock, readVars>>
  BY DEF ReadCheck
<1> HIDE DEF to
<1>2. pc[t] = "rd_check" /\ pc' = [pc EXCEPT ![t] = to] /\ pc'[t] = to
  BY <1>1, Types DEF ReadStep, Step
<1>3. TypeOK'
  BY <1>1, Types, ReadStepTyped DEF ReadPc, readVars
<1>4. Writing' /\ SendComesBack'
  BY <1>1, ReadStepWriters DEF ReadPc
<1>5. Locks'
  BY <1>1, ReadStepLocks DEF ReadPc, InRead
<1>6. GroupExact'
  BY <1>1, ReadStepGroup DEF ReadPc
<1>7. Reading'
  <2>1. \A u \in Tasks \ {t} : ReadingOf(u)'
    BY <1>1, ReadStepOthers DEF readVars
  <2>2. ReadingOf(t)
    BY DEF IInv, Reading
  <2>3. ReadingOf(t)'
    BY <1>1, <1>2, <2>2 DEF ReadingOf, ReadPc, InRead, Asleep, readVars
  <2> QED
    BY <2>1, <2>3 DEF Reading
<1>8. ReceiveComesBack'
  BY <1>1, <1>2, Types DEF IInv, ReceiveComesBack, InRead, readVars
<1> QED
  BY <1>3, <1>4, <1>5, <1>6, <1>7, <1>8 DEF IInv

LEMMA ReadUnlockKeeps == ASSUME IInv, NEW t \in Tasks, ReadUnlock(t) PROVE IInv'
<1> DEFINE to == IF got[t] # <<>> THEN "rd_enable" ELSE "idle"
<1>1. /\ ReadStep(t, "rd_unlock", to) /\ readLock' = readLock + 1
      /\ to \in {"rd_enable", "idle"} /\ (to = "idle" => got[t] = <<>>)
      /\ got[t] # <<>> => to = "rd_enable"
      /\ space' = [space EXCEPT ![t] = 0] /\ seen' = 0
      /\ UNCHANGED <<rx, irqEnable, events, got, chunk>>
  BY DEF ReadUnlock
<1> HIDE DEF to
<1>2. pc[t] = "rd_unlock" /\ pc' = [pc EXCEPT ![t] = to] /\ pc'[t] = to
  BY <1>1, Types DEF ReadStep, Step
<1>3. readLock = 0 /\ readLock' = 1
  BY <1>1, <1>2 DEF IInv, Locks, InRead
<1>4. TypeOK'
  <2>1. seen' \in Slot
    BY <1>1, JtagUartAssumption DEF JtagUartAssumption, Slot
  <2>2. space' \in [Tasks -> Nat] /\ readLock' \in {0, 1}
    BY <1>1, <1>3, Types
  <2> QED
    BY <1>1, <2>1, <2>2, Types, ReadStepTyped DEF ReadPc
<1>5. Writing' /\ SendComesBack'
  BY <1>1, ReadStepWriters DEF ReadPc
<1>6. Locks'
  <2>1. \A u \in Tasks : pc[u] \in InRead => u = t
    BY <1>2 DEF IInv, Locks, InRead
  <2>2. \A u \in Tasks : /\ pc'[u] \notin InRead
                         /\ pc'[u] \in InWrite <=> pc[u] \in InWrite
    BY <1>1, <1>2, <2>1, Types DEF InRead, InWrite
  <2>3. writeLock' = writeLock
    BY <1>1 DEF ReadStep
  <2> QED
    BY <2>2, <2>3 DEF IInv, Locks
<1>7. GroupExact'
  BY <1>1, ReadStepGroup DEF ReadPc
<1>8. Reading'
  <2>1. \A u \in Tasks \ {t} : ReadingOf(u)'
    BY <1>1, Types, ReadStepOthers DEF InRead
  <2>2. ReadingOf(t)'
    BY <1>1, <1>2 DEF ReadingOf, ReadPc, InRead, Asleep
  <2> QED
    BY <2>1, <2>2 DEF Reading
<1>9. ReceiveComesBack'
  BY <1>1, <1>2, Types DEF IInv, ReceiveComesBack, InRead
<1> QED
  BY <1>4, <1>5, <1>6, <1>7, <1>8, <1>9 DEF IInv

LEMMA ReadEnableKeeps == ASSUME IInv, NEW t \in Tasks, ReadEnable(t) PROVE IInv'
<1>1. /\ ReadStep(t, "rd_enable", "idle") /\ irqEnable' = irqEnable \cup {"RE"}
      /\ got' = [got EXCEPT ![t] = <<>>]
      /\ UNCHANGED <<rx, events, readLock, space, seen, chunk>>
  BY DEF ReadEnable
<1>2. pc[t] = "rd_enable" /\ pc' = [pc EXCEPT ![t] = "idle"] /\ pc'[t] = "idle"
  BY <1>1, Types DEF ReadStep, Step
<1>3. TypeOK'
  <2>1. got' \in [Tasks -> Seq(Byte)] /\ irqEnable' \subseteq {"RE", "WE"}
    BY <1>1, Types, EmptySeq
  <2> QED
    BY <1>1, <2>1, Types, ReadStepTyped DEF ReadPc
<1>4. Writing' /\ SendComesBack'
  BY <1>1, ReadStepWriters DEF ReadPc
<1>5. Locks'
  BY <1>1, ReadStepLocks DEF ReadPc, InRead
<1>6. GroupExact'
  BY <1>1, ReadStepGroup DEF ReadPc
<1>7. Reading'
  <2>1. \A u \in Tasks \ {t} : ReadingOf(u)'
    BY <1>1, Types, ReadStepOthers
  <2>2. ReadingOf(t)'
    BY <1>1, <1>2, Types DEF ReadingOf, ReadPc, InRead, Asleep
  <2> QED
    BY <2>1, <2>2 DEF Reading
<1>8. ReceiveComesBack'
  BY <1>1 DEF ReceiveComesBack
<1> QED
  BY <1>3, <1>4, <1>5, <1>6, <1>7, <1>8 DEF IInv

-----------------------------------------------------------------------------
\* A step of write: what it shares with the others.
LEMMA WriteStepTyped ==
  ASSUME IInv, NEW t \in Tasks, NEW from, NEW to, WriteStep(t, from, to),
         to \in WritePc \cup {"idle"},
         tx' \in Ring, irqEnable' \subseteq {"RE", "WE"},
         events' \in GroupType(Tasks, Flag), writeLock' \in {0, 1},
         todo' \in [Tasks -> Seq(Byte)], moved' \in Nat
  PROVE  TypeOK'
BY DEF IInv, TypeOK, Ring, WriteStep, Step, WritePc, deviceVars, readVars

LEMMA WriteStepReaders ==
  ASSUME IInv, NEW t \in Tasks, NEW from, NEW to, WriteStep(t, from, to),
         from \in WritePc \cup {"idle"}, to \in WritePc \cup {"idle"},
         irqEnable \subseteq irqEnable',
         events.flags \ WriteFlags \subseteq events'.flags,
         \A u \in Tasks \ {t} : events.wait'[u] = events.wait[u]
  PROVE  Reading' /\ ReceiveComesBack'
<1>1. /\ UNCHANGED <<rx, space, got, chunk>> /\ pc[t] = from
      /\ pc' = [pc EXCEPT ![t] = to] /\ DOMAIN pc = Tasks
  BY DEF WriteStep, Step, readVars, IInv, TypeOK
<1>2. "READ_RDY" \in events.flags => "READ_RDY" \in events'.flags
  BY DEF WriteFlags
<1>3. \A u \in Tasks :
         /\ pc[u] \in ReadPc \/ pc'[u] \in ReadPc => pc'[u] = pc[u]
         /\ pc[u] = "rd_wait" => events.wait'[u] \in {{}, events.wait[u]}
  BY <1>1 DEF ReadPc, WritePc
<1> QED
  BY <1>1, <1>2, <1>3, ReadersUndisturbed

LEMMA WriteStepOthers ==
  ASSUME IInv, NEW t \in Tasks, NEW from, NEW to, WriteStep(t, from, to),
         \A u \in Tasks \ {t} : todo'[u] = todo[u],
         from \in InWrite \/ UNCHANGED <<tx, moved, irqEnable, events>>
  PROVE  \A u \in Tasks \ {t} : WritingOf(u)'
<1> SUFFICES ASSUME NEW u \in Tasks \ {t} PROVE WritingOf(u)'
  OBVIOUS
<1>1. pc[t] = from /\ pc'[u] = pc[u] /\ WritingOf(u) /\ todo'[u] = todo[u]
  BY DEF WriteStep, Step, IInv, TypeOK, Writing
<1>2. CASE from \in InWrite
  <2>1. pc[u] \notin InWrite
    BY <1>1, <1>2 DEF IInv, Locks
  <2> QED
    BY <1>1, <2>1 DEF WritingOf, WritePc, InWrite, Asleep
<1>3. CASE UNCHANGED <<tx, moved, irqEnable, events>>
  <2>1. Room(tx)' = Room(tx)
    BY <1>3
  <2> QED
    BY <1>1, <1>3, <2>1 DEF WritingOf, Asleep
<1> QED
  BY <1>2, <1>3

LEMMA WriteStepLocks ==
  ASSUME IInv, NEW t \in Tasks, NEW from, NEW to, WriteStep(t, from, to),
         from \in WritePc \cup {"idle"}, to \in WritePc \cup {"idle"},
         writeLock' = writeLock, from \in InWrite <=> to \in InWrite
  PROVE  Locks'
<1>1. /\ pc' = [pc EXCEPT ![t] = to] /\ pc[t] = from /\ DOMAIN pc = Tasks
      /\ readLock' = readLock
  BY DEF WriteStep, Step, IInv, TypeOK
<1>2. \A u \in Tasks : /\ pc'[u] \in InRead <=> pc[u] \in InRead
                       /\ pc'[u] \in InWrite <=> pc[u] \in InWrite
  BY <1>1 DEF WritePc, InRead
<1> QED
  BY <1>1, <1>2 DEF IInv, Locks

LEMMA WriteStepGroup ==
  ASSUME IInv, NEW t \in Tasks, NEW from, NEW to, WriteStep(t, from, to),
         from \in WritePc \cup {"idle"}, to \in WritePc \cup {"idle"},
         from # "wr_wait", to # "wr_wait", events' = events
  PROVE  GroupExact'
<1>1. pc' = [pc EXCEPT ![t] = to] /\ pc[t] = from /\ DOMAIN pc = Tasks
  BY DEF WriteStep, Step, IInv, TypeOK
<1>2. \A u \in Tasks : WaitFlags(u)' = WaitFlags(u)
  BY <1>1 DEF WaitFlags, WritePc
<1> QED
  BY <1>2 DEF IInv, GroupExact

LEMMA WriteCallKeeps == ASSUME IInv, NEW t \in Tasks, WriteCall(t) PROVE IInv'
<1>1. /\ WriteStep(t, "idle", "wr_lock")
      /\ UNCHANGED <<tx, irqEnable, events, writeLock, moved>>
  BY DEF WriteCall
<1>2. PICK m \in Messages : todo' = [todo EXCEPT ![t] = m]
  BY DEF WriteCall
<1>3. m \in Seq(Byte) /\ m # <<>>
  BY JtagUartAssumption DEF JtagUartAssumption
<1>4. todo' \in [Tasks -> Seq(Byte)] /\ todo'[t] = m
  BY <1>2, <1>3, Types
<1>5. TypeOK'
  BY <1>1, <1>4, Types, WriteStepTyped DEF WritePc
<1>6. Reading' /\ ReceiveComesBack'
  BY <1>1, WriteStepReaders DEF WritePc
<1>7. Locks'
  BY <1>1, WriteStepLocks DEF WritePc, InWrite
<1>8. GroupExact'
  BY <1>1, WriteStepGroup DEF WritePc
<1>9. /\ pc[t] = "idle" /\ pc' = [pc EXCEPT ![t] = "wr_lock"]
      /\ pc'[t] = "wr_lock"
  BY <1>1, Types DEF WriteStep, Step
<1>10. Writing'
  <2>1. \A u \in Tasks \ {t} : WritingOf(u)'
    BY <1>1, <1>2, Types, WriteStepOthers
  <2>2. WritingOf(t)'
    BY <1>3, <1>4, <1>9 DEF WritingOf, WritePc, Asleep
  <2> QED
    BY <2>1, <2>2 DEF Writing
<1>11. SendComesBack'
  BY <1>1, <1>9, Types DEF IInv, SendComesBack
<1> QED
  BY <1>5, <1>6, <1>7, <1>8, <1>10, <1>11 DEF IInv

LEMMA WriteLockKeeps == ASSUME IInv, NEW t \in Tasks, WriteLock(t) PROVE IInv'
<1>1. /\ WriteStep(t, "wr_lock", "wr_copy") /\ writeLock > 0
      /\ writeLock' = writeLock - 1
      /\ UNCHANGED <<tx, irqEnable, events, writeVars>>
  BY DEF WriteLock
<1>2. writeLock' \in {0, 1} /\ writeLock = 1 /\ writeLock' = 0
  BY <1>1, Types
<1>3. TypeOK'
  BY <1>1, <1>2, Types, WriteStepTyped DEF WritePc, writeVars
<1>4. Reading' /\ ReceiveComesBack'
  BY <1>1, WriteStepReaders DEF WritePc
<1>5. /\ pc[t] = "wr_lock" /\ pc' = [pc EXCEPT ![t] = "wr_copy"]
      /\ pc'[t] = "wr_copy" /\ readLock' = readLock
  BY <1>1, Types DEF WriteStep, Step
<1>6. Locks'
  <2>1. \A u \in Tasks : pc[u] \notin InWrite
    BY <1>2 DEF IInv, Locks
  <2>2. \A u \in Tasks : /\ pc'[u] \in InWrite => u = t
                         /\ pc'[u] \in InRead <=> pc[u] \in InRead
    BY <1>5, <2>1, Types DEF InRead
  <2> QED
    BY <1>2, <1>5, <2>2 DEF IInv, Locks
<1>7. GroupExact'
  BY <1>1, WriteStepGroup DEF WritePc
<1>8. Writing'
  <2>1. \A u \in Tasks \ {t} : WritingOf(u)'
    BY <1>1, WriteStepOthers DEF writeVars
  <2>2. WritingOf(t)
    BY DEF IInv, Writing
  <2>3. WritingOf(t)'
    BY <1>1, <1>5, <2>2 DEF WritingOf, WritePc, Asleep, writeVars
  <2> QED
    BY <2>1, <2>3 DEF Writing
<1>9. SendComesBack'
  BY <1>5 DEF SendComesBack
<1> QED
  BY <1>3, <1>4, <1>6, <1>7, <1>8, <1>9 DEF IInv

LEMMA WriteCopyKeeps == ASSUME IInv, NEW t \in Tasks, WriteCopy(t) PROVE IInv'
<1> DEFINE n == Least(FreePiece(tx), Len(todo[t]))
           s == SubSeq(todo[t], 1, n)
           to == IF n > 0 THEN "wr_in" ELSE "wr_kick"
<1>1. /\ WriteStep(t, "wr_copy", to) /\ moved' = n /\ tx' = Stored(tx, s)
      /\ UNCHANGED <<irqEnable, events, writeLock, todo>>
  BY DEF WriteCopy
<1>2. /\ pc[t] = "wr_copy" /\ pc' = [pc EXCEPT ![t] = to] /\ pc'[t] = to
      /\ to \in {"wr_in", "wr_kick"}
  BY <1>1, Types DEF WriteStep, Step
<1>3. todo[t] \in Seq(Byte) /\ Len(todo[t]) \in Nat /\ Len(todo[t]) > 0
  <2>1. WritingOf(t)
    BY DEF IInv, Writing
  <2>2. todo[t] \in Seq(Byte) /\ todo[t] # <<>>
    BY <1>2, <2>1, Types DEF WritingOf, WritePc
  <2> QED
    BY <2>2, EmptySeq
<1>4. /\ FreePiece(tx) \in 0..Room(tx) /\ Room(tx) \in Nat
      /\ FreePiece(tx) = 0 => Room(tx) = 0
  BY Types, Pieces, FillCases, JtagUartAssumption DEF JtagUartAssumption
<1>5. /\ n \in Nat /\ n <= Len(todo[t]) /\ n <= Room(tx)
      /\ n = 0 => Room(tx) = 0
  BY <1>3, <1>4 DEF Least
<1>6. /\ s \in Seq(Byte) /\ Len(s) = n
      /\ \A k \in 1..n : s[k] = todo[t][k]
  <2> HIDE DEF n
  <2>1. \A k \in 1..n : todo[t][k] \in Byte
    BY <1>3, <1>5
  <2>2. /\ s \in Seq(Byte) /\ Len(s) = IF 1 <= n THEN n - 1 + 1 ELSE 0
        /\ \A k \in 1..n - 1 + 1 : s[k] = todo[t][1 + k - 1]
    BY <1>3, <1>5, <2>1, SubSeqProperties
  <2>3. n - 1 + 1 = n /\ (~(1 <= n) => n = 0) /\ \A k \in 1..n : 1 + k - 1 = k
    BY <1>5
  <2> HIDE DEF s
  <2> QED
    BY <2>2, <2>3
<1> HIDE DEF n, s
<1>7. /\ tx' \in Ring /\ tx'.in = tx.in
      /\ Fill(tx') = Fill(tx) /\ Room(tx') = Room(tx)
      /\ \A k \in 1..n : tx'.buf[WrapSum(tx.in, k - 1)] = todo[t][k]
  <2>1. /\ tx' \in Ring /\ tx'.in = tx.in
        /\ Fill(tx') = Fill(tx) /\ Room(tx') = Room(tx)
    BY <1>1, <1>6, Types, Stores
  <2>2. \A k \in 1..n : tx'.buf[WrapSum(tx.in, k - 1)] = s[k]
    BY <1>1, <1>5, <1>6, Types, StoredContents
  <2> QED
    BY <1>6, <2>1, <2>2
<1>8. TypeOK'
  BY <1>1, <1>2, <1>5, <1>7, Types, WriteStepTyped DEF WritePc
<1>9. Reading' /\ ReceiveComesBack'
  BY <1>1, <1>2, WriteStepReaders DEF WritePc
<1>10. Locks'
  BY <1>1, <1>2, WriteStepLocks DEF WritePc, InWrite
<1>11. GroupExact'
  BY <1>1, <1>2, WriteStepGroup DEF WritePc
<1>12. Writing'
  <2>1. \A u \in Tasks \ {t} : WritingOf(u)'
    BY <1>1, WriteStepOthers DEF InWrite
  <2>2. WritingOf(t)'
    <3>1. CASE n > 0
      <4>1. pc'[t] = "wr_in"
        BY <1>2, <3>1
      <4>2. n \in 1..Len(todo'[t]) /\ n <= Room(tx')
            /\ \A k \in 1..n : tx'.buf[WrapSum(tx'.in, k - 1)] = todo'[t][k]
        BY <1>1, <1>3, <1>5, <1>7, <3>1
      <4>3. todo'[t] # <<>> /\ moved' = n
        BY <1>1, <1>3
      <4> QED
        BY <4>1, <4>2, <4>3 DEF WritingOf, WritePc, Asleep
    <3>2. CASE ~(n > 0)
      <4>1. pc'[t] = "wr_kick" /\ n = 0
        BY <1>2, <1>5, <3>2
      <4>2. Room(tx') = 0
        BY <1>5, <1>7, <4>1
      <4> QED
        BY <4>1, <4>2 DEF WritingOf, WritePc, Asleep
    <3> QED
      BY <3>1, <3>2
  <2> QED
    BY <2>1, <2>2 DEF Writing
<1>13. SendComesBack'
  BY <1>2 DEF SendComesBack
<1> QED
  BY <1>8, <1>9, <1>10, <1>11, <1>12, <1>13 DEF IInv

LEMMA WriteInKeeps == ASSUME IInv, NEW t \in Tasks, WriteIn(t) PROVE IInv'
<1> DEFINE to == IF moved < Len(todo[t]) THEN "wr_copy" ELSE "wr_kick"
           left == SubSeq(todo[t], moved + 1, Len(todo[t]))
<1>1. /\ WriteStep(t, "wr_in", to)
      /\ todo' = [todo EXCEPT ![t] = left]
      /\ tx' = MoveIn(tx, moved) /\ moved' = 0
      /\ UNCHANGED <<irqEnable, events, writeLock>>
  BY DEF WriteIn
<1>2. /\ pc[t] = "wr_in" /\ pc' = [pc EXCEPT ![t] = to] /\ pc'[t] = to
      /\ to \in {"wr_copy", "wr_kick"}
  BY <1>1, Types DEF WriteStep, Step
<1>3. /\ todo[t] \in Seq(Byte) /\ Len(todo[t]) \in Nat
      /\ moved \in 1..Len(todo[t]) /\ moved \in 0..Room(tx)
  <2>1. WritingOf(t)
    BY DEF IInv, Writing
  <2>2. moved \in 1..Len(todo[t]) /\ moved <= Room(tx)
    BY <1>2, <2>1 DEF WritingOf
  <2>3. todo[t] \in Seq(Byte) /\ moved \in Nat
    BY Types
  <2>4. Room(tx) \in Nat
    BY Types, FillCases, JtagUartAssumption DEF JtagUartAssumption
  <2> QED
    BY <2>2, <2>3, <2>4
<1>4. tx' \in Ring
  BY <1>1, <1>3, Types, MovesIn
<1>5. left \in Seq(Byte) /\ Len(left) = Len(todo[t]) - moved
  <2>1. \A k \in moved + 1..Len(todo[t]) : todo[t][k] \in Byte
    BY <1>3
  <2>2. /\ left \in Seq(Byte)
        /\ Len(left) = IF moved + 1 <= Len(todo[t])
                       THEN Len(todo[t]) - (moved + 1) + 1 ELSE 0
    BY <1>3, <2>1, SubSeqProperties
  <2> HIDE DEF left
  <2> QED
    BY <1>3, <2>2
<1>6. to = "wr_copy" <=> left # <<>>
  <2> HIDE DEF left
  <2>1. left # <<>> <=> Len(left) # 0
    BY <1>5, EmptySeq
  <2> QED
    BY <1>3, <1>5, <2>1
<1> HIDE DEF left, to
<1>7. todo' \in [Tasks -> Seq(Byte)] /\ todo'[t] = left
  BY <1>1, <1>5, Types
<1>8. TypeOK'
  <2>1. moved' \in Nat
    BY <1>1
  <2> QED
    BY <1>1, <1>2, <1>4, <1>7, <2>1, Types, WriteStepTyped DEF WritePc
<1>9. Reading' /\ ReceiveComesBack'
  BY <1>1, <1>2, WriteStepReaders DEF WritePc
<1>10. Locks'
  BY <1>1, <1>2, WriteStepLocks DEF WritePc, InWrite
<1>11. GroupExact'
  BY <1>1, <1>2, WriteStepGroup DEF WritePc
<1>12. Writing'
  <2>1. \A u \in Tasks \ {t} : WritingOf(u)'
    BY <1>1, Types, WriteStepOthers DEF InWrite
  <2>2. WritingOf(t)'
    BY <1>2, <1>6, <1>7 DEF WritingOf, WritePc, Asleep
  <2> QED
    BY <2>1, <2>2 DEF Writing
<1>13. SendComesBack'
  BY <1>2 DEF SendComesBack
<1> QED
  BY <1>8, <1>9, <1>10, <1>11, <1>12, <1>13 DEF IInv

LEMMA WriteKickKeeps == ASSUME IInv, NEW t \in Tasks, WriteKick(t) PROVE IInv'
<1> DEFINE to == IF todo[t] # <<>> THEN "wr_pend" ELSE "wr_unlock"
<1>1. /\ WriteStep(t, "wr_kick", to) /\ to \in {"wr_pend", "wr_unlock"}
      /\ to = "wr_pend" <=> todo[t] # <<>>
      /\ irqEnable' = irqEnable \cup {"WE"}
      /\ UNCHANGED <<tx, events, writeLock, writeVars>>
  BY DEF WriteKick
<1> HIDE DEF to
<1>2. pc[t] = "wr_kick" /\ pc' = [pc EXCEPT ![t] = to] /\ pc'[t] = to
  BY <1>1, Types DEF WriteStep, Step
<1>3. TypeOK'
  BY <1>1, Types, WriteStepTyped DEF WritePc, writeVars
<1>4. Reading' /\ ReceiveComesBack'
  BY <1>1, WriteStepReaders DEF WritePc
<1>5. Locks'
  BY <1>1, WriteStepLocks DEF WritePc, InWrite
<1>6. GroupExact'
  BY <1>1, WriteStepGroup DEF WritePc
<1>7. Writing'
  <2>1. \A u \in Tasks \ {t} : WritingOf(u)'
    BY <1>1, WriteStepOthers DEF InWrite, writeVars
  <2>2. WritingOf(t)
    BY DEF IInv, Writing
  <2>3. Room(tx)' = Room(tx) /\ "WE" \in irqEnable'
    BY <1>1
  <2>4. WritingOf(t)'
    BY <1>1, <1>2, <2>2, <2>3 DEF WritingOf, WritePc, Asleep, writeVars
  <2> QED
    BY <2>1, <2>4 DEF Writing
<1>8. SendComesBack'
  BY <1>1 DEF SendComesBack
<1> QED
  BY <1>3, <1>4, <1>5, <1>6, <1>7, <1>8 DEF IInv

LEMMA WritePendKeeps == ASSUME IInv, NEW t \in Tasks, WritePend(t) PROVE IInv'
<1> DEFINE to == IF events.flags \cap WriteFlags # {} THEN "wr_check" ELSE "wr_wait"
<1>1. WriteStep(t, "wr_pend", to) /\ UNCHANGED <<tx, irqEnable, writeLock, writeVars>>
  BY DEF WritePend
<1>2. /\ pc[t] = "wr_pend" /\ pc' = [pc EXCEPT ![t] = to] /\ to \in {"wr_check", "wr_wait"}
      /\ pc'[t] = to
  BY <1>1, Types DEF WriteStep, Step
<1>3. WriteFlags \in SUBSET Flag /\ WriteFlags # {}
  BY DEF WriteFlags, Flag
<1>4. /\ events' \in GroupType(Tasks, Flag) /\ events'.rdy = events.rdy
      /\ events.flags \ WriteFlags \subseteq events'.flags
      /\ events'.flags \subseteq events.flags
      /\ to = "wr_wait" => /\ events'.flags = events.flags
                           /\ events'.wait = [events.wait EXCEPT ![t] = WriteFlags]
                           /\ events.flags \cap WriteFlags = {}
      /\ to = "wr_check" => events'.wait = events.wait
  <2>1. CASE events.flags \cap WriteFlags # {}
    <3>1. events' = FlagTake(events, WriteFlags) /\ to = "wr_check"
      BY <2>1 DEF WritePend
    <3> QED
      BY <1>3, <3>1, Types, Takes
  <2>2. CASE events.flags \cap WriteFlags = {}
    <3>1. events' = FlagBlock(events, t, WriteFlags) /\ to = "wr_wait"
      BY <2>2 DEF WritePend
    <3> QED
      BY <1>3, <2>2, <3>1, Types, Blocks
  <2> QED
    BY <2>1, <2>2
<1> HIDE DEF to
<1>5. \A u \in Tasks : events.wait[u] \in SUBSET Flag /\ DOMAIN events.wait = Tasks
  BY Types DEF GroupType
<1>6. TypeOK'
  BY <1>1, <1>2, <1>4, Types, WriteStepTyped DEF WritePc, writeVars
<1>7. \A u \in Tasks \ {t} : events.wait'[u] = events.wait[u]
  BY <1>2, <1>4, <1>5
<1>8. Reading' /\ ReceiveComesBack'
  BY <1>1, <1>2, <1>4, <1>7, WriteStepReaders DEF WritePc
<1>9. Locks'
  BY <1>1, <1>2, WriteStepLocks DEF WritePc, InWrite
<1>10. GroupExact'
  <2>1. \A u \in Tasks \ {t} : WaitFlags(u)' = WaitFlags(u)
    BY <1>2, Types DEF WaitFlags
  <2>2. WaitFlags(t) = {} /\ WaitFlags(t)' = IF to = "wr_wait" THEN WriteFlags ELSE {}
    BY <1>2 DEF WaitFlags
  <2>3. events.wait'[t] = IF to = "wr_wait" THEN WriteFlags ELSE events.wait[t]
    BY <1>2, <1>4, <1>5
  <2> QED
    BY <1>2, <1>4, <1>7, <2>1, <2>2, <2>3 DEF IInv, GroupExact
<1>11. Writing'
  <2>1. \A u \in Tasks \ {t} : WritingOf(u)'
    BY <1>1, WriteStepOthers DEF InWrite, writeVars
  <2>2. WritingOf(t)
    BY DEF IInv, Writing
  <2>3. Room(tx)' = Room(tx)
    BY <1>1
  <2>4. WritingOf(t)'
    BY <1>1, <1>2, <1>4, <2>2, <2>3 DEF WritingOf, WritePc, Asleep, writeVars
  <2> QED
    BY <2>1, <2>4 DEF Writing
<1>12. SendComesBack'
  BY <1>1, <1>2, Types DEF IInv, SendComesBack
<1> QED
  BY <1>6, <1>8, <1>9, <1>10, <1>11, <1>12 DEF IInv

LEMMA WriteWakesKeeps == ASSUME IInv, NEW t \in Tasks, WriteWakes(t) PROVE IInv'
<1>1. /\ WriteStep(t, "wr_wait", "wr_check") /\ events.wait[t] = {}
      /\ events' = FlagResume(events, t)
      /\ UNCHANGED <<tx, irqEnable, writeLock, writeVars>>
  BY DEF WriteWakes
<1>2. /\ pc[t] = "wr_wait" /\ pc' = [pc EXCEPT ![t] = "wr_check"]
      /\ pc'[t] = "wr_check"
  BY <1>1, Types DEF WriteStep, Step
<1>3. /\ events' \in GroupType(Tasks, Flag) /\ events'.flags = events.flags \ events.rdy[t]
      /\ events'.wait = events.wait /\ events'.rdy = [events.rdy EXCEPT ![t] = {}]
  BY <1>1, Types, Resumes
<1>4. DOMAIN events.rdy = Tasks
  BY Types DEF GroupType
<1>5. events.rdy[t] \subseteq WriteFlags
  BY <1>2 DEF IInv, GroupExact, WaitFlags
<1>6. TypeOK'
  BY <1>1, <1>3, Types, WriteStepTyped DEF WritePc, writeVars
<1>7. Reading' /\ ReceiveComesBack'
  <2>1. events.flags \ WriteFlags \subseteq events'.flags
    BY <1>3, <1>5
  <2> QED
    BY <1>1, <1>3, <2>1, WriteStepReaders DEF WritePc
<1>8. Locks'
  BY <1>1, WriteStepLocks DEF WritePc, InWrite
<1>9. GroupExact'
  <2>1. \A u \in Tasks \ {t} : WaitFlags(u)' = WaitFlags(u)
    BY <1>2, Types DEF WaitFlags
  <2>2. WaitFlags(t)' = {}
    BY <1>2 DEF WaitFlags
  <2> QED
    BY <1>1, <1>3, <1>4, <2>1, <2>2 DEF IInv, GroupExact
<1>10. Writing'
  <2>1. \A u \in Tasks \ {t} : WritingOf(u)'
    BY <1>1, WriteStepOthers DEF InWrite, writeVars
  <2>2. WritingOf(t)
    BY DEF IInv, Writing
  <2>3. WritingOf(t)'
    BY <1>1, <1>2, <2>2 DEF WritingOf, WritePc, Asleep, writeVars
  <2> QED
    BY <2>1, <2>3 DEF Writing
<1>11. SendComesBack'
  BY <1>1, <1>2, Types DEF IInv, SendComesBack
<1> QED
  BY <1>6, <1>7, <1>8, <1>9, <1>10, <1>11 DEF IInv

LEMMA WriteCheckKeeps == ASSUME IInv, NEW t \in Tasks, WriteCheck(t) PROVE IInv'
<1> DEFINE to == IF hostInactive > 0 THEN "wr_unlock" ELSE "wr_copy"
<1>1. /\ WriteStep(t, "wr_check", to) /\ to \in {"wr_unlock", "wr_copy"}
      /\ UNCHANGED <<tx, irqEnable, events, writeLock, writeVars>>
  BY DEF WriteCheck
<1> HIDE DEF to
<1>2. pc[t] = "wr_check" /\ pc' = [pc EXCEPT ![t] = to] /\ pc'[t] = to
  BY <1>1, Types DEF WriteStep, Step
<1>3. TypeOK'
  BY <1>1, Types, WriteStepTyped DEF WritePc, writeVars
<1>4. Reading' /\ ReceiveComesBack'
  BY <1>1, WriteStepReaders DEF WritePc
<1>5. Locks'
  BY <1>1, WriteStepLocks DEF WritePc, InWrite
<1>6. GroupExact'
  BY <1>1, WriteStepGroup DEF WritePc
<1>7. Writing'
  <2>1. \A u \in Tasks \ {t} : WritingOf(u)'
    BY <1>1, WriteStepOthers DEF InWrite, writeVars
  <2>2. WritingOf(t)
    BY DEF IInv, Writing
  <2>3. WritingOf(t)'
    BY <1>1, <1>2, <2>2 DEF WritingOf, WritePc, Asleep, writeVars
  <2> QED
    BY <2>1, <2>3 DEF Writing
<1>8. SendComesBack'
  BY <1>1, <1>2, Types DEF IInv, SendComesBack
<1> QED
  BY <1>3, <1>4, <1>5, <1>6, <1>7, <1>8 DEF IInv

LEMMA WriteUnlockKeeps == ASSUME IInv, NEW t \in Tasks, WriteUnlock(t) PROVE IInv'
<1>1. /\ WriteStep(t, "wr_unlock", "idle") /\ writeLock' = writeLock + 1
      /\ todo' = [todo EXCEPT ![t] = <<>>]
      /\ UNCHANGED <<tx, irqEnable, events, moved>>
  BY DEF WriteUnlock
<1>2. pc[t] = "wr_unlock" /\ pc' = [pc EXCEPT ![t] = "idle"] /\ pc'[t] = "idle"
  BY <1>1, Types DEF WriteStep, Step
<1>3. writeLock = 0 /\ writeLock' = 1
  BY <1>1, <1>2 DEF IInv, Locks, InWrite
<1>4. TypeOK'
  <2>1. todo' \in [Tasks -> Seq(Byte)] /\ writeLock' \in {0, 1}
    BY <1>1, <1>3, Types, EmptySeq
  <2> QED
    BY <1>1, <2>1, Types, WriteStepTyped DEF WritePc
<1>5. Reading' /\ ReceiveComesBack'
  BY <1>1, WriteStepReaders DEF WritePc
<1>6. Locks'
  <2>1. \A u \in Tasks : pc[u] \in InWrite => u = t
    BY <1>2 DEF IInv, Locks, InWrite
  <2>2. \A u \in Tasks : /\ pc'[u] \notin InWrite
                         /\ pc'[u] \in InRead <=> pc[u] \in InRead
    BY <1>1, <1>2, <2>1, Types DEF InRead, InWrite
  <2>3. readLock' = readLock
    BY <1>1 DEF WriteStep
  <2> QED
    BY <2>2, <2>3 DEF IInv, Locks
<1>7. GroupExact'
  BY <1>1, WriteStepGroup DEF WritePc
<1>8. Writing'
  <2>1. \A u \in Tasks \ {t} : WritingOf(u)'
    BY <1>1, Types, WriteStepOthers DEF InWrite
  <2>2. WritingOf(t)'
    BY <1>1, <1>2 DEF WritingOf, WritePc, Asleep
  <2> QED
    BY <2>1, <2>2 DEF Writing
<1>9. SendComesBack'
  BY <1>1, <1>2, Types DEF IInv, SendComesBack
<1> QED
  BY <1>4, <1>5, <1>6, <1>7, <1>8, <1>9 DEF IInv

-----------------------------------------------------------------------------
\* The invariant is inductive.
LEMMA Inductive == IInv /\ [Next]_vars => IInv'
<1> SUFFICES ASSUME IInv, [Next]_vars PROVE IInv'
  OBVIOUS
<1>1. CASE \E b \in Byte : HostSends(b)
  BY <1>1, HostKeeps
<1>2. CASE HostPauses
  BY <1>2, HostKeeps
<1>3. CASE HostFetches
  BY <1>3, HostKeeps
<1>4. CASE Isr
  BY <1>4, IsrKeeps
<1>5. CASE Alarm
  BY <1>5, AlarmKeeps
<1>6. ASSUME NEW t \in Tasks, ReadCall(t) \/ Reads(t) PROVE IInv'
  BY <1>6, ReadCallKeeps, ReadLockKeeps, ReadCopyKeeps, ReadOutKeeps,
     ReadPendKeeps, ReadWakesKeeps, ReadCheckKeeps, ReadUnlockKeeps,
     ReadEnableKeeps DEF Reads
<1>7. ASSUME NEW t \in Tasks, WriteCall(t) \/ Writes(t) PROVE IInv'
  BY <1>7, WriteCallKeeps, WriteLockKeeps, WriteCopyKeeps, WriteInKeeps,
     WriteKickKeeps, WritePendKeeps, WriteWakesKeeps, WriteCheckKeeps,
     WriteUnlockKeeps DEF Writes
<1>8. CASE UNCHANGED vars
  <2>1. UNCHANGED <<rfifo, wfifo, pause, ac, rx, tx, irqEnable, hostInactive,
                    events, readLock, writeLock, pc, space, got, seen, chunk,
                    todo, moved>>
    BY <1>8 DEF vars, deviceVars, readVars, writeVars
  <2>2. TypeOK'
    BY <2>1 DEF IInv, TypeOK
  <2>3. Locks' /\ GroupExact'
    BY <2>1 DEF IInv, Locks, GroupExact, WaitFlags
  <2>4. Reading' /\ ReceiveComesBack'
    BY <2>1, ReadersUndisturbed
  <2>5. Writing' /\ SendComesBack'
    BY <2>1, WritersUndisturbed
  <2> QED
    BY <2>2, <2>3, <2>4, <2>5 DEF IInv
<1> QED
  BY <1>1, <1>2, <1>3, <1>4, <1>5, <1>6, <1>7, <1>8 DEF Next

LEMMA Invariant == Spec => []IInv
  BY InitIInv, Inductive, PTL DEF Spec

\* The two rings, the device, the flag group and every call keep their types,
\* and neither FIFO is ever asked to hold more than it can: the characters
\* the handler moves always fit.
THEOREM Typed == Spec => []TypeOK
<1>1. IInv => TypeOK
  BY DEF IInv
<1> QED
  BY <1>1, Invariant, PTL

\* No wake-up is lost between a call's look at its ring and its wait, and
\* whoever sleeps in write has left the transmit interrupt enabled.
THEOREM SleepsRightly == Spec => []NoLostWakeup
<1>1. IInv => NoLostWakeup
  BY IInvImplies DEF NoLostWakeup
<1> QED
  BY <1>1, Invariant, PTL

\* The receive interrupt, which the handler turns off when the ring is full,
\* comes back with the room, and the transmit interrupt is on while there is
\* something to transmit.
THEOREM InterruptsEnabled == Spec => []InterruptsComeBack
<1>1. IInv => InterruptsComeBack
  BY DEF IInv, InterruptsComeBack
<1> QED
  BY <1>1, Invariant, PTL

-----------------------------------------------------------------------------
(* A read that slept and is told of a character finds one.  Beyond IInv     *)
(* this needs what the call remembers of the ring while it sleeps.          *)

SawEmpty(t) ==
  /\ pc[t] \in {"rd_pend", "rd_wait"} => seen = rx.out
  /\ pc[t] = "rd_wait" /\ events.rdy[t] = {"READ_RDY"} => Fill(rx) > 0

\* Which flags a post tells a task of.
LEMMA PostTells ==
  ASSUME NEW g \in GroupType(Tasks, Flag), NEW set \in SUBSET Flag, NEW t \in Tasks
  PROVE  FlagPost(g, set).rdy[t] \in {g.rdy[t], g.wait[t] \cap (g.flags \cup set)}
BY DEF GroupType, FlagPost

\* A step that enters neither state, leaves the look at the ring alone and
\* tells of a character only if there is one.
LEMMA SawEmptyStays ==
  ASSUME IInv, NEW t \in Tasks, SawEmpty(t),
         seen' = seen, rx'.out = rx.out, Fill(rx) > 0 => Fill(rx)' > 0,
         pc'[t] \in {"rd_pend", "rd_wait"} => pc'[t] = pc[t],
         pc'[t] = "rd_wait" /\ events.rdy'[t] = {"READ_RDY"}
           => events.rdy'[t] = events.rdy[t] \/ Fill(rx)' > 0
  PROVE  SawEmpty(t)'
BY DEF SawEmpty

\* Nor does a post that has nothing to do with reading, or one with a
\* character in the ring.
LEMMA PostTellsOfReading ==
  ASSUME IInv, NEW t \in Tasks, pc[t] = "rd_wait", NEW set \in SUBSET Flag,
         events' \in {events, FlagPost(events, set)},
         events.rdy'[t] = {"READ_RDY"}
  PROVE  events.rdy'[t] = events.rdy[t] \/ "READ_RDY" \in set
<1>1. events \in GroupType(Tasks, Flag) /\ events.wait[t] \cap events.flags = {}
  BY DEF IInv, TypeOK, GroupExact
<1>2. CASE events' = FlagPost(events, set)
  <2>1. events.rdy'[t] \in {events.rdy[t], events.wait[t] \cap (events.flags \cup set)}
    BY <1>1, <1>2, PostTells
  <2> QED
    BY <1>1, <2>1
<1> QED
  BY <1>2

LEMMA IsrSawEmpty ==
  ASSUME IInv, Isr, NEW t \in Tasks, SawEmpty(t) PROVE SawEmpty(t)'
<1>1. TypeOK /\ rx \in Ring /\ BufLen \in Nat /\ BufLen >= 2
  BY JtagUartAssumption DEF IInv, TypeOK, Ring, JtagUartAssumption
<1>2. Fill(rx)' = Fill(rx) + Received /\ Received \in Nat /\ Fill(rx) \in Nat
  BY <1>1, IsrRings, ReceivedFacts, FillCases
<1>3. rx'.out = rx.out
  <2> DEFINE r == Stored(rx, SubSeq(rfifo, 1, Received))
  <2>1. r.out = rx.out /\ r \in Ring
    BY <1>1, ReceivedFacts, Stores
  <2>2. rx' = MoveIn(r, Received)
    BY DEF Isr
  <2> HIDE DEF r
  <2> QED
    BY <2>1, <2>2 DEF MoveIn, Ring
<1>4. pc' = pc /\ seen' = seen
  BY DEF Isr, taskVars, readVars
<1>5. Posted \in SUBSET Flag /\ events' \in {events, FlagPost(events, Posted)}
  BY DEF Isr, Posted, Flag
<1>6. "READ_RDY" \in Posted => Fill(rx)' > 0
  BY <1>2 DEF Posted
<1> QED
  BY <1>2, <1>3, <1>4, <1>5, <1>6, SawEmptyStays, PostTellsOfReading

LEMMA AlarmSawEmpty ==
  ASSUME IInv, Alarm, NEW t \in Tasks, SawEmpty(t) PROVE SawEmpty(t)'
<1>1. /\ UNCHANGED <<rx, pc, seen>> /\ UNCHANGED Fill(rx)
      /\ events' \in {events, FlagPost(events, {"TIMEOUT"})}
  BY DEF Alarm, taskVars, readVars
<1>2. {"TIMEOUT"} \in SUBSET Flag /\ "READ_RDY" \notin {"TIMEOUT"}
  BY DEF Flag
<1> QED
  BY <1>1, <1>2, SawEmptyStays, PostTellsOfReading

LEMMA ReadSawEmpty ==
  ASSUME IInv, NEW u \in Tasks, ReadCall(u) \/ Reads(u),
         NEW t \in Tasks, SawEmpty(t)
  PROVE  SawEmpty(t)'
<1>1. /\ DOMAIN pc = Tasks /\ events \in GroupType(Tasks, Flag)
      /\ rx \in Ring /\ space[u] \in Nat /\ BufLen \in Nat /\ BufLen >= 2
  BY Types, JtagUartAssumption DEF JtagUartAssumption
<1>2. CASE ReadCall(u) \/ ReadLock(u) \/ ReadEnable(u)
  <2>1. UNCHANGED <<rx, seen, events>>
    BY <1>2 DEF ReadCall, ReadLock, ReadEnable, readVars
  <2>2. pc'[t] \in {"rd_pend", "rd_wait"} => pc'[t] = pc[t]
    BY <1>1, <1>2 DEF ReadCall, ReadLock, ReadEnable, ReadStep, Step
  <2> QED
    BY <2>1, <2>2, SawEmptyStays
<1>3. ASSUME pc[u] \in InRead, pc' = [pc EXCEPT ![u] = pc'[u]], t # u
      PROVE  SawEmpty(t)'
  BY <1>1, <1>3 DEF IInv, Locks, SawEmpty, InRead
<1>4. CASE ReadCopy(u)
  <2>1. pc[u] \in InRead /\ pc' = [pc EXCEPT ![u] = pc'[u]]
    BY <1>1, <1>4 DEF ReadCopy, ReadStep, Step, InRead
  <2>2. ASSUME pc'[u] \in {"rd_pend", "rd_wait"}
        PROVE  pc'[u] = "rd_pend" /\ seen' = rx'.out
    <3>1. pc'[u] = "rd_pend" /\ ~(Least(Available(rx), space[u]) > 0)
      BY <1>1, <1>4, <2>2 DEF ReadCopy, ReadStep, Step
    <3>2. space[u] > 0
      BY <1>4 DEF IInv, Reading, ReadingOf, ReadPc, ReadCopy, ReadStep, Step
    <3>3. rx.in \in 0..BufLen - 1 /\ rx.out \in 0..BufLen - 1
      BY <1>1 DEF Ring, Slot
    <3>4. rx.in = rx.out
      BY <1>1, <3>1, <3>2, <3>3 DEF Least, Available
    <3> QED
      BY <1>4, <3>1, <3>4 DEF ReadCopy
  <2> QED
    BY <1>3, <2>1, <2>2 DEF SawEmpty
<1>5. CASE ReadOut(u) \/ ReadWakes(u) \/ ReadCheck(u) \/ ReadUnlock(u)
  <2>1. /\ pc[u] \in InRead /\ pc' = [pc EXCEPT ![u] = pc'[u]]
        /\ pc'[u] \notin {"rd_pend", "rd_wait"}
    BY <1>1, <1>5 DEF ReadOut, ReadWakes, ReadCheck, ReadUnlock, ReadStep, Step, InRead
  <2> QED
    BY <1>3, <2>1 DEF SawEmpty
<1>6. CASE ReadPend(u)
  <2>1. /\ pc[u] = "rd_pend" /\ pc[u] \in InRead
        /\ pc' = [pc EXCEPT ![u] = pc'[u]] /\ UNCHANGED <<rx, seen>>
        /\ events' \in {FlagTake(events, ReadFlags), FlagBlock(events, u, ReadFlags)}
    BY <1>1, <1>6 DEF ReadPend, ReadStep, Step, InRead, readVars
  <2>2. events.rdy' = events.rdy
    <3>1. ReadFlags \in SUBSET Flag
      BY DEF ReadFlags, Flag
    <3>2. FlagTake(events, ReadFlags).rdy = events.rdy
      BY <1>1, <3>1, Takes
    <3>3. FlagBlock(events, u, ReadFlags).rdy = events.rdy
      BY <1>1 DEF GroupType, FlagBlock
    <3> QED
      BY <2>1, <3>2, <3>3
  <2>3. events.rdy[u] = {}
    BY <2>1 DEF IInv, GroupExact, WaitFlags
  <2> QED
    BY <1>3, <2>1, <2>2, <2>3 DEF SawEmpty
<1> QED
  BY <1>2, <1>4, <1>5, <1>6 DEF Reads

LEMMA WriteSawEmpty ==
  ASSUME IInv, NEW u \in Tasks, WriteCall(u) \/ Writes(u),
         NEW t \in Tasks, SawEmpty(t)
  PROVE  SawEmpty(t)'
<1>1. DOMAIN pc = Tasks /\ events \in GroupType(Tasks, Flag)
  BY Types
<1>2. UNCHANGED <<rx, seen>> /\ UNCHANGED Fill(rx)
  BY DEF Writes, WriteCall, WriteLock, WriteCopy, WriteIn, WriteKick, WritePend,
     WriteWakes, WriteCheck, WriteUnlock, WriteStep, readVars
<1>3. pc'[t] \in {"rd_pend", "rd_wait"} => pc'[t] = pc[t]
  BY <1>1 DEF Writes, WriteCall, WriteLock, WriteCopy, WriteIn, WriteKick, WritePend,
     WriteWakes, WriteCheck, WriteUnlock, WriteStep, Step
<1>4. /\ pc[u] \notin {"rd_pend", "rd_wait"} /\ pc'[u] \notin {"rd_pend", "rd_wait"}
      /\ events' \in {events, FlagTake(events, WriteFlags),
                      FlagBlock(events, u, WriteFlags), FlagResume(events, u)}
  BY <1>1 DEF Writes, WriteCall, WriteLock, WriteCopy, WriteIn, WriteKick, WritePend,
     WriteWakes, WriteCheck, WriteUnlock, WriteStep, Step
<1>5. events.rdy' \in {events.rdy, [events.rdy EXCEPT ![u] = {}]}
  <2>1. WriteFlags \in SUBSET Flag
    BY DEF WriteFlags, Flag
  <2>2. FlagTake(events, WriteFlags).rdy = events.rdy
    BY <1>1, <2>1, Takes
  <2>3. FlagBlock(events, u, WriteFlags).rdy = events.rdy
    BY <1>1 DEF GroupType, FlagBlock
  <2>4. FlagResume(events, u).rdy = [events.rdy EXCEPT ![u] = {}]
    BY <1>1, Resumes
  <2> QED
    BY <1>4, <2>2, <2>3, <2>4
<1>6. CASE t = u
  BY <1>4, <1>6 DEF SawEmpty
<1>7. CASE t # u
  <2>1. events.rdy'[t] = events.rdy[t]
    BY <1>1, <1>5, <1>7 DEF GroupType
  <2> QED
    BY <1>2, <1>3, <2>1, SawEmptyStays
<1> QED
  BY <1>6, <1>7

\* A read woken by a character does not give up.
THEOREM WokenReadsGoOn == Spec => []WokenReadGoesOn
<1> DEFINE Saw == \A t \in Tasks : SawEmpty(t)
<1>1. Init => Saw
  BY DEF Init, SawEmpty
<1>2. IInv /\ Saw /\ [Next]_vars => Saw'
  <2> SUFFICES ASSUME IInv, [Next]_vars, NEW t \in Tasks, SawEmpty(t) PROVE SawEmpty(t)'
    OBVIOUS
  <2>1. CASE (\E b \in Byte : HostSends(b)) \/ HostPauses \/ HostFetches \/ UNCHANGED vars
    <3>1. UNCHANGED <<rx, seen, events, pc>> /\ UNCHANGED Fill(rx)
      BY <2>1 DEF HostSends, HostPauses, HostFetches, vars, taskVars, readVars
    <3> QED
      BY <3>1, SawEmptyStays
  <2> QED
    BY <2>1, IsrSawEmpty, AlarmSawEmpty, ReadSawEmpty, WriteSawEmpty DEF Next
<1>3. IInv /\ Saw => WokenReadGoesOn
  <2> SUFFICES ASSUME IInv, NEW t \in Tasks, SawEmpty(t), pc[t] = "rd_wait",
                      events.rdy[t] = {"READ_RDY"}
               PROVE  seen # rx.in
    BY DEF WokenReadGoesOn
  <2>1. rx \in Ring /\ BufLen \in Nat /\ BufLen >= 2
    BY JtagUartAssumption DEF IInv, TypeOK, Ring, JtagUartAssumption
  <2>2. Fill(rx) > 0 /\ seen = rx.out
    BY DEF SawEmpty
  <2>3. rx.in \in 0..BufLen - 1 /\ rx.out \in 0..BufLen - 1
    BY <2>1 DEF Ring, Slot
  <2>4. rx.in # rx.out
    BY <2>1, <2>2, <2>3, FillCases
  <2> QED
    BY <2>2, <2>4
<1> HIDE DEF Saw
<1> QED
  BY <1>1, <1>2, <1>3, InitIInv, Inductive, PTL DEF Spec

-----------------------------------------------------------------------------
(* Either direction is a pipe.  Every step of the driver, the device and    *)
(* the host is a step of BytePipe or leaves the pipe as it is.              *)

\* The two parts of a sequence.
LEMMA Splits ==
  ASSUME NEW p \in Seq(Byte), NEW q \in Seq(Byte)
  PROVE  /\ p \o q \in Seq(Byte) /\ Len(p \o q) = Len(p) + Len(q)
         /\ SubSeq(p \o q, 1, Len(p)) = p
         /\ SubSeq(p \o q, Len(p) + 1, Len(p \o q)) = q
<1> DEFINE s == p \o q
           m == Len(p)
           n == Len(q)
           a == SubSeq(s, 1, m)
           b == SubSeq(s, m + 1, m + n)
<1>1. /\ m \in Nat /\ n \in Nat /\ s \in Seq(Byte) /\ Len(s) = m + n
      /\ \A i \in 1..m + n : s[i] = IF i <= m THEN p[i] ELSE q[i - m]
  BY ConcatProperties
<1> HIDE DEF s
<1>2. \A i \in 1..m + n : s[i] \in Byte
  BY <1>1
<1> HIDE DEF m, n
<1>3. a \in Seq(Byte) /\ Len(a) = m /\ \A i \in 1..m : a[i] = p[i]
  <2>1. \A i \in 1..m : s[i] \in Byte
    BY <1>1, <1>2
  <2>2. /\ a \in Seq(Byte) /\ Len(a) = IF 1 <= m THEN m - 1 + 1 ELSE 0
        /\ \A i \in 1..m - 1 + 1 : a[i] = s[1 + i - 1]
    BY <1>1, <2>1, SubSeqProperties
  <2>3. m - 1 + 1 = m /\ (~(1 <= m) => m = 0) /\ \A i \in 1..m : 1 + i - 1 = i
    BY <1>1
  <2>4. \A i \in 1..m : s[i] = p[i]
    BY <1>1
  <2> HIDE DEF a
  <2> QED
    BY <2>2, <2>3, <2>4
<1>4. b \in Seq(Byte) /\ Len(b) = n /\ \A i \in 1..n : b[i] = q[i]
  <2>1. \A i \in m + 1..m + n : s[i] \in Byte
    BY <1>1, <1>2
  <2>2. /\ b \in Seq(Byte)
        /\ Len(b) = IF m + 1 <= m + n THEN m + n - (m + 1) + 1 ELSE 0
        /\ \A i \in 1..m + n - (m + 1) + 1 : b[i] = s[m + 1 + i - 1]
    BY <1>1, <2>1, SubSeqProperties
  <2>3. m + n - (m + 1) + 1 = n /\ (~(m + 1 <= m + n) => n = 0)
    BY <1>1
  <2>4. \A i \in 1..n : s[m + 1 + i - 1] = q[i]
    <3> SUFFICES ASSUME NEW i \in 1..n PROVE s[m + 1 + i - 1] = q[i]
      OBVIOUS
    <3>1. m + 1 + i - 1 \in 1..m + n /\ ~(m + 1 + i - 1 <= m)
          /\ (m + 1 + i - 1) - m = i
      BY <1>1
    <3> QED
      BY <1>1, <3>1
  <2> HIDE DEF b
  <2> QED
    BY <2>2, <2>3, <2>4
<1> HIDE DEF a, b
<1>5. a = p /\ b = q
  BY <1>3, <1>4, SeqEqual DEF m, n
<1> QED
  BY <1>1, <1>5 DEF a, b, s, m, n

\* The call in progress, if there is one, is the only one.
LEMMA CollectedIs ==
  ASSUME Locks, NEW t \in Tasks, pc[t] \in InRead PROVE Collected = got[t]
<1>1. \A u \in Tasks : pc[u] \in InRead => u = t
  BY DEF Locks
<1>2. (CHOOSE u \in Tasks : pc[u] \in InRead) = t
  BY <1>1
<1>3. (\E u \in Tasks : pc[u] \in InRead /\ got[u] # <<>>) <=> got[t] # <<>>
  BY <1>1
<1> QED
  BY <1>2, <1>3 DEF Collected

LEMMA OfferedIs ==
  ASSUME Locks, NEW t \in Tasks, pc[t] \in InWrite PROVE Offered = todo[t]
<1>1. \A u \in Tasks : pc[u] \in InWrite => u = t
  BY DEF Locks
<1>2. (CHOOSE u \in Tasks : pc[u] \in InWrite) = t
  BY <1>1
<1>3. (\E u \in Tasks : pc[u] \in InWrite /\ todo[u] # <<>>) <=> todo[t] # <<>>
  BY <1>1
<1> QED
  BY <1>1, <1>2, <1>3 DEF Offered

LEMMA NobodyCollects ==
  (\A t \in Tasks : pc[t] \notin InRead) => Collected = <<>>
BY DEF Collected

LEMMA NobodyOffers ==
  (\A t \in Tasks : pc[t] \notin InWrite) => Offered = <<>>
BY DEF Offered

LEMMA CollectedSame ==
  ASSUME Locks, Locks',
         \A t \in Tasks : /\ pc'[t] \in InRead <=> pc[t] \in InRead
                          /\ pc[t] \in InRead => got'[t] = got[t]
  PROVE  Collected' = Collected
<1>1. CASE \E t \in Tasks : pc[t] \in InRead
  <2>1. PICK t \in Tasks : pc[t] \in InRead
    BY <1>1
  <2>2. Collected = got[t]
    BY <2>1, CollectedIs
  <2>3. Collected' = got'[t]
    <3>1. \A u \in Tasks : pc'[u] \in InRead => u = t
      BY <2>1 DEF Locks
    <3>2. (CHOOSE u \in Tasks : pc'[u] \in InRead) = t
      BY <2>1, <3>1
    <3>3. (\E u \in Tasks : pc'[u] \in InRead /\ got'[u] # <<>>) <=> got'[t] # <<>>
      BY <2>1, <3>1
    <3> QED
      BY <3>2, <3>3 DEF Collected
  <2> QED
    BY <2>1, <2>2, <2>3
<1>2. CASE \A t \in Tasks : pc[t] \notin InRead
  BY <1>2, NobodyCollects DEF Collected
<1> QED
  BY <1>1, <1>2

LEMMA OfferedSame ==
  ASSUME Locks, Locks',
         \A t \in Tasks : /\ pc'[t] \in InWrite <=> pc[t] \in InWrite
                          /\ pc[t] \in InWrite => todo'[t] = todo[t]
  PROVE  Offered' = Offered
<1>1. CASE \E t \in Tasks : pc[t] \in InWrite
  <2>1. PICK t \in Tasks : pc[t] \in InWrite
    BY <1>1
  <2>2. Offered = todo[t]
    BY <2>1, OfferedIs
  <2>3. Offered' = todo'[t]
    <3>1. \A u \in Tasks : pc'[u] \in InWrite => u = t
      BY <2>1 DEF Locks
    <3>2. (CHOOSE u \in Tasks : pc'[u] \in InWrite) = t
      BY <2>1, <3>1
    <3>3. (\E u \in Tasks : pc'[u] \in InWrite /\ todo'[u] # <<>>)
            <=> todo'[t] # <<>>
      BY <2>1, <3>1
    <3> QED
      BY <2>1, <3>1, <3>2, <3>3 DEF Offered
  <2> QED
    BY <2>1, <2>2, <2>3
<1>2. CASE \A t \in Tasks : pc[t] \notin InWrite
  BY <1>2, NobodyOffers DEF Offered
<1> QED
  BY <1>1, <1>2

\* The steps of one call do not show at the other call's end.
LEMMA ReadStepOffers ==
  ASSUME IInv, IInv', NEW t \in Tasks, NEW from, NEW to, ReadStep(t, from, to),
         from \in ReadPc \cup {"idle"}, to \in ReadPc \cup {"idle"}
  PROVE  Offered' = Offered
<1>1. /\ pc' = [pc EXCEPT ![t] = to] /\ pc[t] = from /\ todo' = todo
      /\ Locks /\ Locks'
  BY DEF ReadStep, Step, writeVars, IInv
<1>2. \A u \in Tasks : pc'[u] \in InWrite <=> pc[u] \in InWrite
  BY <1>1, Types DEF ReadPc, InWrite
<1> QED
  BY <1>1, <1>2, OfferedSame

LEMMA WriteStepCollects ==
  ASSUME IInv, IInv', NEW t \in Tasks, NEW from, NEW to, WriteStep(t, from, to),
         from \in WritePc \cup {"idle"}, to \in WritePc \cup {"idle"}
  PROVE  Collected' = Collected
<1>1. /\ pc' = [pc EXCEPT ![t] = to] /\ pc[t] = from /\ got' = got
      /\ Locks /\ Locks'
  BY DEF WriteStep, Step, readVars, IInv
<1>2. \A u \in Tasks : pc'[u] \in InRead <=> pc[u] \in InRead
  BY <1>1, Types DEF WritePc, InRead
<1> QED
  BY <1>1, <1>2, CollectedSame

\* The steps of a call that move no character and keep the lock.
LEMMA ReadStepCollects ==
  ASSUME IInv, IInv', NEW t \in Tasks, NEW from, NEW to, ReadStep(t, from, to),
         from \in InRead <=> to \in InRead, got' = got
  PROVE  Collected' = Collected
<1>1. /\ pc' = [pc EXCEPT ![t] = to] /\ pc[t] = from /\ Locks /\ Locks'
  BY DEF ReadStep, Step, IInv
<1>2. \A u \in Tasks : pc'[u] \in InRead <=> pc[u] \in InRead
  BY <1>1, Types
<1> QED
  BY <1>1, <1>2, CollectedSame

LEMMA WriteStepOffers ==
  ASSUME IInv, IInv', NEW t \in Tasks, NEW from, NEW to, WriteStep(t, from, to),
         from \in InWrite <=> to \in InWrite, todo' = todo
  PROVE  Offered' = Offered
<1>1. /\ pc' = [pc EXCEPT ![t] = to] /\ pc[t] = from /\ Locks /\ Locks'
  BY DEF WriteStep, Step, IInv
<1>2. \A u \in Tasks : pc'[u] \in InWrite <=> pc[u] \in InWrite
  BY <1>1, Types
<1> QED
  BY <1>1, <1>2, OfferedSame

\* The characters of the two pipes, and how many there can be.
LEMMA PipeFacts ==
  ASSUME IInv
  PROVE  /\ rfifo \in Seq(Byte) /\ wfifo \in Seq(Byte)
         /\ Contents(rx) \in Seq(Byte) /\ Contents(tx) \in Seq(Byte)
         /\ InputPipe \in Seq(Byte) /\ OutputPipe \in Seq(Byte)
         /\ Len(InputPipe) = Fill(rx) + Len(rfifo)
         /\ Len(OutputPipe) = Len(wfifo) + Fill(tx)
         /\ Len(rfifo) \in 0..FifoLen /\ Len(wfifo) \in 0..FifoLen
         /\ Fill(rx) \in 0..BufLen - 1 /\ Fill(tx) \in 0..BufLen - 1
<1>1. /\ rfifo \in Seq(Byte) /\ wfifo \in Seq(Byte)
      /\ Len(rfifo) \in 0..FifoLen /\ Len(wfifo) \in 0..FifoLen
  BY JtagUartAssumption DEF JtagUartAssumption, IInv, TypeOK
<1>2. /\ Contents(rx) \in Seq(Byte) /\ Contents(tx) \in Seq(Byte)
      /\ Len(Contents(rx)) = Fill(rx) /\ Len(Contents(tx)) = Fill(tx)
      /\ Fill(rx) \in 0..BufLen - 1 /\ Fill(tx) \in 0..BufLen - 1
  BY Types, ContentsAreSeq, FillCases
<1> QED
  BY <1>1, <1>2, ConcatProperties DEF InputPipe, OutputPipe

\* Characters that the handler passes on stay in the pipe.
LEMMA IsrPasses ==
  ASSUME IInv, IInv', Isr
  PROVE  /\ InputPipe' = InputPipe /\ OutputPipe' = OutputPipe
         /\ Collected' = Collected /\ Offered' = Offered
<1> DEFINE s == SubSeq(rfifo, 1, Received)
           r == SubSeq(rfifo, Received + 1, Len(rfifo))
           w == SubSeq(Contents(tx), 1, Sent)
<1>1. TypeOK /\ TypeOK' /\ Locks /\ Locks'
  BY DEF IInv
<1>2. /\ s \in Seq(Byte) /\ r \in Seq(Byte) /\ s \o r = rfifo
      /\ w \in Seq(Byte) /\ rfifo' = r /\ wfifo' = wfifo \o w
  BY <1>1, ReceivedFacts, SentFacts DEF Isr
<1>3. /\ Contents(rx)' = Contents(rx) \o s
      /\ Contents(tx) = w \o Contents(tx)' /\ tx' \in Ring
  BY <1>1, IsrRings
<1>4. Contents(tx)' \in Seq(Byte)
  BY <1>3, ContentsAreSeq
<1>5. Contents(rx) \in Seq(Byte) /\ wfifo \in Seq(Byte)
  BY PipeFacts
<1> HIDE DEF s, r, w
<1>6. InputPipe' = InputPipe
  <2>1. (Contents(rx) \o s) \o r = Contents(rx) \o (s \o r)
    <3>1. s \in Seq(Byte) /\ r \in Seq(Byte) /\ Contents(rx) \in Seq(Byte)
      BY <1>2, <1>5
    <3> QED
      BY <3>1, ConcatAssociative
  <2> QED
    BY <1>2, <1>3, <2>1 DEF InputPipe
<1>7. OutputPipe' = OutputPipe
  <2>1. (wfifo \o w) \o Contents(tx)' = wfifo \o (w \o Contents(tx)')
    <3> DEFINE c == Contents(tx)'
    <3>1. w \in Seq(Byte) /\ c \in Seq(Byte) /\ wfifo \in Seq(Byte)
      BY <1>2, <1>4, <1>5
    <3> HIDE DEF c
    <3>2. (wfifo \o w) \o c = wfifo \o (w \o c)
      BY <3>1, ConcatAssociative
    <3> QED
      BY <3>2 DEF c
  <2> QED
    BY <1>2, <1>3, <2>1 DEF OutputPipe
<1>8. pc' = pc /\ got' = got /\ todo' = todo
  BY DEF Isr, taskVars, readVars, writeVars
<1> QED
  BY <1>1, <1>6, <1>7, <1>8, CollectedSame, OfferedSame

InputStep == [In!PipeNext]_(In!pipeVars)
OutputStep == [Out!PipeNext]_(Out!pipeVars)

LEMMA InputStays ==
  ASSUME InputPipe' = InputPipe, Collected' = Collected PROVE InputStep
BY DEF InputStep, In!pipeVars

LEMMA OutputStays ==
  ASSUME OutputPipe' = OutputPipe, Offered' = Offered PROVE OutputStep
BY DEF OutputStep, Out!pipeVars

\* The host's end.
LEMMA HostSendsPipe ==
  ASSUME IInv, IInv', NEW b \in Byte, HostSends(b) PROVE InputStep /\ OutputStep
<1>1. /\ rfifo' = Append(rfifo, b) /\ Len(rfifo) < FifoLen
      /\ UNCHANGED <<wfifo, rx, tx, pc, got, todo>>
  BY DEF HostSends, taskVars, readVars, writeVars
<1>2. Contents(rx)' = Contents(rx) /\ OutputPipe' = OutputPipe
  BY <1>1 DEF OutputPipe
<1>3. Collected' = Collected /\ Offered' = Offered
  BY <1>1, CollectedSame, OfferedSame DEF IInv
<1>4. InputPipe' = Append(InputPipe, b)
  <2>1. /\ <<b>> \in Seq(Byte) /\ rfifo \in Seq(Byte)
        /\ Contents(rx) \in Seq(Byte) /\ InputPipe \in Seq(Byte)
    BY PipeFacts
  <2>2. Append(rfifo, b) = rfifo \o <<b>> /\ Append(InputPipe, b) = InputPipe \o <<b>>
    BY <2>1, AppendIsConcat
  <2>3. (Contents(rx) \o rfifo) \o <<b>> = Contents(rx) \o (rfifo \o <<b>>)
    BY <2>1, ConcatAssociative
  <2> QED
    BY <1>1, <1>2, <2>2, <2>3 DEF InputPipe
<1>5. Len(InputPipe) < FifoLen + BufLen - 1
  BY <1>1, PipeFacts, JtagUartAssumption DEF JtagUartAssumption
<1>6. In!HostPuts
  BY <1>3, <1>4, <1>5 DEF In!HostPuts
<1> QED
  BY <1>2, <1>3, <1>6, OutputStays DEF InputStep, In!PipeNext

LEMMA HostFetchesPipe ==
  ASSUME IInv, IInv', HostFetches PROVE InputStep /\ OutputStep
<1>1. /\ wfifo # <<>> /\ wfifo' = Tail(wfifo)
      /\ UNCHANGED <<rfifo, rx, tx, pc, got, todo>>
  BY DEF HostFetches, taskVars, readVars, writeVars
<1>2. Contents(tx)' = Contents(tx) /\ InputPipe' = InputPipe
  BY <1>1 DEF InputPipe
<1>3. Collected' = Collected /\ Offered' = Offered
  BY <1>1, CollectedSame, OfferedSame DEF IInv
<1> DEFINE c == Contents(tx)
           h == <<Head(wfifo)>>
           q == Tail(wfifo)
<1>4. wfifo \in Seq(Byte) /\ c \in Seq(Byte)
  BY PipeFacts
<1>5. /\ h \in Seq(Byte) /\ Len(h) = 1 /\ q \in Seq(Byte) /\ wfifo = h \o q
  <2>1. /\ h \in Seq(Byte) /\ Len(h) = 1 /\ h[1] = Head(wfifo)
        /\ Head(wfifo) = wfifo[1]
    BY <1>1, <1>4, HeadTailProperties
  <2>2. /\ q \in Seq(Byte) /\ Len(q) = Len(wfifo) - 1
        /\ \A i \in 1..Len(q) : q[i] = wfifo[i + 1]
    BY <1>1, <1>4, HeadTailProperties
  <2> HIDE DEF h, q
  <2>3. /\ h \o q \in Seq(Byte) /\ Len(h \o q) = Len(wfifo)
        /\ \A i \in 1..Len(wfifo) :
             (h \o q)[i] = IF i <= 1 THEN h[i] ELSE q[i - 1]
    <3>1. Len(wfifo) \in Nat /\ Len(h) + Len(q) = Len(wfifo)
      BY <1>4, <2>1, <2>2
    <3>2. h \in Seq(Byte) /\ q \in Seq(Byte)
      BY <2>1, <2>2
    <3>3. /\ h \o q \in Seq(Byte) /\ Len(h \o q) = Len(h) + Len(q)
          /\ \A i \in 1..Len(h) + Len(q) :
               (h \o q)[i] = IF i <= Len(h) THEN h[i] ELSE q[i - Len(h)]
      BY <3>2, ConcatProperties
    <3> QED
      BY <2>1, <3>1, <3>3
  <2>4. \A i \in 1..Len(wfifo) : (h \o q)[i] = wfifo[i]
    <3> SUFFICES ASSUME NEW i \in 1..Len(wfifo) PROVE (h \o q)[i] = wfifo[i]
      OBVIOUS
    <3>1. CASE i <= 1
      <4>1. i = 1
        BY <1>4, <3>1
      <4> QED
        BY <2>1, <2>3, <4>1
    <3>2. CASE ~(i <= 1)
      <4>1. i - 1 \in 1..Len(q) /\ (i - 1) + 1 = i
        BY <1>4, <2>2, <3>2
      <4> QED
        BY <2>2, <2>3, <3>2, <4>1
    <3> QED
      BY <3>1, <3>2
  <2>5. wfifo = h \o q
    BY <1>4, <2>3, <2>4, SeqEqual
  <2> QED
    BY <2>1, <2>2, <2>5
<1> HIDE DEF c, h, q
<1>6. OutputPipe = h \o (q \o c) /\ OutputPipe' = q \o c
  <2>1. h \in Seq(Byte) /\ q \in Seq(Byte) /\ c \in Seq(Byte)
    BY <1>4, <1>5
  <2>2. (h \o q) \o c = h \o (q \o c)
    BY <2>1, ConcatAssociative
  <2>3. OutputPipe = wfifo \o c /\ OutputPipe' = q \o c
    BY <1>1, <1>2 DEF OutputPipe, c, q
  <2> QED
    BY <1>5, <2>2, <2>3
<1>7. q \o c \in Seq(Byte)
  BY <1>4, <1>5, ConcatProperties
<1>8. /\ OutputPipe \in Seq(Byte) /\ Len(OutputPipe) = 1 + Len(q \o c)
      /\ SubSeq(OutputPipe, 2, Len(OutputPipe)) = q \o c
  <2> DEFINE d == q \o c
  <2>1. h \in Seq(Byte) /\ d \in Seq(Byte) /\ OutputPipe = h \o d
    BY <1>5, <1>6, <1>7
  <2> HIDE DEF d
  <2>2. /\ h \o d \in Seq(Byte) /\ Len(h \o d) = Len(h) + Len(d)
        /\ SubSeq(h \o d, Len(h) + 1, Len(h \o d)) = d
    BY <2>1, Splits
  <2>3. Len(h) = 1 /\ Len(h) + 1 = 2
    BY <1>5
  <2> QED
    BY <2>1, <2>2, <2>3 DEF d
<1>9. OutputPipe # <<>>
  BY <1>7, <1>8, EmptySeq
<1>10. Tail(OutputPipe) = q \o c
  BY <1>8, <1>9, TailIsSubSeq
<1>11. Out!HostTakes
  BY <1>3, <1>6, <1>9, <1>10 DEF Out!HostTakes
<1> QED
  BY <1>2, <1>3, <1>11, InputStays DEF OutputStep, Out!PipeNext

\* The steps of read.
LEMMA ReadOutTakes ==
  ASSUME IInv, IInv', NEW t \in Tasks, ReadOut(t) PROVE InputStep
<1> DEFINE n == Len(chunk)
           c == Contents(rx)'
           to == IF space[t] > n THEN "rd_copy" ELSE "rd_unlock"
<1>1. /\ ReadStep(t, "rd_out", to) /\ to \in InRead
      /\ got' = [got EXCEPT ![t] = got[t] \o chunk]
      /\ rx' = MoveOut(rx, n) /\ rfifo' = rfifo
  BY DEF ReadOut, ReadStep, deviceVars, InRead
<1>2. pc[t] = "rd_out" /\ pc'[t] \in InRead /\ got'[t] = got[t] \o chunk
  BY <1>1, Types DEF ReadStep, Step
<1>3. /\ n \in 1..Fill(rx) /\ chunk = SubSeq(Contents(rx), 1, n)
      /\ chunk \in Seq(Byte) /\ rfifo \in Seq(Byte)
  <2>1. ReadingOf(t)
    BY DEF IInv, Reading
  <2> QED
    BY <1>2, <2>1, PipeFacts, Types DEF ReadingOf
<1>4. Contents(rx) = chunk \o c /\ c \in Seq(Byte)
  <2>1. n \in 0..Fill(rx)
    BY <1>3, Types, FillCases
  <2>2. rx' \in Ring
    BY <1>1, <2>1, Types, MovesOut
  <2> QED
    BY <1>1, <1>3, <2>1, <2>2, Types, MovedOutContents, ContentsAreSeq
<1> DEFINE q == c \o rfifo
<1>5. InputPipe' = q /\ q \in Seq(Byte) /\ InputPipe = chunk \o q
  <2>1. InputPipe' = q /\ InputPipe = (chunk \o c) \o rfifo
    BY <1>1, <1>4 DEF InputPipe
  <2> HIDE DEF c
  <2>2. chunk \in Seq(Byte) /\ c \in Seq(Byte) /\ rfifo \in Seq(Byte)
    BY <1>3, <1>4
  <2>3. (chunk \o c) \o rfifo = chunk \o q /\ q \in Seq(Byte)
    BY <2>2, ConcatAssociative, ConcatProperties
  <2> QED
    BY <2>1, <2>3
<1> HIDE DEF q, c
<1>6. /\ Len(InputPipe) = n + Len(q) /\ SubSeq(InputPipe, 1, n) = chunk
      /\ SubSeq(InputPipe, n + 1, Len(InputPipe)) = q
  BY <1>3, <1>5, Splits
<1>7. n \in 1..Len(InputPipe)
  <2>1. n \in Nat /\ n >= 1 /\ Len(q) \in Nat
    BY <1>3, <1>5
  <2> HIDE DEF n
  <2> QED
    BY <1>6, <2>1
<1>8. Collected = got[t] /\ Collected' = got'[t]
  <2>1. Locks /\ Locks' /\ pc[t] \in InRead
    BY <1>2 DEF IInv, InRead
  <2>2. Collected = got[t]
    BY <2>1, CollectedIs
  <2>3. \A u \in Tasks : pc'[u] \in InRead => u = t
    BY <1>2, <2>1 DEF Locks
  <2>4. (CHOOSE u \in Tasks : pc'[u] \in InRead) = t
    BY <1>2, <2>3
  <2>5. (\E u \in Tasks : pc'[u] \in InRead /\ got'[u] # <<>>) <=> got'[t] # <<>>
    BY <1>2, <2>3
  <2>6. Collected' = got'[t]
    BY <2>4, <2>5 DEF Collected
  <2> QED
    BY <2>2, <2>6
<1>9. In!Take
  <2>1. Collected' = Collected \o SubSeq(InputPipe, 1, n)
    BY <1>2, <1>6, <1>8
  <2>2. InputPipe' = SubSeq(InputPipe, n + 1, Len(InputPipe))
    BY <1>5, <1>6
  <2> HIDE DEF n
  <2> QED
    BY <1>7, <2>1, <2>2 DEF In!Take
<1> QED
  BY <1>9 DEF InputStep, In!PipeNext

LEMMA ReadStepsPipe ==
  ASSUME IInv, IInv', NEW t \in Tasks, ReadCall(t) \/ Reads(t)
  PROVE  InputStep /\ OutputStep
<1>1. ASSUME NEW from \in ReadPc \cup {"idle"}, NEW to \in ReadPc \cup {"idle"},
             ReadStep(t, from, to)
      PROVE  OutputStep
  <2>1. OutputPipe' = OutputPipe
    BY <1>1 DEF ReadStep, deviceVars, OutputPipe
  <2> QED
    BY <1>1, <2>1, ReadStepOffers, OutputStays
<1>2. ASSUME NEW from, NEW to, ReadStep(t, from, to),
             from \in InRead <=> to \in InRead, got' = got, rx' = rx
      PROVE  InputStep
  <2>1. InputPipe' = InputPipe
    BY <1>2 DEF ReadStep, deviceVars, InputPipe
  <2> QED
    BY <1>2, <2>1, ReadStepCollects, InputStays
<1>3. CASE ReadCall(t)
  BY <1>1, <1>2, <1>3 DEF ReadCall, ReadPc, InRead
<1>4. CASE ReadLock(t)
  <2>1. /\ ReadStep(t, "rd_lock", "rd_copy") /\ readLock > 0
        /\ got' = got /\ rx' = rx
    BY <1>4 DEF ReadLock, readVars
  <2>2. pc[t] = "rd_lock" /\ pc'[t] = "rd_copy" /\ got[t] = <<>>
    <3>1. ReadingOf(t)
      BY DEF IInv, Reading
    <3> QED
      BY <2>1, <3>1, Types DEF ReadStep, Step, ReadingOf, InRead
  <2>3. Collected = <<>>
    <3>1. \A u \in Tasks : pc[u] \notin InRead
      BY <2>1, Types DEF IInv, Locks
    <3> QED
      BY <3>1, NobodyCollects
  <2>4. Collected' = <<>>
    <3>1. \A u \in Tasks : pc'[u] \in InRead => u = t
      BY <2>2 DEF IInv, Locks, InRead
    <3> QED
      BY <2>1, <2>2, <3>1 DEF Collected
  <2>5. InputPipe' = InputPipe
    BY <2>1 DEF ReadStep, deviceVars, InputPipe
  <2>6. OutputStep
    BY <1>1, <2>1 DEF ReadPc
  <2> QED
    BY <2>3, <2>4, <2>5, <2>6, InputStays
<1>5. CASE ReadCopy(t)
  <2> DEFINE n == Least(Available(rx), space[t])
             to == IF n > 0 THEN "rd_out" ELSE IF got[t] # <<>> THEN "rd_unlock"
                   ELSE "rd_pend"
  <2>1. ReadStep(t, "rd_copy", to) /\ got' = got /\ rx' = rx
    BY <1>5 DEF ReadCopy
  <2>2. to \in InRead /\ to \in ReadPc
    BY DEF InRead, ReadPc
  <2> HIDE DEF to
  <2> QED
    BY <1>1, <1>2, <2>1, <2>2 DEF ReadPc, InRead
<1>6. CASE ReadOut(t)
  <2> DEFINE to == IF space[t] > Len(chunk) THEN "rd_copy" ELSE "rd_unlock"
  <2>1. ReadStep(t, "rd_out", to) /\ to \in ReadPc
    BY <1>6 DEF ReadOut, ReadPc
  <2> HIDE DEF to
  <2> QED
    BY <1>1, <1>6, <2>1, ReadOutTakes DEF ReadPc
<1>7. CASE ReadPend(t)
  <2>1. PICK to \in {"rd_check", "rd_wait"} : ReadStep(t, "rd_pend", to)
    BY <1>7 DEF ReadPend
  <2>2. got' = got /\ rx' = rx
    BY <1>7 DEF ReadPend, readVars
  <2> QED
    BY <1>1, <1>2, <2>1, <2>2 DEF ReadPc, InRead
<1>8. CASE ReadWakes(t)
  BY <1>1, <1>2, <1>8 DEF ReadWakes, readVars, ReadPc, InRead
<1>9. CASE ReadCheck(t)
  <2>1. PICK to \in {"rd_unlock", "rd_copy"} : ReadStep(t, "rd_check", to)
    BY <1>9 DEF ReadCheck
  <2>2. got' = got /\ rx' = rx
    BY <1>9 DEF ReadCheck, readVars
  <2> QED
    BY <1>1, <1>2, <2>1, <2>2 DEF ReadPc, InRead
<1>10. CASE ReadUnlock(t)
  <2>1. PICK to \in {"rd_enable", "idle"} : ReadStep(t, "rd_unlock", to)
    BY <1>10 DEF ReadUnlock
  <2>2. got' = got /\ rx' = rx
    BY <1>10 DEF ReadUnlock
  <2>3. pc[t] = "rd_unlock" /\ pc' = [pc EXCEPT ![t] = to]
    BY <2>1 DEF ReadStep, Step
  <2>4. \A u \in Tasks : pc'[u] \notin InRead
    <3>1. \A u \in Tasks : pc[u] \in InRead => u = t
      BY <2>3 DEF IInv, Locks, InRead
    <3> QED
      BY <2>3, <3>1, Types DEF InRead
  <2>5. Collected' = <<>>
    BY <2>4 DEF Collected
  <2>6. InputPipe' = InputPipe
    BY <2>1, <2>2 DEF ReadStep, deviceVars, InputPipe
  <2>7. In!Collect
    BY <2>5, <2>6 DEF In!Collect
  <2>8. OutputStep
    BY <1>1, <2>1 DEF ReadPc
  <2> QED
    BY <2>7, <2>8 DEF InputStep, In!PipeNext
<1>11. CASE ReadEnable(t)
  <2>1. ReadStep(t, "rd_enable", "idle") /\ rx' = rx
        /\ got' = [got EXCEPT ![t] = <<>>]
    BY <1>11 DEF ReadEnable
  <2>2. pc[t] = "rd_enable" /\ pc' = [pc EXCEPT ![t] = "idle"]
    BY <2>1 DEF ReadStep, Step
  <2>3. \A u \in Tasks : /\ pc'[u] \in InRead <=> pc[u] \in InRead
                         /\ pc[u] \in InRead => got'[u] = got[u]
    BY <2>1, <2>2, Types DEF InRead
  <2>4. Collected' = Collected
    BY <2>3, CollectedSame DEF IInv
  <2>5. InputPipe' = InputPipe
    BY <2>1 DEF ReadStep, deviceVars, InputPipe
  <2>6. OutputStep
    BY <1>1, <2>1 DEF ReadPc
  <2> QED
    BY <2>4, <2>5, <2>6, InputStays
<1> QED
  BY <1>3, <1>4, <1>5, <1>6, <1>7, <1>8, <1>9, <1>10, <1>11 DEF Reads

\* The steps of write.
LEMMA WriteInPuts ==
  ASSUME IInv, IInv', NEW t \in Tasks, WriteIn(t) PROVE OutputStep
<1> DEFINE to == IF moved < Len(todo[t]) THEN "wr_copy" ELSE "wr_kick"
           n == moved
           in == todo[t]
           s == SubSeq(in, 1, n)
           c == Contents(tx)
<1>1. /\ WriteStep(t, "wr_in", to) /\ to \in InWrite
      /\ todo' = [todo EXCEPT ![t] = SubSeq(in, n + 1, Len(in))]
      /\ tx' = MoveIn(tx, n) /\ wfifo' = wfifo
  BY DEF WriteIn, WriteStep, deviceVars, InWrite
<1>2. /\ pc[t] = "wr_in" /\ pc'[t] \in InWrite
      /\ todo'[t] = SubSeq(in, n + 1, Len(in))
  BY <1>1, Types DEF WriteStep, Step
<1>3. /\ in \in Seq(Byte) /\ n \in 1..Len(in) /\ n <= Room(tx) /\ n \in Nat
      /\ \A k \in 1..n : tx.buf[WrapSum(tx.in, k - 1)] = in[k]
  <2>1. WritingOf(t)
    BY DEF IInv, Writing
  <2> QED
    BY <1>2, <2>1, Types DEF WritingOf
<1>4. s \in Seq(Byte) /\ Len(s) = n /\ \A k \in 1..n : s[k] = in[k]
  <2> HIDE DEF n, in
  <2>1. \A k \in 1..n : in[k] \in Byte
    BY <1>3
  <2>2. /\ s \in Seq(Byte) /\ Len(s) = IF 1 <= n THEN n - 1 + 1 ELSE 0
        /\ \A k \in 1..n - 1 + 1 : s[k] = in[1 + k - 1]
    BY <1>3, <2>1, SubSeqProperties
  <2>3. n - 1 + 1 = n /\ 1 <= n /\ \A k \in 1..n : 1 + k - 1 = k
    BY <1>3
  <2> HIDE DEF s
  <2> QED
    BY <2>2, <2>3
<1> HIDE DEF s
<1>5. Contents(tx)' = c \o s
  <2>1. tx' = MoveIn(tx, Len(s)) /\ Len(s) <= Room(tx)
        /\ \A k \in 1..Len(s) : tx.buf[WrapSum(tx.in, k - 1)] = s[k]
    BY <1>1, <1>3, <1>4
  <2> QED
    BY <1>4, <2>1, Types, MovedInContents
<1> HIDE DEF n, in, c, to
<1>6. OutputPipe' = OutputPipe \o s
  <2>1. wfifo \in Seq(Byte) /\ c \in Seq(Byte) /\ s \in Seq(Byte)
    BY <1>4, PipeFacts DEF c
  <2>2. (wfifo \o c) \o s = wfifo \o (c \o s)
    BY <2>1, ConcatAssociative
  <2> QED
    BY <1>1, <1>5, <2>2 DEF OutputPipe, c
<1>7. Len(OutputPipe)' <= FifoLen + BufLen - 1
  <2> DEFINE a == Len(wfifo)'
             b == Fill(tx)'
  <2>1. Len(OutputPipe)' = a + b /\ a \in 0..FifoLen /\ b \in 0..BufLen - 1
    <3>1. /\ tx' \in Ring /\ wfifo' \in Seq(Byte) /\ Len(wfifo') \in 0..FifoLen
      BY JtagUartAssumption DEF JtagUartAssumption, IInv, TypeOK, Ring
    <3> DEFINE d == Contents(tx')
    <3>2. d \in Seq(Byte) /\ Len(d) = Fill(tx') /\ Fill(tx') \in 0..BufLen - 1
      BY <3>1, ContentsAreSeq, FillCases
    <3>3. OutputPipe' = wfifo' \o d
      BY DEF OutputPipe
    <3> HIDE DEF d
    <3>4. Len(wfifo' \o d) = Len(wfifo') + Len(d)
      BY <3>1, <3>2, ConcatProperties
    <3> QED
      BY <3>1, <3>2, <3>3, <3>4
  <2> HIDE DEF a, b
  <2> QED
    BY <2>1, JtagUartAssumption DEF JtagUartAssumption
<1>8. Offered = in /\ Offered' = todo'[t]
  <2>1. Locks /\ Locks' /\ pc[t] \in InWrite
    BY <1>2 DEF IInv, InWrite
  <2>2. Offered = in
    BY <2>1, OfferedIs DEF in
  <2>3. \A u \in Tasks : pc'[u] \in InWrite => u = t
    BY <1>2, <2>1 DEF Locks
  <2>4. (CHOOSE u \in Tasks : pc'[u] \in InWrite) = t
    BY <1>2, <2>3
  <2>5. Offered' = todo'[t]
    BY <1>2, <2>3, <2>4 DEF Offered
  <2> QED
    BY <2>2, <2>5
<1>9. Out!Put
  <2>1. n \in 1..Len(Offered)
    BY <1>3, <1>8
  <2>2. OutputPipe' = OutputPipe \o SubSeq(Offered, 1, n)
    BY <1>6, <1>8 DEF s
  <2>3. Offered' = SubSeq(Offered, n + 1, Len(Offered))
    BY <1>2, <1>8
  <2> QED
    BY <1>7, <2>1, <2>2, <2>3 DEF Out!Put
<1> QED
  BY <1>9 DEF OutputStep, Out!PipeNext

LEMMA WriteCopyShowsNothing ==
  ASSUME IInv, NEW t \in Tasks, WriteCopy(t) PROVE OutputPipe' = OutputPipe
<1> DEFINE n == Least(FreePiece(tx), Len(todo[t]))
           s == SubSeq(todo[t], 1, n)
<1>1. /\ tx' = Stored(tx, s) /\ wfifo' = wfifo
  BY DEF WriteCopy, WriteStep, deviceVars
<1>2. /\ FreePiece(tx) \in 0..Room(tx) /\ Room(tx) \in Nat
      /\ todo[t] \in Seq(Byte) /\ Len(todo[t]) \in Nat
  BY Types, Pieces, FillCases, JtagUartAssumption DEF JtagUartAssumption
<1>3. n \in Nat /\ n <= Len(todo[t]) /\ n <= Room(tx)
  BY <1>2 DEF Least
<1>4. s \in Seq(Byte) /\ Len(s) = n
  <2> HIDE DEF n
  <2> QED
    BY <1>2, <1>3
<1> HIDE DEF n, s
<1>5. Contents(tx)' = Contents(tx)
  BY <1>1, <1>3, <1>4, Types, StoredContents
<1> QED
  BY <1>1, <1>5 DEF OutputPipe

LEMMA WriteStepsPipe ==
  ASSUME IInv, IInv', NEW t \in Tasks, WriteCall(t) \/ Writes(t)
  PROVE  InputStep /\ OutputStep
<1>1. ASSUME NEW from \in WritePc \cup {"idle"}, NEW to \in WritePc \cup {"idle"},
             WriteStep(t, from, to)
      PROVE  InputStep
  <2>1. InputPipe' = InputPipe
    BY <1>1 DEF WriteStep, deviceVars, InputPipe
  <2> QED
    BY <1>1, <2>1, WriteStepCollects, InputStays
<1>2. ASSUME NEW from, NEW to, WriteStep(t, from, to),
             from \in InWrite <=> to \in InWrite, todo' = todo, tx' = tx
      PROVE  OutputStep
  <2>1. OutputPipe' = OutputPipe
    BY <1>2 DEF WriteStep, deviceVars, OutputPipe
  <2> QED
    BY <1>2, <2>1, WriteStepOffers, OutputStays
<1>3. CASE WriteCall(t)
  <2>1. WriteStep(t, "idle", "wr_lock") /\ tx' = tx
    BY <1>3 DEF WriteCall
  <2>2. PICK m \in Messages : todo' = [todo EXCEPT ![t] = m]
    BY <1>3 DEF WriteCall
  <2>3. pc[t] = "idle" /\ pc' = [pc EXCEPT ![t] = "wr_lock"]
    BY <2>1 DEF WriteStep, Step
  <2>4. \A u \in Tasks : /\ pc'[u] \in InWrite <=> pc[u] \in InWrite
                         /\ pc[u] \in InWrite => todo'[u] = todo[u]
    BY <2>2, <2>3, Types DEF InWrite
  <2>5. Offered' = Offered
    BY <2>4, OfferedSame DEF IInv
  <2>6. OutputPipe' = OutputPipe
    BY <2>1 DEF WriteStep, deviceVars, OutputPipe
  <2>7. InputStep
    BY <1>1, <2>1 DEF WritePc
  <2> QED
    BY <2>5, <2>6, <2>7, OutputStays
<1>4. CASE WriteLock(t)
  <2>1. /\ WriteStep(t, "wr_lock", "wr_copy") /\ writeLock > 0
        /\ todo' = todo /\ tx' = tx
    BY <1>4 DEF WriteLock, writeVars
  <2>2. pc[t] = "wr_lock" /\ pc'[t] = "wr_copy" /\ todo[t] \in Seq(Byte)
    BY <2>1, Types DEF WriteStep, Step
  <2>3. Offered = <<>>
    <3>1. \A u \in Tasks : pc[u] \notin InWrite
      BY <2>1, Types DEF IInv, Locks
    <3> QED
      BY <3>1, NobodyOffers
  <2>4. Offered' \in Seq(Byte)
    <3>1. \A u \in Tasks : pc'[u] \in InWrite => u = t
      BY <2>2 DEF IInv, Locks, InWrite
    <3>2. pc'[t] \in InWrite /\ todo'[t] \in Seq(Byte)
      BY <2>1, <2>2 DEF InWrite
    <3>3. (CHOOSE u \in Tasks : pc'[u] \in InWrite) = t
      BY <3>1, <3>2
    <3>4. Offered' = todo'[t]
      BY <3>1, <3>2, <3>3 DEF Offered
    <3> QED
      BY <3>2, <3>4
  <2>5. OutputPipe' = OutputPipe
    BY <2>1 DEF WriteStep, deviceVars, OutputPipe
  <2>6. Out!Offer
    BY <2>3, <2>4, <2>5 DEF Out!Offer
  <2>7. InputStep
    BY <1>1, <2>1 DEF WritePc
  <2> QED
    BY <2>6, <2>7 DEF OutputStep, Out!PipeNext
<1>5. CASE WriteCopy(t)
  <2>1. PICK to \in {"wr_in", "wr_kick"} : WriteStep(t, "wr_copy", to)
    BY <1>5 DEF WriteCopy
  <2>2. todo' = todo
    BY <1>5 DEF WriteCopy
  <2>3. Offered' = Offered
    BY <2>1, <2>2, WriteStepOffers DEF InWrite
  <2>4. OutputStep
    BY <1>5, <2>3, WriteCopyShowsNothing, OutputStays
  <2> QED
    BY <1>1, <2>1, <2>4 DEF WritePc
<1>6. CASE WriteIn(t)
  <2>1. PICK to \in {"wr_copy", "wr_kick"} : WriteStep(t, "wr_in", to)
    BY <1>6 DEF WriteIn
  <2> QED
    BY <1>1, <1>6, <2>1, WriteInPuts DEF WritePc
<1>7. CASE WriteKick(t)
  <2>1. PICK to \in {"wr_pend", "wr_unlock"} : WriteStep(t, "wr_kick", to)
    BY <1>7 DEF WriteKick
  <2>2. todo' = todo /\ tx' = tx
    BY <1>7 DEF WriteKick, writeVars
  <2> QED
    BY <1>1, <1>2, <2>1, <2>2 DEF WritePc, InWrite
<1>8. CASE WritePend(t)
  <2>1. PICK to \in {"wr_check", "wr_wait"} : WriteStep(t, "wr_pend", to)
    BY <1>8 DEF WritePend
  <2>2. todo' = todo /\ tx' = tx
    BY <1>8 DEF WritePend, writeVars
  <2> QED
    BY <1>1, <1>2, <2>1, <2>2 DEF WritePc, InWrite
<1>9. CASE WriteWakes(t)
  BY <1>1, <1>2, <1>9 DEF WriteWakes, writeVars, WritePc, InWrite
<1>10. CASE WriteCheck(t)
  <2>1. PICK to \in {"wr_unlock", "wr_copy"} : WriteStep(t, "wr_check", to)
    BY <1>10 DEF WriteCheck
  <2>2. todo' = todo /\ tx' = tx
    BY <1>10 DEF WriteCheck, writeVars
  <2> QED
    BY <1>1, <1>2, <2>1, <2>2 DEF WritePc, InWrite
<1>11. CASE WriteUnlock(t)
  <2>1. WriteStep(t, "wr_unlock", "idle") /\ tx' = tx
    BY <1>11 DEF WriteUnlock
  <2>2. pc[t] = "wr_unlock" /\ pc' = [pc EXCEPT ![t] = "idle"]
    BY <2>1 DEF WriteStep, Step
  <2>3. \A u \in Tasks : pc'[u] \notin InWrite
    <3>1. \A u \in Tasks : pc[u] \in InWrite => u = t
      BY <2>2 DEF IInv, Locks, InWrite
    <3> QED
      BY <2>2, <3>1, Types DEF InWrite
  <2>4. Offered' = <<>>
    BY <2>3 DEF Offered
  <2>5. OutputPipe' = OutputPipe
    BY <2>1 DEF WriteStep, deviceVars, OutputPipe
  <2>6. Out!Withdraw
    BY <2>4, <2>5 DEF Out!Withdraw
  <2>7. InputStep
    BY <1>1, <2>1 DEF WritePc
  <2> QED
    BY <2>6, <2>7 DEF OutputStep, Out!PipeNext
<1> QED
  BY <1>3, <1>4, <1>5, <1>6, <1>7, <1>8, <1>9, <1>10, <1>11 DEF Writes

LEMMA PipeSteps == IInv /\ IInv' /\ [Next]_vars => InputStep /\ OutputStep
<1> SUFFICES ASSUME IInv, IInv', [Next]_vars PROVE InputStep /\ OutputStep
  OBVIOUS
<1>1. ASSUME UNCHANGED <<rfifo, wfifo, rx, tx, pc, got, todo>>
      PROVE  InputStep /\ OutputStep
  <2>1. InputPipe' = InputPipe /\ OutputPipe' = OutputPipe
    BY <1>1 DEF InputPipe, OutputPipe
  <2>2. Collected' = Collected /\ Offered' = Offered
    BY <1>1 DEF Collected, Offered
  <2> QED
    BY <2>1, <2>2, InputStays, OutputStays
<1>2. CASE \E b \in Byte : HostSends(b)
  BY <1>2, HostSendsPipe
<1>3. CASE HostPauses
  BY <1>1, <1>3 DEF HostPauses, taskVars, readVars, writeVars
<1>4. CASE HostFetches
  BY <1>4, HostFetchesPipe
<1>5. CASE Isr
  BY <1>5, IsrPasses, InputStays, OutputStays
<1>6. CASE Alarm
  BY <1>1, <1>6 DEF Alarm, taskVars, readVars, writeVars
<1>7. CASE \E t \in Tasks : ReadCall(t) \/ WriteCall(t) \/ Reads(t) \/ Writes(t)
  BY <1>7, ReadStepsPipe, WriteStepsPipe
<1>8. CASE UNCHANGED vars
  BY <1>1, <1>8 DEF vars, deviceVars, readVars, writeVars
<1> QED
  BY <1>2, <1>3, <1>4, <1>5, <1>6, <1>7, <1>8 DEF Next

LEMMA PipeInits == Init => In!PipeInit /\ Out!PipeInit
<1> SUFFICES ASSUME Init PROVE In!PipeInit /\ Out!PipeInit
  OBVIOUS
<1>1. /\ rx = EmptyRing /\ tx = EmptyRing /\ rfifo = <<>> /\ wfifo = <<>>
      /\ \A t \in Tasks : pc[t] \notin InRead /\ pc[t] \notin InWrite
  BY DEF Init, InRead, InWrite
<1>2. Contents(rx) = <<>> /\ Contents(tx) = <<>>
  BY <1>1, EmptyRingFacts, ContentsAreSeq, EmptySeq
<1>3. InputPipe = <<>> /\ OutputPipe = <<>>
  BY <1>1, <1>2 DEF InputPipe, OutputPipe
<1> QED
  BY <1>1, <1>3, NobodyCollects, NobodyOffers DEF In!PipeInit, Out!PipeInit

\* From the host to read no character is lost, doubled, made up or passed by
\* another, and the pipe never holds more than FIFO and ring together.
THEOREM InputRefines == Spec => InputIsPipe
<1>1. Init => In!PipeInit
  BY PipeInits
<1>2. IInv /\ IInv' /\ [Next]_vars => [In!PipeNext]_(In!pipeVars)
  BY PipeSteps DEF InputStep
<1> QED
  BY <1>1, <1>2, Invariant, PTL DEF Spec, InputIsPipe, In!PipeSpec

\* The same from write to the host.
THEOREM OutputRefines == Spec => OutputIsPipe
<1>1. Init => Out!PipeInit
  BY PipeInits
<1>2. IInv /\ IInv' /\ [Next]_vars => [Out!PipeNext]_(Out!pipeVars)
  BY PipeSteps DEF OutputStep
<1> QED
  BY <1>1, <1>2, Invariant, PTL DEF Spec, OutputIsPipe, Out!PipeSpec
=============================================================================
