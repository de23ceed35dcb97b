-------------------------- MODULE RingBufferProofs --------------------------
(***************************************************************************)
(* RingBuffer.tla implements ByteQueue.tla, for every initial capacity and *)
(* every sequence of writes, peeks, discards and reads of any size.        *)
(***************************************************************************)
EXTENDS RingBuffer, TLAPS

USE BuffersAssumption, SizesAssumption, InitCapAssumption, MaxLenAssumption

LEMMA ContentsType ==
  ASSUME TypeOK, Consistent
  PROVE  Contents \in Seq(Bytes) /\ Len(Contents) = len /\ len \in Nat
BY DEF TypeOK, Consistent, Contents

LEMMA SlotRange ==
  ASSUME NEW n \in Nat, NEW b \in 0..(n - 1), NEW i \in 1..n
  PROVE  At(b, n, i) \in 0..(n - 1)
BY DEF At

(* Making room for siz bytes keeps the contents, and leaves one slot free. *)
LEMMA Room ==
  ASSUME TypeOK, Consistent, NEW siz \in Nat, siz > 0
  PROVE  /\ NewCap(siz) \in Nat /\ NewCap(siz) >= 2 /\ len + siz < NewCap(siz)
         /\ NewBegin(siz) \in 0..(NewCap(siz) - 1)
         /\ end \in 0..(NewCap(siz) - 1)
         /\ NewArr(siz) \in [0..(NewCap(siz) - 1) -> Bytes \cup {Junk}]
         /\ end = At(NewBegin(siz), NewCap(siz), len + 1)
         /\ \A i \in 1..len : NewArr(siz)[At(NewBegin(siz), NewCap(siz), i)] = Contents[i]
<1>0. len \in Nat /\ \A i \in 1..len : Contents[i] = arr[At(begin, cap, i)]
  BY DEF TypeOK, Contents
<1>1. CASE ~Grows(siz)
  <2>1. NewCap(siz) = cap /\ NewBegin(siz) = begin /\ ~Moved(siz)
    BY <1>1 DEF NewCap, NewBegin, Moved
  <2>2. NewArr(siz) = arr
    BY <2>1 DEF NewArr, TypeOK
  <2> QED BY <1>0, <1>1, <2>1, <2>2 DEF TypeOK, Consistent, Grows
<1>2. CASE Grows(siz)
  <2> DEFINE n == NewCap(siz)
             b == NewBegin(siz)
  <2>1. n \in Nat /\ n >= cap /\ len + siz < n
    BY <1>2 DEF NewCap, Grows, TypeOK, Consistent
  <2>2. b = IF end < begin THEN begin + (n - cap) ELSE begin
    BY <1>2 DEF NewBegin, Moved
  <2>3. NewArr(siz) = [i \in 0..(n - 1) |->
          IF end < begin /\ i >= b THEN arr[i - (n - cap)]
          ELSE IF i < cap THEN arr[i] ELSE Junk]
    BY <1>2 DEF NewArr, Moved
  <2> HIDE DEF n, b
  <2>4. NewArr(siz) \in [0..(n - 1) -> Bytes \cup {Junk}]
    BY <2>1, <2>2, <2>3 DEF TypeOK
  <2>5. ASSUME NEW i \in 1..len PROVE NewArr(siz)[At(b, n, i)] = Contents[i]
    <3>1. NewArr(siz)[At(b, n, i)] = arr[At(begin, cap, i)]
      BY <2>1, <2>2, <2>3 DEF TypeOK, Consistent, At
    <3> QED BY <1>0, <3>1
  <2>6. end = At(b, n, len + 1)
    BY <2>1, <2>2 DEF TypeOK, Consistent, At
  <2> QED BY <2>1, <2>2, <2>4, <2>5, <2>6 DEF TypeOK, n, b
<1> QED BY <1>1, <1>2

LEMMA NewContents ==
  ASSUME NEW s \in Seq(Bytes),
         TypeOK', len' = Len(s), len' < cap',
         \A i \in 1..Len(s) : arr'[At(begin', cap', i)] = s[i],
         end' = At(begin', cap', Len(s) + 1)
  PROVE  Contents' = s /\ Consistent'
<1>1. Contents' = [i \in 1..Len(s) |-> arr'[At(begin', cap', i)]]
  BY DEF Contents
<1>2. Contents' = s
  BY <1>1
<1> QED BY <1>2 DEF Consistent

LEMMA WriteStep ==
  ASSUME TypeOK, Consistent, NEW buf \in Seq(Bytes), Len(buf) > 0, Write(buf)
  PROVE  TypeOK' /\ Consistent' /\ Contents' = Contents \o buf
<1> DEFINE z == Len(buf)
           n == NewCap(z)
           b == NewBegin(z)
           a == NewArr(z)
           s == Contents \o buf
<1>0. z \in Nat /\ z > 0 /\ len \in Nat /\ buf \in [1..z -> Bytes]
  BY DEF TypeOK
<1>1. /\ n \in Nat /\ n >= 2 /\ len + z < n
      /\ b \in 0..(n - 1)
      /\ end \in 0..(n - 1)
      /\ a \in [0..(n - 1) -> Bytes \cup {Junk}]
      /\ end = At(b, n, len + 1)
      /\ \A i \in 1..len : a[At(b, n, i)] = Contents[i]
  <2> HIDE DEF z
  <2> QED BY <1>0, Room
<1>2. /\ begin' = b /\ cap' = n /\ len' = len + z
      /\ arr' = CopyIn(a, n, end, buf)
      /\ end' = IF end + z >= n THEN end + z - n ELSE end + z
  BY <1>0, <1>1 DEF Write
<1> HIDE DEF n, b, a
<1>3. /\ \A i \in 1..z : buf[i] \in Bytes
      /\ arr' = [j \in 0..(n - 1) |->
            IF j >= end /\ j - end < z THEN buf[j - end + 1]
            ELSE IF j + (n - end) < z THEN buf[j + (n - end) + 1]
            ELSE a[j]]
  BY <1>0, <1>2 DEF CopyIn
<1>4. s \in Seq(Bytes) /\ Len(s) = len + z
      /\ (\A i \in 1..len : s[i] = Contents[i])
      /\ \A i \in (len + 1)..(len + z) : s[i] = buf[i - len]
  <2>1. Contents \in Seq(Bytes) /\ Len(Contents) = len
    BY ContentsType
  <2>2. ASSUME NEW t \in Seq(Bytes)
        PROVE  /\ t \o buf \in Seq(Bytes) /\ Len(t \o buf) = Len(t) + Len(buf)
               /\ \A i \in 1..Len(t) : (t \o buf)[i] = t[i]
               /\ \A i \in (Len(t) + 1)..(Len(t) + Len(buf)) : (t \o buf)[i] = buf[i - Len(t)]
    OBVIOUS
  <2> QED BY <2>1, <2>2
<1> HIDE DEF z, s
<1>5. arr' \in [0..(n - 1) -> Bytes \cup {Junk}]
  <2>0. n \in Nat /\ end \in 0..(n - 1) /\ z \in Nat
    BY <1>0, <1>1
  <2>1. ASSUME NEW j \in 0..(n - 1) PROVE arr'[j] \in Bytes \cup {Junk}
    <3>1. CASE j >= end /\ j - end < z
      <4>1. j - end + 1 \in 1..z
        BY <2>0, <3>1
      <4> QED BY <1>3, <3>1, <4>1
    <3>2. CASE ~(j >= end /\ j - end < z) /\ j + (n - end) < z
      <4>1. j + (n - end) + 1 \in 1..z
        BY <2>0, <3>2
      <4> QED BY <1>3, <3>2, <4>1
    <3>3. CASE ~(j >= end /\ j - end < z) /\ ~(j + (n - end) < z)
      BY <1>1, <1>3, <3>3
    <3> QED BY <3>1, <3>2, <3>3
  <2>2. arr' = [j \in 0..(n - 1) |-> arr'[j]]
    BY <1>3
  <2> QED BY <2>1, <2>2
<1>6. TypeOK'
  <2>1. end' \in 0..(n - 1) /\ len' \in Nat /\ len' < n
    BY <1>0, <1>1, <1>2
  <2> QED BY <1>1, <1>2, <1>5, <2>1 DEF TypeOK
<1>7. ASSUME NEW i \in 1..(len + z) PROVE arr'[At(b, n, i)] = s[i]
  <2>1. At(b, n, i) \in 0..(n - 1)
    BY <1>0, <1>1 DEF At
  <2>2. CASE i <= len
    <3>1. arr'[At(b, n, i)] = a[At(b, n, i)]
      BY <1>0, <1>1, <1>3, <2>1, <2>2 DEF At
    <3> QED BY <1>0, <1>1, <1>4, <2>2, <3>1
  <2>3. CASE i > len
    <3>0. s[i] = buf[i - len]
      BY <1>0, <1>4, <2>3
    <3>1. CASE At(b, n, i) >= end
      <4>1. At(b, n, i) - end + 1 = i - len /\ At(b, n, i) - end < z
        BY <1>0, <1>1, <2>3, <3>1 DEF At
      <4> QED BY <1>1, <1>3, <2>1, <3>0, <3>1, <4>1
    <3>2. CASE At(b, n, i) < end
      <4>1. At(b, n, i) + (n - end) + 1 = i - len /\ At(b, n, i) + (n - end) < z
        BY <1>0, <1>1, <2>3, <3>2 DEF At
      <4> QED BY <1>1, <1>3, <2>1, <3>0, <3>2, <4>1
    <3> QED BY <1>1, <2>1, <3>1, <3>2
  <2> QED BY <1>0, <2>2, <2>3
<1>8. end' = At(b, n, len + z + 1)
  BY <1>0, <1>1, <1>2 DEF At
<1>9. Contents' = s /\ Consistent'
  BY <1>0, <1>1, <1>2, <1>4, <1>6, <1>7, <1>8, NewContents
<1> QED BY <1>6, <1>9 DEF s

LEMMA ClampedType ==
  ASSUME TypeOK, NEW siz \in Nat
  PROVE  Clamped(siz) \in 0..len
BY DEF TypeOK, Clamped

LEMMA CopyOutStep ==
  ASSUME TypeOK, Consistent, NEW k \in 0..len
  PROVE  CopyOut(k) = SubSeq(Contents, 1, k)
<1>1. Contents \in Seq(Bytes) /\ Len(Contents) = len /\ len \in Nat
      /\ \A i \in 1..len : Contents[i] = arr[At(begin, cap, i)]
  BY ContentsType DEF Contents
<1>2. SubSeq(Contents, 1, k) = [i \in 1..k |-> Contents[i]]
  BY <1>1
<1>3. ASSUME NEW i \in 1..k
      PROVE  (IF i <= cap - begin THEN arr[begin + i - 1] ELSE arr[i - 1 - (cap - begin)])
                = Contents[i]
  <2>1. i \in 1..len /\ Contents[i] = arr[At(begin, cap, i)]
    BY <1>1
  <2>2. At(begin, cap, i) = IF i <= cap - begin THEN begin + i - 1 ELSE i - 1 - (cap - begin)
    BY <2>1 DEF At, TypeOK
  <2> QED BY <2>1, <2>2
<1> QED BY <1>2, <1>3 DEF CopyOut

LEMMA DropStep ==
  ASSUME TypeOK, Consistent, NEW k \in 0..len, Drop(k)
  PROVE  TypeOK' /\ Consistent' /\ Contents' = SubSeq(Contents, k + 1, Len(Contents))
<1> DEFINE s == SubSeq(Contents, k + 1, Len(Contents))
<1>1. /\ len' = len - k /\ arr' = arr /\ cap' = cap /\ end' = end
      /\ begin' = IF begin + k >= cap THEN begin + k - cap ELSE begin + k
  BY DEF Drop
<1>2. len \in Nat /\ k \in Nat /\ k <= len /\ len < cap /\ cap \in Nat /\ begin \in 0..(cap - 1)
      /\ end = At(begin, cap, len + 1)
  BY DEF TypeOK, Consistent
<1>3. \A i \in 1..(len - k + 1) : At(begin', cap', i) = At(begin, cap, i + k)
  BY <1>1, <1>2 DEF At
<1>4. Contents \in Seq(Bytes) /\ Len(Contents) = len
  BY ContentsType
<1>5. \A i \in 1..len : Contents[i] = arr[At(begin, cap, i)]
  BY DEF Contents
<1>6. s \in Seq(Bytes) /\ Len(s) = len - k /\ \A i \in 1..(len - k) : s[i] = Contents[i + k]
  BY <1>2, <1>4
<1> HIDE DEF s
<1>7. TypeOK'
  BY <1>1, <1>2 DEF TypeOK
<1>8. ASSUME NEW i \in 1..(len - k) PROVE arr'[At(begin', cap', i)] = s[i]
  <2>1. i \in 1..(len - k + 1) /\ i + k \in 1..len
    BY <1>2
  <2> QED BY <1>1, <1>3, <1>5, <1>6, <2>1
<1>9. end' = At(begin', cap', len - k + 1)
  <2>1. len - k + 1 \in 1..(len - k + 1) /\ (len - k + 1) + k = len + 1
    BY <1>2
  <2> QED BY <1>1, <1>2, <1>3, <2>1
<1>10. Contents' = s /\ Consistent'
  BY <1>1, <1>2, <1>6, <1>7, <1>8, <1>9, NewContents
<1> QED BY <1>7, <1>10 DEF s

Inv == TypeOK /\ Consistent

LEMMA StepRefines ==
  ASSUME Inv, [Next]_vars
  PROVE  Inv' /\ [Abs!Next]_(Abs!vars)
<1> USE DEF Inv
<1>k. ASSUME UNCHANGED ring PROVE Inv' /\ Contents' = Contents
  BY <1>k DEF ring, TypeOK, Consistent, Contents
<1>l. Len(Contents) = len /\ len \in Nat /\ Contents \in Seq(Bytes)
  BY ContentsType
<1>1. ASSUME NEW buf \in Buffers, Write(buf) PROVE Inv' /\ Abs!Next
  <2>1. Contents' = Contents \o buf /\ Inv'
    <3>0. buf \in Seq(Bytes) /\ Len(buf) \in Nat
      OBVIOUS
    <3>1. CASE Len(buf) = 0
      <4>1. Contents \o buf = Contents
        BY <1>l, <3>0, <3>1
      <4> QED BY <1>1, <1>k, <3>1, <4>1 DEF Write
    <3>2. CASE Len(buf) > 0
      BY <1>1, <3>0, <3>2, WriteStep
    <3> QED BY <3>0, <3>1, <3>2
  <2>2. Abs!Write(buf)
    BY <1>1, <2>1 DEF Write, Abs!Write
  <2> QED BY <2>1, <2>2 DEF Abs!Next
<1>2. ASSUME NEW buf \in Buffers, WriteFails(buf) PROVE Inv' /\ Abs!Next
  <2>1. Abs!WriteFails /\ Inv'
    BY <1>2, <1>k DEF WriteFails, Abs!WriteFails
  <2> QED BY <2>1 DEF Abs!Next
<1>3. ASSUME NEW siz \in Sizes, Peek(siz) \/ Discard(siz) \/ Read(siz) PROVE Inv' /\ Abs!Next
  <2> DEFINE k == Clamped(siz)
  <2>0. k \in 0..Len(Contents) /\ k \in 0..len /\ siz \in Nat
    BY <1>l, ClampedType
  <2> HIDE DEF k
  <2>1. CASE Peek(siz)
    <3>1. Abs!Peek(k) /\ Inv'
      BY <1>k, <2>0, <2>1, CopyOutStep DEF Peek, Abs!Peek, k
    <3> QED BY <2>0, <3>1 DEF Abs!Next
  <2>2. CASE Discard(siz)
    <3>1. Drop(k) /\ got' = <<>>
      BY <2>2 DEF Discard, k
    <3>2. Abs!Discard(k) /\ Inv'
      BY <2>0, <3>1, DropStep DEF Abs!Discard
    <3> QED BY <2>0, <3>2 DEF Abs!Next
  <2>3. CASE Read(siz)
    <3>1. Drop(k) /\ got' = CopyOut(k)
      BY <2>3 DEF Read, k
    <3>2. Abs!Read(k) /\ Inv'
      BY <2>0, <3>1, DropStep, CopyOutStep DEF Abs!Read
    <3> QED BY <2>0, <3>2 DEF Abs!Next
  <2> QED BY <1>3, <2>1, <2>2, <2>3
<1>4. CASE UNCHANGED vars
  BY <1>4, <1>k DEF vars, Abs!vars
<1> QED BY <1>1, <1>2, <1>3, <1>4 DEF Next

LEMMA InitRefines == Init => Inv /\ Abs!Init
<1> SUFFICES ASSUME Init PROVE Inv /\ Abs!Init
  OBVIOUS
<1>1. TypeOK /\ Consistent
  BY DEF Init, TypeOK, Consistent, At
<1>2. Contents = <<>>
  BY DEF Init, Contents
<1> QED BY <1>1, <1>2 DEF Inv, Init, Abs!Init

(* No write, peek or discard takes begin or end of the ring buffer out of  *)
(* the array that dime_ringbuffer_write has allocated.                     *)
THEOREM TypeCorrect == Spec => []TypeOK
<1>1. Inv => TypeOK
  BY DEF Inv
<1>2. Init => Inv
  BY InitRefines
<1>3. Inv /\ [Next]_vars => Inv'
  BY StepRefines
<1> QED BY <1>1, <1>2, <1>3, PTL DEF Spec

(* One slot always stays free and the indices agree with the length.       *)
THEOREM RingConsistent == Spec => []Consistent
<1>1. Inv => Consistent
  BY DEF Inv
<1>2. Init => Inv
  BY InitRefines
<1>3. Inv /\ [Next]_vars => Inv'
  BY StepRefines
<1> QED BY <1>1, <1>2, <1>3, PTL DEF Spec

(* The ring buffer behind every socket is a byte stream.                   *)
THEOREM RingRefinement == Spec => ImplementsByteQueue
<1>1. Init => Inv /\ Abs!Init
  BY InitRefines
<1>2. Inv /\ [Next]_vars => Inv' /\ [Abs!Next]_(Abs!vars)
  BY StepRefines
<1> QED BY <1>1, <1>2, PTL DEF Spec, ImplementsByteQueue, Abs!Spec
=============================================================================
