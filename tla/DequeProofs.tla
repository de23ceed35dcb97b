---------------------------- MODULE DequeProofs -----------------------------
(***************************************************************************)
(* Deque.tla implements AbstractDeque.tla, for every initial capacity,     *)
(* every length and every set of values.                                   *)
(***************************************************************************)
EXTENDS Deque, TLAPS

USE InitCapAssumption, MaxLenAssumption

(* Making room: the new array holds the old contents at the new begin, and *)
(* has a free slot at end and one before begin.                            *)
LEMMA Room ==
  ASSUME TypeOK, Consistent
  PROVE  /\ NewCap \in Nat /\ NewCap >= 2 /\ len < NewCap /\ len \in Nat
         /\ NewBegin \in 0..(NewCap - 1)
         /\ end \in 0..(NewCap - 1)
         /\ NewArr \in [0..(NewCap - 1) -> Values \cup {Junk}]
         /\ end = At(NewBegin, NewCap, len + 1)
         /\ \A i \in 1..len : NewArr[At(NewBegin, NewCap, i)] = Contents[i]
<1>0. len \in Nat /\ \A i \in 1..len : Contents[i] = arr[Slot(i)]
  BY DEF TypeOK, Contents
<1>1. CASE ~Full
  <2>1. NewCap = cap /\ NewBegin = begin /\ ~Moved
    BY <1>1 DEF NewCap, NewBegin, Moved
  <2>2. NewArr = arr
    BY <2>1 DEF NewArr, TypeOK
  <2> QED BY <1>0, <1>1, <2>1, <2>2 DEF TypeOK, Consistent, Full, Slot
<1>2. CASE Full
  <2>1. len = cap /\ end = begin /\ Moved
    BY <1>2 DEF TypeOK, Consistent, Full, Moved, Slot, At
  <2>2. NewCap = (3 * cap) \div 2 /\ NewCap \in Nat /\ NewCap > cap
    BY <1>2 DEF TypeOK, NewCap
  <2>3. NewBegin = begin + (NewCap - cap)
    BY <2>1 DEF NewBegin
  <2>4. NewArr = [i \in 0..(NewCap - 1) |->
                    IF i >= NewBegin THEN arr[i - (NewCap - cap)]
                    ELSE IF i < cap THEN arr[i] ELSE Junk]
    BY <2>1 DEF NewArr
  <2> DEFINE n == NewCap
             b == NewBegin
  <2>5. n \in Nat /\ n > cap /\ b = begin + (n - cap)
    BY <2>2, <2>3
  <2> HIDE DEF n, b
  <2>6. NewArr = [i \in 0..(n - 1) |-> IF i >= b THEN arr[i - (n - cap)]
                                       ELSE IF i < cap THEN arr[i] ELSE Junk]
    BY <2>4 DEF n, b
  <2>7. NewArr \in [0..(n - 1) -> Values \cup {Junk}]
    BY <2>5, <2>6 DEF TypeOK
  <2>8. ASSUME NEW i \in 1..len PROVE NewArr[At(b, n, i)] = Contents[i]
    BY <1>0, <2>1, <2>5, <2>6 DEF TypeOK, Slot, At
  <2>9. end = At(b, n, len + 1)
    BY <2>1, <2>5 DEF TypeOK, At
  <2> QED BY <1>0, <2>1, <2>5, <2>7, <2>8, <2>9 DEF TypeOK, n, b
<1> QED BY <1>1, <1>2

LEMMA ContentsType ==
  ASSUME TypeOK, Consistent
  PROVE  Contents \in Seq(Values) /\ Len(Contents) = len /\ len \in Nat
BY DEF TypeOK, Consistent, Contents

(* Slots of different positions differ.                                    *)
LEMMA SlotsDiffer ==
  ASSUME NEW n \in Nat, NEW b \in 0..(n - 1), NEW i \in 1..n, NEW j \in 1..n, i # j
  PROVE  At(b, n, i) # At(b, n, j)
BY DEF At

LEMMA SlotRange ==
  ASSUME NEW n \in Nat, NEW b \in 0..(n - 1), NEW i \in 1..n
  PROVE  At(b, n, i) \in 0..(n - 1)
BY DEF At

(* The contents of an array a read from slot b on.                         *)
LEMMA NewContents ==
  ASSUME NEW s \in Seq(Values),
         TypeOK', len' = Len(s), \A i \in 1..Len(s) : arr'[At(begin', cap', i)] = s[i],
         end' = At(begin', cap', Len(s) + 1)
  PROVE  Contents' = s /\ Consistent'
<1>1. Contents' = [i \in 1..Len(s) |-> arr'[At(begin', cap', i)]]
  BY DEF Contents, Slot
<1>2. Contents' = s
  BY <1>1
<1>3. (\A i \in 1..len : arr[Slot(i)] \in Values)'
  BY DEF Slot
<1>4. (end = Slot(len + 1))'
  BY DEF Slot
<1> QED BY <1>2, <1>3, <1>4 DEF Consistent

LEMMA PushrStep ==
  ASSUME TypeOK, Consistent, NEW p \in Values, Pushr(p)
  PROVE  TypeOK' /\ Consistent' /\ Contents' = Append(Contents, p)
<1> DEFINE n == NewCap
           b == NewBegin
           a == NewArr
           s == Append(Contents, p)
<1>1. /\ n \in Nat /\ n >= 2 /\ len < n /\ len \in Nat
      /\ b \in 0..(n - 1)
      /\ end \in 0..(n - 1)
      /\ a \in [0..(n - 1) -> Values \cup {Junk}]
      /\ end = At(b, n, len + 1)
      /\ \A i \in 1..len : a[At(b, n, i)] = Contents[i]
  BY Room
<1>2. /\ begin' = b /\ cap' = n /\ len' = len + 1 /\ ret' = Done
      /\ arr' = [a EXCEPT ![end] = p]
      /\ end' = IF end + 1 = n THEN 0 ELSE end + 1
      /\ phase = "idle" /\ it' = it
  BY DEF Pushr, iter
<1> HIDE DEF n, b, a
<1>3. TypeOK'
  <2>1. n >= cap /\ it \in 0..(cap - 1)
    BY <1>2 DEF n, NewCap, TypeOK
  <2> QED BY <1>1, <1>2, <2>1 DEF TypeOK
<1>4. s \in Seq(Values) /\ Len(s) = len + 1 /\ s[len + 1] = p
      /\ \A i \in 1..len : s[i] = Contents[i]
  BY <1>1, ContentsType
<1> HIDE DEF s
<1>5. ASSUME NEW i \in 1..(len + 1) PROVE arr'[At(b, n, i)] = s[i]
  <2>1. CASE i = len + 1
    BY <1>1, <1>2, <1>4, <2>1
  <2>2. CASE i # len + 1
    <3>1. i \in 1..len /\ i \in 1..n /\ len + 1 \in 1..n
      BY <1>1, <2>2
    <3>2. At(b, n, i) # end /\ At(b, n, i) \in 0..(n - 1)
      BY <1>1, <2>2, <3>1, SlotsDiffer, SlotRange
    <3> QED BY <1>1, <1>2, <1>4, <3>1, <3>2
  <2> QED BY <2>1, <2>2
<1>6. end' = At(b, n, len + 2)
  BY <1>1, <1>2 DEF At
<1>7. Contents' = s /\ Consistent'
  BY <1>1, <1>2, <1>3, <1>4, <1>5, <1>6, NewContents
<1> QED BY <1>3, <1>7 DEF s

LEMMA PushlStep ==
  ASSUME TypeOK, Consistent, NEW p \in Values, Pushl(p)
  PROVE  TypeOK' /\ Consistent' /\ Contents' = <<p>> \o Contents
<1> DEFINE n == NewCap
           b == NewBegin
           a == NewArr
           d == (IF b = 0 THEN n ELSE b) - 1
           s == <<p>> \o Contents
<1>1. /\ n \in Nat /\ n >= 2 /\ len < n /\ len \in Nat
      /\ b \in 0..(n - 1)
      /\ end \in 0..(n - 1)
      /\ a \in [0..(n - 1) -> Values \cup {Junk}]
      /\ end = At(b, n, len + 1)
      /\ \A i \in 1..len : a[At(b, n, i)] = Contents[i]
  BY Room
<1>2. /\ begin' = d /\ cap' = n /\ len' = len + 1 /\ ret' = Done
      /\ arr' = [a EXCEPT ![d] = p]
      /\ end' = end
      /\ phase = "idle" /\ it' = it
  BY DEF Pushl, iter
<1> HIDE DEF n, b, a
<1>3. d \in 0..(n - 1)
  BY <1>1
<1>4. TypeOK'
  <2>1. n >= cap /\ it \in 0..(cap - 1)
    BY <1>2 DEF n, NewCap, TypeOK
  <2> QED BY <1>1, <1>2, <1>3, <2>1 DEF TypeOK
<1>5. s \in Seq(Values) /\ Len(s) = len + 1 /\ s[1] = p
      /\ \A i \in 1..len : s[i + 1] = Contents[i]
  BY <1>1, ContentsType
<1> HIDE DEF s
<1>6. /\ At(d, n, 1) = d
      /\ \A i \in 2..(len + 2) : At(d, n, i) = At(b, n, i - 1)
      /\ \A i \in 2..n : At(d, n, i) # d /\ At(d, n, i) \in 0..(n - 1)
  BY <1>1 DEF At
<1> HIDE DEF d
<1>7. ASSUME NEW i \in 1..(len + 1) PROVE arr'[At(d, n, i)] = s[i]
  <2>1. CASE i = 1
    BY <1>1, <1>2, <1>3, <1>5, <1>6, <2>1
  <2>2. CASE i # 1
    <3>1. i - 1 \in 1..len /\ i \in 2..n /\ i \in 2..(len + 2) /\ (i - 1) + 1 = i
      BY <1>1, <2>2
    <3>2. At(d, n, i) # d /\ At(d, n, i) \in 0..(n - 1)
      BY <1>6, <3>1
    <3>3. arr'[At(d, n, i)] = a[At(d, n, i)]
      BY <1>1, <1>2, <3>2
    <3>4. At(d, n, i) = At(b, n, i - 1)
      BY <1>6, <3>1
    <3>5. s[i] = Contents[i - 1]
      BY <1>5, <3>1
    <3> QED BY <1>1, <3>1, <3>3, <3>4, <3>5
  <2> QED BY <2>1, <2>2
<1>8. end' = At(d, n, len + 2)
  <2>1. len + 2 \in 2..(len + 2) /\ (len + 2) - 1 = len + 1
    BY <1>1
  <2>2. At(d, n, len + 2) = At(b, n, (len + 2) - 1)
    BY <1>6, <2>1
  <2> QED BY <1>1, <1>2, <2>1, <2>2
<1>9. Contents' = s /\ Consistent'
  <2>1. len' = Len(s) /\ begin' = d /\ cap' = n /\ Len(s) + 1 = len + 2
    BY <1>1, <1>2, <1>5
  <2>2. \A i \in 1..Len(s) : arr'[At(begin', cap', i)] = s[i]
    BY <1>5, <1>7, <2>1
  <2>3. end' = At(begin', cap', Len(s) + 1)
    BY <1>8, <2>1
  <2> QED BY <1>4, <1>5, <2>1, <2>2, <2>3, NewContents
<1> QED BY <1>4, <1>9 DEF s

LEMMA PoplStep ==
  ASSUME TypeOK, Consistent, Popl, len # 0
  PROVE  /\ TypeOK' /\ Consistent'
         /\ Contents # <<>> /\ ret' = Head(Contents) /\ Contents' = Tail(Contents)
<1> DEFINE s == Tail(Contents)
<1>1. /\ ret' = arr[begin]
      /\ begin' = IF begin + 1 = cap THEN 0 ELSE begin + 1
      /\ len' = len - 1 /\ arr' = arr /\ cap' = cap /\ end' = end
      /\ phase = "idle" /\ it' = it
  BY DEF Popl, iter
<1>2. len \in Nat /\ len >= 1 /\ len <= cap /\ cap \in Nat /\ begin \in 0..(cap - 1)
  BY DEF TypeOK
<1>3. At(begin, cap, 1) = begin /\ \A i \in 1..len : At(begin', cap', i) = At(begin, cap, i + 1)
  BY <1>1, <1>2 DEF At
<1>4. Contents \in Seq(Values) /\ Len(Contents) = len
  BY ContentsType
<1>5. \A i \in 1..len : Contents[i] = arr[At(begin, cap, i)]
  BY DEF Contents, Slot
<1>6. Contents # <<>> /\ Head(Contents) = Contents[1] /\ s \in Seq(Values)
      /\ Len(s) = len - 1 /\ \A i \in 1..(len - 1) : s[i] = Contents[i + 1]
  BY <1>2, <1>4
<1> HIDE DEF s
<1>7. ret' = Head(Contents) /\ ret' \in Values
  BY <1>1, <1>2, <1>3, <1>4, <1>5, <1>6
<1>8. TypeOK'
  BY <1>1, <1>2, <1>7 DEF TypeOK
<1>9. ASSUME NEW i \in 1..(len - 1) PROVE arr'[At(begin', cap', i)] = s[i]
  <2>1. i \in 1..len /\ i + 1 \in 1..len
    BY <1>2
  <2> QED BY <1>1, <1>3, <1>5, <1>6, <2>1
<1>10. end' = At(begin', cap', len)
  <2>1. len \in 1..len /\ end = At(begin, cap, len + 1)
    BY <1>2 DEF Consistent, Slot
  <2> QED BY <1>1, <1>3, <2>1
<1>11. Contents' = s /\ Consistent'
  BY <1>1, <1>2, <1>6, <1>8, <1>9, <1>10, NewContents
<1> QED BY <1>6, <1>7, <1>8, <1>11 DEF s

-----------------------------------------------------------------------------
(* The position of the iterator: on the element it delivered last, or just *)
(* before the head; in a full deque it never gets off the head.            *)
IterInv ==
  /\ phase \in {"idle", "walking", "end"}
  /\ visited \in Seq(Values)
  /\ phase = "walking" =>
       /\ it = At(begin, cap, Len(visited))
       /\ len = cap => visited = <<>>

Inv == TypeOK /\ Consistent /\ IterInv /\ IterSound

LEMMA IterNextStep ==
  ASSUME Inv, IterNext
  PROVE  IterInv' /\ IterSound'
<1> DEFINE k == Len(visited)
           i == IF it + 1 = cap THEN 0 ELSE it + 1
<1>1. /\ it' = i
      /\ UNCHANGED <<arr, cap, begin, end, len>>
      /\ phase = "walking"
      /\ IF i = end THEN phase' = "end" /\ visited' = visited
         ELSE visited' = Append(visited, arr[i]) /\ phase' = phase
  BY DEF IterNext, deck
<1>2. /\ k \in Nat /\ len \in Nat /\ cap \in Nat /\ len <= cap /\ cap >= 2
      /\ begin \in 0..(cap - 1) /\ k <= len
      /\ it = At(begin, cap, k)
      /\ len = cap => k = 0
      /\ end = At(begin, cap, len + 1)
      /\ visited \in Seq(Values)
      /\ \A j \in 1..k : visited[j] = Contents[j]
  BY <1>1 DEF Inv, TypeOK, Consistent, Slot, IterInv, IterSound
<1>3. Contents' = Contents
  BY <1>1 DEF Contents, Slot
<1>4. i = At(begin, cap, k + 1)
  BY <1>2 DEF At
<1> HIDE DEF k, i
<1>5. CASE i = end
  <2>1. len < cap => k = len
    BY <1>2, <1>4, <1>5 DEF At
  <2> QED BY <1>1, <1>2, <1>3, <1>5, <2>1 DEF IterInv, IterSound, k
<1>6. CASE i # end
  <2>1. len < cap /\ k < len
    BY <1>2, <1>4, <1>6 DEF At
  <2>2. k + 1 \in 1..len
    BY <1>2, <2>1
  <2>3. Contents[k + 1] = arr[i] /\ arr[i] \in Values
    BY <1>4, <2>2 DEF Contents, Slot, Inv, Consistent
  <2>4. /\ visited' = Append(visited, arr[i]) /\ visited' \in Seq(Values)
        /\ Len(visited') = k + 1
        /\ visited'[k + 1] = arr[i]
        /\ \A j \in 1..k : visited'[j] = visited[j]
    <3>1. visited' = Append(visited, arr[i])
      BY <1>1, <1>6
    <3>2. ASSUME NEW s \in Seq(Values), NEW v \in Values
          PROVE  /\ Append(s, v) \in Seq(Values) /\ Len(Append(s, v)) = Len(s) + 1
                 /\ Append(s, v)[Len(s) + 1] = v
                 /\ \A j \in 1..Len(s) : Append(s, v)[j] = s[j]
      OBVIOUS
    <3> QED BY <1>2, <2>3, <3>1, <3>2 DEF k
  <2>5. \A j \in 1..(k + 1) : visited'[j] = Contents[j]
    BY <1>2, <2>3, <2>4
  <2> QED BY <1>1, <1>2, <1>3, <1>4, <1>6, <2>1, <2>4, <2>5 DEF IterInv, IterSound
<1> QED BY <1>5, <1>6

(* How a step of the deque appears in AbstractDeque.                       *)
LEMMA StepRefines ==
  ASSUME Inv, [Next]_vars
  PROVE  Inv' /\ [Abs!Next]_(Abs!vars)
<1> USE DEF Inv
<1>i. ASSUME phase = "idle", UNCHANGED iter PROVE IterInv' /\ IterSound'
  BY <1>i DEF iter, IterInv, IterSound
<1>k. ASSUME UNCHANGED deck PROVE Contents' = Contents /\ Consistent'
  BY <1>k DEF deck, Contents, Slot, Consistent
<1>1. ASSUME NEW p \in Values, Pushl(p) PROVE Inv' /\ Abs!Next
  <2>1. TypeOK' /\ Consistent' /\ Contents' = <<p>> \o Contents
    BY <1>1, PushlStep
  <2>2. IterInv' /\ IterSound'
    BY <1>1, <1>i DEF Pushl
  <2>3. Abs!PushL(p)
    BY <1>1, <2>1 DEF Pushl, Abs!PushL
  <2> QED BY <2>1, <2>2, <2>3 DEF Abs!Next
<1>2. ASSUME NEW p \in Values, Pushr(p) PROVE Inv' /\ Abs!Next
  <2>1. TypeOK' /\ Consistent' /\ Contents' = Append(Contents, p)
    BY <1>2, PushrStep
  <2>2. IterInv' /\ IterSound'
    BY <1>2, <1>i DEF Pushr
  <2>3. Abs!PushR(p)
    BY <1>2, <2>1 DEF Pushr, Abs!PushR
  <2> QED BY <2>1, <2>2, <2>3 DEF Abs!Next
<1>3. CASE PushFails
  <2>1. TypeOK' /\ Consistent' /\ Contents' = Contents
    BY <1>3, <1>k DEF PushFails, TypeOK, deck, iter
  <2>2. IterInv' /\ IterSound'
    BY <1>3, <1>i DEF PushFails
  <2>3. Abs!PushFails
    BY <1>3, <2>1 DEF PushFails, Abs!PushFails
  <2> QED BY <2>1, <2>2, <2>3 DEF Abs!Next
<1>4. CASE Popl
  <2>1. IterInv' /\ IterSound'
    BY <1>4, <1>i DEF Popl
  <2>2. CASE len # 0
    <3>1. /\ TypeOK' /\ Consistent'
          /\ Contents # <<>> /\ ret' = Head(Contents) /\ Contents' = Tail(Contents)
      BY <1>4, <2>2, PoplStep
    <3>2. Abs!PopL
      BY <3>1 DEF Abs!PopL
    <3> QED BY <2>1, <3>1, <3>2 DEF Abs!Next
  <2>3. CASE len = 0
    <3>1. ret' = Null /\ UNCHANGED <<deck, iter>>
      BY <1>4, <2>3 DEF Popl
    <3>2. TypeOK' /\ Consistent' /\ Contents' = Contents
      BY <3>1, <1>k DEF TypeOK, deck, iter
    <3>3. Contents = <<>>
      BY <2>3, ContentsType
    <3>4. Abs!PopEmpty
      BY <3>1, <3>2, <3>3 DEF Abs!PopEmpty
    <3> QED BY <2>1, <3>2, <3>4 DEF Abs!Next
  <2> QED BY <2>2, <2>3
<1>5. CASE IterInit
  <2>1. TypeOK' /\ Consistent' /\ Contents' = Contents /\ ret' = ret
    BY <1>5, <1>k DEF IterInit, TypeOK, deck
  <2>2. IterInv' /\ IterSound'
    BY <1>5, <2>1 DEF IterInit, IterInv, IterSound, deck, TypeOK, At
  <2> QED BY <2>1, <2>2 DEF Abs!vars
<1>6. CASE IterNext
  <2>1. TypeOK' /\ Consistent' /\ Contents' = Contents /\ ret' = ret
    BY <1>6, <1>k DEF IterNext, TypeOK, deck
  <2>2. IterInv' /\ IterSound'
    BY <1>6, IterNextStep
  <2> QED BY <2>1, <2>2 DEF Abs!vars
<1>7. CASE IterDone
  <2>1. TypeOK' /\ Consistent' /\ Contents' = Contents /\ ret' = ret
    BY <1>7, <1>k DEF IterDone, TypeOK, deck
  <2>2. IterInv' /\ IterSound'
    BY <1>7, <2>1 DEF IterDone, IterInv, IterSound
  <2> QED BY <2>1, <2>2 DEF Abs!vars
<1>8. CASE UNCHANGED vars
  <2>1. TypeOK' /\ Consistent' /\ Contents' = Contents /\ ret' = ret
    BY <1>8, <1>k DEF vars, TypeOK, deck, iter
  <2>2. IterInv' /\ IterSound'
    BY <1>8, <2>1 DEF vars, iter, deck, IterInv, IterSound
  <2> QED BY <2>1, <2>2 DEF Abs!vars
<1> QED BY <1>1, <1>2, <1>3, <1>4, <1>5, <1>6, <1>7, <1>8 DEF Next

LEMMA InitRefines == Init => Inv /\ Abs!Init
<1> SUFFICES ASSUME Init PROVE Inv /\ Abs!Init
  OBVIOUS
<1>1. TypeOK
  BY DEF Init, TypeOK
<1>2. Contents = <<>>
  BY DEF Init, Contents
<1>3. Consistent
  BY DEF Init, Consistent, Slot, At
<1>4. IterInv /\ IterSound
  BY DEF Init, IterInv, IterSound
<1> QED BY <1>1, <1>2, <1>3, <1>4 DEF Inv, Init, Abs!Init

(* No push or pop of deque.c takes an index out of the array, and an       *)
(* iterator is outside of it only before its first step.                   *)
THEOREM TypeCorrect == Spec => []TypeOK
<1>1. Inv => TypeOK
  BY DEF Inv
<1>2. Init => Inv
  BY InitRefines
<1>3. Inv /\ [Next]_vars => Inv'
  BY StepRefines
<1> QED BY <1>1, <1>2, <1>3, PTL DEF Spec

(* The indices of the deque stay consistent with its length through every  *)
(* growth and wrap-around.                                                 *)
THEOREM DequeConsistent == Spec => []Consistent
<1>1. Inv => Consistent
  BY DEF Inv
<1>2. Init => Inv
  BY InitRefines
<1>3. Inv /\ [Next]_vars => Inv'
  BY StepRefines
<1> QED BY <1>1, <1>2, <1>3, PTL DEF Spec

(* An iterator delivers the elements from the head on, and all of them in  *)
(* a deque that is not full: what Broker.tla assumes of Visited.           *)
THEOREM IteratorSound == Spec => []IterSound
<1>1. Inv => IterSound
  BY DEF Inv
<1>2. Init => Inv
  BY InitRefines
<1>3. Inv /\ [Next]_vars => Inv'
  BY StepRefines
<1> QED BY <1>1, <1>2, <1>3, PTL DEF Spec

(* The circular array implements a sequence: no element is lost,           *)
(* duplicated or reordered by any pushes and pops of the server.           *)
THEOREM DequeRefinement == Spec => ImplementsDeque
<1>1. Init => Inv /\ Abs!Init
  BY InitRefines
<1>2. Inv /\ [Next]_vars => Inv' /\ [Abs!Next]_(Abs!vars)
  BY StepRefines
<1> QED BY <1>1, <1>2, PTL DEF Spec, ImplementsDeque, Abs!Spec
=============================================================================
