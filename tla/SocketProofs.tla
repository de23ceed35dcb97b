---------------------------- MODULE SocketProofs ----------------------------
(***************************************************************************)
(* Proofs about Socket.tla: for all messages and lengths, all cuts of the  *)
(* stream into frames, reads and writes, and any number of messages.       *)
(***************************************************************************)
EXTENDS Socket, FiniteSetTheorems, TLAPS

-----------------------------------------------------------------------------
(* Sequences.                                                              *)

LEMMA CatFacts ==
  ASSUME NEW S, NEW s \in Seq(S), NEW t \in Seq(S)
  PROVE  /\ s \o t \in Seq(S) /\ Len(s \o t) = Len(s) + Len(t)
         /\ Len(s) \in Nat /\ Len(t) \in Nat
         /\ \A i \in 1..Len(s) : (s \o t)[i] = s[i]
         /\ \A i \in 1..Len(t) : (s \o t)[Len(s) + i] = t[i]
OBVIOUS

(* Two sequences with the same length and the same elements are the same.  *)
LEMMA SameSeq ==
  ASSUME NEW S, NEW s \in Seq(S), NEW t \in Seq(S), Len(s) = Len(t),
         \A i \in 1..Len(s) : s[i] = t[i]
  PROVE  s = t
<1>1. s = [i \in 1..Len(s) |-> s[i]] /\ t = [i \in 1..Len(t) |-> t[i]]
  OBVIOUS
<1> QED BY <1>1

LEMMA CatEmpty ==
  ASSUME NEW S, NEW s \in Seq(S)
  PROVE  <<>> \o s = s /\ s \o <<>> = s /\ <<>> \in Seq(S)
OBVIOUS

LEMMA CatAssoc ==
  ASSUME NEW S, NEW s \in Seq(S), NEW t \in Seq(S), NEW u \in Seq(S)
  PROVE  (s \o t) \o u = s \o (t \o u)
<1> DEFINE a == (s \o t) \o u
           b == s \o (t \o u)
<1>1. s \o t \in Seq(S) /\ t \o u \in Seq(S)
  BY CatFacts
<1>2. a \in Seq(S) /\ b \in Seq(S)
  BY <1>1, CatFacts
<1>3. Len(s) \in Nat /\ Len(t) \in Nat /\ Len(u) \in Nat
  BY CatFacts
<1>4. Len(s \o t) = Len(s) + Len(t) /\ Len(t \o u) = Len(t) + Len(u)
  BY CatFacts
<1>5. Len(a) = Len(s) + Len(t) + Len(u) /\ Len(b) = Len(s) + Len(t) + Len(u)
  BY <1>1, <1>3, <1>4, CatFacts
<1>6. ASSUME NEW i \in 1..Len(a) PROVE a[i] = b[i]
  <2>1. CASE i <= Len(s)
    <3>1. i \in 1..Len(s) /\ i \in 1..Len(s \o t)
      BY <1>3, <1>4, <1>5, <2>1
    <3>2. a[i] = (s \o t)[i] /\ (s \o t)[i] = s[i] /\ b[i] = s[i]
      BY <1>1, <3>1, CatFacts
    <3> QED BY <3>2
  <2>2. CASE i > Len(s) /\ i <= Len(s) + Len(t)
    <3>1. i - Len(s) \in 1..Len(t) /\ i = Len(s) + (i - Len(s)) /\ i - Len(s) \in 1..Len(t \o u)
          /\ i \in 1..Len(s \o t)
      BY <1>3, <1>4, <1>5, <2>2
    <3>2. a[i] = (s \o t)[i] /\ (s \o t)[i] = t[i - Len(s)]
      BY <1>1, <3>1, CatFacts
    <3>3. b[i] = (t \o u)[i - Len(s)] /\ (t \o u)[i - Len(s)] = t[i - Len(s)]
      BY <1>1, <3>1, CatFacts
    <3> QED BY <3>2, <3>3
  <2>3. CASE i > Len(s) + Len(t)
    <3> DEFINE j == i - (Len(s) + Len(t))
    <3>1. /\ j \in 1..Len(u) /\ i = Len(s \o t) + j
          /\ Len(t) + j \in 1..Len(t \o u) /\ i = Len(s) + (Len(t) + j)
      BY <1>3, <1>4, <1>5, <2>3
    <3> HIDE DEF j
    <3>2. a[i] = u[j]
      BY <1>1, <3>1, CatFacts
    <3>3. b[i] = (t \o u)[Len(t) + j] /\ (t \o u)[Len(t) + j] = u[j]
      BY <1>1, <3>1, CatFacts
    <3> QED BY <3>2, <3>3
  <2> QED BY <1>3, <1>5, <2>1, <2>2, <2>3
<1> HIDE DEF a, b
<1>7. a = b
  BY <1>2, <1>5, <1>6, SameSeq
<1> QED BY <1>7 DEF a, b

LEMMA SubSeqFacts ==
  ASSUME NEW S, NEW s \in Seq(S), NEW b \in 0..Len(s), NEW a \in 1..(b + 1)
  PROVE  /\ SubSeq(s, a, b) \in Seq(S) /\ Len(SubSeq(s, a, b)) = b - a + 1
         /\ \A i \in 1..(b - a + 1) : SubSeq(s, a, b)[i] = s[a + i - 1]
<1>1. Len(s) \in Nat /\ a \in Nat /\ b \in Nat /\ a <= b + 1 /\ b <= Len(s)
  OBVIOUS
<1>2. Len(SubSeq(s, a, b)) = b - a + 1
  BY <1>1
<1>3. \A i \in 1..(b - a + 1) : SubSeq(s, a, b)[i] = s[a + i - 1]
  BY <1>1
<1>4. SubSeq(s, a, b) \in Seq(S)
  BY <1>1
<1> QED BY <1>2, <1>3, <1>4

(* A sequence is its first n elements and the rest.                        *)
LEMMA CutSeq ==
  ASSUME NEW S, NEW s \in Seq(S), NEW n \in 0..Len(s)
  PROVE  /\ SubSeq(s, 1, n) \in Seq(S) /\ SubSeq(s, n + 1, Len(s)) \in Seq(S)
         /\ Len(SubSeq(s, 1, n)) = n /\ Len(SubSeq(s, n + 1, Len(s))) = Len(s) - n
         /\ SubSeq(s, 1, n) \o SubSeq(s, n + 1, Len(s)) = s
<1> DEFINE x == SubSeq(s, 1, n)
           y == SubSeq(s, n + 1, Len(s))
           l == Len(s)
<1>1. n \in 0..l /\ l \in Nat /\ 1 \in 1..(n + 1) /\ n + 1 \in 1..(l + 1)
  OBVIOUS
<1>2. x \in Seq(S) /\ Len(x) = n /\ \A i \in 1..n : x[i] = s[i]
  <2>1. x \in Seq(S) /\ Len(x) = n - 1 + 1 /\ \A i \in 1..(n - 1 + 1) : x[i] = s[1 + i - 1]
    BY <1>1, SubSeqFacts
  <2>2. n - 1 + 1 = n /\ \A i \in 1..n : 1 + i - 1 = i
    BY <1>1
  <2> HIDE DEF x
  <2> QED BY <2>1, <2>2
<1>3. y \in Seq(S) /\ Len(y) = l - n /\ \A i \in 1..(l - n) : y[i] = s[n + i]
  <2>1. y \in Seq(S) /\ Len(y) = l - (n + 1) + 1 /\ \A i \in 1..(l - (n + 1) + 1) : y[i] = s[(n + 1) + i - 1]
    BY <1>1, SubSeqFacts
  <2>2. l - (n + 1) + 1 = l - n /\ \A i \in 1..(l - n) : (n + 1) + i - 1 = n + i
    BY <1>1
  <2>3. ASSUME NEW i \in 1..(l - n) PROVE y[i] = s[n + i]
    <3>1. i \in 1..(l - (n + 1) + 1) /\ (n + 1) + i - 1 = n + i
      BY <2>2
    <3> HIDE DEF y, l
    <3> QED BY <2>1, <3>1
  <2> HIDE DEF y, l
  <2> QED BY <2>1, <2>2, <2>3
<1> HIDE DEF x, y
<1>4. x \o y \in Seq(S) /\ Len(x \o y) = n + (l - n)
      /\ (\A i \in 1..n : (x \o y)[i] = x[i]) /\ \A i \in 1..(l - n) : (x \o y)[n + i] = y[i]
  BY <1>2, <1>3, CatFacts
<1>5. ASSUME NEW i \in 1..l PROVE (x \o y)[i] = s[i]
  <2>1. CASE i <= n
    BY <1>1, <1>2, <1>4, <2>1
  <2>2. CASE i > n
    <3>1. i - n \in 1..(l - n) /\ n + (i - n) = i
      BY <1>1, <2>2
    <3> QED BY <1>3, <1>4, <3>1
  <2>3. i <= n \/ i > n
    BY <1>1
  <2> QED BY <2>1, <2>2, <2>3
<1>6. x \o y = s
  <2>1. Len(x \o y) = Len(s) /\ \A i \in 1..Len(x \o y) : (x \o y)[i] = s[i]
    BY <1>1, <1>4, <1>5
  <2> QED BY <1>4, <2>1, SameSeq
<1> QED BY <1>2, <1>3, <1>6 DEF x, y

-----------------------------------------------------------------------------
(* Messages.                                                               *)

LEMMA CatUnits ==
  \A s, t \in Seq(Units) :
    /\ s \o t \in Seq(Units) /\ Len(s \o t) = Len(s) + Len(t)
    /\ \A i \in 1..Len(s) : (s \o t)[i] = s[i]
    /\ \A i \in 1..Len(t) : (s \o t)[Len(s) + i] = t[i]
BY CatFacts

(* All units that there are on a connection.                               *)
Wire ==
  Units \cup {Lead(n) : n \in Nat} \cup {BareLead(n) : n \in Nat}
        \cup {Extended(n) : n \in Nat} \cup {Mask(k) : k \in Masks}
        \cup {Masked(k, u) : k \in Masks, u \in Units}

Streams == Seq(Wire)
Texts == Seq(Units)

LEMMA CatWire ==
  \A s, t \in Streams :
    /\ s \o t \in Streams /\ Len(s \o t) = Len(s) + Len(t)
    /\ Len(s) \in Nat /\ Len(t) \in Nat
    /\ \A i \in 1..Len(s) : (s \o t)[i] = s[i]
    /\ \A i \in 1..Len(t) : (s \o t)[Len(s) + i] = t[i]
BY CatFacts DEF Streams

LEMMA EmptyWire ==
  <<>> \in Streams /\ \A s \in Streams : <<>> \o s = s /\ s \o <<>> = s
BY CatEmpty DEF Streams

LEMMA AssocWire ==
  \A s, t, u \in Streams : (s \o t) \o u = s \o (t \o u)
BY CatAssoc

LEMMA CatIn ==
  \A s, t \in Streams : s \o t \in Streams
BY CatWire

LEMMA CutWire ==
  \A s \in Streams : \A n \in 0..Len(s) :
    /\ SubSeq(s, 1, n) \in Streams /\ SubSeq(s, n + 1, Len(s)) \in Streams
    /\ Len(SubSeq(s, 1, n)) = n /\ Len(SubSeq(s, n + 1, Len(s))) = Len(s) - n
    /\ SubSeq(s, 1, n) \o SubSeq(s, n + 1, Len(s)) = s
BY CutSeq DEF Streams

(* One stream, cut in two ways.                                            *)
Splits(s, t, u, v) == s \o t = u \o v

(* A stream that starts with u, of which s has been received: the front of *)
(* s is u as soon as s is long enough, and otherwise s is a front of u.    *)
Fronts(s, t, u, v) ==
  /\ \A i \in 1..Len(u) : i <= Len(s) => s[i] = u[i]
  /\ Len(s) + Len(t) = Len(u) + Len(v)
  /\ Len(u) <= Len(s) => /\ SubSeq(s, 1, Len(u)) = u
                         /\ SubSeq(s, Len(u) + 1, Len(s)) \in Streams
                         /\ SubSeq(s, Len(u) + 1, Len(s)) \o t = v

LEMMA FrontWire ==
  ASSUME NEW s \in Streams, NEW t \in Streams, NEW u \in Streams, NEW v \in Streams,
         Splits(s, t, u, v)
  PROVE  Fronts(s, t, u, v)
<1> s \o t = u \o v
  BY DEF Splits
<1>1. /\ Len(s) \in Nat /\ Len(t) \in Nat /\ Len(u) \in Nat /\ Len(v) \in Nat
      /\ Len(s \o t) = Len(s) + Len(t) /\ Len(u \o v) = Len(u) + Len(v)
  BY CatWire
<1>2. ASSUME NEW i \in 1..Len(u), i <= Len(s) PROVE s[i] = u[i]
  <2>1. i \in 1..Len(s)
    BY <1>1, <1>2
  <2>2. (s \o t)[i] = s[i] /\ (u \o v)[i] = u[i]
    BY <2>1, CatWire
  <2> QED BY <2>2
<1>3. Len(s) + Len(t) = Len(u) + Len(v)
  BY <1>1
<1>4. ASSUME Len(u) <= Len(s)
      PROVE  /\ SubSeq(s, 1, Len(u)) = u
             /\ SubSeq(s, Len(u) + 1, Len(s)) \in Streams
             /\ SubSeq(s, Len(u) + 1, Len(s)) \o t = v
  <2> DEFINE n == Len(u)
             x == SubSeq(s, 1, n)
             y == SubSeq(s, n + 1, Len(s))
  <2>1. n \in 0..Len(s) /\ 1 \in 1..(n + 1) /\ n + 1 \in 1..(Len(s) + 1) /\ Len(s) \in 0..Len(s)
    BY <1>1, <1>4
  <2>2. x \in Streams /\ y \in Streams /\ Len(x) = n /\ Len(y) = Len(s) - n /\ x \o y = s
    BY <2>1, CutWire
  <2> HIDE DEF x, y
  <2>3. \A i \in 1..n : x[i] = s[i]
    BY <2>2, CatWire
  <2>4. x = u
    <3>1. \A i \in 1..n : s[i] = u[i]
      BY <1>1, <1>2, <1>4
    <3>2. \A i \in 1..Len(x) : x[i] = u[i]
      BY <3>1, <1>1, <1>2, <1>4, <2>2, <2>3
    <3> QED BY <2>2, <3>2, SameSeq DEF Streams
  <2>5. u \o (y \o t) = u \o v
    <3>1. u \o y = s
      BY <2>2, <2>4
    <3>2. (u \o y) \o t = u \o (y \o t)
      <4>1. y \in Streams
        BY <2>2
      <4>2. \A z \in Streams : (u \o z) \o t = u \o (z \o t)
        BY AssocWire
      <4> QED BY <4>1, <4>2
    <3> QED BY <3>1, <3>2
  <2>6. y \o t \in Streams /\ Len(y \o t) = Len(v)
    <3>1. y \o t \in Streams /\ Len(y \o t) = Len(y) + Len(t)
      BY <2>2, CatWire
    <3> QED BY <1>1, <1>3, <2>2, <3>1
  <2>7. ASSUME NEW i \in 1..Len(v) PROVE (y \o t)[i] = v[i]
    <3>1. (u \o (y \o t))[Len(u) + i] = (y \o t)[i]
      BY <2>6, CatWire DEF Streams
    <3>2. (u \o v)[Len(u) + i] = v[i]
      BY CatWire
    <3> QED BY <2>5, <3>1, <3>2
  <2>8. y \o t = v
    BY <2>6, <2>7, SameSeq DEF Streams
  <2> QED BY <2>2, <2>4, <2>8 DEF x, y
<1> QED BY <1>2, <1>3, <1>4 DEF Fronts

LEMMA SmallLength ==
  ASSUME NEW n \in Nat
  PROVE  /\ n % LenMod \in 0..(LenMod - 1)
         /\ n < LenMod => n % LenMod = n
BY LenAssumption

LEMMA LengthUnit ==
  ASSUME NEW n \in Nat
  PROVE  Length(n) \in Units
<1> DEFINE k == n % LenMod
<1>1. k \in 0..(LenMod - 1) /\ k \in Nat /\ k < LenMod
  BY SmallLength, LenAssumption
<1>2. k % LenMod = k
  BY <1>1, SmallLength
<1>3. Length(n) = Length(k)
  BY <1>2 DEF Length
<1> HIDE DEF k
<1> QED BY <1>1, <1>3 DEF Units

LEMMA MessageUnits ==
  /\ Magic \in Units /\ Garbage \in Units
  /\ \A m \in Msgs : Json(m) \in Units /\ Bin(m) \in Units
  /\ Units \subseteq Wire
<1>1. Magic \in Units /\ Garbage \in Units
  BY DEF Units
<1>2. \A m \in Msgs : Json(m) \in Units /\ Bin(m) \in Units
  BY DEF Units
<1>3. Units \subseteq Wire
  BY DEF Wire
<1> QED BY <1>1, <1>2, <1>3

LEMMA BodyFacts ==
  ASSUME NEW m \in Msgs
  PROVE  /\ Body(m) \in Seq(Units) /\ Header(m) \in Seq(Units)
         /\ JsonPart(m) \in Seq(Units) /\ BinPart(m) \in Seq(Units)
         /\ Len(Body(m)) = 3 + JsonLen[m] + BinLen[m]
         /\ Len(Body(m)) \in Nat /\ Len(Body(m)) > 3 /\ Len(Body(m)) < LenMod
         /\ Body(m)[1] = Magic /\ Body(m)[2] = Length(JsonLen[m])
         /\ Body(m)[3] = Length(BinLen[m]) /\ Body(m)[4] = Json(m)
<1> DEFINE h == Header(m)
           j == JsonPart(m)
           b == BinPart(m)
<1>1. JsonLen[m] \in Nat \ {0} /\ BinLen[m] \in Nat /\ LenMod \in Nat
      /\ 3 + JsonLen[m] + BinLen[m] < LenMod
  BY LenAssumption
<1>2. h \in Seq(Units) /\ Len(h) = 3
      /\ h[1] = Magic /\ h[2] = Length(JsonLen[m]) /\ h[3] = Length(BinLen[m])
  <2>1. Magic \in Units /\ Length(JsonLen[m]) \in Units /\ Length(BinLen[m]) \in Units
    BY <1>1, LengthUnit, MessageUnits
  <2> QED BY <2>1 DEF Header
<1>3. j \in Seq(Units) /\ Len(j) = JsonLen[m] /\ j[1] = Json(m)
  BY <1>1, MessageUnits DEF JsonPart
<1>4. b \in Seq(Units) /\ Len(b) = BinLen[m]
  BY <1>1, MessageUnits DEF BinPart
<1> HIDE DEF h, j, b
<1>5. /\ h \o j \in Seq(Units) /\ Len(h \o j) = 3 + JsonLen[m]
      /\ (\A i \in 1..3 : (h \o j)[i] = h[i]) /\ (h \o j)[3 + 1] = j[1]
  <2>1. /\ h \o j \in Seq(Units) /\ Len(h \o j) = Len(h) + Len(j)
        /\ \A i \in 1..Len(h) : (h \o j)[i] = h[i]
        /\ \A i \in 1..Len(j) : (h \o j)[Len(h) + i] = j[i]
    BY <1>2, <1>3, CatUnits
  <2>2. 1 \in 1..Len(j)
    BY <1>1, <1>3
  <2> QED BY <1>2, <1>3, <2>1, <2>2
<1>6. /\ (h \o j) \o b \in Seq(Units) /\ Len((h \o j) \o b) = (3 + JsonLen[m]) + BinLen[m]
      /\ \A i \in 1..(3 + JsonLen[m]) : ((h \o j) \o b)[i] = (h \o j)[i]
  <2>1. /\ (h \o j) \o b \in Seq(Units) /\ Len((h \o j) \o b) = Len(h \o j) + Len(b)
        /\ \A i \in 1..Len(h \o j) : ((h \o j) \o b)[i] = (h \o j)[i]
    BY <1>4, <1>5, CatUnits
  <2> QED BY <1>4, <1>5, <2>1
<1>7. Body(m) = (h \o j) \o b
  BY DEF Body, h, j, b
<1>8. 1 \in 1..3 /\ 2 \in 1..3 /\ 3 \in 1..3 /\ 3 + 1 = 4 /\ \A i \in 1..4 : i \in 1..(3 + JsonLen[m])
  BY <1>1
<1>9. /\ Body(m)[1] = Magic /\ Body(m)[2] = Length(JsonLen[m])
      /\ Body(m)[3] = Length(BinLen[m]) /\ Body(m)[4] = Json(m)
  BY <1>2, <1>3, <1>5, <1>6, <1>7, <1>8
<1>10. /\ Body(m) \in Seq(Units) /\ Len(Body(m)) = 3 + JsonLen[m] + BinLen[m]
       /\ Len(Body(m)) \in Nat /\ Len(Body(m)) > 3 /\ Len(Body(m)) < LenMod
  BY <1>1, <1>6, <1>7
<1> QED BY <1>2, <1>3, <1>4, <1>9, <1>10 DEF h, j, b

(* A buffer b at the front of a stream that starts with the body of m, of  *)
(* which t has not arrived.  As soon as the header is there the size of    *)
(* the message is known, and as soon as the whole message is there it is   *)
(* recognized, as m and as nothing else.                                   *)
MessageFirst(b, t, m, v) ==
  /\ HasHeader(b) => b[1] = Magic /\ MsgSize(b) = Len(Body(m))
  /\ HasMessage(b) => /\ Len(Body(m)) <= Len(b)
                      /\ IsMessage(b, m) /\ \A n \in Msgs : IsMessage(b, n) => n = m
                      /\ SubSeq(b, MsgSize(b) + 1, Len(b)) \in Streams
                      /\ SubSeq(b, MsgSize(b) + 1, Len(b)) \o t = v
  /\ Len(b) + Len(t) = Len(Body(m)) + Len(v)
  /\ ~HasMessage(b) => Len(b) < Len(Body(m))

LEMMA FrontMessage ==
  ASSUME NEW m \in Msgs, NEW b \in Streams, NEW t \in Streams, NEW v \in Streams,
         Splits(b, t, Body(m), v)
  PROVE  MessageFirst(b, t, m, v)
<1> DEFINE u == Body(m)
           n == Len(u)
<1>1. /\ u \in Streams /\ n = 3 + JsonLen[m] + BinLen[m] /\ n \in Nat /\ n > 3 /\ n < LenMod
      /\ u[1] = Magic /\ u[2] = Length(JsonLen[m]) /\ u[3] = Length(BinLen[m])
  BY BodyFacts, MessageUnits DEF Streams
<1> HIDE DEF u
<1>2. Len(b) \in Nat
  OBVIOUS
<1>3. /\ \A i \in 1..n : i <= Len(b) => b[i] = u[i]
      /\ Len(b) + Len(t) = n + Len(v)
      /\ n <= Len(b) => /\ SubSeq(b, 1, n) = u
                        /\ SubSeq(b, n + 1, Len(b)) \in Streams
                        /\ SubSeq(b, n + 1, Len(b)) \o t = v
  <2>1. Fronts(b, t, u, v)
    BY <1>1, FrontWire DEF u
  <2> QED BY <1>1, <2>1 DEF Fronts
<1>4. ASSUME HasHeader(b) PROVE b[1] = Magic /\ MsgSize(b) = n
  <2>1. Len(b) >= 3
    BY <1>4 DEF HasHeader
  <2>2. b[1] = Magic /\ b[2] = Length(JsonLen[m]) /\ b[3] = Length(BinLen[m])
    <3>1. \A i \in 1..3 : i \in 1..n /\ i <= Len(b)
      BY <1>1, <1>2, <2>1
    <3>2. 1 \in 1..3 /\ 2 \in 1..3 /\ 3 \in 1..3
      OBVIOUS
    <3> QED BY <1>1, <1>3, <3>1, <3>2
  <2>3. b[2][2] = JsonLen[m] /\ b[3][2] = BinLen[m]
    <3>1. JsonLen[m] \in Nat /\ BinLen[m] \in Nat /\ JsonLen[m] < LenMod /\ BinLen[m] < LenMod
      BY LenAssumption
    <3>2. JsonLen[m] % LenMod = JsonLen[m] /\ BinLen[m] % LenMod = BinLen[m]
      BY <3>1, SmallLength
    <3> QED BY <2>2, <3>2 DEF Length
  <2>4. MsgSize(b) = n % LenMod
    BY <1>1, <2>3 DEF MsgSize
  <2> QED BY <1>1, <2>2, <2>4, SmallLength
<1>5. ASSUME HasMessage(b)
      PROVE  /\ n <= Len(b) /\ IsMessage(b, m) /\ \A k \in Msgs : IsMessage(b, k) => k = m
             /\ SubSeq(b, MsgSize(b) + 1, Len(b)) \in Streams
             /\ SubSeq(b, MsgSize(b) + 1, Len(b)) \o t = v
  <2>1. MsgSize(b) = n /\ n <= Len(b)
    BY <1>1, <1>2, <1>4, <1>5 DEF HasMessage
  <2>2. SubSeq(b, 1, MsgSize(b)) = u
    BY <1>3, <2>1
  <2>3. ASSUME NEW k \in Msgs, IsMessage(b, k) PROVE k = m
    <3>1. Body(k) = Body(m)
      BY <2>2, <2>3 DEF IsMessage, u
    <3>2. Json(k) = Json(m)
      BY <3>1, BodyFacts
    <3> QED BY <3>2 DEF Json
  <2> QED BY <1>3, <2>1, <2>2, <2>3 DEF IsMessage, u
<1>6. ASSUME ~HasMessage(b) PROVE Len(b) < n
  BY <1>1, <1>2, <1>4, <1>6 DEF HasMessage, HasHeader
<1> QED BY <1>3, <1>4, <1>5, <1>6 DEF u, MessageFirst

-----------------------------------------------------------------------------
(* Frames.                                                                 *)

(* The units of a masked frame's header before a payload of n.             *)
HeaderLen(n) == IF n < Len7 THEN 2 ELSE IF n < Len16 THEN 3 ELSE 4

LEMMA ExtendedFacts ==
  ASSUME NEW n \in Nat
  PROVE  /\ HeaderLen(n) \in 2..4 /\ Len7Code(n) \in Nat
         /\ ExtendedPart(n) \in Streams /\ Len(ExtendedPart(n)) = HeaderLen(n) - 2
         /\ \A i \in 1..(HeaderLen(n) - 2) : ExtendedPart(n)[i] = Extended(n)
         /\ Len7Code(n) < Len7 <=> HeaderLen(n) = 2
         /\ Len7Code(n) = Len7 <=> HeaderLen(n) = 3
         /\ Len7Code(n) < Len7 => Len7Code(n) = n
         /\ Lead(Len7Code(n)) \in Wire /\ BareLead(Len7Code(n)) \in Wire
<1> DEFINE e == Extended(n)
<1>1. Len7 \in Nat /\ Len16 \in Nat /\ Len7 < Len16
  BY ClassAssumption
<1>2. HeaderLen(n) \in 2..4 /\ Len7Code(n) \in Nat
  BY <1>1 DEF HeaderLen, Len7Code
<1>3. /\ Len7Code(n) < Len7 <=> HeaderLen(n) = 2
      /\ Len7Code(n) = Len7 <=> HeaderLen(n) = 3
      /\ Len7Code(n) < Len7 => Len7Code(n) = n
  BY <1>1 DEF HeaderLen, Len7Code
<1>4. Lead(Len7Code(n)) \in Wire /\ BareLead(Len7Code(n)) \in Wire
  BY <1>2 DEF Wire
<1>5. e \in Wire
  BY DEF Wire
<1> HIDE DEF e
<1>6. /\ ExtendedPart(n) \in Streams /\ Len(ExtendedPart(n)) = HeaderLen(n) - 2
      /\ \A i \in 1..(HeaderLen(n) - 2) : ExtendedPart(n)[i] = e
  <2>1. CASE n < Len7
    <3>1. ExtendedPart(n) = <<>> /\ HeaderLen(n) = 2
      BY <2>1 DEF ExtendedPart, HeaderLen
    <3> QED BY <3>1 DEF Streams
  <2>2. CASE ~(n < Len7) /\ n < Len16
    <3>1. ExtendedPart(n) = <<e>> /\ HeaderLen(n) = 3
      BY <2>2 DEF ExtendedPart, HeaderLen, e
    <3> QED BY <1>5, <3>1 DEF Streams
  <2>3. CASE ~(n < Len7) /\ ~(n < Len16)
    <3>1. ExtendedPart(n) = <<e, e>> /\ HeaderLen(n) = 4
      BY <2>3 DEF ExtendedPart, HeaderLen, e
    <3> QED BY <1>5, <3>1 DEF Streams
  <2> QED BY <2>1, <2>2, <2>3
<1> QED BY <1>2, <1>3, <1>4, <1>6 DEF e

LEMMA ClientFrameFacts ==
  ASSUME NEW k \in Masks, NEW p \in Texts
  PROVE  LET c == ClientFrame(k, p)
             h == HeaderLen(Len(p))
         IN  /\ c \in Streams /\ Len(c) = h + Len(p) /\ h \in 2..4
             /\ c[1] = Lead(Len7Code(Len(p)))
             /\ \A i \in 2..(h - 1) : c[i] = Extended(Len(p))
             /\ c[h] = Mask(k)
             /\ \A i \in 1..Len(p) : c[h + i] = Masked(k, p[i])
<1> DEFINE n == Len(p)
           h == HeaderLen(n)
           x == <<Lead(Len7Code(n))>>
           e == ExtendedPart(n)
           y == <<Mask(k)>>
           z == [i \in 1..n |-> Masked(k, p[i])]
<1>1. n \in Nat
  OBVIOUS
<1> HIDE DEF n
<1>2. /\ h \in 2..4 /\ e \in Streams /\ Len(e) = h - 2
      /\ \A i \in 1..(h - 2) : e[i] = Extended(n)
  BY <1>1, ExtendedFacts
<1>3. x \in Streams /\ Len(x) = 1 /\ x[1] = Lead(Len7Code(n))
  <2>1. Lead(Len7Code(n)) \in Wire
    BY <1>1, ExtendedFacts
  <2> QED BY <2>1 DEF Streams
<1>4. y \in Streams /\ Len(y) = 1 /\ y[1] = Mask(k)
  <2>1. Mask(k) \in Wire
    BY DEF Wire
  <2> QED BY <2>1 DEF Streams
<1>5. z \in Streams /\ Len(z) = n /\ \A i \in 1..n : z[i] = Masked(k, p[i])
  <2>1. ASSUME NEW i \in 1..n PROVE Masked(k, p[i]) \in Wire
    <3>1. p[i] \in Units
      BY DEF n, Texts
    <3> QED BY <3>1 DEF Wire
  <2> QED BY <1>1, <2>1 DEF Streams
<1>6. ClientFrame(k, p) = ((x \o e) \o y) \o z
  BY DEF ClientFrame, n
<1> HIDE DEF h, x, e, y, z
<1>7. /\ x \o e \in Streams /\ Len(x \o e) = h - 1 /\ (x \o e)[1] = Lead(Len7Code(n))
      /\ \A i \in 2..(h - 1) : (x \o e)[i] = Extended(n)
  <2>1. /\ x \o e \in Streams /\ Len(x \o e) = Len(x) + Len(e)
        /\ \A i \in 1..Len(x) : (x \o e)[i] = x[i]
        /\ \A i \in 1..Len(e) : (x \o e)[Len(x) + i] = e[i]
    BY <1>2, <1>3, CatWire
  <2>2. ASSUME NEW i \in 2..(h - 1) PROVE (x \o e)[i] = Extended(n)
    <3>1. i - 1 \in 1..(h - 2) /\ 1 + (i - 1) = i
      BY <1>2
    <3> QED BY <1>2, <1>3, <2>1, <3>1
  <2> QED BY <1>2, <1>3, <2>1, <2>2
<1> DEFINE a == x \o e
           b == a \o y
<1>8. a \in Streams /\ Len(a) = h - 1 /\ a[1] = Lead(Len7Code(n))
      /\ \A i \in 2..(h - 1) : a[i] = Extended(n)
  BY <1>7
<1> HIDE DEF a
<1>9. /\ b \in Streams /\ Len(b) = h /\ b[1] = Lead(Len7Code(n)) /\ b[h] = Mask(k)
      /\ \A i \in 2..(h - 1) : b[i] = Extended(n)
  <2>1. /\ b \in Streams /\ Len(b) = Len(a) + Len(y)
        /\ \A i \in 1..Len(a) : b[i] = a[i]
        /\ \A i \in 1..Len(y) : b[Len(a) + i] = y[i]
    BY <1>4, <1>8, CatWire
  <2>2. (h - 1) + 1 = h /\ 1 \in 1..(h - 1) /\ \A i \in 2..(h - 1) : i \in 1..(h - 1)
    BY <1>2
  <2> HIDE DEF b
  <2> QED BY <1>4, <1>8, <2>1, <2>2
<1> HIDE DEF b
<1>10. /\ b \o z \in Streams /\ Len(b \o z) = h + n
       /\ (\A i \in 1..h : (b \o z)[i] = b[i]) /\ \A i \in 1..n : (b \o z)[h + i] = z[i]
  BY <1>5, <1>9, CatWire
<1>11. ClientFrame(k, p) = b \o z
  BY <1>6 DEF a, b
<1>12. 1 \in 1..h /\ h \in 1..h /\ \A i \in 2..(h - 1) : i \in 1..h
  BY <1>2
<1> DEFINE c == ClientFrame(k, p)
<1>13. /\ c \in Streams /\ Len(c) = h + n /\ h \in 2..4
       /\ c[1] = Lead(Len7Code(n))
       /\ \A i \in 2..(h - 1) : c[i] = Extended(n)
       /\ c[h] = Mask(k)
       /\ \A i \in 1..n : c[h + i] = Masked(k, p[i])
  BY <1>2, <1>5, <1>9, <1>10, <1>11, <1>12
<1> QED BY <1>13 DEF n, h

(* A frame buffer b at the front of a stream that starts with a client's   *)
(* frame, of which t has not arrived: the frame is recognized when it is   *)
(* there, not earlier, and it yields its payload.                          *)
FrameFirst(b, t, k, p, v) ==
  /\ HasFrameHeader(b) => b[1][1] # "bare"
  /\ HasFrame(b) => /\ FramePayload(b) = p
                    /\ SubSeq(b, FrameHeaderLen(b) + FrameLen(b) + 1, Len(b)) \in Streams
                    /\ SubSeq(b, FrameHeaderLen(b) + FrameLen(b) + 1, Len(b)) \o t = v
  /\ ~HasFrame(b) => /\ Len(b) < Len(ClientFrame(k, p))
                     /\ \A i \in 1..Len(b) : b[i] = ClientFrame(k, p)[i]

LEMMA FrontFrame ==
  ASSUME NEW k \in Masks, NEW p \in Texts,
         NEW b \in Streams, NEW t \in Streams, NEW v \in Streams,
         Splits(b, t, ClientFrame(k, p), v)
  PROVE  FrameFirst(b, t, k, p, v)
<1> DEFINE c == ClientFrame(k, p)
           n == Len(p)
           h == HeaderLen(n)
<1>1. /\ c \in Streams /\ Len(c) = h + n /\ h \in 2..4
      /\ c[1] = Lead(Len7Code(n))
      /\ \A i \in 2..(h - 1) : c[i] = Extended(n)
      /\ c[h] = Mask(k)
      /\ \A i \in 1..n : c[h + i] = Masked(k, p[i])
  BY ClientFrameFacts
<1>2. b \o t = c \o v
  BY DEF Splits
<1>3. n \in Nat /\ Len(b) \in Nat
  OBVIOUS
<1>4. /\ Len7Code(n) \in Nat /\ Len7 \in Nat
      /\ Len7Code(n) < Len7 <=> h = 2
      /\ Len7Code(n) = Len7 <=> h = 3
      /\ Len7Code(n) < Len7 => Len7Code(n) = n
  BY <1>3, ExtendedFacts, ClassAssumption
<1> HIDE DEF c, n, h
<1>5. /\ \A i \in 1..Len(c) : i <= Len(b) => b[i] = c[i]
      /\ Len(c) <= Len(b) => /\ SubSeq(b, 1, Len(c)) = c
                             /\ SubSeq(b, Len(c) + 1, Len(b)) \in Streams
                             /\ SubSeq(b, Len(c) + 1, Len(b)) \o t = v
  <2>1. Splits(b, t, c, v)
    BY <1>2 DEF Splits
  <2>2. Fronts(b, t, c, v)
    BY <1>1, <2>1, FrontWire
  <2> QED BY <2>2 DEF Fronts
<1>6. ASSUME b # <<>> PROVE b[1] = Lead(Len7Code(n)) /\ FrameHeaderLen(b) = h
  <2>1. 1 \in 1..Len(c) /\ 1 <= Len(b)
    BY <1>1, <1>3, <1>6
  <2>2. b[1] = Lead(Len7Code(n))
    BY <1>1, <1>5, <2>1
  <2>3. b[1][2] = Len7Code(n)
    BY <2>2 DEF Lead
  <2> QED BY <1>1, <1>4, <2>2, <2>3 DEF FrameHeaderLen
<1>7. ASSUME HasFrameHeader(b)
      PROVE  b[1][1] # "bare" /\ FrameHeaderLen(b) = h /\ FrameLen(b) = n /\ Len(b) >= h
  <2>1. b # <<>> /\ Len(b) >= FrameHeaderLen(b)
    BY <1>7 DEF HasFrameHeader
  <2>2. b[1] = Lead(Len7Code(n)) /\ FrameHeaderLen(b) = h
    BY <1>6, <2>1
  <2>3. b[1][1] = "lead" /\ b[1][2] = Len7Code(n)
    BY <2>2 DEF Lead
  <2>4. FrameLen(b) = n
    <3>1. CASE h = 2
      BY <1>4, <2>3, <3>1 DEF FrameLen
    <3>2. CASE h # 2
      <4>1. 2 \in 2..(h - 1) /\ 2 \in 1..Len(c) /\ 2 <= Len(b)
        BY <1>1, <1>3, <2>1, <2>2, <3>2
      <4>2. b[2] = Extended(n)
        BY <1>1, <1>5, <4>1
      <4>3. b[2][2] = n
        BY <4>2 DEF Extended
      <4> QED BY <1>4, <2>3, <3>2, <4>3 DEF FrameLen
    <3> QED BY <3>1, <3>2
  <2> QED BY <2>1, <2>2, <2>3, <2>4
<1>8. ASSUME HasFrame(b)
      PROVE  /\ FramePayload(b) = p
             /\ SubSeq(b, FrameHeaderLen(b) + FrameLen(b) + 1, Len(b)) \in Streams
             /\ SubSeq(b, FrameHeaderLen(b) + FrameLen(b) + 1, Len(b)) \o t = v
  <2>1. FrameHeaderLen(b) = h /\ FrameLen(b) = n /\ Len(c) <= Len(b)
    BY <1>1, <1>3, <1>7, <1>8 DEF HasFrame
  <2>2. FrameMask(b) = k
    <3>1. h \in 1..Len(c) /\ h <= Len(b)
      BY <1>1, <1>3, <2>1
    <3>2. b[h] = Mask(k)
      BY <1>1, <1>5, <3>1
    <3> QED BY <2>1, <3>2 DEF FrameMask, Mask
  <2>3. ASSUME NEW i \in 1..n PROVE Unmask(FrameMask(b), b[FrameHeaderLen(b) + i]) = p[i]
    <3>1. h + i \in 1..Len(c) /\ h + i <= Len(b)
      BY <1>1, <1>3, <2>1
    <3>2. b[h + i] = Masked(k, p[i])
      BY <1>1, <1>5, <3>1
    <3> QED BY <2>1, <2>2, <3>2 DEF Masked, Unmask
  <2>4. FramePayload(b) = [i \in 1..n |-> p[i]]
    BY <2>1, <2>3 DEF FramePayload
  <2>5. p = [i \in 1..n |-> p[i]]
    BY DEF n, Texts
  <2> QED BY <1>1, <1>5, <2>1, <2>4, <2>5
<1>9. ASSUME ~HasFrame(b) PROVE Len(b) < Len(c) /\ \A i \in 1..Len(b) : b[i] = c[i]
  <2>1. ASSUME b = <<>> PROVE Len(b) < Len(c)
    BY <1>1, <1>3, <2>1
  <2>2. ASSUME b # <<>> PROVE Len(b) < Len(c)
    BY <1>1, <1>3, <1>6, <1>7, <1>9, <2>2 DEF HasFrame, HasFrameHeader
  <2>3. Len(b) < Len(c)
    BY <2>1, <2>2
  <2>4. \A i \in 1..Len(b) : i \in 1..Len(c) /\ i <= Len(b)
    BY <1>1, <1>3, <2>3
  <2> QED BY <1>5, <2>3, <2>4
<1> QED BY <1>7, <1>8, <1>9 DEF c, FrameFirst

-----------------------------------------------------------------------------
(* Payload.                                                                *)

Kinds == {"magic", "length", "json", "bin", "masked"}
Places(s) == {i \in 1..Len(s) : s[i][1] \in Kinds}

LEMMA UpToFacts ==
  \A n \in Nat : IsFiniteSet(1..n) /\ Cardinality(1..n) = n
<1> SUFFICES ASSUME NEW n \in Nat PROVE IsFiniteSet(1..n) /\ Cardinality(1..n) = n
  OBVIOUS
<1> QED BY FS_Interval, SMTT(30)

LEMMA PlacesFacts ==
  ASSUME NEW s \in Streams
  PROVE  /\ Payload(s) = Cardinality(Places(s)) /\ IsFiniteSet(Places(s))
         /\ Payload(s) \in Nat /\ Payload(s) <= Len(s)
<1>1. DOMAIN s = 1..Len(s) /\ Len(s) \in Nat
  OBVIOUS
<1>2. Payload(s) = Cardinality(Places(s))
  BY <1>1 DEF Payload, Places, Kinds
<1>3. IsFiniteSet(1..Len(s)) /\ Cardinality(1..Len(s)) = Len(s)
  BY <1>1, UpToFacts
<1>4. Places(s) \in SUBSET (1..Len(s))
  BY DEF Places
<1>5. IsFiniteSet(Places(s)) /\ Cardinality(Places(s)) <= Cardinality(1..Len(s))
  BY <1>3, <1>4, FS_Subset
<1>6. Cardinality(Places(s)) \in Nat
  BY <1>5, FS_CardinalityType
<1> QED BY <1>2, <1>3, <1>5, <1>6

LEMMA PayloadCat ==
  ASSUME NEW s \in Streams, NEW t \in Streams
  PROVE  Payload(s \o t) = Payload(s) + Payload(t)
<1> DEFINE n == Len(s)
           A == Places(s)
           B == Places(t)
           C == {n + i : i \in B}
           f == [i \in B |-> n + i]
<1>1. /\ s \o t \in Streams /\ Len(s \o t) = n + Len(t) /\ n \in Nat /\ Len(t) \in Nat
      /\ \A i \in 1..n : (s \o t)[i] = s[i]
      /\ \A i \in 1..Len(t) : (s \o t)[n + i] = t[i]
  BY CatWire
<1>2. IsFiniteSet(A) /\ IsFiniteSet(B) /\ Cardinality(A) \in Nat /\ Cardinality(B) \in Nat
  BY PlacesFacts
<1>3. A \subseteq 1..n /\ B \subseteq 1..Len(t)
  BY DEF Places
<1>4. Places(s \o t) = A \cup C
  <2> HIDE DEF n
  <2>1. ASSUME NEW i \in Places(s \o t) PROVE i \in A \cup C
    <3>1. i \in 1..(n + Len(t)) /\ (s \o t)[i][1] \in Kinds
      BY <1>1 DEF Places
    <3>2. CASE i <= n
      <4>1. i \in 1..n
        BY <1>1, <3>1, <3>2
      <4> QED BY <1>1, <3>1, <4>1 DEF Places, n
    <3>3. CASE i > n
      <4>1. i - n \in 1..Len(t) /\ n + (i - n) = i
        BY <1>1, <3>1, <3>3
      <4>2. t[i - n][1] \in Kinds
        BY <1>1, <3>1, <4>1
      <4>3. i - n \in B
        BY <4>1, <4>2 DEF Places
      <4> QED BY <4>1, <4>3
    <3> QED BY <1>1, <3>1, <3>2, <3>3
  <2>2. ASSUME NEW i \in A PROVE i \in Places(s \o t)
    <3>1. i \in 1..n /\ s[i][1] \in Kinds /\ i \in 1..(n + Len(t))
      BY <1>1 DEF Places, n
    <3> QED BY <1>1, <3>1 DEF Places
  <2>3. ASSUME NEW i \in B PROVE n + i \in Places(s \o t)
    <3>1. i \in 1..Len(t) /\ t[i][1] \in Kinds /\ n + i \in 1..(n + Len(t))
      BY <1>1 DEF Places
    <3> QED BY <1>1, <3>1 DEF Places
  <2> QED BY <2>1, <2>2, <2>3
<1>5. f \in Bijection(B, C)
  <2>1. f \in [B -> C]
    OBVIOUS
  <2>2. \A i, j \in B : f[i] = f[j] => i = j
    <3> HIDE DEF n
    <3>1. \A i \in B : i \in Int
      BY <1>3
    <3> QED BY <1>1, <3>1
  <2>3. \A y \in C : \E i \in B : f[i] = y
    OBVIOUS
  <2> HIDE DEF f, C
  <2> QED BY <2>1, <2>2, <2>3 DEF Bijection, Injection, Surjection, IsInjective
<1>6. IsFiniteSet(C) /\ Cardinality(C) = Cardinality(B)
  <2>1. ExistsBijection(B, C)
    BY <1>5 DEF ExistsBijection
  <2> HIDE DEF C
  <2> QED BY <1>2, <2>1, FS_Bijection
<1>7. A \cap C = {}
  <2>1. ASSUME NEW i \in B PROVE n + i \notin A
    <3>1. i \in 1..Len(t)
      BY <1>3
    <3> HIDE DEF n
    <3> QED BY <1>1, <1>3, <3>1
  <2> QED BY <2>1
<1> HIDE DEF A, B, C
<1>8. Cardinality(A \cup C) = Cardinality(A) + Cardinality(C) - Cardinality(A \cap C)
  BY <1>2, <1>6, FS_Union
<1>9. Cardinality(A \cup C) = Cardinality(A) + Cardinality(B)
  <2>1. Cardinality(A \cap C) = 0
    BY <1>7, FS_EmptySet
  <2> QED BY <1>2, <1>6, <2>1, <1>8
<1> QED BY <1>1, <1>4, <1>9, PlacesFacts DEF A, B

LEMMA PayloadFrame ==
  ASSUME NEW k \in Masks, NEW p \in Texts
  PROVE  Payload(ClientFrame(k, p)) = Len(p)
<1> DEFINE c == ClientFrame(k, p)
           n == Len(p)
           h == HeaderLen(n)
<1>1. /\ c \in Streams /\ Len(c) = h + n /\ h \in 2..4
      /\ c[1] = Lead(Len7Code(n))
      /\ \A i \in 2..(h - 1) : c[i] = Extended(n)
      /\ c[h] = Mask(k)
      /\ \A i \in 1..n : c[h + i] = Masked(k, p[i])
  BY ClientFrameFacts
<1>2. n \in Nat
  OBVIOUS
<1> HIDE DEF c, n, h
<1>3. ASSUME NEW i \in 1..h PROVE c[i][1] \notin Kinds
  <2>1. i = 1 \/ i = h \/ i \in 2..(h - 1)
    BY <1>1
  <2>2. c[i][1] \in {"lead", "extended", "mask"}
    BY <1>1, <2>1 DEF Lead, Extended, Mask
  <2> QED BY <2>2 DEF Kinds
<1>4. ASSUME NEW i \in (h + 1)..(h + n) PROVE c[i][1] \in Kinds
  <2>1. i - h \in 1..n /\ h + (i - h) = i
    BY <1>1, <1>2
  <2>2. c[i] = Masked(k, p[i - h])
    BY <1>1, <2>1
  <2> QED BY <2>2 DEF Masked, Kinds
<1>5. Places(c) = (h + 1)..(h + n)
  <2>1. \A i \in 1..(h + n) : i \in 1..h \/ i \in (h + 1)..(h + n)
    BY <1>1, <1>2
  <2>2. \A i \in (h + 1)..(h + n) : i \in 1..(h + n) /\ i \notin 1..h
    BY <1>1, <1>2
  <2> QED BY <1>1, <1>3, <1>4, <2>1, <2>2 DEF Places
<1>6. Cardinality((h + 1)..(h + n)) = n
  <2>1. h + 1 \in Int /\ h + n \in Int
    BY <1>1, <1>2
  <2>2. Cardinality((h + 1)..(h + n)) = IF h + 1 > h + n THEN 0 ELSE (h + n) - (h + 1) + 1
    BY <2>1, FS_Interval
  <2> QED BY <1>1, <1>2, <2>2
<1> QED BY <1>1, <1>5, <1>6, PlacesFacts DEF c, n

(* A part of a frame that is not all of it lacks some of its payload.      *)
LEMMA PayloadFront ==
  ASSUME NEW k \in Masks, NEW p \in Texts, NEW b \in Streams,
         Len(b) < Len(ClientFrame(k, p)),
         \A i \in 1..Len(b) : b[i] = ClientFrame(k, p)[i]
  PROVE  Payload(b) = 0 \/ Payload(b) < Len(p)
<1> DEFINE c == ClientFrame(k, p)
           n == Len(p)
           h == HeaderLen(n)
           l == Len(b)
<1>1. /\ c \in Streams /\ Len(c) = h + n /\ h \in 2..4
      /\ c[1] = Lead(Len7Code(n))
      /\ \A i \in 2..(h - 1) : c[i] = Extended(n)
      /\ c[h] = Mask(k)
  BY ClientFrameFacts
<1>2. n \in Nat /\ l \in Nat /\ l < h + n /\ \A i \in 1..l : b[i] = c[i]
  BY <1>1
<1> HIDE DEF c, n, h
<1>3. ASSUME NEW i \in 1..h PROVE c[i][1] \notin Kinds
  <2>1. i = 1 \/ i = h \/ i \in 2..(h - 1)
    BY <1>1
  <2>2. c[i][1] \in {"lead", "extended", "mask"}
    BY <1>1, <2>1 DEF Lead, Extended, Mask
  <2> QED BY <2>2 DEF Kinds
<1> HIDE DEF l
<1>4. Places(b) \in SUBSET ((h + 1)..l)
  <2>1. ASSUME NEW i \in Places(b) PROVE i \in (h + 1)..l
    <3>1. i \in 1..l /\ b[i][1] \in Kinds
      BY DEF Places, l
    <3>2. i \notin 1..h
      BY <1>2, <1>3, <3>1
    <3> QED BY <1>1, <1>2, <3>1, <3>2
  <2> QED BY <2>1
<1>5. IsFiniteSet((h + 1)..l) /\ Cardinality((h + 1)..l) = IF h + 1 > l THEN 0 ELSE l - (h + 1) + 1
  <2>1. h + 1 \in Int /\ l \in Int
    BY <1>1, <1>2
  <2> QED BY <2>1, FS_Interval
<1>6. Cardinality(Places(b)) <= Cardinality((h + 1)..l)
  BY <1>4, <1>5, FS_Subset
<1>7. Payload(b) \in Nat /\ Payload(b) = Cardinality(Places(b))
  BY PlacesFacts
<1>8. Payload(b) = 0 \/ Payload(b) < n
  BY <1>1, <1>2, <1>5, <1>6, <1>7
<1> QED BY <1>8 DEF n

LEMMA PayloadBody ==
  ASSUME NEW m \in Msgs
  PROVE  Payload(Body(m)) = Len(Body(m))
<1> DEFINE b == Body(m)
           h == Header(m)
           j == JsonPart(m)
           x == BinPart(m)
<1>1. b = (h \o j) \o x
  BY DEF Body
<1>2. h \in Streams /\ j \in Streams /\ x \in Streams
  BY BodyFacts, MessageUnits DEF Streams
<1>3. \A i \in 1..Len(h) : h[i][1] \in Kinds
  BY DEF Header, Magic, Length, Kinds
<1>4. \A i \in 1..Len(j) : j[i][1] \in Kinds
  <2>1. DOMAIN j = 1..JsonLen[m]
    BY DEF JsonPart
  <2>2. \A i \in 1..JsonLen[m] : j[i][1] \in Kinds
    BY DEF JsonPart, Json, Kinds
  <2>3. DOMAIN j = 1..Len(j)
    <3> HIDE DEF j
    <3> QED BY <1>2
  <2> QED BY <2>1, <2>2, <2>3
<1>5. \A i \in 1..Len(x) : x[i][1] \in Kinds
  <2>1. DOMAIN x = 1..BinLen[m]
    BY DEF BinPart
  <2>2. \A i \in 1..BinLen[m] : x[i][1] \in Kinds
    BY DEF BinPart, Bin, Kinds
  <2>3. DOMAIN x = 1..Len(x)
    <3> HIDE DEF x
    <3> QED BY <1>2
  <2> QED BY <2>1, <2>2, <2>3
<1>6. ASSUME NEW s \in Streams, \A i \in 1..Len(s) : s[i][1] \in Kinds
      PROVE  Payload(s) = Len(s)
  <2>1. Places(s) = 1..Len(s) /\ Len(s) \in Nat
    BY <1>6 DEF Places
  <2>2. Cardinality(1..Len(s)) = Len(s)
    BY <2>1, UpToFacts
  <2> QED BY <2>1, <2>2, PlacesFacts
<1> HIDE DEF h, j, x, b
<1>7. Payload(h) = Len(h) /\ Payload(j) = Len(j) /\ Payload(x) = Len(x)
  BY <1>2, <1>3, <1>4, <1>5, <1>6
<1>8. h \o j \in Streams /\ Len(h \o j) = Len(h) + Len(j) /\ Payload(h \o j) = Payload(h) + Payload(j)
  BY <1>2, CatWire, PayloadCat
<1> DEFINE a == h \o j
<1>9. a \in Streams /\ Payload(a) = Len(a)
  BY <1>7, <1>8
<1> HIDE DEF a
<1>10. Len(a \o x) = Len(a) + Len(x) /\ Payload(a \o x) = Payload(a) + Payload(x)
  BY <1>2, <1>9, CatWire, PayloadCat
<1> QED BY <1>1, <1>7, <1>9, <1>10 DEF a, b

-----------------------------------------------------------------------------
(* A stream that is put together from parts: r[i] is what is left of it    *)
(* behind the i-th part.                                                   *)

Lists == [Nat -> Streams]
Chain(r, p, a, n) == \A i \in (a + 1)..n : r[i - 1] = p[i] \o r[i]

(* s is r with x behind it, and z has the parts of p and x behind them.    *)
Longer(s, r, n, x) == \A i \in 0..n : s[i] = r[i] \o x
OneMore(z, p, n, x) == z[n + 1] = x /\ \A i \in 0..n : z[i] = p[i]

(* The stream goes on behind its last part.                                *)
LEMMA ExtendChain ==
  ASSUME NEW r \in Lists, NEW p \in Lists, NEW a \in Nat, NEW n \in Nat,
         Chain(r, p, a, n), NEW x \in Streams
  PROVE  \E s \in Lists : Chain(s, p, a, n) /\ Longer(s, r, n, x)
<1> DEFINE s == [i \in Nat |-> r[i] \o x]
<1>1. \A i \in Nat : r[i] \in Streams /\ p[i] \in Streams
  BY DEF Lists
<1>2. \A i \in Nat : r[i] \o x \in Streams
  BY <1>1, CatWire
<1>3. s \in Lists /\ \A i \in Nat : s[i] = r[i] \o x
  BY <1>2 DEF Lists
<1> HIDE DEF s
<1>4. ASSUME NEW i \in (a + 1)..n PROVE s[i - 1] = p[i] \o s[i]
  <2>1. i \in Nat /\ i - 1 \in Nat
    OBVIOUS
  <2>2. s[i - 1] = (p[i] \o r[i]) \o x
    BY <1>3, <2>1 DEF Chain
  <2>3. (p[i] \o r[i]) \o x = p[i] \o (r[i] \o x)
    <3>1. p[i] \in Streams /\ r[i] \in Streams
      BY <1>1, <2>1
    <3> QED BY <3>1, AssocWire, Zenon
  <2> QED BY <1>3, <2>1, <2>2, <2>3
<1>5. Chain(s, p, a, n)
  BY <1>4 DEF Chain
<1>6. Longer(s, r, n, x)
  BY <1>3 DEF Longer
<1> QED BY <1>3, <1>5, <1>6

(* A part is added at the end.                                             *)
LEMMA AppendChain ==
  ASSUME NEW r \in Lists, NEW p \in Lists, NEW a \in Nat, NEW n \in Nat, a <= n,
         Chain(r, p, a, n), r[n] = <<>>, NEW x \in Streams
  PROVE  \E s, z \in Lists :
           /\ Chain(s, z, a, n + 1) /\ s[n + 1] = <<>>
           /\ Longer(s, r, n, x) /\ OneMore(z, p, n, x)
<1> DEFINE s == [i \in Nat |-> IF i <= n THEN r[i] \o x ELSE <<>>]
           z == [p EXCEPT ![n + 1] = x]
<1>1. \A i \in Nat : r[i] \in Streams /\ p[i] \in Streams
  BY DEF Lists
<1>2. \A i \in Nat : r[i] \o x \in Streams
  BY <1>1, CatWire
<1>3. s \in Lists /\ s[n + 1] = <<>> /\ \A i \in 0..n : s[i] = r[i] \o x
  <2>1. \A i \in Nat : (IF i <= n THEN r[i] \o x ELSE <<>>) \in Streams
    BY <1>2, EmptyWire
  <2>2. s \in Lists
    BY <2>1 DEF Lists
  <2>3. s[n + 1] = <<>>
    <3>1. n + 1 \in Nat /\ ~(n + 1 <= n)
      OBVIOUS
    <3> QED BY <3>1
  <2>4. ASSUME NEW i \in 0..n PROVE s[i] = r[i] \o x
    <3>1. i \in Nat /\ i <= n
      OBVIOUS
    <3> QED BY <3>1
  <2> QED BY <2>2, <2>3, <2>4
<1>4. z \in Lists /\ z[n + 1] = x /\ \A i \in 0..n : z[i] = p[i]
  BY DEF Lists
<1> HIDE DEF s, z
<1>5. ASSUME NEW i \in (a + 1)..(n + 1) PROVE s[i - 1] = z[i] \o s[i]
  <2>1. CASE i = n + 1
    <3>1. i - 1 = n /\ n \in 0..n
      BY <2>1
    <3>2. s[n] = <<>> \o x /\ <<>> \o x = x /\ x \o <<>> = x
      BY <1>3, <3>1, EmptyWire
    <3> QED BY <1>3, <1>4, <2>1, <3>1, <3>2
  <2>2. CASE i # n + 1
    <3>1. i \in (a + 1)..n /\ i \in Nat /\ i \in 0..n /\ i - 1 \in 0..n
      BY <2>2
    <3>2. s[i - 1] = (p[i] \o r[i]) \o x
      BY <1>3, <3>1 DEF Chain
    <3>3. (p[i] \o r[i]) \o x = p[i] \o (r[i] \o x)
      <4>1. p[i] \in Streams /\ r[i] \in Streams
        BY <1>1, <3>1
      <4> QED BY <4>1, AssocWire, Zenon
    <3> QED BY <1>3, <1>4, <3>1, <3>2, <3>3
  <2> QED BY <2>1, <2>2
<1>6. Chain(s, z, a, n + 1)
  BY <1>5 DEF Chain
<1>7. Longer(s, r, n, x) /\ OneMore(z, p, n, x)
  BY <1>3, <1>4 DEF Longer, OneMore
<1> QED BY <1>3, <1>4, <1>6, <1>7

-----------------------------------------------------------------------------
(* The messages that have not been popped.                                 *)

(* What a peer that breaks the protocol leaves behind its messages.        *)
NoMessage(x) == \/ x = <<>> \/ x[1] # Magic
                \/ x = <<Magic, Length(1), Length(0), Garbage>>

(* s is the bodies of the messages of sq behind the first g, and nothing   *)
(* else when the peer has been honest, h.  Their ends are in e.            *)
Bodies(p, r, s, g, sq, e, h) ==
  /\ Chain(r, p, g, Len(sq))
  /\ \A i \in (g + 1)..Len(sq) : p[i] = Body(sq[i])
  /\ r[g] = s
  /\ NoMessage(r[Len(sq)])
  /\ h => r[Len(sq)] = <<>>
  /\ \A i \in g..Len(sq) : Len(r[i]) = (e[Len(sq) + 1] - e[i + 1]) + Len(r[Len(sq)])

LEMMA BodyWire ==
  \A m \in Msgs : /\ Body(m) \in Streams /\ Body(m) \in Seq(Units)
                  /\ Len(Body(m)) \in Nat /\ Len(Body(m)) > 3
BY BodyFacts, MessageUnits DEF Streams

SentMore(p, r, s, g, sq, e, m) ==
  \E p2, r2 \in Lists :
    /\ Bodies(p2, r2, s \o Body(m), g, Append(sq, m),
              Append(e, e[Len(e)] + Len(Body(m))), TRUE)
    /\ \A i \in g..Len(sq) : Len(r2[i]) = Len(r[i]) + Len(Body(m))
    /\ r2[Len(sq) + 1] = <<>>

LEMMA BodiesSend ==
  ASSUME NEW p \in Lists, NEW r \in Lists, NEW s \in Streams, NEW sq \in Seq(Msgs),
         NEW e \in Seq(Nat), Len(e) = Len(sq) + 1, NEW g \in 0..Len(sq), NEW m \in Msgs,
         Bodies(p, r, s, g, sq, e, TRUE)
  PROVE  SentMore(p, r, s, g, sq, e, m)
<1> DEFINE n == Len(sq)
           x == Body(m)
           sq2 == Append(sq, m)
           e2 == Append(e, e[Len(e)] + Len(x))
<1>1. n \in Nat /\ g \in Nat /\ g <= n
  OBVIOUS
<1>2. x \in Streams /\ Len(x) \in Nat
  BY BodyWire
<1>3. Len(sq2) = n + 1 /\ sq2[n + 1] = m /\ \A i \in 1..n : sq2[i] = sq[i]
  OBVIOUS
<1>4. /\ e[n + 1] \in Nat /\ e2[n + 2] = e[n + 1] + Len(x)
      /\ \A i \in 1..(n + 1) : e2[i] = e[i] /\ e[i] \in Nat
  <2>1. \A i \in 1..(n + 1) : e[i] \in Nat
    OBVIOUS
  <2> DEFINE c == e[Len(e)] + Len(x)
  <2>2. n + 1 \in 1..(n + 1) /\ Len(e) = n + 1
    BY <1>1
  <2>3. c \in Nat /\ c = e[n + 1] + Len(x)
    BY <1>2, <2>1, <2>2
  <2> HIDE DEF c
  <2>4. /\ Append(e, c)[(n + 1) + 1] = c
        /\ \A i \in 1..(n + 1) : Append(e, c)[i] = e[i]
    BY <2>2, <2>3
  <2>5. (n + 1) + 1 = n + 2
    BY <1>1
  <2> QED BY <2>1, <2>2, <2>3, <2>4, <2>5 DEF c
<1> HIDE DEF n, x, sq2, e2
<1>5. /\ Chain(r, p, g, n) /\ r[n] = <<>> /\ r[g] = s
      /\ \A i \in (g + 1)..n : p[i] = Body(sq[i])
      /\ \A i \in g..n : Len(r[i]) = (e[n + 1] - e[i + 1]) + Len(r[n])
  BY DEF Bodies, n
<1>6. PICK r2, p2 \in Lists :
           /\ Chain(r2, p2, g, n + 1) /\ r2[n + 1] = <<>>
           /\ Longer(r2, r, n, x) /\ OneMore(p2, p, n, x)
  <2>1. g \in Nat /\ n \in Nat /\ g <= n /\ Chain(r, p, g, n) /\ r[n] = <<>> /\ x \in Streams
    BY <1>1, <1>2, <1>5
  <2> QED BY <2>1, AppendChain
<1>7. /\ Chain(r2, p2, g, n + 1) /\ r2[n + 1] = <<>> /\ p2[n + 1] = x
      /\ \A i \in 0..n : r2[i] = r[i] \o x /\ p2[i] = p[i]
  BY <1>6 DEF Longer, OneMore
<1>8. \A i \in (g + 1)..(n + 1) : p2[i] = Body(sq2[i])
  <2>1. ASSUME NEW i \in (g + 1)..(n + 1) PROVE p2[i] = Body(sq2[i])
    <3>1. CASE i = n + 1
      BY <1>3, <1>7, <3>1 DEF x
    <3>2. CASE i # n + 1
      <4>1. i \in (g + 1)..n /\ i \in 0..n /\ i \in 1..n
        BY <1>1, <3>2
      <4> QED BY <1>3, <1>5, <1>7, <4>1
    <3> QED BY <3>1, <3>2
  <2> QED BY <2>1
<1>9. r2[g] = s \o x
  <2>1. g \in 0..n
    BY <1>1
  <2> QED BY <1>5, <1>7, <2>1
<1>10. \A i \in g..n : Len(r2[i]) = Len(r[i]) + Len(x) /\ Len(r[i]) \in Nat
  <2>1. ASSUME NEW i \in g..n PROVE Len(r2[i]) = Len(r[i]) + Len(x) /\ Len(r[i]) \in Nat
    <3>1. i \in 0..n /\ i \in Nat
      BY <1>1
    <3>2. r2[i] = r[i] \o x /\ r[i] \in Streams
      BY <1>7, <3>1 DEF Lists
    <3> QED BY <1>2, <3>2, CatWire DEF Streams
  <2> QED BY <2>1
<1>11. Len(r[n]) = 0 /\ Len(r2[n + 1]) = 0
  BY <1>5, <1>7
<1>12. ASSUME NEW i \in g..(n + 1)
       PROVE  Len(r2[i]) = (e2[n + 2] - e2[i + 1]) + Len(r2[n + 1])
  <2>1. CASE i = n + 1
    <3>1. i + 1 = n + 2 /\ Len(r2[i]) = 0
      BY <1>1, <1>11, <2>1
    <3>2. e2[n + 2] \in Nat
      BY <1>2, <1>4
    <3> QED BY <1>11, <3>1, <3>2
  <2>2. CASE i # n + 1
    <3>1. i \in g..n /\ i + 1 \in 1..(n + 1)
      BY <1>1, <2>2
    <3>2. Len(r2[i]) = (e[n + 1] - e[i + 1]) + Len(x) /\ e2[i + 1] = e[i + 1] /\ e[i + 1] \in Nat
      <4>1. Len(r2[i]) = Len(r[i]) + Len(x) /\ Len(r[i]) = (e[n + 1] - e[i + 1]) + 0
        BY <1>5, <1>10, <1>11, <3>1
      <4>2. e2[i + 1] = e[i + 1] /\ e[i + 1] \in Nat /\ e[n + 1] \in Nat
        BY <1>4, <3>1
      <4> QED BY <4>1, <4>2
    <3>3. /\ e2[n + 2] = e[n + 1] + Len(x) /\ e[n + 1] \in Nat /\ Len(x) \in Nat
          /\ Len(r2[n + 1]) = 0
      BY <1>2, <1>4, <1>11
    <3>4. \A c, d, l \in Nat : (c - d) + l = ((c + l) - d) + 0
      OBVIOUS
    <3> QED BY <3>2, <3>3, <3>4
  <2> QED BY <2>1, <2>2
<1>13. Bodies(p2, r2, s \o x, g, sq2, e2, TRUE)
  <2>1. (n + 1) + 1 = n + 2
    BY <1>1
  <2>2. NoMessage(r2[n + 1])
    BY <1>7 DEF NoMessage
  <2> QED BY <1>3, <1>7, <1>8, <1>9, <1>12, <2>1, <2>2 DEF Bodies
<1> QED BY <1>7, <1>10, <1>13 DEF n, x, sq2, e2, SentMore

LEMMA BodiesBad ==
  ASSUME NEW p \in Lists, NEW r \in Lists, NEW s \in Streams, NEW sq \in Seq(Msgs),
         NEW e \in Seq(Nat), Len(e) = Len(sq) + 1, NEW g \in 0..Len(sq), NEW x \in Streams,
         Bodies(p, r, s, g, sq, e, TRUE), NoMessage(x)
  PROVE  \E r2 \in Lists : Bodies(p, r2, s \o x, g, sq, e, FALSE)
<1> DEFINE n == Len(sq)
<1>1. n \in Nat /\ g \in Nat /\ g <= n /\ Len(x) \in Nat
  OBVIOUS
<1>2. \A i \in 1..(n + 1) : e[i] \in Nat
  OBVIOUS
<1> HIDE DEF n
<1>3. /\ Chain(r, p, g, n) /\ r[n] = <<>> /\ r[g] = s
      /\ \A i \in (g + 1)..n : p[i] = Body(sq[i])
      /\ \A i \in g..n : Len(r[i]) = (e[n + 1] - e[i + 1]) + Len(r[n])
  BY DEF Bodies, n
<1>4. PICK r2 \in Lists : Chain(r2, p, g, n) /\ Longer(r2, r, n, x)
  <2>1. g \in Nat /\ n \in Nat /\ Chain(r, p, g, n)
    BY <1>1, <1>3
  <2> QED BY <2>1, ExtendChain
<1>5. Chain(r2, p, g, n) /\ \A i \in 0..n : r2[i] = r[i] \o x
  BY <1>4 DEF Longer
<1>6. r2[n] = x
  <2>1. n \in 0..n
    BY <1>1
  <2> QED BY <2>1, <1>3, <1>5, EmptyWire
<1>7. ASSUME NEW i \in g..n PROVE Len(r2[i]) = (e[n + 1] - e[i + 1]) + Len(r2[n])
  <2>1. i \in Nat /\ i \in 0..n /\ i + 1 \in 1..(n + 1) /\ n + 1 \in 1..(n + 1)
    BY <1>1
  <2>2. r2[i] = r[i] \o x /\ r[i] \in Streams
    BY <1>5, <2>1 DEF Lists
  <2>3. Len(r2[i]) = Len(r[i]) + Len(x)
    BY <2>2, CatWire
  <2>4. Len(r[i]) = (e[n + 1] - e[i + 1]) + 0
    BY <1>3
  <2>5. e[n + 1] \in Nat /\ e[i + 1] \in Nat
    BY <1>2, <2>1
  <2> QED BY <1>1, <1>6, <2>3, <2>4, <2>5
<1>8. r2[g] = s \o x
  <2>1. g \in 0..n
    BY <1>1
  <2> QED BY <2>1, <1>3, <1>5
<1>9. Bodies(p, r2, s \o x, g, sq, e, FALSE)
  BY <1>3, <1>5, <1>6, <1>7, <1>8 DEF Bodies, n
<1> QED BY <1>9

(* dime_socket_pop takes the next message of the stream, and no other.     *)
Popped(p, r, b, t, g, sq, e, h, m) ==
  /\ g + 1 \in 1..Len(sq) /\ m = sq[g + 1] /\ MsgSize(b) \in 0..Len(b)
  /\ SubSeq(b, MsgSize(b) + 1, Len(b)) \in Streams
  /\ Bodies(p, r, SubSeq(b, MsgSize(b) + 1, Len(b)) \o t, g + 1, sq, e, h)

LEMMA BodiesPop ==
  ASSUME NEW p \in Lists, NEW r \in Lists, NEW b \in Streams, NEW t \in Streams,
         NEW sq \in Seq(Msgs), NEW e, NEW g \in 0..Len(sq), NEW h,
         Bodies(p, r, b \o t, g, sq, e, h), HasMessage(b), NEW m \in Msgs, IsMessage(b, m)
  PROVE  Popped(p, r, b, t, g, sq, e, h, m)
<1> DEFINE n == Len(sq)
           c == SubSeq(b, MsgSize(b) + 1, Len(b))
<1>1. n \in Nat /\ g \in Nat /\ g <= n
  OBVIOUS
<1>2. Chain(r, p, g, n) /\ r[g] = b \o t /\ NoMessage(r[n])
  BY DEF Bodies
<1>3. Len(b) \in Nat /\ Len(t) \in Nat /\ Len(b) >= 3 /\ b[1] = Magic
  BY CatWire DEF HasMessage, HasHeader
<1>4. g # n
  <2>1. SUFFICES ASSUME g = n PROVE FALSE
    OBVIOUS
  <2>2. NoMessage(b \o t)
    BY <1>2, <2>1
  <2>3. /\ Len(b \o t) = Len(b) + Len(t)
        /\ \A i \in 1..Len(b) : (b \o t)[i] = b[i]
    BY CatWire
  <2>4. b \o t # <<>> /\ (b \o t)[1] = Magic
    <3>1. 1 \in 1..Len(b) /\ Len(b \o t) # 0
      BY <1>3, <2>3
    <3> QED BY <1>3, <2>3, <3>1
  <2>5. b \o t = <<Magic, Length(1), Length(0), Garbage>>
    BY <2>2, <2>4 DEF NoMessage
  <2>6. SubSeq(b, 1, MsgSize(b)) = Body(m) /\ Len(b) >= MsgSize(b)
    BY DEF IsMessage, HasMessage
  <2>7. Body(m)[4] = Json(m) /\ Len(Body(m)) \in Nat /\ Len(Body(m)) > 3
    BY BodyFacts
  <2>8. b[4] = Json(m) /\ 4 \in 1..Len(b)
    <3>1. MsgSize(b) \in Nat
      <4>1. 2 \in 1..Len(b) /\ 3 \in 1..Len(b)
        BY <1>3
      <4>2. b[2] = Length(1) /\ b[3] = Length(0)
        BY <2>3, <2>5, <4>1
      <4>3. 1 % LenMod \in Nat /\ 0 % LenMod \in Nat
        BY SmallLength, LenAssumption
      <4>4. b[2][2] = 1 % LenMod /\ b[3][2] = 0 % LenMod
        BY <4>2 DEF Length
      <4>5. 3 + b[2][2] + b[3][2] \in Nat
        BY <4>3, <4>4
      <4>6. \A k \in Nat : k % LenMod \in Nat
        BY SmallLength, LenAssumption
      <4> QED BY <4>5, <4>6 DEF MsgSize
    <3>2. Len(SubSeq(b, 1, MsgSize(b))) = MsgSize(b) /\ MsgSize(b) \in 0..Len(b)
      BY <1>3, <2>6, <3>1, CutWire
    <3>3. 4 \in 1..Len(b) /\ 4 \in 1..MsgSize(b)
      BY <1>3, <2>6, <2>7, <3>1, <3>2
    <3>4. SubSeq(b, 1, MsgSize(b))[4] = b[4]
      <4> DEFINE k == MsgSize(b)
      <4>1. k \in 0..Len(b) /\ 4 \in 1..k
        BY <3>2, <3>3
      <4> HIDE DEF k
      <4>2. SubSeq(b, 1, k) \in Streams /\ SubSeq(b, k + 1, Len(b)) \in Streams
            /\ Len(SubSeq(b, 1, k)) = k /\ SubSeq(b, 1, k) \o SubSeq(b, k + 1, Len(b)) = b
        BY <4>1, CutWire
      <4>3. SubSeq(b, 1, k)[4] = b[4]
        <5> DEFINE y == SubSeq(b, 1, k)
                   z == SubSeq(b, k + 1, Len(b))
        <5>1. y \in Streams /\ z \in Streams /\ Len(y) = k /\ y \o z = b
          BY <4>2
        <5> HIDE DEF y, z
        <5>2. (y \o z)[4] = y[4]
          BY <4>1, <5>1, CatWire
        <5> QED BY <5>1, <5>2 DEF y
      <4> QED BY <4>3 DEF k
    <3> QED BY <2>6, <2>7, <3>3, <3>4
  <2>9. Json(m) = Garbage
    BY <2>3, <2>5, <2>8
  <2> QED BY <2>9 DEF Json, Garbage
<1>5. g + 1 \in 1..n /\ g + 1 \in (g + 1)..n /\ (g + 1) - 1 = g /\ g + 1 \in Nat
  BY <1>1, <1>4
<1>6. r[g] = Body(sq[g + 1]) \o r[g + 1]
  <2>1. r[g] = p[g + 1] \o r[g + 1]
    <3>1. \A i \in (g + 1)..n : r[i - 1] = p[i] \o r[i]
      BY <1>2 DEF Chain
    <3> QED BY <1>5, <3>1
  <2>2. p[g + 1] = Body(sq[g + 1])
    BY <1>5 DEF Bodies
  <2> QED BY <2>1, <2>2
<1>7. sq[g + 1] \in Msgs /\ r[g + 1] \in Streams
  BY <1>5 DEF Lists
<1> DEFINE m2 == sq[g + 1]
           v == r[g + 1]
<1>8. m2 \in Msgs /\ v \in Streams /\ b \o t = Body(m2) \o v
  BY <1>2, <1>6, <1>7
<1> HIDE DEF m2, v
<1>9. m = m2 /\ c \in Streams /\ c \o t = v /\ MsgSize(b) \in 0..Len(b)
  <2>1. MessageFirst(b, t, m2, v)
    <3>1. Splits(b, t, Body(m2), v)
      BY <1>8 DEF Splits
    <3> QED BY <1>8, <3>1, FrontMessage
  <2>2. MsgSize(b) = Len(Body(m2)) /\ Len(Body(m2)) <= Len(b) /\ Len(Body(m2)) \in Nat
    BY <1>8, <2>1, BodyWire DEF MessageFirst, HasMessage
  <2>3. MsgSize(b) \in 0..Len(b)
    BY <1>3, <2>2
  <2> QED BY <2>1, <2>3 DEF MessageFirst
<1> HIDE DEF c
<1>10. Bodies(p, r, c \o t, g + 1, sq, e, h)
  <2>1. Chain(r, p, g + 1, n)
    <3>1. \A i \in ((g + 1) + 1)..n : i \in (g + 1)..n
      BY <1>1
    <3> QED BY <1>2, <3>1 DEF Chain
  <2>2. \A i \in ((g + 1) + 1)..n : p[i] = Body(sq[i])
    <3>1. \A i \in ((g + 1) + 1)..n : i \in (g + 1)..n
      BY <1>1
    <3> QED BY <3>1 DEF Bodies
  <2>3. r[g + 1] = c \o t
    BY <1>9 DEF v
  <2>4. \A i \in (g + 1)..n : Len(r[i]) = (e[n + 1] - e[i + 1]) + Len(r[n])
    <3>1. \A i \in (g + 1)..n : i \in g..n
      BY <1>1
    <3> QED BY <3>1 DEF Bodies
  <2>5. NoMessage(r[n]) /\ (h => r[n] = <<>>)
    BY DEF Bodies
  <2> QED BY <2>1, <2>2, <2>3, <2>4, <2>5 DEF Bodies
<1> QED BY <1>5, <1>9, <1>10 DEF c, m2, Popped

(* The messages of an honest peer are all readable.                        *)
LEMMA BodiesFine ==
  ASSUME NEW p \in Lists, NEW r \in Lists, NEW b \in Streams, NEW t \in Streams,
         NEW sq \in Seq(Msgs), NEW e, NEW g \in 0..Len(sq),
         Bodies(p, r, b \o t, g, sq, e, TRUE), HasHeader(b)
  PROVE  /\ b[1] = Magic /\ g < Len(sq)
         /\ HasMessage(b) => \E m \in Msgs : IsMessage(b, m)
<1> DEFINE n == Len(sq)
           m == sq[g + 1]
           v == r[g + 1]
<1>1. n \in Nat /\ g \in Nat /\ g <= n /\ Len(b) \in Nat /\ Len(b) >= 3
  BY CatWire DEF HasHeader
<1>2. g # n
  <2>1. SUFFICES ASSUME g = n PROVE FALSE
    OBVIOUS
  <2>2. b \o t = <<>>
    BY <2>1 DEF Bodies
  <2>3. Len(b \o t) = Len(b) + Len(t) /\ Len(t) \in Nat
    BY CatWire
  <2>4. Len(b \o t) = 0
    BY <2>2
  <2> QED BY <1>1, <2>3, <2>4
<1>3. g + 1 \in (g + 1)..n /\ (g + 1) - 1 = g /\ g + 1 \in Nat /\ g + 1 \in 1..n
  BY <1>1, <1>2
<1>4. m \in Msgs /\ v \in Streams
  BY <1>3 DEF Lists
<1>5. b \o t = Body(m) \o v
  <2>1. r[g] = b \o t /\ p[g + 1] = Body(m) /\ Chain(r, p, g, n)
    BY <1>3 DEF Bodies
  <2>2. \A i \in (g + 1)..n : r[i - 1] = p[i] \o r[i]
    BY <2>1 DEF Chain
  <2> QED BY <1>3, <2>1, <2>2
<1> HIDE DEF m, v
<1>6. b[1] = Magic /\ (HasMessage(b) => IsMessage(b, m))
  <2>1. Splits(b, t, Body(m), v)
    BY <1>5 DEF Splits
  <2>2. MessageFirst(b, t, m, v)
    BY <1>4, <2>1, FrontMessage
  <2> QED BY <2>2 DEF MessageFirst
<1> QED BY <1>1, <1>2, <1>4, <1>6 DEF n

(* A message that cannot be taken out of the buffer has not all arrived.   *)
Waiting(r, t, g, sq, e) ==
  Len(r[g + 1]) = e[Len(sq) + 1] - e[g + 2] /\ Len(r[g + 1]) < Len(t)

LEMMA BodiesIdle ==
  ASSUME NEW p \in Lists, NEW r \in Lists, NEW b \in Streams, NEW t \in Streams,
         NEW sq \in Seq(Msgs), NEW e \in Seq(Nat), Len(e) = Len(sq) + 1,
         NEW g \in 0..Len(sq), g < Len(sq),
         Bodies(p, r, b \o t, g, sq, e, TRUE), ~HasMessage(b)
  PROVE  Waiting(r, t, g, sq, e)
<1> DEFINE n == Len(sq)
           m == sq[g + 1]
           v == r[g + 1]
<1>1. n \in Nat /\ g \in Nat /\ g < n /\ Len(b) \in Nat /\ Len(t) \in Nat
  BY CatWire
<1>2. g + 1 \in (g + 1)..n /\ (g + 1) - 1 = g /\ g + 1 \in Nat /\ g + 1 \in g..n /\ g + 1 \in 1..n
  BY <1>1
<1>3. m \in Msgs /\ v \in Streams
  BY <1>2 DEF Lists
<1>4. b \o t = Body(m) \o v
  <2>1. r[g] = b \o t /\ p[g + 1] = Body(m) /\ Chain(r, p, g, n)
    BY <1>2 DEF Bodies
  <2>2. \A i \in (g + 1)..n : r[i - 1] = p[i] \o r[i]
    BY <2>1 DEF Chain
  <2> QED BY <1>2, <2>1, <2>2
<1>5. Len(v) = (e[n + 1] - e[(g + 1) + 1]) + 0
  <2>1. Len(v) = (e[n + 1] - e[(g + 1) + 1]) + Len(r[n]) /\ r[n] = <<>>
    BY <1>2 DEF Bodies
  <2> QED BY <2>1
<1>6. e[n + 1] \in Nat /\ e[g + 2] \in Nat /\ (g + 1) + 1 = g + 2
  BY <1>1
<1> HIDE DEF m, v
<1>7. Len(b) + Len(t) = Len(Body(m)) + Len(v) /\ Len(b) < Len(Body(m))
  <2>1. Splits(b, t, Body(m), v)
    BY <1>4 DEF Splits
  <2>2. MessageFirst(b, t, m, v)
    BY <1>3, <2>1, FrontMessage
  <2> QED BY <2>2 DEF MessageFirst
<1>8. Len(v) \in Nat /\ Len(Body(m)) \in Nat
  BY <1>3, BodyWire, CatWire
<1>9. Len(v) < Len(t)
  BY <1>1, <1>7, <1>8
<1> QED BY <1>5, <1>6, <1>9 DEF v, Waiting

-----------------------------------------------------------------------------
(* The frames that have not been unpacked.                                 *)

IsFrame(c, x) == x \in Texts /\ \E k \in Masks : c = ClientFrame(k, x)
Framing(F, P, j, n) == \A i \in (j + 1)..n : IsFrame(F[i], P[i])
SamePayload(f, q, j, n) == \A i \in j..n : Payload(f[i]) = Len(q[i])

(* What a peer that breaks the protocol leaves behind its frames.          *)
NoFrame(x) == x = <<>> \/ x[1][1] = "bare"

(* s is the frames from the (j+1)-th to the n-th, F, with the payload P,   *)
(* and nothing else when the peer has been honest, h.                      *)
Frames(F, P, f, q, j, n, s, h) ==
  /\ Chain(f, F, j, n) /\ Chain(q, P, j, n) /\ Framing(F, P, j, n)
  /\ f[j] = s /\ q[n] = <<>>
  /\ NoFrame(f[n])
  /\ h => f[n] = <<>> /\ SamePayload(f, q, j, n)

LEMMA FrameFacts ==
  ASSUME NEW c, NEW x, IsFrame(c, x)
  PROVE  c \in Streams /\ x \in Streams /\ x \in Texts /\ Payload(c) = Len(x)
<1>1. PICK k \in Masks : c = ClientFrame(k, x)
  BY DEF IsFrame
<1>2. x \in Texts
  BY DEF IsFrame
<1>3. x \in Streams
  BY <1>2, MessageUnits DEF Texts, Streams
<1>4. c \in Streams
  BY <1>1, <1>2, ClientFrameFacts
<1> QED BY <1>1, <1>2, <1>3, <1>4, PayloadFrame

MoreFrames(q, j, n, s, c, x) ==
  \E F2, P2, f2, q2 \in Lists :
    /\ Frames(F2, P2, f2, q2, j, n + 1, s \o c, TRUE)
    /\ Longer(q2, q, n, x) /\ q2[n + 1] = <<>>

LEMMA FramesAdd ==
  ASSUME NEW F \in Lists, NEW P \in Lists, NEW f \in Lists, NEW q \in Lists,
         NEW j \in Nat, NEW n \in Nat, j <= n, NEW s \in Streams,
         Frames(F, P, f, q, j, n, s, TRUE), NEW c, NEW x, IsFrame(c, x)
  PROVE  MoreFrames(q, j, n, s, c, x)
<1>1. /\ Chain(f, F, j, n) /\ Chain(q, P, j, n) /\ Framing(F, P, j, n)
      /\ f[j] = s /\ q[n] = <<>> /\ f[n] = <<>> /\ SamePayload(f, q, j, n)
  BY DEF Frames
<1>2. c \in Streams /\ x \in Streams /\ x \in Texts /\ Payload(c) = Len(x)
  BY FrameFacts
<1>3. PICK f2, F2 \in Lists :
        /\ Chain(f2, F2, j, n + 1) /\ f2[n + 1] = <<>>
        /\ Longer(f2, f, n, c) /\ OneMore(F2, F, n, c)
  BY <1>1, <1>2, AppendChain
<1>4. PICK q2, P2 \in Lists :
        /\ Chain(q2, P2, j, n + 1) /\ q2[n + 1] = <<>>
        /\ Longer(q2, q, n, x) /\ OneMore(P2, P, n, x)
  BY <1>1, <1>2, AppendChain
<1>5. Framing(F2, P2, j, n + 1)
  <2>1. ASSUME NEW i \in (j + 1)..(n + 1) PROVE IsFrame(F2[i], P2[i])
    <3>1. CASE i = n + 1
      <4>1. F2[i] = c /\ P2[i] = x
        BY <1>3, <1>4, <3>1 DEF OneMore
      <4> QED BY <4>1
    <3>2. CASE i # n + 1
      <4>1. i \in 0..n /\ i \in (j + 1)..n
        BY <3>2
      <4>2. F2[i] = F[i] /\ P2[i] = P[i]
        BY <1>3, <1>4, <4>1 DEF OneMore
      <4>3. IsFrame(F[i], P[i])
        BY <1>1, <4>1 DEF Framing
      <4> QED BY <4>2, <4>3
    <3> QED BY <3>1, <3>2
  <2> QED BY <2>1 DEF Framing
<1>6. f2[j] = s \o c
  <2>1. j \in 0..n
    OBVIOUS
  <2> QED BY <1>1, <1>3, <2>1 DEF Longer
<1>7. SamePayload(f2, q2, j, n + 1)
  <2>1. ASSUME NEW i \in j..(n + 1) PROVE Payload(f2[i]) = Len(q2[i])
    <3>1. CASE i = n + 1
      <4>1. f2[i] = <<>> /\ q2[i] = <<>>
        BY <1>3, <1>4, <3>1
      <4>2. Payload(<<>>) = 0
        <5>1. Payload(<<>>) \in Nat /\ Payload(<<>>) <= Len(<<>>)
          BY EmptyWire, PlacesFacts
        <5> QED BY <5>1
      <4> QED BY <4>1, <4>2
    <3>2. CASE i # n + 1
      <4>1. i \in 0..n /\ i \in j..n /\ i \in Nat
        BY <3>2
      <4> DEFINE a == f[i]
                 b == q[i]
      <4>2. f2[i] = a \o c /\ q2[i] = b \o x
        BY <1>3, <1>4, <4>1 DEF Longer
      <4>3. a \in Streams /\ b \in Streams
        BY <4>1 DEF Lists
      <4>4. Payload(a) = Len(b)
        BY <1>1, <4>1 DEF SamePayload
      <4> HIDE DEF a, b
      <4>5. Payload(a \o c) = Payload(a) + Payload(c)
        BY <1>2, <4>3, PayloadCat
      <4>6. Len(b \o x) = Len(b) + Len(x)
        BY <1>2, <4>3, CatWire
      <4> QED BY <1>2, <4>2, <4>4, <4>5, <4>6
    <3> QED BY <3>1, <3>2
  <2> QED BY <2>1 DEF SamePayload
<1>8. NoFrame(f2[n + 1])
  BY <1>3 DEF NoFrame
<1>9. Frames(F2, P2, f2, q2, j, n + 1, s \o c, TRUE)
  BY <1>3, <1>4, <1>5, <1>6, <1>7, <1>8 DEF Frames
<1> QED BY <1>4, <1>9 DEF MoreFrames

LEMMA FramesBad ==
  ASSUME NEW F \in Lists, NEW P \in Lists, NEW f \in Lists, NEW q \in Lists,
         NEW j \in Nat, NEW n \in Nat, j <= n, NEW s \in Streams,
         Frames(F, P, f, q, j, n, s, TRUE), NEW x \in Streams, NoFrame(x)
  PROVE  \E f2 \in Lists : Frames(F, P, f2, q, j, n, s \o x, FALSE)
<1>1. /\ Chain(f, F, j, n) /\ Chain(q, P, j, n) /\ Framing(F, P, j, n)
      /\ f[j] = s /\ q[n] = <<>> /\ f[n] = <<>>
  BY DEF Frames
<1>2. PICK f2 \in Lists : Chain(f2, F, j, n) /\ Longer(f2, f, n, x)
  BY <1>1, ExtendChain
<1>3. j \in 0..n /\ n \in 0..n
  OBVIOUS
<1>4. f2[j] = s \o x
  BY <1>1, <1>2, <1>3 DEF Longer
<1>5. f2[n] = x
  <2>1. f2[n] = <<>> \o x
    BY <1>1, <1>2, <1>3 DEF Longer
  <2> QED BY <2>1, EmptyWire
<1>6. NoFrame(f2[n])
  BY <1>5
<1> QED BY <1>1, <1>2, <1>4, <1>6 DEF Frames

(* The buffer b of frames and what has not arrived, t.                     *)
NextFrame(b, t, P, f, q, j) ==
  \E k \in Masks : /\ FrameFirst(b, t, k, P[j + 1], f[j + 1])
                   /\ P[j + 1] \in Texts /\ q[j] = P[j + 1] \o q[j + 1]

LEMMA FramesNext ==
  ASSUME NEW F \in Lists, NEW P \in Lists, NEW f \in Lists, NEW q \in Lists,
         NEW j \in Nat, NEW n \in Nat, j < n, NEW b \in Streams, NEW t \in Streams, NEW h,
         Frames(F, P, f, q, j, n, b \o t, h)
  PROVE  NextFrame(b, t, P, f, q, j)
<1>1. j + 1 \in (j + 1)..n /\ (j + 1) - 1 = j /\ j + 1 \in Nat
  OBVIOUS
<1>2. /\ Chain(f, F, j, n) /\ Chain(q, P, j, n) /\ Framing(F, P, j, n) /\ f[j] = b \o t
  BY DEF Frames
<1>3. IsFrame(F[j + 1], P[j + 1])
  BY <1>1, <1>2 DEF Framing
<1> DEFINE x == P[j + 1]
           v == f[j + 1]
<1>4. PICK k \in Masks : F[j + 1] = ClientFrame(k, x)
  BY <1>3 DEF IsFrame
<1>5. x \in Texts /\ v \in Streams
  BY <1>1, <1>3 DEF IsFrame, Lists
<1>6. Splits(b, t, ClientFrame(k, x), v)
  <2>1. f[(j + 1) - 1] = F[j + 1] \o f[j + 1]
    BY <1>1, <1>2 DEF Chain
  <2> QED BY <1>1, <1>2, <1>4, <2>1 DEF Splits
<1>7. q[j] = x \o q[j + 1]
  <2>1. q[(j + 1) - 1] = P[j + 1] \o q[j + 1]
    BY <1>1, <1>2 DEF Chain
  <2> QED BY <1>1, <2>1
<1> HIDE DEF x, v
<1>8. FrameFirst(b, t, k, x, v)
  BY <1>5, <1>6, FrontFrame
<1> QED BY <1>5, <1>7, <1>8 DEF x, v, NextFrame

Unpacked(b, t, F, P, f, q, j, n, h) ==
  /\ h => b[1][1] # "bare"
  /\ b[1][1] # "bare" => j < n
  /\ b[1][1] # "bare" /\ HasFrame(b) =>
       /\ FramePayload(b) = P[j + 1] /\ P[j + 1] \in Texts
       /\ q[j] = P[j + 1] \o q[j + 1]
       /\ SubSeq(b, FrameHeaderLen(b) + FrameLen(b) + 1, Len(b)) \in Streams
       /\ Frames(F, P, f, q, j + 1, n,
                 SubSeq(b, FrameHeaderLen(b) + FrameLen(b) + 1, Len(b)) \o t, h)

LEMMA FramesPop ==
  ASSUME NEW F \in Lists, NEW P \in Lists, NEW f \in Lists, NEW q \in Lists,
         NEW j \in Nat, NEW n \in Nat, j <= n, NEW b \in Streams, NEW t \in Streams, NEW h,
         Frames(F, P, f, q, j, n, b \o t, h), HasFrameHeader(b)
  PROVE  Unpacked(b, t, F, P, f, q, j, n, h)
<1> DEFINE c == SubSeq(b, FrameHeaderLen(b) + FrameLen(b) + 1, Len(b))
<1>1. b # <<>>
  BY DEF HasFrameHeader
<1>2. Len(b) \in Nat /\ Len(t) \in Nat /\ 1 \in 1..Len(b) /\ (b \o t)[1] = b[1] /\ b \o t # <<>>
  <2>1. Len(b) \in Nat /\ Len(t) \in Nat /\ Len(b) # 0
    BY <1>1 DEF Streams
  <2>2. 1 \in 1..Len(b)
    BY <2>1
  <2>3. Len(b \o t) = Len(b) + Len(t) /\ (b \o t)[1] = b[1]
    BY <2>2, CatWire
  <2>4. Len(b \o t) # 0
    BY <2>1, <2>3
  <2> QED BY <2>1, <2>2, <2>3, <2>4
<1>3. ASSUME j = n PROVE b[1][1] = "bare" /\ ~h
  <2>1. f[n] = b \o t /\ NoFrame(f[n]) /\ (h => f[n] = <<>>)
    BY <1>3 DEF Frames
  <2>2. (b \o t)[1][1] = "bare"
    BY <1>2, <2>1 DEF NoFrame
  <2> QED BY <1>2, <2>1, <2>2
<1>4. ASSUME j < n PROVE b[1][1] # "bare"
  <2>1. NextFrame(b, t, P, f, q, j)
    BY <1>4, FramesNext
  <2> QED BY <2>1 DEF NextFrame, FrameFirst
<1>5. ASSUME b[1][1] # "bare", HasFrame(b)
      PROVE  /\ FramePayload(b) = P[j + 1] /\ P[j + 1] \in Texts
             /\ q[j] = P[j + 1] \o q[j + 1]
             /\ c \in Streams
             /\ Frames(F, P, f, q, j + 1, n, c \o t, h)
  <2>1. j < n
    BY <1>3, <1>5
  <2>2. PICK k \in Masks : /\ FrameFirst(b, t, k, P[j + 1], f[j + 1])
                           /\ P[j + 1] \in Texts /\ q[j] = P[j + 1] \o q[j + 1]
    <3>1. NextFrame(b, t, P, f, q, j)
      BY <2>1, FramesNext
    <3> QED BY <3>1 DEF NextFrame
  <2>3. FramePayload(b) = P[j + 1] /\ c \in Streams /\ c \o t = f[j + 1]
    BY <1>5, <2>2 DEF FrameFirst
  <2> HIDE DEF c
  <2>4. Chain(f, F, j + 1, n) /\ Chain(q, P, j + 1, n) /\ Framing(F, P, j + 1, n)
    <3>1. \A i \in ((j + 1) + 1)..n : i \in (j + 1)..n
      OBVIOUS
    <3>2. Chain(f, F, j, n) /\ Chain(q, P, j, n) /\ Framing(F, P, j, n)
      BY DEF Frames
    <3>3. Framing(F, P, j + 1, n)
      BY <3>1, <3>2 DEF Framing
    <3>4. Chain(f, F, j + 1, n)
      BY <3>1, <3>2 DEF Chain
    <3>5. Chain(q, P, j + 1, n)
      BY <3>1, <3>2 DEF Chain
    <3> QED BY <3>3, <3>4, <3>5
  <2>5. q[n] = <<>> /\ NoFrame(f[n]) /\ (h => f[n] = <<>> /\ SamePayload(f, q, j + 1, n))
    <3>1. \A i \in (j + 1)..n : i \in j..n
      OBVIOUS
    <3>2. q[n] = <<>> /\ NoFrame(f[n]) /\ (h => f[n] = <<>> /\ SamePayload(f, q, j, n))
      BY DEF Frames
    <3>3. SamePayload(f, q, j, n) => SamePayload(f, q, j + 1, n)
      BY <3>1 DEF SamePayload
    <3> QED BY <3>2, <3>3
  <2>6. Frames(F, P, f, q, j + 1, n, c \o t, h)
    BY <2>3, <2>4, <2>5 DEF Frames
  <2> QED BY <2>2, <2>3, <2>6
<1>6. h => b[1][1] # "bare"
  BY <1>3, <1>4
<1>7. b[1][1] # "bare" => j < n
  BY <1>3
<1> QED BY <1>5, <1>6, <1>7 DEF c, Unpacked

(* A frame that is not all in the buffer lacks some of its payload.        *)
Missing(t, q, j, n) ==
  /\ j < n /\ Payload(t) \in Nat
  /\ Payload(t) = Len(q[j]) \/ Payload(t) > Len(q[j + 1])

LEMMA FramesIdle ==
  ASSUME NEW F \in Lists, NEW P \in Lists, NEW f \in Lists, NEW q \in Lists,
         NEW j \in Nat, NEW n \in Nat, j <= n, NEW b \in Streams, NEW t \in Streams,
         Frames(F, P, f, q, j, n, b \o t, TRUE), ~HasFrame(b), q[j] # <<>>
  PROVE  Missing(t, q, j, n)
<1>1. j < n
  BY DEF Frames
<1>2. PICK k \in Masks : /\ FrameFirst(b, t, k, P[j + 1], f[j + 1])
                         /\ P[j + 1] \in Texts /\ q[j] = P[j + 1] \o q[j + 1]
  <2>1. NextFrame(b, t, P, f, q, j)
    BY <1>1, FramesNext
  <2> QED BY <2>1 DEF NextFrame
<1> DEFINE x == P[j + 1]
           y == q[j + 1]
<1>3. x \in Texts /\ x \in Streams /\ y \in Streams /\ q[j] = x \o y
  <2>1. j + 1 \in Nat
    OBVIOUS
  <2> QED BY <1>2, <2>1 DEF Lists
<1>4. Len(b) < Len(ClientFrame(k, x)) /\ \A i \in 1..Len(b) : b[i] = ClientFrame(k, x)[i]
  BY <1>2 DEF FrameFirst
<1> HIDE DEF x, y
<1>5. Payload(b) = 0 \/ Payload(b) < Len(x)
  BY <1>3, <1>4, PayloadFront
<1>6. Payload(b \o t) = Payload(b) + Payload(t) /\ Payload(b) \in Nat /\ Payload(t) \in Nat
  BY PayloadCat, PlacesFacts
<1>7. Payload(b \o t) = Len(q[j])
  <2>1. j \in j..n
    OBVIOUS
  <2>2. SamePayload(f, q, j, n) /\ f[j] = b \o t
    BY DEF Frames
  <2> QED BY <2>1, <2>2 DEF SamePayload
<1>8. Len(q[j]) = Len(x) + Len(y) /\ Len(x) \in Nat /\ Len(y) \in Nat
  BY <1>3, CatWire
<1>9. Payload(t) = Len(q[j]) \/ Payload(t) > Len(y)
  BY <1>5, <1>6, <1>7, <1>8
<1> QED BY <1>1, <1>6, <1>9 DEF y, Missing

-----------------------------------------------------------------------------
(* The stream from the peer.                                               *)

(* No message ends inside a frame.                                         *)
Aligned(r, q, g, N, j, n) ==
  \A i \in g..N, k \in (j + 1)..n : ~(Len(q[k]) < Len(r[i]) /\ Len(r[i]) < Len(q[k - 1]))

(* On a plain connection all that has not been popped is s.  On a          *)
(* WebSocket b has been unpacked and s has not.                            *)
PlainStream(s, g, sq, e, h) == \E p, r \in Lists : Bodies(p, r, s, g, sq, e, h)
WsParts(p, r, F, P, f, q, j, n, b, s, g, sq, e, h) ==
  /\ p \in Lists /\ r \in Lists /\ F \in Lists /\ P \in Lists /\ f \in Lists /\ q \in Lists
  /\ j \in Nat /\ n \in Nat /\ j <= n
  /\ Bodies(p, r, b \o q[j], g, sq, e, h)
  /\ Frames(F, P, f, q, j, n, s, h)
  /\ h => Aligned(r, q, g, Len(sq), j, n)
WsStream(b, s, g, sq, e, h) ==
  \E p, r, F, P, f, q \in Lists, j, n \in Nat :
    WsParts(p, r, F, P, f, q, j, n, b, s, g, sq, e, h)

LongerBy(r2, r, a, n, l) == \A i \in a..n : Len(r2[i]) = Len(r[i]) + l
AtMost(q, a, n, l) == \A i \in a..n : Len(q[i]) <= l

LEMMA AlignedSend ==
  ASSUME NEW r \in Lists, NEW q \in Lists, NEW r2 \in Lists, NEW q2 \in Lists,
         NEW g \in Nat, NEW N \in Nat, g <= N, NEW j \in Nat, NEW n \in Nat, j <= n,
         NEW n2 \in Nat, n <= n2, NEW l \in Nat, Aligned(r, q, g, N, j, n),
         LongerBy(r2, r, g, N, l), r2[N + 1] = <<>>,
         LongerBy(q2, q, j, n, l), AtMost(q2, n, n2, l)
  PROVE  Aligned(r2, q2, g, N + 1, j, n2)
<1>1. \A i \in Nat : /\ Len(r[i]) \in Nat /\ Len(q[i]) \in Nat
                     /\ Len(r2[i]) \in Nat /\ Len(q2[i]) \in Nat
  <2>1. \A i \in Nat : r[i] \in Streams /\ q[i] \in Streams /\ r2[i] \in Streams /\ q2[i] \in Streams
    BY DEF Lists
  <2>2. \A s \in Streams : Len(s) \in Nat
    BY CatWire
  <2> QED BY <2>1, <2>2
<1>2. ASSUME NEW i \in g..(N + 1), NEW k \in (j + 1)..n2,
             Len(q2[k]) < Len(r2[i]), Len(r2[i]) < Len(q2[k - 1])
      PROVE  FALSE
  <2>1. i \in Nat /\ k \in Nat /\ k - 1 \in Nat
    OBVIOUS
  <2>2. Len(q2[k]) \in Nat /\ Len(r2[i]) \in Nat
    BY <1>1, <2>1
  <2>3. i \in g..N
    <3>1. ASSUME i = N + 1 PROVE FALSE
      <4>1. Len(r2[i]) = 0
        BY <3>1
      <4> QED BY <1>2, <2>2, <4>1
    <3> QED BY <3>1
  <2>4. Len(r2[i]) = Len(r[i]) + l /\ Len(r[i]) \in Nat
    BY <1>1, <2>1, <2>3 DEF LongerBy
  <2>5. CASE k <= n
    <3>1. k \in j..n /\ k - 1 \in j..n /\ k \in (j + 1)..n
      BY <2>5
    <3>2. Len(q2[k]) = Len(q[k]) + l /\ Len(q2[k - 1]) = Len(q[k - 1]) + l
      BY <3>1 DEF LongerBy
    <3>3. Len(q[k]) \in Nat /\ Len(q[k - 1]) \in Nat
      BY <1>1, <2>1
    <3>4. Len(q[k]) < Len(r[i]) /\ Len(r[i]) < Len(q[k - 1])
      <4>1. Len(q[k]) + l < Len(r[i]) + l /\ Len(r[i]) + l < Len(q[k - 1]) + l
        BY <1>2, <2>4, <3>2
      <4>2. \A c, d \in Nat : c + l < d + l => c < d
        OBVIOUS
      <4> QED BY <2>4, <3>3, <4>1, <4>2
    <3> QED BY <2>3, <3>1, <3>4 DEF Aligned
  <2>6. CASE k > n
    <3>1. k - 1 \in n..n2
      BY <2>6
    <3>2. Len(q2[k - 1]) <= l /\ Len(q2[k - 1]) \in Nat
      BY <1>1, <2>1, <3>1 DEF AtMost
    <3>3. Len(r2[i]) >= l
      BY <2>4
    <3> QED BY <1>2, <2>2, <3>2, <3>3
  <2> QED BY <2>5, <2>6
<1> QED BY <1>2 DEF Aligned

(* The messages sq of the peer, where they end, and how many were popped.  *)
Sent(sq, e, g) ==
  /\ sq \in Seq(Msgs) /\ g \in 0..Len(sq)
  /\ e \in Seq(Nat) /\ Len(e) = Len(sq) + 1

LEMMA PlainSend ==
  ASSUME NEW s \in Streams, NEW sq, NEW e, NEW g,
         Sent(sq, e, g), NEW m \in Msgs, PlainStream(s, g, sq, e, TRUE)
  PROVE  PlainStream(s \o Body(m), g, Append(sq, m), Append(e, e[Len(e)] + Len(Body(m))), TRUE)
<1>1. PICK p, r \in Lists : Bodies(p, r, s, g, sq, e, TRUE)
  BY DEF PlainStream
<1>2. sq \in Seq(Msgs) /\ e \in Seq(Nat) /\ Len(e) = Len(sq) + 1 /\ g \in 0..Len(sq)
  BY DEF Sent
<1>3. SentMore(p, r, s, g, sq, e, m)
  BY <1>2, <1>1, BodiesSend
<1> QED BY <1>3 DEF SentMore, PlainStream

LEMMA PlainBad ==
  ASSUME NEW s \in Streams, NEW sq, NEW e, NEW g,
         Sent(sq, e, g), NEW x \in Streams, NoMessage(x), PlainStream(s, g, sq, e, TRUE)
  PROVE  PlainStream(s \o x, g, sq, e, FALSE)
<1>1. PICK p, r \in Lists : Bodies(p, r, s, g, sq, e, TRUE)
  BY DEF PlainStream
<1>2. sq \in Seq(Msgs) /\ e \in Seq(Nat) /\ Len(e) = Len(sq) + 1 /\ g \in 0..Len(sq)
  BY DEF Sent
<1> QED BY <1>1, <1>2, BodiesBad DEF PlainStream

(* A message arrives at a WebSocket in frames that together hold it.       *)
Arrives(q, j, n, s, m) ==
  \E F2, P2, f2, q2 \in Lists, n2 \in Nat :
    /\ n <= n2 /\ Frames(F2, P2, f2, q2, j, n2, s, TRUE)
    /\ Longer(q2, q, n, Body(m)) /\ AtMost(q2, n, n2, Len(Body(m)))

WsSent(b, s, g, sq, e, m) ==
  WsStream(b, s, g, Append(sq, m), Append(e, e[Len(e)] + Len(Body(m))), TRUE)

LEMMA WsSend ==
  ASSUME NEW p, NEW r, NEW F, NEW P, NEW f, NEW q, NEW j, NEW n,
         NEW b \in Streams, NEW s \in Streams, NEW s2,
         NEW sq, NEW e, NEW g, Sent(sq, e, g), NEW m \in Msgs,
         WsParts(p, r, F, P, f, q, j, n, b, s, g, sq, e, TRUE),
         Arrives(q, j, n, s2, m)
  PROVE  WsSent(b, s2, g, sq, e, m)
<1> DEFINE N == Len(sq)
           x == Body(m)
           y == q[j]
           e2 == Append(e, e[Len(e)] + Len(x))
<1>1. sq \in Seq(Msgs) /\ e \in Seq(Nat) /\ Len(e) = Len(sq) + 1 /\ g \in 0..Len(sq)
  BY DEF Sent
<1>2. /\ p \in Lists /\ r \in Lists /\ F \in Lists /\ P \in Lists /\ f \in Lists /\ q \in Lists
       /\ j \in Nat /\ n \in Nat
  BY DEF WsParts
<1>3. N \in Nat /\ g \in Nat /\ g <= N /\ Len(Append(sq, m)) = N + 1
  BY <1>1
<1>4. j <= n /\ Bodies(p, r, b \o y, g, sq, e, TRUE) /\ Aligned(r, q, g, N, j, n)
  BY DEF WsParts
<1>5. x \in Streams /\ Len(x) \in Nat /\ y \in Streams
  BY <1>2, BodyWire DEF Lists
<1>6. b \o y \in Streams
  BY <1>5, CatWire
<1>7. SentMore(p, r, b \o y, g, sq, e, m)
  BY <1>1, <1>2, <1>4, <1>6, BodiesSend
<1>8. PICK p2, r2 \in Lists :
        /\ Bodies(p2, r2, (b \o y) \o x, g, Append(sq, m), e2, TRUE)
        /\ LongerBy(r2, r, g, N, Len(x)) /\ r2[N + 1] = <<>>
  BY <1>7 DEF SentMore, LongerBy
<1>9. PICK F2, P2, f2, q2 \in Lists, n2 \in Nat :
        /\ n <= n2 /\ Frames(F2, P2, f2, q2, j, n2, s2, TRUE)
        /\ Longer(q2, q, n, x) /\ AtMost(q2, n, n2, Len(x))
  BY DEF Arrives
<1>10. q2[j] = y \o x
  <2>1. j \in 0..n
    BY <1>2, <1>4
  <2> QED BY <1>9, <2>1 DEF Longer
<1>11. LongerBy(q2, q, j, n, Len(x))
  <2>1. ASSUME NEW k \in j..n PROVE Len(q2[k]) = Len(q[k]) + Len(x)
    <3>1. k \in 0..n /\ k \in Nat
      BY <1>2
    <3>2. q2[k] = q[k] \o x /\ q[k] \in Streams
      BY <1>2, <1>9, <3>1 DEF Longer, Lists
    <3> QED BY <1>5, <3>2, CatWire
  <2> QED BY <2>1 DEF LongerBy
<1> HIDE DEF N, x, y
<1>12. (b \o y) \o x = b \o q2[j]
  <2>1. (b \o y) \o x = b \o (y \o x)
    BY <1>5, AssocWire
  <2> QED BY <1>10, <2>1
<1>13. Aligned(r2, q2, g, N + 1, j, n2)
  <2>1. AtMost(q2, n, n2, Len(x)) /\ n <= n2
    BY <1>9
  <2>2. Len(x) \in Nat /\ N \in Nat /\ g \in Nat /\ g <= N /\ j <= n /\ Aligned(r, q, g, N, j, n)
    BY <1>3, <1>4, <1>5
  <2> QED BY <1>8, <1>11, <1>2, <2>1, <2>2, AlignedSend
<1>14. j <= n2
  BY <1>2, <1>4, <1>9
<1>15. Bodies(p2, r2, b \o q2[j], g, Append(sq, m), e2, TRUE)
  BY <1>8, <1>12
<1>16. Aligned(r2, q2, g, Len(Append(sq, m)), j, n2)
  BY <1>3, <1>13
<1> HIDE DEF e2
<1>17. WsParts(p2, r2, F2, P2, f2, q2, j, n2, b, s2, g, Append(sq, m), e2, TRUE)
  BY <1>2, <1>14, <1>15, <1>16, <1>9 DEF WsParts
<1>18. WsStream(b, s2, g, Append(sq, m), e2, TRUE)
  BY <1>2, <1>17 DEF WsStream
<1> QED BY <1>18 DEF e2, x, WsSent

LEMMA WsSendOne ==
  ASSUME NEW b \in Streams, NEW s \in Streams,
         NEW sq, NEW e, NEW g, Sent(sq, e, g), NEW m \in Msgs, NEW c, IsFrame(c, Body(m)),
         WsStream(b, s, g, sq, e, TRUE)
  PROVE  WsSent(b, s \o c, g, sq, e, m)
<1>1. PICK p, r, F, P, f, q \in Lists, j, n \in Nat :
        WsParts(p, r, F, P, f, q, j, n, b, s, g, sq, e, TRUE)
  BY DEF WsStream
<1>2. j <= n /\ Frames(F, P, f, q, j, n, s, TRUE) /\ q[n] = <<>>
  BY <1>1 DEF WsParts, Frames
<1>3. MoreFrames(q, j, n, s, c, Body(m))
  BY <1>2, FramesAdd
<1>4. PICK F2, P2, f2, q2 \in Lists :
        /\ Frames(F2, P2, f2, q2, j, n + 1, s \o c, TRUE)
        /\ Longer(q2, q, n, Body(m)) /\ q2[n + 1] = <<>>
  BY <1>3 DEF MoreFrames
<1> DEFINE x == Body(m)
<1>5. x \in Streams /\ Len(x) \in Nat
  BY BodyWire
<1>6. AtMost(q2, n, n + 1, Len(x))
  <2> HIDE DEF x
  <2>1. q2[n] = x
    <3>1. n \in 0..n
      OBVIOUS
    <3>2. q2[n] = <<>> \o x
      BY <1>2, <1>4, <3>1 DEF Longer, x
    <3> QED BY <1>5, <3>2, EmptyWire
  <2>2. \A i \in n..(n + 1) : i = n \/ i = n + 1
    OBVIOUS
  <2>3. Len(q2[n]) <= Len(x) /\ Len(q2[n + 1]) <= Len(x)
    BY <1>4, <1>5, <2>1
  <2> QED BY <2>2, <2>3 DEF AtMost
<1>7. n + 1 \in Nat /\ n <= n + 1
  OBVIOUS
<1>8. Arrives(q, j, n, s \o c, m)
  BY <1>4, <1>6, <1>7 DEF Arrives
<1> QED BY <1>1, <1>8, WsSend

LEMMA WsSendTwo ==
  ASSUME NEW b \in Streams, NEW s \in Streams,
         NEW sq, NEW e, NEW g, Sent(sq, e, g), NEW m \in Msgs, NEW c, NEW d, NEW x, NEW y,
         IsFrame(c, x), IsFrame(d, y), Body(m) = x \o y,
         WsStream(b, s, g, sq, e, TRUE)
  PROVE  WsSent(b, (s \o c) \o d, g, sq, e, m)
<1>1. PICK p, r, F, P, f, q \in Lists, j, n \in Nat :
        WsParts(p, r, F, P, f, q, j, n, b, s, g, sq, e, TRUE)
  BY DEF WsStream
<1>2. j <= n /\ Frames(F, P, f, q, j, n, s, TRUE) /\ q[n] = <<>>
  BY <1>1 DEF WsParts, Frames
<1>3. c \in Streams /\ x \in Streams /\ y \in Streams
  BY FrameFacts
<1>4. s \o c \in Streams
  BY <1>3, CatWire
<1>5. MoreFrames(q, j, n, s, c, x)
  BY <1>2, FramesAdd
<1>6. PICK F2, P2, f2, q2 \in Lists :
        /\ Frames(F2, P2, f2, q2, j, n + 1, s \o c, TRUE)
        /\ Longer(q2, q, n, x) /\ q2[n + 1] = <<>>
  BY <1>5 DEF MoreFrames
<1>7. n + 1 \in Nat /\ j <= n + 1 /\ (n + 1) + 1 = n + 2 /\ n + 2 \in Nat /\ n <= n + 2
  BY <1>2
<1>8. MoreFrames(q2, j, n + 1, s \o c, d, y)
  BY <1>4, <1>6, <1>7, FramesAdd
<1>9. PICK F3, P3, f3, q3 \in Lists :
        /\ Frames(F3, P3, f3, q3, j, n + 2, (s \o c) \o d, TRUE)
        /\ Longer(q3, q2, n + 1, y) /\ q3[n + 2] = <<>>
  BY <1>7, <1>8 DEF MoreFrames
<1> DEFINE z == Body(m)
<1>10. z \in Streams /\ Len(z) \in Nat /\ z = x \o y /\ Len(z) = Len(x) + Len(y)
       /\ Len(x) \in Nat /\ Len(y) \in Nat
  BY <1>3, BodyWire, CatWire
<1> HIDE DEF z
<1>11. Longer(q3, q, n, z)
  <2>1. ASSUME NEW i \in 0..n PROVE q3[i] = q[i] \o z
    <3>1. i \in 0..(n + 1) /\ i \in Nat
      OBVIOUS
    <3>2. q3[i] = q2[i] \o y /\ q2[i] = q[i] \o x /\ q[i] \in Streams
      BY <1>6, <1>9, <3>1 DEF Longer, Lists
    <3> DEFINE a == q[i]
    <3>3. a \in Streams
      BY <3>2
    <3> HIDE DEF a
    <3>4. (a \o x) \o y = a \o (x \o y)
      BY <1>3, <3>3, AssocWire
    <3> QED BY <1>10, <3>2, <3>4 DEF a
  <2> QED BY <2>1 DEF Longer
<1>12. AtMost(q3, n, n + 2, Len(z))
  <2>1. q3[n] = z
    <3>1. n \in 0..n
      OBVIOUS
    <3>2. q3[n] = <<>> \o z
      BY <1>2, <1>11, <3>1 DEF Longer
    <3> QED BY <1>10, <3>2, EmptyWire
  <2>2. q3[n + 1] = y
    <3>1. n + 1 \in 0..(n + 1)
      OBVIOUS
    <3>2. q3[n + 1] = <<>> \o y
      BY <1>6, <1>9, <3>1 DEF Longer
    <3> QED BY <1>3, <3>2, EmptyWire
  <2>3. \A i \in n..(n + 2) : i = n \/ i = n + 1 \/ i = n + 2
    OBVIOUS
  <2>4. Len(q3[n]) <= Len(z) /\ Len(q3[n + 1]) <= Len(z) /\ Len(q3[n + 2]) <= Len(z)
    <3>1. Len(q3[n + 2]) = 0
      BY <1>9
    <3> QED BY <1>10, <2>1, <2>2, <3>1
  <2> QED BY <2>3, <2>4 DEF AtMost
<1>13. Longer(q3, q, n, Body(m)) /\ AtMost(q3, n, n + 2, Len(Body(m)))
  BY <1>11, <1>12 DEF z
<1>14. Arrives(q, j, n, (s \o c) \o d, m)
  BY <1>7, <1>9, <1>13 DEF Arrives
<1> QED BY <1>1, <1>14, WsSend

(* A masked frame with a payload that is no message, and an unmasked one.  *)
LEMMA WsBadFrame ==
  ASSUME NEW b \in Streams, NEW s \in Streams,
         NEW sq, NEW e, NEW g, Sent(sq, e, g), NEW c, NEW x, IsFrame(c, x), NoMessage(x),
         WsStream(b, s, g, sq, e, TRUE)
  PROVE  WsStream(b, s \o c, g, sq, e, FALSE)
<1>1. PICK p, r, F, P, f, q \in Lists, j, n \in Nat :
        WsParts(p, r, F, P, f, q, j, n, b, s, g, sq, e, TRUE)
  BY DEF WsStream
<1> DEFINE y == q[j]
<1>2. j <= n /\ Frames(F, P, f, q, j, n, s, TRUE) /\ Bodies(p, r, b \o y, g, sq, e, TRUE)
  BY <1>1 DEF WsParts
<1>3. c \in Streams /\ x \in Streams /\ y \in Streams
  BY FrameFacts DEF Lists
<1>4. MoreFrames(q, j, n, s, c, x)
  BY <1>2, FramesAdd
<1>5. PICK F2, P2, f2, q2 \in Lists :
        /\ Frames(F2, P2, f2, q2, j, n + 1, s \o c, TRUE)
        /\ Longer(q2, q, n, x) /\ q2[n + 1] = <<>>
  BY <1>4 DEF MoreFrames
<1>6. q2[j] = y \o x
  <2>1. j \in 0..n
    BY <1>2
  <2> QED BY <1>5, <2>1 DEF Longer
<1> HIDE DEF y
<1>7. b \o y \in Streams
  BY <1>3, CatWire
<1>8. PICK r2 \in Lists : Bodies(p, r2, (b \o y) \o x, g, sq, e, FALSE)
  <2>1. sq \in Seq(Msgs) /\ e \in Seq(Nat) /\ Len(e) = Len(sq) + 1 /\ g \in 0..Len(sq)
    BY DEF Sent
  <2> QED BY <1>2, <1>3, <1>7, <2>1, BodiesBad
<1>9. (b \o y) \o x = b \o q2[j]
  <2>1. (b \o y) \o x = b \o (y \o x)
    BY <1>3, AssocWire
  <2> QED BY <1>6, <2>1
<1>10. Frames(F2, P2, f2, q2, j, n + 1, s \o c, FALSE)
  BY <1>5 DEF Frames
<1>11. j <= n + 1 /\ n + 1 \in Nat
  BY <1>2
<1>12. Bodies(p, r2, b \o q2[j], g, sq, e, FALSE)
  BY <1>8, <1>9
<1>13. WsParts(p, r2, F2, P2, f2, q2, j, n + 1, b, s \o c, g, sq, e, FALSE)
  BY <1>10, <1>11, <1>12 DEF WsParts
<1> QED BY <1>11, <1>13 DEF WsStream

LEMMA WsBare ==
  ASSUME NEW b \in Streams, NEW s \in Streams,
         NEW sq, NEW e, NEW g, Sent(sq, e, g), NEW x \in Streams, NoFrame(x),
         WsStream(b, s, g, sq, e, TRUE)
  PROVE  WsStream(b, s \o x, g, sq, e, FALSE)
<1>1. PICK p, r, F, P, f, q \in Lists, j, n \in Nat :
        WsParts(p, r, F, P, f, q, j, n, b, s, g, sq, e, TRUE)
  BY DEF WsStream
<1>2. j <= n /\ Frames(F, P, f, q, j, n, s, TRUE) /\ Bodies(p, r, b \o q[j], g, sq, e, TRUE)
  BY <1>1 DEF WsParts
<1>3. PICK f2 \in Lists : Frames(F, P, f2, q, j, n, s \o x, FALSE)
  BY <1>2, FramesBad
<1>4. Bodies(p, r, b \o q[j], g, sq, e, FALSE)
  BY <1>2 DEF Bodies
<1>5. WsParts(p, r, F, P, f2, q, j, n, b, s \o x, g, sq, e, FALSE)
  BY <1>2, <1>3, <1>4 DEF WsParts
<1> QED BY <1>5 DEF WsStream

(* The first loop of dime_socket_pop.                                      *)
WsUnpacked(b, w, t, g, sq, e, h) ==
  /\ h => w[1][1] # "bare"
  /\ w[1][1] # "bare" /\ HasFrame(w) =>
       /\ FramePayload(w) \in Texts
       /\ SubSeq(w, FrameHeaderLen(w) + FrameLen(w) + 1, Len(w)) \in Streams
       /\ WsStream(b \o FramePayload(w),
                   SubSeq(w, FrameHeaderLen(w) + FrameLen(w) + 1, Len(w)) \o t, g, sq, e, h)

LEMMA WsPopFrame ==
  ASSUME NEW b \in Streams, NEW w \in Streams, NEW t \in Streams, NEW g, NEW sq, NEW e, NEW h,
         WsStream(b, w \o t, g, sq, e, h), HasFrameHeader(w)
  PROVE  WsUnpacked(b, w, t, g, sq, e, h)
<1>1. PICK p, r, F, P, f, q \in Lists, j, n \in Nat :
        WsParts(p, r, F, P, f, q, j, n, b, w \o t, g, sq, e, h)
  BY DEF WsStream
<1> DEFINE c == SubSeq(w, FrameHeaderLen(w) + FrameLen(w) + 1, Len(w))
           x == P[j + 1]
           y == q[j + 1]
<1>2. /\ j <= n /\ Bodies(p, r, b \o q[j], g, sq, e, h)
      /\ Frames(F, P, f, q, j, n, w \o t, h)
      /\ h => Aligned(r, q, g, Len(sq), j, n)
  BY <1>1 DEF WsParts
<1>3. Unpacked(w, t, F, P, f, q, j, n, h)
  BY <1>2, FramesPop
<1>4. h => w[1][1] # "bare"
  BY <1>3 DEF Unpacked
<1>5. ASSUME w[1][1] # "bare", HasFrame(w)
      PROVE  /\ FramePayload(w) \in Texts /\ c \in Streams
             /\ WsStream(b \o FramePayload(w), c \o t, g, sq, e, h)
  <2>1. /\ j < n /\ FramePayload(w) = x /\ x \in Texts /\ q[j] = x \o y
        /\ c \in Streams /\ Frames(F, P, f, q, j + 1, n, c \o t, h)
    BY <1>3, <1>5 DEF Unpacked
  <2>2. x \in Streams /\ y \in Streams /\ j + 1 \in Nat /\ j + 1 <= n
    BY <2>1 DEF Lists
  <2>3. h => Aligned(r, q, g, Len(sq), j + 1, n)
    <3>1. \A i \in ((j + 1) + 1)..n : i \in (j + 1)..n
      OBVIOUS
    <3> QED BY <1>2, <3>1 DEF Aligned
  <2> HIDE DEF c, x, y
  <2>4. b \o (x \o y) = (b \o x) \o y
    BY <2>2, AssocWire, ZenonT(30)
  <2>5. Bodies(p, r, (b \o x) \o q[j + 1], g, sq, e, h)
    BY <1>2, <2>1, <2>4 DEF y
  <2>6. WsParts(p, r, F, P, f, q, j + 1, n, b \o x, c \o t, g, sq, e, h)
    BY <2>1, <2>2, <2>3, <2>5 DEF WsParts
  <2>7. WsStream(b \o x, c \o t, g, sq, e, h)
    BY <2>2, <2>6 DEF WsStream
  <2> QED BY <2>1, <2>7
<1> QED BY <1>4, <1>5 DEF WsUnpacked, c

(* Its second part.                                                        *)
PlainPopped(b, t, g, sq, e, h, m) ==
  /\ g + 1 \in 1..Len(sq) /\ m = sq[g + 1] /\ MsgSize(b) \in 0..Len(b)
  /\ SubSeq(b, MsgSize(b) + 1, Len(b)) \in Streams
  /\ PlainStream(SubSeq(b, MsgSize(b) + 1, Len(b)) \o t, g + 1, sq, e, h)
WsPopped(b, s, g, sq, e, h, m) ==
  /\ g + 1 \in 1..Len(sq) /\ m = sq[g + 1] /\ MsgSize(b) \in 0..Len(b)
  /\ SubSeq(b, MsgSize(b) + 1, Len(b)) \in Streams
  /\ WsStream(SubSeq(b, MsgSize(b) + 1, Len(b)), s, g + 1, sq, e, h)

LEMMA PlainPop ==
  ASSUME NEW b \in Streams, NEW t \in Streams, NEW sq, NEW e, NEW g, Sent(sq, e, g), NEW h,
         PlainStream(b \o t, g, sq, e, h), HasMessage(b), NEW m \in Msgs, IsMessage(b, m)
  PROVE  PlainPopped(b, t, g, sq, e, h, m)
<1>1. PICK p, r \in Lists : Bodies(p, r, b \o t, g, sq, e, h)
  BY DEF PlainStream
<1>2. sq \in Seq(Msgs) /\ g \in 0..Len(sq)
  BY DEF Sent
<1>3. Popped(p, r, b, t, g, sq, e, h, m)
  BY <1>1, <1>2, BodiesPop
<1> QED BY <1>3 DEF Popped, PlainPopped, PlainStream

LEMMA WsPop ==
  ASSUME NEW b \in Streams, NEW s \in Streams, NEW sq, NEW e, NEW g, Sent(sq, e, g), NEW h,
         WsStream(b, s, g, sq, e, h), HasMessage(b), NEW m \in Msgs, IsMessage(b, m)
  PROVE  WsPopped(b, s, g, sq, e, h, m)
<1>1. PICK p, r, F, P, f, q \in Lists, j, n \in Nat :
        WsParts(p, r, F, P, f, q, j, n, b, s, g, sq, e, h)
  BY DEF WsStream
<1> DEFINE c == SubSeq(b, MsgSize(b) + 1, Len(b))
           t == q[j]
<1>2. /\ j <= n /\ Bodies(p, r, b \o t, g, sq, e, h)
      /\ Frames(F, P, f, q, j, n, s, h)
      /\ h => Aligned(r, q, g, Len(sq), j, n)
  BY <1>1 DEF WsParts
<1>3. sq \in Seq(Msgs) /\ g \in 0..Len(sq) /\ t \in Streams
  BY DEF Sent, Lists
<1> HIDE DEF t
<1>4. Popped(p, r, b, t, g, sq, e, h, m)
  BY <1>2, <1>3, BodiesPop
<1>5. /\ g + 1 \in 1..Len(sq) /\ m = sq[g + 1] /\ c \in Streams /\ MsgSize(b) \in 0..Len(b)
      /\ Bodies(p, r, c \o t, g + 1, sq, e, h)
  BY <1>4 DEF Popped
<1> HIDE DEF c
<1>6. h => Aligned(r, q, g + 1, Len(sq), j, n)
  <2>1. \A i \in (g + 1)..Len(sq) : i \in g..Len(sq)
    BY <1>3
  <2> QED BY <1>2, <2>1 DEF Aligned
<1>7. WsParts(p, r, F, P, f, q, j, n, c, s, g + 1, sq, e, h)
  BY <1>2, <1>5, <1>6 DEF WsParts, t
<1>8. WsStream(c, s, g + 1, sq, e, h)
  BY <1>7 DEF WsStream
<1> QED BY <1>5, <1>8 DEF WsPopped, c

LEMMA PlainFine ==
  ASSUME NEW b \in Streams, NEW t \in Streams, NEW sq, NEW e, NEW g, Sent(sq, e, g),
         PlainStream(b \o t, g, sq, e, TRUE), HasHeader(b)
  PROVE  b[1] = Magic /\ (HasMessage(b) => \E m \in Msgs : IsMessage(b, m))
<1>1. PICK p, r \in Lists : Bodies(p, r, b \o t, g, sq, e, TRUE)
  BY DEF PlainStream
<1>2. sq \in Seq(Msgs) /\ g \in 0..Len(sq)
  BY DEF Sent
<1> QED BY <1>1, <1>2, BodiesFine

LEMMA WsFine ==
  ASSUME NEW b \in Streams, NEW s \in Streams, NEW sq, NEW e, NEW g, Sent(sq, e, g),
         WsStream(b, s, g, sq, e, TRUE), HasHeader(b)
  PROVE  b[1] = Magic /\ (HasMessage(b) => \E m \in Msgs : IsMessage(b, m))
<1>1. PICK p, r, F, P, f, q \in Lists, j, n \in Nat :
        WsParts(p, r, F, P, f, q, j, n, b, s, g, sq, e, TRUE)
  BY DEF WsStream
<1> DEFINE t == q[j]
<1>2. Bodies(p, r, b \o t, g, sq, e, TRUE) /\ t \in Streams
  BY <1>1 DEF WsParts, Lists
<1> HIDE DEF t
<1>3. sq \in Seq(Msgs) /\ g \in 0..Len(sq)
  BY DEF Sent
<1> QED BY <1>2, <1>3, BodiesFine

(* When nothing more can be popped, what is missing of the next message    *)
(* has not been received.                                                  *)
LEMMA PlainIdle ==
  ASSUME NEW b \in Streams, NEW t \in Streams, NEW sq, NEW e, NEW g, Sent(sq, e, g),
         g < Len(sq), PlainStream(b \o t, g, sq, e, TRUE), ~HasMessage(b)
  PROVE  Len(t) > e[Len(sq) + 1] - e[g + 2]
<1>1. PICK p, r \in Lists : Bodies(p, r, b \o t, g, sq, e, TRUE)
  BY DEF PlainStream
<1>2. sq \in Seq(Msgs) /\ e \in Seq(Nat) /\ Len(e) = Len(sq) + 1 /\ g \in 0..Len(sq)
  BY DEF Sent
<1>3. Waiting(r, t, g, sq, e)
  BY <1>1, <1>2, BodiesIdle
<1>4. Len(r[g + 1]) = e[Len(sq) + 1] - e[g + 2] /\ Len(r[g + 1]) < Len(t)
  BY <1>3 DEF Waiting
<1>5. Len(r[g + 1]) \in Nat /\ Len(t) \in Nat
  <2>1. g + 1 \in Nat
    BY <1>2
  <2>2. r[g + 1] \in Streams
    BY <2>1 DEF Lists
  <2> QED BY <2>2, CatWire
<1> QED BY <1>4, <1>5

LEMMA WsIdle ==
  ASSUME NEW b \in Streams, NEW w \in Streams, NEW t \in Streams,
         NEW sq, NEW e, NEW g, Sent(sq, e, g),
         g < Len(sq), WsStream(b, w \o t, g, sq, e, TRUE), ~HasMessage(b), ~HasFrame(w)
  PROVE  Payload(t) > e[Len(sq) + 1] - e[g + 2]
<1>1. PICK p, r, F, P, f, q \in Lists, j, n \in Nat :
        WsParts(p, r, F, P, f, q, j, n, b, w \o t, g, sq, e, TRUE)
  BY DEF WsStream
<1> DEFINE y == q[j]
           l == Len(r[g + 1])
<1>2. /\ j <= n /\ Bodies(p, r, b \o y, g, sq, e, TRUE)
      /\ Frames(F, P, f, q, j, n, w \o t, TRUE)
      /\ Aligned(r, q, g, Len(sq), j, n)
  BY <1>1 DEF WsParts
<1>3. /\ sq \in Seq(Msgs) /\ e \in Seq(Nat) /\ Len(e) = Len(sq) + 1 /\ g \in 0..Len(sq)
      /\ g + 1 \in Nat /\ g + 1 \in g..Len(sq) /\ y \in Streams
  <2>1. sq \in Seq(Msgs) /\ e \in Seq(Nat) /\ Len(e) = Len(sq) + 1 /\ g \in 0..Len(sq)
    BY DEF Sent
  <2>2. y \in Streams
    BY DEF Lists
  <2>3. g + 1 \in Nat /\ g + 1 \in g..Len(sq)
    BY <2>1
  <2> QED BY <2>1, <2>2, <2>3
<1>4. Waiting(r, y, g, sq, e)
  <2> HIDE DEF y
  <2> QED BY <1>2, <1>3, BodiesIdle
<1>5. l = e[Len(sq) + 1] - e[g + 2] /\ l < Len(y)
  BY <1>4 DEF Waiting
<1>6. l \in Nat /\ Len(y) \in Nat
  <2>1. r[g + 1] \in Streams
    BY <1>3 DEF Lists
  <2> QED BY <1>3, <2>1, CatWire
<1>7. y # <<>>
  BY <1>5, <1>6
<1>8. Missing(t, q, j, n)
  BY <1>2, <1>7, FramesIdle
<1>9. j < n /\ Payload(t) \in Nat /\ (Payload(t) = Len(y) \/ Payload(t) > Len(q[j + 1]))
  BY <1>8 DEF Missing
<1>10. ~(Len(q[j + 1]) < l /\ l < Len(q[j]))
  <2>1. j + 1 \in (j + 1)..n /\ (j + 1) - 1 = j
    BY <1>9
  <2> QED BY <1>2, <1>3, <2>1 DEF Aligned
<1>11. Len(q[j + 1]) \in Nat
  <2>1. j + 1 \in Nat
    OBVIOUS
  <2>2. q[j + 1] \in Streams
    BY <2>1 DEF Lists
  <2> QED BY <2>2, CatWire
<1>12. Payload(t) > l
  <2> DEFINE a == Len(q[j + 1])
             c == Len(y)
             d == Payload(t)
  <2>1. a \in Nat /\ c \in Nat /\ d \in Nat /\ l \in Nat /\ ~(a < l /\ l < c) /\ l < c /\ (d = c \/ d > a)
    BY <1>5, <1>6, <1>9, <1>10, <1>11
  <2> HIDE DEF a, c, d, l
  <2>2. d > l
    BY <2>1
  <2> QED BY <2>2 DEF d
<1> QED BY <1>5, <1>12

-----------------------------------------------------------------------------
(* The invariant of the input.                                             *)

InTypes ==
  /\ ws \in BOOLEAN /\ honest \in BOOLEAN
  /\ pc \in {"idle", "pop", "failed", "nomemory"}
  /\ net \in Streams /\ wsrbuf \in Streams /\ rbuf \in Texts
  /\ ~ws => wsrbuf = <<>> /\ net \in Texts
InSent == Sent(sent, ends, Len(got))
InGot == got \in Seq(Msgs) /\ \A i \in 1..Len(got) : got[i] = sent[i]
InNet == ~ws /\ honest => Payload(net) = Len(net)
InPlain == ~ws => PlainStream(rbuf \o net, Len(got), sent, ends, honest)
InWs == ws => WsStream(rbuf, wsrbuf \o net, Len(got), sent, ends, honest)
InDone ==
  pc = "idle" => FramesDone /\ (HasHeader(rbuf) => rbuf[1] = Magic /\ ~HasMessage(rbuf))
InFine == honest => pc # "failed"

InInv == InTypes /\ InSent /\ InGot /\ InNet /\ InPlain /\ InWs /\ InDone /\ InFine

LEMMA TextStreams ==
  Texts \subseteq Streams
BY MessageUnits DEF Texts, Streams

LEMMA CatTexts ==
  \A s, t \in Texts : s \o t \in Texts
BY CatUnits DEF Texts

LEMMA CutTexts ==
  \A s \in Texts : \A n \in 0..Len(s) :
    /\ SubSeq(s, 1, n) \in Texts /\ SubSeq(s, n + 1, Len(s)) \in Texts
    /\ SubSeq(s, 1, n) \o SubSeq(s, n + 1, Len(s)) = s
<1>1. \A s \in Seq(Units) : \A n \in 0..Len(s) :
        /\ SubSeq(s, 1, n) \in Seq(Units) /\ SubSeq(s, n + 1, Len(s)) \in Seq(Units)
        /\ SubSeq(s, 1, n) \o SubSeq(s, n + 1, Len(s)) = s
  BY CutSeq
<1> QED BY <1>1 DEF Texts

LEMMA SentAppend ==
  ASSUME NEW sq, NEW e, NEW g, Sent(sq, e, g), NEW m \in Msgs
  PROVE  /\ Sent(Append(sq, m), Append(e, e[Len(e)] + Len(Body(m))), g)
         /\ \A i \in 1..g : Append(sq, m)[i] = sq[i]
<1> DEFINE l == Len(Body(m))
           z == e[Len(e)] + l
<1>1. sq \in Seq(Msgs) /\ e \in Seq(Nat) /\ Len(e) = Len(sq) + 1 /\ g \in 0..Len(sq)
  BY DEF Sent
<1>2. l \in Nat
  BY BodyWire
<1> HIDE DEF l
<1>3. e[Len(e)] \in Nat
  <2>1. Len(e) \in 1..Len(e)
    BY <1>1
  <2> QED BY <1>1, <2>1
<1>4. z \in Nat
  BY <1>2, <1>3
<1> HIDE DEF z
<1>5. Append(e, z) \in Seq(Nat) /\ Len(Append(e, z)) = Len(e) + 1
  BY <1>1, <1>4
<1>6. /\ Append(sq, m) \in Seq(Msgs) /\ Len(Append(sq, m)) = Len(sq) + 1
      /\ \A i \in 1..Len(sq) : Append(sq, m)[i] = sq[i]
  BY <1>1
<1>7. Sent(Append(sq, m), Append(e, z), g) /\ \A i \in 1..g : i \in 1..Len(sq)
  BY <1>1, <1>5, <1>6 DEF Sent
<1> QED BY <1>6, <1>7 DEF z, l

LEMMA InInit ==
  ASSUME Init PROVE InInv
<1> DEFINE l == [i \in Nat |-> <<>>]
<1>1. l \in Lists /\ \A i \in Nat : l[i] = <<>>
  BY EmptyWire DEF Lists
<1> HIDE DEF l
<1>2. /\ ws \in BOOLEAN /\ honest = TRUE /\ pc = "idle" /\ sent = <<>> /\ ends = <<0>>
      /\ net = <<>> /\ wsrbuf = <<>> /\ rbuf = <<>> /\ got = <<>>
  BY DEF Init
<1>3. <<>> \in Streams /\ <<>> \in Texts /\ <<>> \o <<>> = <<>>
  BY EmptyWire DEF Texts
<1>4. Bodies(l, l, <<>>, 0, <<>>, <<0>>, TRUE)
  <2>1. Len(<<>>) = 0 /\ l[0] = <<>>
    BY <1>1
  <2>2. Chain(l, l, 0, 0) /\ NoMessage(<<>>)
    BY DEF Chain, NoMessage
  <2>3. \A i \in 0..0 : Len(l[i]) = (<<0>>[0 + 1] - <<0>>[i + 1]) + Len(l[0])
    BY <2>1
  <2> QED BY <2>1, <2>2, <2>3 DEF Bodies
<1>5. Frames(l, l, l, l, 0, 0, <<>>, TRUE)
  <2>1. l[0] = <<>>
    BY <1>1
  <2>2. Chain(l, l, 0, 0) /\ NoFrame(<<>>) /\ Framing(l, l, 0, 0)
    BY DEF Chain, NoFrame, Framing
  <2>3. SamePayload(l, l, 0, 0)
    <3>1. Payload(<<>>) \in Nat /\ Payload(<<>>) <= Len(<<>>)
      BY EmptyWire, PlacesFacts
    <3>2. Payload(<<>>) = 0 /\ Len(<<>>) = 0
      BY <3>1
    <3> QED BY <2>1, <3>2 DEF SamePayload
  <2> QED BY <2>1, <2>2, <2>3 DEF Frames
<1>6. PlainStream(<<>>, 0, <<>>, <<0>>, TRUE)
  BY <1>1, <1>4 DEF PlainStream
<1>7. WsStream(<<>>, <<>>, 0, <<>>, <<0>>, TRUE)
  <2>1. Aligned(l, l, 0, Len(<<>>), 0, 0)
    BY DEF Aligned
  <2>2. Bodies(l, l, <<>> \o l[0], 0, <<>>, <<0>>, TRUE)
    BY <1>1, <1>3, <1>4
  <2>3. 0 \in Nat /\ 0 <= 0
    OBVIOUS
  <2>4. WsParts(l, l, l, l, l, l, 0, 0, <<>>, <<>>, 0, <<>>, <<0>>, TRUE)
    BY <1>1, <1>5, <2>1, <2>2, <2>3 DEF WsParts
  <2> QED BY <1>1, <2>3, <2>4 DEF WsStream
<1>8. Len(got) = 0 /\ Len(rbuf) = 0 /\ Len(sent) = 0 /\ Len(net) = 0
  BY <1>2
<1>9. InTypes /\ InFine
  BY <1>2, <1>3 DEF InTypes, InFine
<1>10. InSent
  BY <1>2 DEF InSent, Sent
<1>11. InGot
  BY <1>2 DEF InGot
<1>12. InNet
  <2>1. Payload(<<>>) \in Nat /\ Payload(<<>>) <= Len(<<>>)
    BY EmptyWire, PlacesFacts
  <2> QED BY <1>2, <2>1 DEF InNet
<1>13. InPlain
  BY <1>2, <1>3, <1>6, <1>8 DEF InPlain
<1>14. InWs
  BY <1>2, <1>3, <1>7, <1>8 DEF InWs
<1>15. InDone
  BY <1>2, <1>8 DEF InDone, FramesDone, HasFrameHeader, HasHeader
<1> QED BY <1>9, <1>10, <1>11, <1>12, <1>13, <1>14, <1>15 DEF InInv

(* Nothing but the flags of the loop changes.                              *)
LEMMA InSame ==
  ASSUME InInv, UNCHANGED <<ws, honest, sent, ends, net, wsrbuf, rbuf, got>>,
         pc' \in {"idle", "pop", "failed", "nomemory"}, InDone', InFine'
  PROVE  InInv'
<1>1. InTypes'
  BY DEF InInv, InTypes
<1>2. InSent' /\ InGot' /\ InNet'
  BY DEF InInv, InSent, InGot, InNet
<1>3. InPlain' /\ InWs'
  BY DEF InInv, InPlain, InWs
<1> QED BY <1>1, <1>2, <1>3 DEF InInv

LEMMA InUnchanged ==
  ASSUME InInv, UNCHANGED ws, UNCHANGED in_vars
  PROVE  InInv'
<1>1. UNCHANGED <<ws, honest, sent, ends, net, wsrbuf, rbuf, got>> /\ pc' = pc
  BY DEF in_vars
<1>2. InDone'
  BY <1>1 DEF InInv, InDone, FramesDone
<1>3. InFine' /\ pc' \in {"idle", "pop", "failed", "nomemory"}
  BY <1>1 DEF InInv, InFine, InTypes
<1> QED BY <1>1, <1>2, <1>3, InSame

LEMMA InPeerSend ==
  ASSUME InInv, NEW m \in Msgs, PeerSend(m)
  PROVE  InInv'
<1> DEFINE x == Body(m)
           g == Len(got)
           sq == Append(sent, m)
           e == Append(ends, ends[Len(ends)] + Len(x))
<1>1. /\ ws \in BOOLEAN /\ honest = TRUE /\ honest' = TRUE /\ ws' = ws
      /\ net \in Streams /\ wsrbuf \in Streams /\ rbuf \in Texts /\ rbuf \in Streams
      /\ Sent(sent, ends, g)
  BY TextStreams DEF InInv, InTypes, InSent, PeerSend
<1>2. /\ pc' = pc /\ wsrbuf' = wsrbuf /\ rbuf' = rbuf /\ got' = got
      /\ sent' = sq /\ ends' = e
  BY DEF PeerSend
<1>3. x \in Streams /\ x \in Texts /\ Payload(x) = Len(x) /\ Len(x) \in Nat
  BY BodyWire, PayloadBody DEF Texts
<1>4. InDone' /\ InFine' /\ pc' \in {"idle", "pop", "failed", "nomemory"}
  BY <1>1, <1>2 DEF InInv, InTypes, InDone, InFine, FramesDone
<1>5. InSent' /\ InGot'
  <2>1. Sent(sq, e, g) /\ \A i \in 1..g : sq[i] = sent[i]
    BY <1>1, SentAppend
  <2> HIDE DEF sq, e
  <2> QED BY <1>2, <2>1 DEF InInv, InSent, InGot
<1> HIDE DEF x, g, sq, e
<1>6. CASE ~ws
  <2>1. net' = net \o x /\ net \in Texts /\ wsrbuf = <<>> /\ Payload(net) = Len(net)
    BY <1>1, <1>6 DEF PeerSend, InInv, InTypes, InNet, x
  <2>2. net' \in Streams /\ net' \in Texts /\ Len(net') = Len(net) + Len(x)
    BY <1>1, <1>3, <2>1, CatWire, CatTexts
  <2>3. InTypes'
    BY <1>1, <1>2, <1>4, <1>6, <2>1, <2>2 DEF InTypes
  <2>4. InNet'
    <3>1. Payload(net \o x) = Payload(net) + Payload(x)
      BY <1>1, <1>3, PayloadCat
    <3> QED BY <1>3, <2>1, <2>2, <3>1 DEF InNet
  <2>5. PlainStream(rbuf \o net, g, sent, ends, TRUE)
    BY <1>1, <1>6 DEF InInv, InPlain, g
  <2>6. rbuf \o net \in Streams /\ (rbuf \o net) \o x = rbuf \o (net \o x)
    BY <1>1, <1>3, CatIn, AssocWire
  <2>7. PlainStream((rbuf \o net) \o x, g, sq, e, TRUE)
    BY <1>1, <2>5, <2>6, PlainSend DEF sq, e, x
  <2>8. InPlain'
    BY <1>1, <1>2, <2>1, <2>6, <2>7 DEF InPlain, g
  <2>9. InWs'
    BY <1>1, <1>6 DEF InWs
  <2> QED BY <1>4, <1>5, <2>3, <2>4, <2>8, <2>9 DEF InInv
<1>7. CASE ws
  <2> DEFINE s == wsrbuf \o net
  <2>1. WsStream(rbuf, s, g, sent, ends, TRUE)
    BY <1>1, <1>7 DEF InInv, InWs, g
  <2>2. s \in Streams
    BY <1>1, CatWire
  <2>3. ASSUME net' \in Streams, WsSent(rbuf, wsrbuf \o net', g, sent, ends, m) PROVE InInv'
    <3>1. InTypes'
      BY <1>1, <1>2, <1>4, <1>7, <2>3 DEF InTypes
    <3>2. InNet' /\ InPlain'
      BY <1>1, <1>7 DEF InNet, InPlain
    <3>3. InWs'
      BY <1>1, <1>2, <2>3 DEF InWs, WsSent, g, sq, e, x
    <3> QED BY <1>4, <1>5, <3>1, <3>2, <3>3 DEF InInv
  <2> HIDE DEF s
  <2>4. CASE \E k \in Masks : net' = net \o ClientFrame(k, x)
    <3>1. PICK k \in Masks : net' = net \o ClientFrame(k, x)
      BY <2>4
    <3> DEFINE c == ClientFrame(k, x)
    <3>2. IsFrame(c, x) /\ net' = net \o c
      BY <1>3, <3>1 DEF IsFrame
    <3> HIDE DEF c
    <3>3. c \in Streams
      BY <3>2, FrameFacts
    <3>4. WsSent(rbuf, s \o c, g, sent, ends, m)
      BY <1>1, <2>1, <2>2, <3>2, WsSendOne DEF x
    <3>5. net \o c \in Streams /\ (wsrbuf \o net) \o c = wsrbuf \o (net \o c)
      BY <1>1, <3>3, CatIn, AssocWire
    <3> QED BY <2>3, <3>2, <3>4, <3>5 DEF s
  <2>5. CASE \E k, l \in Masks, n \in 0..Len(x) :
               net' = net \o ClientFrame(k, SubSeq(x, 1, n))
                          \o ClientFrame(l, SubSeq(x, n + 1, Len(x)))
    <3>1. PICK k, l \in Masks, n \in 0..Len(x) :
               net' = net \o ClientFrame(k, SubSeq(x, 1, n))
                          \o ClientFrame(l, SubSeq(x, n + 1, Len(x)))
      BY <2>5
    <3> DEFINE y == SubSeq(x, 1, n)
               z == SubSeq(x, n + 1, Len(x))
               c == ClientFrame(k, y)
               d == ClientFrame(l, z)
    <3>2. net' = (net \o c) \o d
      BY <3>1
    <3>3. y \in Texts /\ z \in Texts /\ y \o z = x
      BY <1>3, CutTexts
    <3> HIDE DEF y, z
    <3>4. IsFrame(c, y) /\ IsFrame(d, z)
      BY <3>3 DEF IsFrame
    <3> HIDE DEF c, d
    <3>5. c \in Streams /\ d \in Streams
      BY <3>4, FrameFacts
    <3>6. WsSent(rbuf, (s \o c) \o d, g, sent, ends, m)
      <4>1. Body(m) = y \o z
        BY <3>3 DEF x
      <4> QED BY <1>1, <2>1, <2>2, <3>4, <4>1, WsSendTwo
    <3>7. net \o c \in Streams /\ (wsrbuf \o net) \o c = wsrbuf \o (net \o c)
      <4>1. net \in Streams /\ wsrbuf \in Streams /\ c \in Streams
        BY <1>1, <3>5
      <4>2. net \o c \in Streams
        BY <4>1, CatIn
      <4>3. (wsrbuf \o net) \o c = wsrbuf \o (net \o c)
        BY <4>1, AssocWire
      <4> QED BY <4>2, <4>3
    <3> DEFINE a == net \o c
    <3>8. a \in Streams /\ s \o c = wsrbuf \o a /\ net' = a \o d
      BY <3>2, <3>7 DEF s
    <3> HIDE DEF a
    <3>9. a \o d \in Streams /\ (wsrbuf \o a) \o d = wsrbuf \o (a \o d)
      <4>1. a \in Streams /\ d \in Streams /\ wsrbuf \in Streams
        BY <1>1, <3>5, <3>8
      <4>2. a \o d \in Streams
        BY <4>1, CatIn
      <4>3. (wsrbuf \o a) \o d = wsrbuf \o (a \o d)
        BY <4>1, AssocWire
      <4> QED BY <4>2, <4>3
    <3> QED BY <2>3, <3>6, <3>8, <3>9
  <2> QED BY <1>7, <2>4, <2>5 DEF PeerSend, x
<1> QED BY <1>6, <1>7

LEMMA BadBodies ==
  ASSUME NEW p \in {<<Garbage, Garbage, Garbage>>, <<Magic, Length(1), Length(0), Garbage>>}
  PROVE  p \in Texts /\ NoMessage(p) /\ Len(p) \in Nat
<1>1. Garbage \in Units /\ Magic \in Units /\ Length(1) \in Units /\ Length(0) \in Units
  BY MessageUnits, LengthUnit
<1>2. Garbage # Magic
  BY DEF Garbage, Magic
<1>3. CASE p = <<Garbage, Garbage, Garbage>>
  BY <1>1, <1>2, <1>3 DEF Texts, NoMessage
<1>4. CASE p = <<Magic, Length(1), Length(0), Garbage>>
  BY <1>1, <1>4 DEF Texts, NoMessage
<1> QED BY <1>3, <1>4

LEMMA BareFacts ==
  ASSUME NEW n \in Nat
  PROVE  /\ WsHeader(n) \in Streams /\ Len(WsHeader(n)) = HeaderLen(n) - 1
         /\ WsHeader(n)[1] = BareLead(Len7Code(n))
         /\ \A i \in 2..(HeaderLen(n) - 1) : WsHeader(n)[i] = Extended(n)
<1> DEFINE u == BareLead(Len7Code(n))
           x == <<u>>
           e == ExtendedPart(n)
           h == HeaderLen(n)
<1>1. h \in 2..4 /\ u \in Wire /\ e \in Streams /\ Len(e) = h - 2
      /\ \A i \in 1..(h - 2) : e[i] = Extended(n)
  BY ExtendedFacts
<1>2. x \in Streams /\ Len(x) = 1 /\ x[1] = u
  <2> HIDE DEF u
  <2> QED BY <1>1 DEF Streams
<1>3. WsHeader(n) = x \o e
  BY DEF WsHeader
<1> HIDE DEF x, e, h, u
<1>4. /\ x \o e \in Streams /\ Len(x \o e) = Len(x) + Len(e)
      /\ \A i \in 1..Len(x) : (x \o e)[i] = x[i]
      /\ \A i \in 1..Len(e) : (x \o e)[Len(x) + i] = e[i]
  BY <1>1, <1>2, CatWire
<1>5. ASSUME NEW i \in 2..(h - 1) PROVE (x \o e)[i] = Extended(n)
  <2>1. i - 1 \in 1..(h - 2) /\ 1 + (i - 1) = i
    BY <1>1
  <2> QED BY <1>1, <1>2, <1>4, <2>1
<1>6. Len(x \o e) = h - 1 /\ (x \o e)[1] = u
  BY <1>1, <1>2, <1>4
<1> QED BY <1>3, <1>4, <1>5, <1>6 DEF h, u

LEMMA InPeerSendBad ==
  ASSUME InInv, PeerSendBad
  PROVE  InInv'
<1> DEFINE g == Len(got)
<1>1. /\ ws \in BOOLEAN /\ honest = TRUE /\ honest' = FALSE /\ ws' = ws
      /\ net \in Streams /\ wsrbuf \in Streams /\ rbuf \in Texts /\ rbuf \in Streams
      /\ Sent(sent, ends, g)
  BY TextStreams DEF InInv, InTypes, InSent, PeerSendBad
<1>2. /\ pc' = pc /\ wsrbuf' = wsrbuf /\ rbuf' = rbuf /\ got' = got
      /\ sent' = sent /\ ends' = ends
  BY DEF PeerSendBad
<1>3. InDone' /\ InFine' /\ pc' \in {"idle", "pop", "failed", "nomemory"} /\ InSent' /\ InGot' /\ InNet'
  BY <1>1, <1>2 DEF InInv, InTypes, InDone, InFine, FramesDone, InSent, InGot, InNet
<1> HIDE DEF g
<1>4. PICK p \in {<<Garbage, Garbage, Garbage>>, <<Magic, Length(1), Length(0), Garbage>>} :
       \/ ~ws /\ net' = net \o p
       \/ ws /\ \E k \in Masks : net' = net \o ClientFrame(k, p)
       \/ ws /\ net' = net \o WsHeader(Len(p)) \o p
  BY DEF PeerSendBad
<1>5. p \in Texts /\ p \in Streams /\ NoMessage(p) /\ Len(p) \in Nat
  BY BadBodies, TextStreams
<1>6. CASE ~ws
  <2>1. net' = net \o p /\ net \in Texts /\ wsrbuf = <<>>
    BY <1>4, <1>6 DEF InInv, InTypes
  <2>2. net' \in Streams /\ net' \in Texts
    BY <1>1, <1>5, <2>1, CatWire, CatTexts
  <2>3. InTypes'
    BY <1>1, <1>2, <1>3, <1>6, <2>1, <2>2 DEF InTypes
  <2>4. PlainStream(rbuf \o net, g, sent, ends, TRUE)
    BY <1>1, <1>6 DEF InInv, InPlain, g
  <2>5. rbuf \o net \in Streams /\ (rbuf \o net) \o p = rbuf \o (net \o p)
    BY <1>1, <1>5, CatIn, AssocWire
  <2>6. PlainStream((rbuf \o net) \o p, g, sent, ends, FALSE)
    BY <1>1, <1>5, <2>4, <2>5, PlainBad
  <2>7. InPlain' /\ InWs'
    BY <1>1, <1>2, <1>6, <2>1, <2>5, <2>6 DEF InPlain, InWs, g
  <2> QED BY <1>3, <2>3, <2>7 DEF InInv
<1>7. CASE ws
  <2> DEFINE s == wsrbuf \o net
  <2>1. WsStream(rbuf, s, g, sent, ends, TRUE)
    BY <1>1, <1>7 DEF InInv, InWs, g
  <2>2. s \in Streams
    BY <1>1, CatWire
  <2> HIDE DEF s
  <2>3. ASSUME NEW c \in Streams, net' = net \o c, WsStream(rbuf, s \o c, g, sent, ends, FALSE)
        PROVE  InInv'
    <3>1. net \o c \in Streams /\ (wsrbuf \o net) \o c = wsrbuf \o (net \o c)
      <4>1. net \in Streams /\ wsrbuf \in Streams
        BY <1>1
      <4>2. net \o c \in Streams
        BY <4>1, CatIn
      <4>3. (wsrbuf \o net) \o c = wsrbuf \o (net \o c)
        BY <4>1, AssocWire
      <4> QED BY <4>2, <4>3
    <3>2. InTypes'
      BY <1>1, <1>2, <1>3, <1>7, <2>3, <3>1 DEF InTypes
    <3>3. InPlain' /\ InWs'
      BY <1>1, <1>2, <1>7, <2>3, <3>1 DEF InPlain, InWs, s, g
    <3> QED BY <1>3, <3>2, <3>3 DEF InInv
  <2>4. CASE \E k \in Masks : net' = net \o ClientFrame(k, p)
    <3>1. PICK k \in Masks : net' = net \o ClientFrame(k, p)
      BY <2>4
    <3> DEFINE c == ClientFrame(k, p)
    <3>2. IsFrame(c, p) /\ net' = net \o c
      BY <1>5, <3>1 DEF IsFrame
    <3> HIDE DEF c
    <3>3. c \in Streams
      BY <3>2, FrameFacts
    <3>4. WsStream(rbuf, s \o c, g, sent, ends, FALSE)
      BY <1>1, <1>5, <2>1, <2>2, <3>2, WsBadFrame
    <3> QED BY <2>3, <3>2, <3>3, <3>4
  <2>5. CASE net' = net \o WsHeader(Len(p)) \o p
    <3> DEFINE w == WsHeader(Len(p))
               c == w \o p
    <3>1. net' = (net \o w) \o p
      BY <2>5
    <3>2. w \in Streams /\ Len(w) = HeaderLen(Len(p)) - 1 /\ w[1] = BareLead(Len7Code(Len(p)))
          /\ HeaderLen(Len(p)) \in 2..4
      BY <1>5, BareFacts, ExtendedFacts
    <3> HIDE DEF w
    <3>3. (net \o w) \o p = net \o (w \o p)
      BY <1>1, <1>5, <3>2, AssocWire
    <3>4. w \o p \in Streams /\ (w \o p)[1] = w[1]
      <4>1. 1 \in 1..Len(w)
        BY <3>2
      <4> QED BY <1>5, <3>2, <4>1, CatWire
    <3>5. NoFrame(c)
      BY <3>2, <3>4 DEF NoFrame, BareLead
    <3> HIDE DEF c
    <3>6. c \in Streams /\ net' = net \o c
      BY <3>1, <3>3, <3>4 DEF c
    <3>7. WsStream(rbuf, s \o c, g, sent, ends, FALSE)
      BY <1>1, <2>1, <2>2, <3>5, <3>6, WsBare
    <3> QED BY <2>3, <3>6, <3>7
  <2> QED BY <1>4, <1>7, <2>4, <2>5
<1> QED BY <1>6, <1>7

LEMMA InRecv ==
  ASSUME InInv, Recv
  PROVE  InInv'
<1>1. PICK n \in 1..Len(net) :
        /\ net' = SubSeq(net, n + 1, Len(net)) /\ pc' = "pop"
        /\ ws => wsrbuf' = wsrbuf \o SubSeq(net, 1, n) /\ rbuf' = rbuf
        /\ ~ws => rbuf' = rbuf \o SubSeq(net, 1, n) /\ wsrbuf' = wsrbuf
  BY DEF Recv
<1>2. UNCHANGED <<ws, honest, sent, ends, got>>
  BY DEF Recv
<1> DEFINE x == SubSeq(net, 1, n)
           y == SubSeq(net, n + 1, Len(net))
<1>3. /\ ws \in BOOLEAN /\ honest \in BOOLEAN
      /\ net \in Streams /\ wsrbuf \in Streams /\ rbuf \in Texts /\ rbuf \in Streams
  BY TextStreams DEF InInv, InTypes
<1>4. n \in 0..Len(net)
  BY <1>3, CatWire
<1>5. x \in Streams /\ y \in Streams /\ Len(x) = n /\ Len(y) = Len(net) - n /\ x \o y = net
  BY <1>3, <1>4, CutWire
<1>6. ~ws => x \in Texts /\ y \in Texts /\ wsrbuf = <<>>
  BY <1>4, CutTexts DEF InInv, InTypes
<1> HIDE DEF x, y
<1>7. /\ net' = y /\ pc' = "pop"
      /\ ws => wsrbuf' = wsrbuf \o x /\ rbuf' = rbuf
      /\ ~ws => rbuf' = rbuf \o x /\ wsrbuf' = wsrbuf
  BY <1>1 DEF x, y
<1>8. wsrbuf \o x \in Streams /\ rbuf \o x \in Streams
  BY <1>3, <1>5, CatIn
<1>9. ~ws => rbuf \o x \in Texts
  BY <1>3, <1>6, CatTexts
<1>10. InTypes'
  BY <1>2, <1>3, <1>5, <1>6, <1>7, <1>8, <1>9 DEF InTypes
<1>11. InSent' /\ InGot'
  BY <1>2 DEF InInv, InSent, InGot
<1>12. InDone' /\ InFine'
  BY <1>7 DEF InDone, InFine
<1>13. InNet'
  <2>1. Payload(x \o y) = Payload(x) + Payload(y)
    BY <1>5, PayloadCat
  <2>2. /\ Payload(x) \in Nat /\ Payload(x) <= Len(x)
        /\ Payload(y) \in Nat /\ Payload(y) <= Len(y)
    BY <1>5, PlacesFacts
  <2>3. Len(net) \in Nat /\ Len(x) \in Nat /\ Len(y) \in Nat /\ Len(net) = Len(x) + Len(y)
    <3>1. Len(x \o y) = Len(x) + Len(y) /\ Len(x) \in Nat /\ Len(y) \in Nat
      BY <1>5, CatWire
    <3> QED BY <1>5, <3>1
  <2>4. Payload(net) = Len(net) => Payload(y) = Len(y)
    BY <1>5, <2>1, <2>2, <2>3
  <2> QED BY <1>2, <1>7, <2>4 DEF InInv, InNet
<1>14. InPlain'
  <2>1. (rbuf \o x) \o y = rbuf \o (x \o y)
    <3>1. rbuf \in Streams /\ x \in Streams /\ y \in Streams
      BY <1>3, <1>5
    <3> QED BY <3>1, AssocWire
  <2> QED BY <1>2, <1>5, <1>7, <2>1 DEF InInv, InPlain
<1>15. InWs'
  <2>1. (wsrbuf \o x) \o y = wsrbuf \o (x \o y)
    <3>1. wsrbuf \in Streams /\ x \in Streams /\ y \in Streams
      BY <1>3, <1>5
    <3> QED BY <3>1, AssocWire
  <2> QED BY <1>2, <1>5, <1>7, <2>1 DEF InInv, InWs
<1> QED BY <1>10, <1>11, <1>12, <1>13, <1>14, <1>15 DEF InInv

LEMMA InPopFrame ==
  ASSUME InInv, PopFrame
  PROVE  InInv'
<1> DEFINE x == FramePayload(wsrbuf)
           c == SubSeq(wsrbuf, FrameHeaderLen(wsrbuf) + FrameLen(wsrbuf) + 1, Len(wsrbuf))
<1>1. /\ pc = "pop" /\ ws /\ HasFrameHeader(wsrbuf)
      /\ UNCHANGED <<ws, honest, sent, ends, net, got>>
  BY DEF PopFrame
<1>2. \/ wsrbuf[1][1] = "bare" /\ pc' = "failed" /\ wsrbuf' = wsrbuf /\ rbuf' = rbuf
      \/ /\ wsrbuf[1][1] # "bare" /\ HasFrame(wsrbuf)
         /\ rbuf' = rbuf \o x /\ wsrbuf' = c /\ pc' = pc
  BY DEF PopFrame
<1>3. /\ ws \in BOOLEAN /\ honest \in BOOLEAN
      /\ net \in Streams /\ wsrbuf \in Streams /\ rbuf \in Texts /\ rbuf \in Streams
  BY TextStreams DEF InInv, InTypes
<1>4. WsStream(rbuf, wsrbuf \o net, Len(got), sent, ends, honest)
  BY <1>1 DEF InInv, InWs
<1>5. WsUnpacked(rbuf, wsrbuf, net, Len(got), sent, ends, honest)
  BY <1>1, <1>3, <1>4, WsPopFrame
<1>6. CASE wsrbuf[1][1] = "bare" /\ pc' = "failed" /\ wsrbuf' = wsrbuf /\ rbuf' = rbuf
  <2>1. ~honest
    BY <1>5, <1>6 DEF WsUnpacked
  <2>2. InFine' /\ InDone'
    BY <1>1, <1>6, <2>1 DEF InFine, InDone
  <2> QED BY <1>1, <1>6, <2>2, InSame
<1>7. CASE /\ wsrbuf[1][1] # "bare" /\ HasFrame(wsrbuf)
           /\ rbuf' = rbuf \o x /\ wsrbuf' = c /\ pc' = pc
  <2>1. x \in Texts /\ c \in Streams /\ WsStream(rbuf \o x, c \o net, Len(got), sent, ends, honest)
    BY <1>5, <1>7 DEF WsUnpacked
  <2> HIDE DEF x, c
  <2>2. rbuf \o x \in Texts
    BY <1>3, <2>1, CatTexts
  <2>3. InTypes'
    BY <1>1, <1>3, <1>7, <2>1, <2>2 DEF InTypes
  <2>4. InSent' /\ InGot'
    BY <1>1 DEF InInv, InSent, InGot
  <2>5. InNet' /\ InPlain'
    BY <1>1 DEF InNet, InPlain
  <2>6. InWs'
    BY <1>1, <1>7, <2>1 DEF InWs
  <2>7. InDone' /\ InFine'
    BY <1>1, <1>7 DEF InDone, InFine
  <2> QED BY <2>3, <2>4, <2>5, <2>6, <2>7 DEF InInv
<1> QED BY <1>2, <1>6, <1>7

LEMMA InPop ==
  ASSUME InInv, Pop
  PROVE  InInv'
<1> DEFINE g == Len(got)
           c == SubSeq(rbuf, MsgSize(rbuf) + 1, Len(rbuf))
<1>1. PICK m \in Msgs : IsMessage(rbuf, m) /\ got' = Append(got, m)
  BY DEF Pop
<1>2. /\ pc = "pop" /\ HasMessage(rbuf) /\ rbuf' = c /\ pc' = pc
      /\ UNCHANGED <<ws, honest, sent, ends, net, wsrbuf>>
  BY DEF Pop
<1>3. /\ ws \in BOOLEAN /\ honest \in BOOLEAN /\ got \in Seq(Msgs) /\ Sent(sent, ends, g)
      /\ net \in Streams /\ wsrbuf \in Streams /\ rbuf \in Texts /\ rbuf \in Streams
  BY TextStreams DEF InInv, InTypes, InGot, InSent
<1>4. ws => WsPopped(rbuf, wsrbuf \o net, g, sent, ends, honest, m)
  <2> HIDE DEF g
  <2>1. wsrbuf \o net \in Streams
    BY <1>3, CatIn
  <2>2. ws => WsStream(rbuf, wsrbuf \o net, g, sent, ends, honest)
    BY DEF InInv, InWs, g
  <2> QED BY <1>1, <1>2, <1>3, <2>1, <2>2, WsPop
<1>5. ~ws => PlainPopped(rbuf, net, g, sent, ends, honest, m)
  <2> HIDE DEF g
  <2>1. ~ws => PlainStream(rbuf \o net, g, sent, ends, honest)
    BY DEF InInv, InPlain, g
  <2> QED BY <1>1, <1>2, <1>3, <2>1, PlainPop
<1>6. g + 1 \in 1..Len(sent) /\ m = sent[g + 1] /\ MsgSize(rbuf) \in 0..Len(rbuf)
  BY <1>3, <1>4, <1>5 DEF WsPopped, PlainPopped
<1>7. /\ ws => WsStream(c, wsrbuf \o net, g + 1, sent, ends, honest)
      /\ ~ws => PlainStream(c \o net, g + 1, sent, ends, honest)
  BY <1>4, <1>5 DEF WsPopped, PlainPopped
<1>8. c \in Texts
  BY <1>3, <1>6, CutTexts
<1> HIDE DEF c
<1>9. /\ got' \in Seq(Msgs) /\ Len(got') = g + 1 /\ got'[g + 1] = m
      /\ \A i \in 1..g : got'[i] = got[i]
  BY <1>1, <1>3
<1>10. InTypes'
  BY <1>2, <1>3, <1>8 DEF InInv, InTypes
<1>11. InSent'
  BY <1>2, <1>3, <1>6, <1>9 DEF InSent, Sent
<1>12. InGot'
  <2>1. g \in Nat
    BY <1>3
  <2>2. \A i \in 1..(g + 1) : i \in 1..g \/ i = g + 1
    BY <2>1
  <2>3. \A i \in 1..g : got[i] = sent[i]
    BY DEF InInv, InGot
  <2> HIDE DEF g
  <2> QED BY <1>2, <1>6, <1>9, <2>2, <2>3 DEF InGot
<1>13. InNet'
  BY <1>2 DEF InInv, InNet
<1>14. InPlain' /\ InWs'
  BY <1>2, <1>7, <1>9 DEF InPlain, InWs
<1>15. InDone' /\ InFine'
  BY <1>2 DEF InDone, InFine
<1> QED BY <1>10, <1>11, <1>12, <1>13, <1>14, <1>15 DEF InInv

LEMMA InPopFails ==
  ASSUME InInv, PopFails
  PROVE  InInv'
<1> DEFINE g == Len(got)
<1>1. /\ HasHeader(rbuf) /\ pc' = "failed"
      /\ rbuf[1] # Magic \/ (HasMessage(rbuf) /\ \A m \in Msgs : ~IsMessage(rbuf, m))
      /\ UNCHANGED <<ws, honest, sent, ends, net, wsrbuf, rbuf, got>>
  BY DEF PopFails
<1>2. /\ ws \in BOOLEAN /\ honest \in BOOLEAN /\ Sent(sent, ends, g)
      /\ net \in Streams /\ wsrbuf \in Streams /\ rbuf \in Streams
  BY TextStreams DEF InInv, InTypes, InSent
<1>3. ~honest
  <2> SUFFICES ASSUME honest PROVE FALSE
    OBVIOUS
  <2>1. honest = TRUE
    BY <1>2
  <2>2. CASE ws
    <3>1. wsrbuf \o net \in Streams
      BY <1>2, CatIn
    <3>2. WsStream(rbuf, wsrbuf \o net, g, sent, ends, TRUE)
      BY <2>1, <2>2 DEF InInv, InWs
    <3> HIDE DEF g
    <3>3. rbuf[1] = Magic /\ (HasMessage(rbuf) => \E m \in Msgs : IsMessage(rbuf, m))
      BY <1>1, <1>2, <3>1, <3>2, WsFine
    <3> QED BY <1>1, <3>3
  <2>3. CASE ~ws
    <3>1. PlainStream(rbuf \o net, g, sent, ends, TRUE)
      BY <2>1, <2>3 DEF InInv, InPlain
    <3> HIDE DEF g
    <3>2. rbuf[1] = Magic /\ (HasMessage(rbuf) => \E m \in Msgs : IsMessage(rbuf, m))
      BY <1>1, <1>2, <3>1, PlainFine
    <3> QED BY <1>1, <3>2
  <2> QED BY <2>2, <2>3
<1>4. InDone' /\ InFine'
  BY <1>1, <1>3 DEF InDone, InFine
<1> QED BY <1>1, <1>4, InSame

LEMMA InNext ==
  ASSUME InInv, [Next]_vars
  PROVE  InInv'
<1>1. ASSUME NEW m \in Msgs, PeerSend(m) PROVE InInv'
  BY <1>1, InPeerSend
<1>2. CASE PeerSendBad
  BY <1>2, InPeerSendBad
<1>3. CASE Recv
  BY <1>3, InRecv
<1>4. CASE RecvNoMemory
  <2>1. pc' = "nomemory" /\ UNCHANGED <<ws, honest, sent, ends, net, wsrbuf, rbuf, got>>
    BY <1>4 DEF RecvNoMemory
  <2>2. InDone' /\ InFine'
    BY <2>1 DEF InDone, InFine
  <2> QED BY <2>1, <2>2, InSame
<1>5. CASE PopFrame
  BY <1>5, InPopFrame
<1>6. CASE Pop
  BY <1>6, InPop
<1>7. CASE PopFails
  BY <1>7, InPopFails
<1>8. CASE PopNothing
  <2>1. /\ pc' = "idle" /\ UNCHANGED <<ws, honest, sent, ends, net, wsrbuf, rbuf, got>>
        /\ FramesDone /\ (HasHeader(rbuf) => rbuf[1] = Magic /\ ~HasMessage(rbuf))
    BY <1>8 DEF PopNothing
  <2>2. InDone' /\ InFine'
    BY <2>1 DEF InDone, InFine, FramesDone
  <2> QED BY <2>1, <2>2, InSame
<1>9. CASE PopNoMemory
  <2>1. pc' = "nomemory" /\ UNCHANGED <<ws, honest, sent, ends, net, wsrbuf, rbuf, got>>
    BY <1>9 DEF PopNoMemory
  <2>2. InDone' /\ InFine'
    BY <2>1 DEF InDone, InFine
  <2> QED BY <2>1, <2>2, InSame
<1>10. CASE \/ \E m \in Msgs : Push(m)
            \/ SendPartial \/ PeerRecv \/ PeerRead \/ UNCHANGED vars
  <2>1. UNCHANGED ws /\ UNCHANGED in_vars
    BY <1>10 DEF Push, SendPartial, PeerRecv, PeerRead, vars
  <2> QED BY <2>1, InUnchanged
<1> QED BY <1>1, <1>2, <1>3, <1>4, <1>5, <1>6, <1>7, <1>8, <1>9, <1>10 DEF Next

-----------------------------------------------------------------------------
(* dime_socket_pop delivers the messages of the peer in the order in which *)
(* they were sent, none of them altered, and returns an error only after   *)
(* the peer has broken the protocol, for all cuts of the stream by         *)
(* dime_socket_recvpartial and by the frames of a browser.                 *)
THEOREM InOrderHolds == Spec => []InOrder
<1>1. InInv => InOrder
  <2> SUFFICES ASSUME InInv PROVE InOrder
    OBVIOUS
  <2>1. /\ got \in Seq(Msgs) /\ sent \in Seq(Msgs) /\ Len(got) <= Len(sent)
        /\ \A i \in 1..Len(got) : got[i] = sent[i]
    BY DEF InInv, InGot, InSent, Sent
  <2>2. SubSeq(got, 1, Len(got)) = SubSeq(sent, 1, Len(got))
    <3>1. Len(got) \in Nat /\ Len(sent) \in Nat
      BY <2>1
    <3>2. /\ SubSeq(got, 1, Len(got)) \in Seq(Msgs) /\ SubSeq(sent, 1, Len(got)) \in Seq(Msgs)
          /\ Len(SubSeq(got, 1, Len(got))) = Len(got) /\ Len(SubSeq(sent, 1, Len(got))) = Len(got)
          /\ \A i \in 1..Len(got) : SubSeq(got, 1, Len(got))[i] = got[i]
          /\ \A i \in 1..Len(got) : SubSeq(sent, 1, Len(got))[i] = sent[i]
      BY <2>1, <3>1, SubSeqFacts
    <3> QED BY <2>1, <3>2, SameSeq
  <2> QED BY <2>1, <2>2 DEF InOrder, IsPrefix, InInv, InFine
<1> QED BY <1>1, InInit, InNext, PTL DEF Spec

(* When the loop goes back to select, no message that dime_socket_recvpartial *)
(* has received to its last byte is left in the buffers: the socket would  *)
(* not become readable for it again.                                       *)
THEOREM NoneStuckHolds == Spec => []NoneStuck
<1>1. InInv => NoneStuck
  <2> SUFFICES ASSUME InInv, honest, pc = "idle", Len(got) < Len(sent)
               PROVE  Payload(net) > ends[Len(sent) + 1] - ends[Len(got) + 2]
    BY DEF NoneStuck
  <2> DEFINE g == Len(got)
  <2>1. /\ ws \in BOOLEAN /\ honest = TRUE /\ Sent(sent, ends, g) /\ g < Len(sent)
        /\ net \in Streams /\ wsrbuf \in Streams /\ rbuf \in Streams
    BY TextStreams DEF InInv, InTypes, InSent
  <2>2. FramesDone /\ ~HasMessage(rbuf)
    BY DEF InInv, InDone, HasMessage
  <2>3. CASE ws
    <3>1. ~HasFrame(wsrbuf)
      BY <2>2, <2>3 DEF FramesDone, HasFrame
    <3>2. WsStream(rbuf, wsrbuf \o net, g, sent, ends, TRUE)
      BY <2>1, <2>3 DEF InInv, InWs
    <3> HIDE DEF g
    <3>3. Payload(net) > ends[Len(sent) + 1] - ends[g + 2]
      BY <2>1, <2>2, <3>1, <3>2, WsIdle
    <3> QED BY <3>3 DEF g
  <2>4. CASE ~ws
    <3>1. PlainStream(rbuf \o net, g, sent, ends, TRUE) /\ Payload(net) = Len(net)
      BY <2>1, <2>4 DEF InInv, InPlain, InNet
    <3> HIDE DEF g
    <3>2. Len(net) > ends[Len(sent) + 1] - ends[g + 2]
      BY <2>1, <2>2, <3>1, PlainIdle
    <3> QED BY <3>1, <3>2 DEF g
  <2> QED BY <2>1, <2>3, <2>4
<1> QED BY <1>1, InInit, InNext, PTL DEF Spec

-----------------------------------------------------------------------------
(* The messages that have been pushed and not been read.                   *)

(* What a push adds for m to the outbuffer of a WebSocket, w, or not.      *)
Piece(w, m) == IF w THEN WsHeader(Len(Body(m))) \o Body(m) ELSE Body(m)

(* s is the pieces of the messages of sq from the (a+1)-th to the n-th,    *)
(* and nothing else unless a write has failed, t.                          *)
PiecesBy(p, r, w, s, a, n, sq, t) ==
  /\ p \in Lists /\ r \in Lists /\ a \in Nat /\ n \in Nat /\ a <= n
  /\ Chain(r, p, a, n) /\ r[a] = s
  /\ t \/ r[n] = <<>>
  /\ \A i \in (a + 1)..n : p[i] = Piece(w, sq[i])
Pieces(w, s, a, n, sq, t) == \E p, r \in Lists : PiecesBy(p, r, w, s, a, n, sq, t)

LEMMA PieceFacts ==
  ASSUME NEW w, NEW m \in Msgs
  PROVE  Piece(w, m) \in Streams
<1>1. Body(m) \in Streams /\ Len(Body(m)) \in Nat
  BY BodyWire
<1>2. WsHeader(Len(Body(m))) \in Streams
  BY <1>1, BareFacts
<1>3. WsHeader(Len(Body(m))) \o Body(m) \in Streams
  BY <1>1, <1>2, CatIn
<1> QED BY <1>1, <1>3 DEF Piece

LEMMA PiecesNone ==
  ASSUME NEW w, NEW s \in Streams, NEW a \in Nat, NEW sq, NEW t, t \/ s = <<>>
  PROVE  Pieces(w, s, a, a, sq, t)
<1> DEFINE r == [i \in Nat |-> s]
<1>1. r \in Lists /\ r[a] = s
  BY DEF Lists
<1>2. (a + 1)..a = {}
  OBVIOUS
<1> HIDE DEF r
<1>3. PiecesBy(r, r, w, s, a, a, sq, t)
  BY <1>1, <1>2 DEF PiecesBy, Chain
<1> QED BY <1>1, <1>3 DEF Pieces

LEMMA PiecesEnd ==
  ASSUME NEW w, NEW s, NEW a, NEW sq, Pieces(w, s, a, a, sq, FALSE)
  PROVE  s = <<>>
BY DEF Pieces, PiecesBy

(* Another list with the same messages, and less to say about the end.     *)
Agree(sq2, sq, n) == \A i \in 1..n : sq2[i] = sq[i]

LEMMA PiecesSame ==
  ASSUME NEW w, NEW s, NEW a, NEW n, NEW sq, NEW t, Pieces(w, s, a, n, sq, t),
         NEW sq2, Agree(sq2, sq, n), NEW t2, t => t2
  PROVE  Pieces(w, s, a, n, sq2, t2)
<1>1. PICK p, r \in Lists : PiecesBy(p, r, w, s, a, n, sq, t)
  BY DEF Pieces
<1>2. a \in Nat /\ n \in Nat /\ \A i \in (a + 1)..n : p[i] = Piece(w, sq[i])
  BY <1>1 DEF PiecesBy
<1>3. ASSUME NEW i \in (a + 1)..n PROVE p[i] = Piece(w, sq2[i])
  <2>1. i \in 1..n
    BY <1>2
  <2> QED BY <1>2, <2>1 DEF Agree
<1>4. PiecesBy(p, r, w, s, a, n, sq2, t2)
  BY <1>1, <1>3 DEF PiecesBy
<1> QED BY <1>4 DEF Pieces

(* What is written behind the pieces once a write has failed.              *)
LEMMA PiecesTorn ==
  ASSUME NEW w, NEW s, NEW a, NEW n, NEW sq, NEW t, Pieces(w, s, a, n, sq, t),
         NEW x \in Streams
  PROVE  Pieces(w, s \o x, a, n, sq, TRUE)
<1>1. PICK p, r \in Lists : PiecesBy(p, r, w, s, a, n, sq, t)
  BY DEF Pieces
<1>2. /\ a \in Nat /\ n \in Nat /\ a <= n /\ Chain(r, p, a, n) /\ r[a] = s
      /\ \A i \in (a + 1)..n : p[i] = Piece(w, sq[i])
  BY <1>1 DEF PiecesBy
<1>3. PICK r2 \in Lists : Chain(r2, p, a, n) /\ Longer(r2, r, n, x)
  BY <1>2, ExtendChain
<1>4. r2[a] = s \o x
  <2>1. a \in 0..n
    BY <1>2
  <2> QED BY <1>2, <1>3, <2>1 DEF Longer
<1>5. PiecesBy(p, r2, w, s \o x, a, n, sq, TRUE)
  BY <1>2, <1>3, <1>4 DEF PiecesBy
<1> QED BY <1>5 DEF Pieces

(* The next message is added.                                              *)
LEMMA PiecesAdd ==
  ASSUME NEW w, NEW s, NEW a, NEW n, NEW sq, Pieces(w, s, a, n, sq, FALSE),
         NEW m \in Msgs, sq[n + 1] = m
  PROVE  Pieces(w, s \o Piece(w, m), a, n + 1, sq, FALSE)
<1> DEFINE x == Piece(w, m)
<1>1. PICK p, r \in Lists : PiecesBy(p, r, w, s, a, n, sq, FALSE)
  BY DEF Pieces
<1>2. /\ a \in Nat /\ n \in Nat /\ a <= n /\ Chain(r, p, a, n) /\ r[a] = s /\ r[n] = <<>>
      /\ \A i \in (a + 1)..n : p[i] = Piece(w, sq[i])
  BY <1>1 DEF PiecesBy
<1>3. x \in Streams
  BY PieceFacts
<1> HIDE DEF x
<1>4. PICK r2, p2 \in Lists :
           /\ Chain(r2, p2, a, n + 1) /\ r2[n + 1] = <<>>
           /\ Longer(r2, r, n, x) /\ OneMore(p2, p, n, x)
  BY <1>2, <1>3, AppendChain
<1>5. r2[a] = s \o x
  <2>1. a \in 0..n
    BY <1>2
  <2> QED BY <1>2, <1>4, <2>1 DEF Longer
<1>6. ASSUME NEW i \in (a + 1)..(n + 1) PROVE p2[i] = Piece(w, sq[i])
  <2>1. CASE i = n + 1
    BY <1>4, <2>1 DEF OneMore, x
  <2>2. CASE i # n + 1
    <3>1. i \in (a + 1)..n /\ i \in 0..n
      BY <1>2, <2>2
    <3> QED BY <1>2, <1>4, <3>1 DEF OneMore
  <2> QED BY <2>1, <2>2
<1>7. a \in Nat /\ n + 1 \in Nat /\ a <= n + 1
  BY <1>2
<1>8. PiecesBy(p2, r2, w, s \o x, a, n + 1, sq, FALSE)
  BY <1>4, <1>5, <1>6, <1>7 DEF PiecesBy
<1> QED BY <1>8 DEF Pieces, x

(* The first message is taken.                                             *)
Taken(w, s, a, n, sq, t) ==
  \E v \in Streams : Splits(s, <<>>, Piece(w, sq[a + 1]), v) /\ Pieces(w, v, a + 1, n, sq, t)

LEMMA PiecesTake ==
  ASSUME NEW w, NEW s \in Streams, NEW a, NEW n, NEW sq, NEW t, Pieces(w, s, a, n, sq, t), a < n
  PROVE  Taken(w, s, a, n, sq, t)
<1>1. PICK p, r \in Lists : PiecesBy(p, r, w, s, a, n, sq, t)
  BY DEF Pieces
<1>2. /\ a \in Nat /\ n \in Nat /\ a <= n /\ r[a] = s /\ (t \/ r[n] = <<>>)
      /\ \A i \in (a + 1)..n : r[i - 1] = p[i] \o r[i] /\ p[i] = Piece(w, sq[i])
  BY <1>1 DEF PiecesBy, Chain
<1>3. a + 1 \in (a + 1)..n /\ (a + 1) - 1 = a /\ a + 1 \in Nat /\ a + 1 <= n
      /\ ((a + 1) + 1)..n \subseteq (a + 1)..n
  BY <1>2
<1>4. s = Piece(w, sq[a + 1]) \o r[a + 1] /\ r[a + 1] \in Streams
  BY <1>2, <1>3 DEF Lists
<1>5. Splits(s, <<>>, Piece(w, sq[a + 1]), r[a + 1])
  BY <1>4, EmptyWire DEF Splits
<1>6. PiecesBy(p, r, w, r[a + 1], a + 1, n, sq, t)
  BY <1>2, <1>3 DEF PiecesBy, Chain
<1>7. Pieces(w, r[a + 1], a + 1, n, sq, t)
  BY <1>6 DEF Pieces
<1> QED BY <1>4, <1>5, <1>7 DEF Taken

-----------------------------------------------------------------------------
(* The frames that the browser takes from the line.                        *)

(* A part b of the line, before t, that starts with the frame of m.        *)
BareFirst(b, t, m, v) ==
  /\ b # <<>> => b[1][1] = "bare"
  /\ HasBareFrame(b) =>
       /\ SubSeq(b, BareHeaderLen(b) + 1, BareHeaderLen(b) + FrameLen(b)) = Body(m)
       /\ SubSeq(b, BareHeaderLen(b) + FrameLen(b) + 1, Len(b)) \in Streams
       /\ SubSeq(b, BareHeaderLen(b) + FrameLen(b) + 1, Len(b)) \o t = v

LEMMA FrontBare ==
  ASSUME NEW m \in Msgs, NEW b \in Streams, NEW t \in Streams, NEW v \in Streams,
         Splits(b, t, Piece(TRUE, m), v)
  PROVE  BareFirst(b, t, m, v)
<1> DEFINE p == Body(m)
           n == Len(p)
           x == WsHeader(n)
           h == HeaderLen(n)
           c == x \o p
<1>1. p \in Streams /\ n \in Nat /\ Len(b) \in Nat
  BY BodyWire, CatWire
<1>2. /\ x \in Streams /\ Len(x) = h - 1 /\ x[1] = BareLead(Len7Code(n))
      /\ \A i \in 2..(h - 1) : x[i] = Extended(n)
  <2> HIDE DEF n
  <2> QED BY <1>1, BareFacts
<1>3. /\ h \in 2..4 /\ Len7Code(n) \in Nat /\ Len7 \in Nat
      /\ Len7Code(n) < Len7 <=> h = 2
      /\ Len7Code(n) = Len7 <=> h = 3
      /\ Len7Code(n) < Len7 => Len7Code(n) = n
  <2> HIDE DEF n
  <2> QED BY <1>1, ExtendedFacts, ClassAssumption
<1>4. b \o t = c \o v
  BY DEF Splits, Piece
<1>5. Len(p) = n
  OBVIOUS
<1> HIDE DEF p, n, x, h
<1>6. /\ c \in Streams /\ Len(c) = (h - 1) + n
      /\ \A i \in 1..(h - 1) : c[i] = x[i]
      /\ \A i \in 1..n : c[(h - 1) + i] = p[i]
  <2>1. /\ x \o p \in Streams /\ Len(x \o p) = Len(x) + Len(p)
        /\ \A i \in 1..Len(x) : (x \o p)[i] = x[i]
        /\ \A i \in 1..Len(p) : (x \o p)[Len(x) + i] = p[i]
    BY <1>1, <1>2, CatWire
  <2> QED BY <1>2, <1>5, <2>1
<1> HIDE DEF c
<1>7. /\ \A i \in 1..Len(c) : i <= Len(b) => b[i] = c[i]
      /\ Len(c) <= Len(b) => /\ SubSeq(b, Len(c) + 1, Len(b)) \in Streams
                             /\ SubSeq(b, Len(c) + 1, Len(b)) \o t = v
  <2>1. Splits(b, t, c, v)
    BY <1>4 DEF Splits
  <2>2. Fronts(b, t, c, v)
    BY <1>6, <2>1, FrontWire
  <2> QED BY <2>2 DEF Fronts
<1>8. ASSUME b # <<>> PROVE b[1] = BareLead(Len7Code(n)) /\ BareHeaderLen(b) = h - 1
  <2>1. 1 \in 1..Len(c) /\ 1 <= Len(b) /\ 1 \in 1..(h - 1)
    <3>1. Len(b) # 0
      BY <1>8 DEF Streams
    <3> QED BY <1>1, <1>3, <1>6, <3>1
  <2>2. b[1] = BareLead(Len7Code(n))
    BY <1>2, <1>6, <1>7, <2>1
  <2>3. b[1][2] = Len7Code(n)
    BY <2>2 DEF BareLead
  <2>4. FrameHeaderLen(b) = h
    BY <1>3, <2>3 DEF FrameHeaderLen
  <2> QED BY <2>2, <2>4 DEF BareHeaderLen
<1>9. ASSUME HasBareFrame(b)
      PROVE  /\ SubSeq(b, BareHeaderLen(b) + 1, BareHeaderLen(b) + FrameLen(b)) = p
             /\ SubSeq(b, BareHeaderLen(b) + FrameLen(b) + 1, Len(b)) \in Streams
             /\ SubSeq(b, BareHeaderLen(b) + FrameLen(b) + 1, Len(b)) \o t = v
  <2>1. /\ b # <<>> /\ Len(b) >= BareHeaderLen(b)
        /\ Len(b) >= BareHeaderLen(b) + FrameLen(b)
    BY <1>9 DEF HasBareFrame
  <2>2. b[1][2] = Len7Code(n) /\ BareHeaderLen(b) = h - 1
    BY <1>8, <2>1 DEF BareLead
  <2>3. FrameLen(b) = n
    <3>1. CASE h = 2
      BY <1>3, <2>2, <3>1 DEF FrameLen
    <3>2. CASE h # 2
      <4>1. 2 \in 2..(h - 1) /\ 2 \in 1..Len(c) /\ 2 <= Len(b) /\ 2 \in 1..(h - 1)
        BY <1>1, <1>3, <1>6, <2>1, <2>2, <3>2
      <4>2. b[2] = Extended(n)
        BY <1>2, <1>6, <1>7, <4>1
      <4>3. b[2][2] = n
        BY <4>2 DEF Extended
      <4> QED BY <1>3, <2>2, <3>2, <4>3 DEF FrameLen
    <3> QED BY <3>1, <3>2
  <2> DEFINE y == SubSeq(b, (h - 1) + 1, (h - 1) + n)
  <2>4. /\ Len(c) <= Len(b) /\ (h - 1) + n \in 0..Len(b) /\ (h - 1) + 1 \in 1..((h - 1) + n + 1)
        /\ ((h - 1) + n) - ((h - 1) + 1) + 1 = n
    BY <1>1, <1>3, <1>6, <2>1, <2>2, <2>3
  <2>5. y \in Streams /\ Len(y) = n /\ \A i \in 1..n : y[i] = b[((h - 1) + 1) + i - 1]
    BY <2>4, SubSeqFacts DEF Streams
  <2> HIDE DEF y
  <2>6. ASSUME NEW i \in 1..n PROVE y[i] = p[i]
    <3>1. ((h - 1) + 1) + i - 1 = (h - 1) + i /\ (h - 1) + i \in 1..Len(c) /\ (h - 1) + i <= Len(b)
      BY <1>1, <1>3, <1>6, <2>4
    <3>2. b[(h - 1) + i] = c[(h - 1) + i]
      BY <1>7, <3>1
    <3> QED BY <1>6, <2>5, <3>1, <3>2
  <2>7. y = p
    BY <1>1, <1>5, <2>5, <2>6, SameSeq DEF Streams
  <2> QED BY <1>6, <1>7, <2>2, <2>3, <2>4, <2>7 DEF y
<1>10. b # <<>> => b[1][1] = "bare"
  BY <1>8 DEF BareLead
<1> QED BY <1>9, <1>10 DEF BareFirst, p

(* The length of a frame can be read from the header, also where a write   *)
(* has failed: the header is written as a whole.                           *)
Framed(s) ==
  \A i \in 1..Len(s) : s[i][1] = "bare" =>
    /\ s[i][2] \in Nat
    /\ s[i][2] >= Len7 => i + 1 <= Len(s) /\ s[i + 1][2] \in Nat

LEMMA FramedCat ==
  ASSUME NEW s \in Streams, NEW t \in Streams, Framed(s), Framed(t)
  PROVE  Framed(s \o t)
<1>1. /\ s \o t \in Streams /\ Len(s \o t) = Len(s) + Len(t)
      /\ Len(s) \in Nat /\ Len(t) \in Nat
      /\ \A i \in 1..Len(s) : (s \o t)[i] = s[i]
      /\ \A i \in 1..Len(t) : (s \o t)[Len(s) + i] = t[i]
  BY CatWire
<1> DEFINE u == s \o t
<1> HIDE DEF u
<1>2. ASSUME NEW i \in 1..Len(u), u[i][1] = "bare"
      PROVE  u[i][2] \in Nat /\ (u[i][2] >= Len7 => i + 1 <= Len(u) /\ u[i + 1][2] \in Nat)
  <2>1. CASE i <= Len(s)
    <3>1. i \in 1..Len(s) /\ u[i] = s[i]
      BY <1>1, <2>1 DEF u
    <3>2. s[i][2] \in Nat /\ (s[i][2] >= Len7 => i + 1 <= Len(s) /\ s[i + 1][2] \in Nat)
      BY <1>2, <3>1 DEF Framed
    <3>3. i + 1 <= Len(s) => i + 1 \in 1..Len(s) /\ i + 1 <= Len(u)
      BY <1>1, <3>1 DEF u
    <3> QED BY <1>1, <3>1, <3>2, <3>3 DEF u
  <2>2. CASE ~(i <= Len(s))
    <3> DEFINE j == i - Len(s)
    <3>1. j \in 1..Len(t) /\ i = Len(s) + j /\ i + 1 = Len(s) + (j + 1)
      BY <1>1, <2>2 DEF u
    <3> HIDE DEF j
    <3>2. u[i] = t[j]
      BY <1>1, <3>1 DEF u
    <3>3. t[j][2] \in Nat /\ (t[j][2] >= Len7 => j + 1 <= Len(t) /\ t[j + 1][2] \in Nat)
      BY <1>2, <3>1, <3>2 DEF Framed
    <3>4. j + 1 <= Len(t) => j + 1 \in 1..Len(t) /\ i + 1 <= Len(u)
      BY <1>1, <3>1 DEF u
    <3>5. j + 1 <= Len(t) => u[i + 1] = t[j + 1]
      BY <1>1, <3>1, <3>4 DEF u
    <3> QED BY <3>2, <3>3, <3>4, <3>5
  <2> QED BY <2>1, <2>2
<1>3. Framed(u)
  BY <1>2 DEF Framed
<1> QED BY <1>3 DEF u

LEMMA FramedRest ==
  ASSUME NEW s \in Streams, NEW t \in Streams, Framed(s \o t)
  PROVE  Framed(t)
<1> DEFINE u == s \o t
<1>1. /\ Len(u) = Len(s) + Len(t)
      /\ Len(s) \in Nat /\ Len(t) \in Nat
      /\ \A i \in 1..Len(t) : u[Len(s) + i] = t[i]
  BY CatWire
<1>2. Framed(u)
  OBVIOUS
<1> HIDE DEF u
<1>3. ASSUME NEW j \in 1..Len(t), t[j][1] = "bare"
      PROVE  t[j][2] \in Nat /\ (t[j][2] >= Len7 => j + 1 <= Len(t) /\ t[j + 1][2] \in Nat)
  <2> DEFINE i == Len(s) + j
  <2>1. i \in 1..Len(u) /\ i + 1 = Len(s) + (j + 1) /\ u[i] = t[j]
    BY <1>1
  <2>2. i + 1 <= Len(u) => j + 1 \in 1..Len(t) /\ j + 1 <= Len(t)
    BY <1>1, <2>1
  <2> HIDE DEF i
  <2>3. u[i][2] \in Nat /\ (u[i][2] >= Len7 => i + 1 <= Len(u) /\ u[i + 1][2] \in Nat)
    BY <1>2, <1>3, <2>1 DEF Framed
  <2>4. i + 1 <= Len(u) => u[i + 1] = t[j + 1]
    BY <1>1, <2>1, <2>2
  <2> QED BY <2>1, <2>2, <2>3, <2>4
<1> QED BY <1>3 DEF Framed

LEMMA FramedText ==
  ASSUME NEW s \in Texts
  PROVE  Framed(s)
<1>1. \A u \in Units : u[1] # "bare"
  BY DEF Units, Magic, Garbage, Length, Json, Bin
<1>2. \A i \in 1..Len(s) : s[i] \in Units
  BY DEF Texts
<1> QED BY <1>1, <1>2 DEF Framed

LEMMA FramedHeader ==
  ASSUME NEW n \in Nat
  PROVE  Framed(WsHeader(n))
<1> DEFINE x == WsHeader(n)
           h == HeaderLen(n)
<1>1. /\ x \in Streams /\ Len(x) = h - 1 /\ x[1] = BareLead(Len7Code(n))
      /\ \A i \in 2..(h - 1) : x[i] = Extended(n)
  BY BareFacts
<1>2. /\ h \in 2..4 /\ Len7Code(n) \in Nat /\ Len7 \in Nat /\ (Len7Code(n) < Len7 <=> h = 2)
  BY ExtendedFacts, ClassAssumption
<1> HIDE DEF x, h
<1>3. ASSUME NEW i \in 1..Len(x), x[i][1] = "bare"
      PROVE  x[i][2] \in Nat /\ (x[i][2] >= Len7 => i + 1 <= Len(x) /\ x[i + 1][2] \in Nat)
  <2>1. i = 1
    <3>1. ASSUME i # 1 PROVE FALSE
      <4>1. i \in 2..(h - 1)
        BY <1>1, <1>2, <3>1
      <4>2. x[i] = Extended(n)
        BY <1>1, <4>1
      <4> QED BY <1>3, <4>2 DEF Extended
    <3> QED BY <3>1
  <2>2. x[1][2] = Len7Code(n)
    BY <1>1 DEF BareLead
  <2>3. CASE Len7Code(n) < Len7
    BY <1>2, <2>1, <2>2, <2>3
  <2>4. CASE ~(Len7Code(n) < Len7)
    <3>1. 2 \in 2..(h - 1) /\ 2 <= Len(x)
      BY <1>1, <1>2, <2>4
    <3>2. x[2][2] = n
      BY <1>1, <3>1 DEF Extended
    <3> QED BY <1>2, <2>1, <2>2, <3>1, <3>2
  <2> QED BY <2>3, <2>4
<1> QED BY <1>3 DEF Framed, x

LEMMA FramedPiece ==
  ASSUME NEW w, NEW m \in Msgs
  PROVE  Framed(Piece(w, m))
<1>1. Body(m) \in Streams /\ Len(Body(m)) \in Nat /\ Body(m) \in Texts
  BY BodyWire DEF Texts
<1>2. WsHeader(Len(Body(m))) \in Streams /\ Framed(WsHeader(Len(Body(m))))
  BY <1>1, BareFacts, FramedHeader
<1>3. Framed(Body(m))
  BY <1>1, FramedText
<1>4. Framed(WsHeader(Len(Body(m))) \o Body(m))
  BY <1>1, <1>2, <1>3, FramedCat
<1> QED BY <1>3, <1>4 DEF Piece

-----------------------------------------------------------------------------
(* The stream to the peer.                                                 *)

(* The peer has read the first a messages of sq and has b in its buffer;   *)
(* s is on the way to it, up to the n-th message and what follows it if a  *)
(* write has failed, t.  A browser, w, has taken the first h from the line.*)
Halves(b, s, a, h, n, sq, t) ==
  Pieces(FALSE, b, a, h, sq, t /\ h = n) /\ Pieces(TRUE, s, h, n, sq, t)
Out(w, b, s, a, n, sq, t) ==
  IF w THEN \E h \in Nat : Halves(b, s, a, h, n, sq, t)
       ELSE Pieces(FALSE, b \o s, a, n, sq, t)

LEMMA PiecesRange ==
  ASSUME NEW w, NEW s, NEW a, NEW n, NEW sq, NEW t, Pieces(w, s, a, n, sq, t)
  PROVE  a \in Nat /\ n \in Nat /\ a <= n
BY DEF Pieces, PiecesBy

LEMMA OutSame ==
  ASSUME NEW w \in BOOLEAN, NEW b, NEW s, NEW a, NEW n, NEW sq, NEW t, Out(w, b, s, a, n, sq, t),
         NEW sq2, Agree(sq2, sq, n), NEW t2, t => t2
  PROVE  Out(w, b, s, a, n, sq2, t2)
<1>1. CASE w
  <2>1. PICK h \in Nat : Halves(b, s, a, h, n, sq, t)
    BY <1>1 DEF Out
  <2>2. Pieces(FALSE, b, a, h, sq, t /\ h = n) /\ Pieces(TRUE, s, h, n, sq, t)
    BY <2>1 DEF Halves
  <2>3. n \in Nat /\ h <= n
    BY <2>2, PiecesRange
  <2>4. Agree(sq2, sq, h)
    BY <2>3 DEF Agree
  <2>5. Pieces(FALSE, b, a, h, sq2, t2 /\ h = n)
    <3> DEFINE c == t /\ h = n
               d == t2 /\ h = n
    <3>1. c => d
      OBVIOUS
    <3>2. Pieces(FALSE, b, a, h, sq, c)
      BY <2>2
    <3> HIDE DEF c, d
    <3>3. Pieces(FALSE, b, a, h, sq2, d)
      BY <2>4, <3>1, <3>2, PiecesSame
    <3> QED BY <3>3 DEF d
  <2>6. Pieces(TRUE, s, h, n, sq2, t2)
    BY <2>2, PiecesSame
  <2> QED BY <1>1, <2>5, <2>6 DEF Out, Halves
<1>2. CASE ~w
  <2>1. Pieces(FALSE, b \o s, a, n, sq, t)
    BY <1>2 DEF Out
  <2>2. Pieces(FALSE, b \o s, a, n, sq2, t2)
    BY <2>1, PiecesSame
  <2> QED BY <1>2, <2>2 DEF Out
<1> QED BY <1>1, <1>2

LEMMA OutTorn ==
  ASSUME NEW w \in BOOLEAN, NEW b \in Streams, NEW s \in Streams, NEW a, NEW n, NEW sq, NEW t,
         Out(w, b, s, a, n, sq, t), NEW x \in Streams
  PROVE  Out(w, b, s \o x, a, n, sq, TRUE)
<1>1. Out(w, b, s, a, n, sq, TRUE)
  BY OutSame DEF Agree
<1>2. CASE w
  <2>1. PICK h \in Nat : Halves(b, s, a, h, n, sq, TRUE)
    BY <1>1, <1>2 DEF Out
  <2>2. Pieces(FALSE, b, a, h, sq, TRUE /\ h = n) /\ Pieces(TRUE, s, h, n, sq, TRUE)
    BY <2>1 DEF Halves
  <2>3. Pieces(TRUE, s \o x, h, n, sq, TRUE)
    BY <2>2, PiecesTorn
  <2> QED BY <1>2, <2>2, <2>3 DEF Out, Halves
<1>3. CASE ~w
  <2>1. Pieces(FALSE, b \o s, a, n, sq, TRUE)
    BY <1>1, <1>3 DEF Out
  <2>2. Pieces(FALSE, (b \o s) \o x, a, n, sq, TRUE)
    BY <2>1, PiecesTorn
  <2>3. (b \o s) \o x = b \o (s \o x)
    BY AssocWire
  <2> QED BY <1>3, <2>2, <2>3 DEF Out
<1> QED BY <1>2, <1>3

LEMMA OutAdd ==
  ASSUME NEW w \in BOOLEAN, NEW b \in Streams, NEW s \in Streams, NEW a, NEW n, NEW sq,
         Out(w, b, s, a, n, sq, FALSE), NEW m \in Msgs, sq[n + 1] = m
  PROVE  Out(w, b, s \o Piece(w, m), a, n + 1, sq, FALSE)
<1>1. CASE w
  <2>1. PICK h \in Nat : Halves(b, s, a, h, n, sq, FALSE)
    BY <1>1 DEF Out
  <2>2. Pieces(FALSE, b, a, h, sq, FALSE /\ h = n) /\ Pieces(TRUE, s, h, n, sq, FALSE)
    BY <2>1 DEF Halves
  <2>3. Pieces(FALSE, b, a, h, sq, FALSE /\ h = n + 1)
    BY <2>2
  <2>4. Pieces(TRUE, s \o Piece(TRUE, m), h, n + 1, sq, FALSE)
    BY <2>2, PiecesAdd
  <2>5. w = TRUE
    BY <1>1
  <2> QED BY <1>1, <2>3, <2>4, <2>5 DEF Out, Halves
<1>2. CASE ~w
  <2>1. Pieces(FALSE, b \o s, a, n, sq, FALSE)
    BY <1>2 DEF Out
  <2>2. Pieces(FALSE, (b \o s) \o Piece(FALSE, m), a, n + 1, sq, FALSE)
    BY <2>1, PiecesAdd
  <2>3. (b \o s) \o Piece(FALSE, m) = b \o (s \o Piece(FALSE, m))
    BY AssocWire, PieceFacts
  <2>4. w = FALSE
    BY <1>2
  <2> QED BY <1>2, <2>2, <2>3, <2>4 DEF Out
<1> QED BY <1>1, <1>2

(* A frame is taken from the line l, before o.                             *)
LEMMA BareCut ==
  ASSUME NEW l \in Streams, NEW o \in Streams, Framed(l \o o),
         l[1][1] = "bare", HasBareFrame(l)
  PROVE  LET k == BareHeaderLen(l) + FrameLen(l)
         IN  /\ SubSeq(l, BareHeaderLen(l) + 1, k) \in Streams
             /\ SubSeq(l, k + 1, Len(l)) \in Streams
             /\ Framed(SubSeq(l, k + 1, Len(l)) \o o)
<1> DEFINE h == BareHeaderLen(l)
           f == FrameLen(l)
           k == h + f
           s == l \o o
<1>1. l # <<>> /\ Len(l) >= h /\ Len(l) >= h + f
  BY DEF HasBareFrame
<1>2. /\ s \in Streams /\ Len(s) = Len(l) + Len(o) /\ Len(l) \in Nat /\ Len(o) \in Nat
      /\ \A i \in 1..Len(l) : s[i] = l[i]
  BY CatWire
<1>3. Len(l) >= 1
  <2>1. Len(l) # 0
    BY <1>1 DEF Streams
  <2> QED BY <1>2, <2>1
<1>4. Framed(s)
  OBVIOUS
<1> HIDE DEF s
<1>5. l[1][2] \in Nat /\ (l[1][2] >= Len7 => s[2][2] \in Nat)
  <2>1. 1 \in 1..Len(s) /\ 1 \in 1..Len(l) /\ s[1] = l[1] /\ 1 + 1 = 2
    BY <1>2, <1>3
  <2> QED BY <1>4, <2>1 DEF Framed
<1>6. h \in 1..3 /\ (l[1][2] >= Len7 => h >= 2)
  BY <1>5, ClassAssumption DEF BareHeaderLen, FrameHeaderLen
<1>7. f \in Nat
  <2>1. CASE l[1][2] < Len7
    BY <1>5, <2>1 DEF FrameLen
  <2>2. CASE ~(l[1][2] < Len7)
    <3>1. l[1][2] >= Len7
      BY <1>5, <2>2, ClassAssumption
    <3>2. 2 \in 1..Len(l)
      BY <1>1, <1>2, <1>6, <3>1
    <3>3. l[2][2] \in Nat
      BY <1>2, <1>5, <3>1, <3>2
    <3> QED BY <2>2, <3>3 DEF FrameLen
  <2> QED BY <2>1, <2>2
<1> HIDE DEF h, f
<1>8. k \in 0..Len(l) /\ h + 1 \in 1..(k + 1)
  BY <1>1, <1>2, <1>6, <1>7
<1>9. SubSeq(l, h + 1, k) \in Streams
  <2> HIDE DEF k
  <2> QED BY <1>8, SubSeqFacts DEF Streams
<1> DEFINE x == SubSeq(l, 1, k)
           y == SubSeq(l, k + 1, Len(l))
<1>10. x \in Streams /\ y \in Streams /\ x \o y = l
  <2> HIDE DEF k
  <2> QED BY <1>8, CutWire
<1> HIDE DEF x, y
<1>11. (x \o y) \o o = x \o (y \o o)
  <2>1. x \in Streams /\ y \in Streams
    BY <1>10
  <2> QED BY <2>1, AssocWire
<1>12. y \o o \in Streams
  BY <1>10, CatIn
<1>13. Framed(x \o (y \o o))
  BY <1>4, <1>10, <1>11 DEF s
<1>14. Framed(y \o o)
  BY <1>10, <1>12, <1>13, FramedRest
<1> QED BY <1>9, <1>10, <1>14 DEF h, f, k, y

(* The browser takes the next frame, and meets no unit that starts none    *)
(* while no write has failed.                                              *)
Received(b, l, o, a, n, sq, t) ==
  /\ ~t => l[1][1] = "bare"
  /\ l[1][1] = "bare" /\ HasBareFrame(l) =>
       Out(TRUE, b \o SubSeq(l, BareHeaderLen(l) + 1, BareHeaderLen(l) + FrameLen(l)),
           SubSeq(l, BareHeaderLen(l) + FrameLen(l) + 1, Len(l)) \o o, a, n, sq, t)

LEMMA OutRecv ==
  ASSUME NEW b \in Streams, NEW l \in Streams, NEW o \in Streams, l # <<>>, Framed(l \o o),
         NEW a, NEW n, NEW sq, \A i \in 1..n : sq[i] \in Msgs, NEW t \in BOOLEAN,
         Out(TRUE, b, l \o o, a, n, sq, t)
  PROVE  Received(b, l, o, a, n, sq, t)
<1> DEFINE x == SubSeq(l, BareHeaderLen(l) + 1, BareHeaderLen(l) + FrameLen(l))
           y == SubSeq(l, BareHeaderLen(l) + FrameLen(l) + 1, Len(l))
           s == l \o o
<1>1. PICK h \in Nat : Halves(b, s, a, h, n, sq, t)
  BY DEF Out
<1>2. Pieces(FALSE, b, a, h, sq, t /\ h = n) /\ Pieces(TRUE, s, h, n, sq, t)
  BY <1>1 DEF Halves
<1>3. a \in Nat /\ n \in Nat /\ a <= h /\ h <= n
  <2> HIDE DEF s
  <2>1. h \in Nat /\ n \in Nat /\ h <= n
    BY <1>2, PiecesRange
  <2>2. a \in Nat /\ a <= h
    <3> DEFINE c == t /\ h = n
    <3>1. Pieces(FALSE, b, a, h, sq, c)
      BY <1>2
    <3> HIDE DEF c
    <3> QED BY <3>1, PiecesRange
  <2> QED BY <2>1, <2>2
<1>4. s \in Streams
  BY CatIn
<1>5. l[1][1] = "bare" /\ HasBareFrame(l) => x \in Streams /\ y \in Streams
  BY BareCut
<1>6. CASE h < n
  <2> DEFINE m == sq[h + 1]
  <2>1. h + 1 \in 1..n /\ m \in Msgs /\ h # n
    BY <1>3, <1>6
  <2>2. Taken(TRUE, s, h, n, sq, t)
    <3> HIDE DEF s
    <3> QED BY <1>2, <1>4, <1>6, PiecesTake
  <2>3. PICK v \in Streams : Splits(s, <<>>, Piece(TRUE, m), v) /\ Pieces(TRUE, v, h + 1, n, sq, t)
    BY <2>2 DEF Taken
  <2> HIDE DEF m
  <2>4. Splits(l, o, Piece(TRUE, m), v)
    BY <1>4, <2>3, EmptyWire DEF Splits
  <2>5. BareFirst(l, o, m, v)
    BY <2>1, <2>4, FrontBare
  <2>6. ASSUME l[1][1] = "bare", HasBareFrame(l) PROVE Out(TRUE, b \o x, y \o o, a, n, sq, t)
    <3>1. x = Body(m) /\ y \o o = v
      BY <2>5, <2>6 DEF BareFirst
    <3> HIDE DEF x, y
    <3>2. Pieces(FALSE, b, a, h, sq, FALSE)
      <4>1. (t /\ h = n) = FALSE
        BY <2>1
      <4> QED BY <1>2, <4>1
    <3>3. Pieces(FALSE, b \o Piece(FALSE, m), a, h + 1, sq, FALSE)
      BY <2>1, <3>2, PiecesAdd DEF m
    <3>4. Pieces(FALSE, b \o x, a, h + 1, sq, FALSE)
      BY <3>1, <3>3 DEF Piece
    <3> DEFINE c == t /\ h + 1 = n
               z == b \o x
               g == h + 1
    <3>5. Pieces(FALSE, z, a, g, sq, FALSE)
      BY <3>4
    <3> HIDE DEF c, z, g
    <3>6. Pieces(FALSE, z, a, g, sq, c)
      BY <3>5, PiecesSame DEF Agree
    <3>7. Halves(b \o x, y \o o, a, h + 1, n, sq, t)
      BY <2>3, <3>1, <3>6 DEF Halves, c, z, g
    <3> QED BY <3>7 DEF Out
  <2>7. l[1][1] = "bare"
    BY <2>5 DEF BareFirst
  <2> QED BY <2>6, <2>7 DEF Received
<1>7. CASE h = n
  <2>1. t = TRUE
    <3>1. ASSUME t = FALSE PROVE FALSE
      <4>1. Pieces(TRUE, s, h, h, sq, FALSE)
        BY <1>2, <1>7, <3>1
      <4>2. s = <<>>
        <5> HIDE DEF s
        <5> QED BY <4>1, PiecesEnd
      <4>3. Len(s) = 0 /\ Len(s) = Len(l) + Len(o) /\ Len(l) \in Nat /\ Len(o) \in Nat
        BY <4>2, CatWire
      <4>4. Len(l) = 0
        BY <4>3
      <4> QED BY <4>4 DEF Streams
    <3> QED BY <3>1
  <2>2. ASSUME l[1][1] = "bare", HasBareFrame(l) PROVE Out(TRUE, b \o x, y \o o, a, n, sq, t)
    <3>1. x \in Streams /\ y \in Streams
      BY <1>5, <2>2
    <3> HIDE DEF x, y
    <3>2. y \o o \in Streams
      BY <3>1, CatIn
    <3>3. Pieces(FALSE, b, a, h, sq, TRUE)
      BY <1>2, <1>7, <2>1
    <3>4. Pieces(FALSE, b \o x, a, h, sq, TRUE)
      BY <3>1, <3>3, PiecesTorn
    <3>5. Pieces(TRUE, y \o o, h, h, sq, TRUE)
      BY <3>2, PiecesNone
    <3>6. Halves(b \o x, y \o o, a, h, n, sq, t)
      BY <1>7, <2>1, <3>4, <3>5 DEF Halves
    <3> QED BY <3>6 DEF Out
  <2> QED BY <2>1, <2>2 DEF Received
<1> QED BY <1>3, <1>6, <1>7

(* The peer reads the next message, and meets nothing it cannot read while *)
(* no write has failed.                                                    *)
Readable(w, b, s, a, n, sq, t) ==
  /\ a < n /\ b[1] = Magic
  /\ HasMessage(b) =>
       /\ IsMessage(b, sq[a + 1]) /\ \A m \in Msgs : IsMessage(b, m) => m = sq[a + 1]
       /\ SubSeq(b, MsgSize(b) + 1, Len(b)) \in Streams
       /\ Out(w, SubSeq(b, MsgSize(b) + 1, Len(b)), s, a + 1, n, sq, t)

LEMMA OutRead ==
  ASSUME NEW w \in BOOLEAN, NEW b \in Streams, NEW s \in Streams, HasHeader(b),
         NEW a, NEW n, NEW sq, \A i \in 1..n : sq[i] \in Msgs, NEW t \in BOOLEAN,
         Out(w, b, s, a, n, sq, t), ~t \/ a < n
  PROVE  Readable(w, b, s, a, n, sq, t)
<1> DEFINE m == sq[a + 1]
           y == SubSeq(b, MsgSize(b) + 1, Len(b))
<1>1. Len(b) >= 3 /\ Len(b) \in Nat /\ Len(s) \in Nat
  BY CatWire DEF HasHeader
<1>2. Len(b) # 0 /\ b # <<>>
  BY <1>1
<1>3. CASE w
  <2>1. PICK h \in Nat : Halves(b, s, a, h, n, sq, t)
    BY <1>3 DEF Out
  <2> DEFINE c == t /\ h = n
  <2>2. Pieces(FALSE, b, a, h, sq, c) /\ Pieces(TRUE, s, h, n, sq, t)
    BY <2>1 DEF Halves
  <2>3. a = h => c = FALSE
    OBVIOUS
  <2> HIDE DEF c
  <2>4. a \in Nat /\ n \in Nat /\ a <= h /\ h <= n
    BY <2>2, PiecesRange
  <2>5. a # h
    <3>1. ASSUME a = h PROVE FALSE
      <4>1. Pieces(FALSE, b, a, a, sq, FALSE)
        BY <2>2, <2>3, <3>1
      <4>2. b = <<>>
        BY <4>1, PiecesEnd
      <4> QED BY <1>2, <4>2
    <3> QED BY <3>1
  <2>6. a < h /\ a < n /\ a + 1 \in 1..n /\ m \in Msgs
    BY <2>4, <2>5
  <2>7. Taken(FALSE, b, a, h, sq, c)
    BY <2>2, <2>6, PiecesTake
  <2>8. PICK v \in Streams : Splits(b, <<>>, Piece(FALSE, m), v) /\ Pieces(FALSE, v, a + 1, h, sq, c)
    BY <2>7 DEF Taken
  <2> HIDE DEF m
  <2>9. MessageFirst(b, <<>>, m, v)
    <3>1. Splits(b, <<>>, Body(m), v)
      BY <2>8 DEF Piece
    <3> QED BY <2>6, <3>1, FrontMessage, EmptyWire
  <2>10. b[1] = Magic
    BY <2>9 DEF MessageFirst
  <2>11. ASSUME HasMessage(b)
         PROVE  /\ IsMessage(b, m) /\ \A k \in Msgs : IsMessage(b, k) => k = m
                /\ y \in Streams /\ Out(w, y, s, a + 1, n, sq, t)
    <3>1. /\ IsMessage(b, m) /\ \A k \in Msgs : IsMessage(b, k) => k = m
          /\ y \in Streams /\ y \o <<>> = v
      BY <2>9, <2>11 DEF MessageFirst
    <3> HIDE DEF y
    <3>2. y = v
      BY <3>1, EmptyWire
    <3>3. Halves(y, s, a + 1, h, n, sq, t)
      BY <2>2, <2>8, <3>2 DEF Halves, c
    <3> QED BY <1>3, <3>1, <3>3 DEF Out
  <2> QED BY <2>6, <2>10, <2>11 DEF Readable, m
<1>4. CASE ~w
  <2> DEFINE z == b \o s
  <2>1. Pieces(FALSE, z, a, n, sq, t)
    BY <1>4 DEF Out
  <2>2. z \in Streams /\ Len(z) = Len(b) + Len(s)
    BY CatWire
  <2> HIDE DEF z
  <2>3. a \in Nat /\ n \in Nat /\ a <= n
    BY <2>1, PiecesRange
  <2>4. a # n
    <3>1. ASSUME a = n PROVE FALSE
      <4>1. t = FALSE
        BY <2>3, <3>1
      <4>2. Pieces(FALSE, z, a, a, sq, FALSE)
        BY <2>1, <3>1, <4>1
      <4>3. z = <<>>
        BY <4>2, PiecesEnd
      <4>4. Len(z) = 0
        BY <4>3
      <4> QED BY <1>1, <2>2, <4>4
    <3> QED BY <3>1
  <2>5. a < n /\ a + 1 \in 1..n /\ m \in Msgs
    BY <2>3, <2>4
  <2>6. Taken(FALSE, z, a, n, sq, t)
    BY <2>1, <2>2, <2>5, PiecesTake
  <2>7. PICK v \in Streams : Splits(z, <<>>, Piece(FALSE, m), v) /\ Pieces(FALSE, v, a + 1, n, sq, t)
    BY <2>6 DEF Taken
  <2> HIDE DEF m
  <2>8. Splits(b, s, Body(m), v)
    BY <2>2, <2>7, EmptyWire DEF Splits, Piece, z
  <2>9. MessageFirst(b, s, m, v)
    BY <2>5, <2>8, FrontMessage
  <2>10. b[1] = Magic
    BY <2>9 DEF MessageFirst
  <2>11. ASSUME HasMessage(b)
         PROVE  /\ IsMessage(b, m) /\ \A k \in Msgs : IsMessage(b, k) => k = m
                /\ y \in Streams /\ Out(w, y, s, a + 1, n, sq, t)
    <3>1. /\ IsMessage(b, m) /\ \A k \in Msgs : IsMessage(b, k) => k = m
          /\ y \in Streams /\ y \o s = v
      BY <2>9, <2>11 DEF MessageFirst
    <3> HIDE DEF y
    <3>2. Out(w, y, s, a + 1, n, sq, t)
      BY <1>4, <2>7, <3>1 DEF Out
    <3> QED BY <3>1, <3>2
  <2> QED BY <2>5, <2>10, <2>11 DEF Readable, m
<1> QED BY <1>3, <1>4

-----------------------------------------------------------------------------
(* The invariant of the output.                                            *)

OutCount ==
  /\ torn \in BOOLEAN /\ peer \in {"ok", "failed"}
  /\ pushed \in Seq(Msgs) /\ seen \in Seq(Msgs)
  /\ ntries \in 0..MaxMsgs /\ intact \in 0..Len(pushed) /\ Len(pushed) <= ntries
OutFine == ~torn => intact = Len(pushed) /\ Len(seen) <= intact /\ peer = "ok"
OutSeen == \A i \in 1..intact : i <= Len(seen) => seen[i] = pushed[i]

(* Behind the messages that were pushed before the first write that failed *)
(* nothing is known.                                                       *)
OutStream ==
  Len(seen) <= intact =>
    /\ recvbuffer \in Streams /\ line \in Streams /\ wbuf \in Streams
    /\ Framed(line \o wbuf)
    /\ Out(ws, recvbuffer, line \o wbuf, Len(seen), intact, pushed, torn)

OutInv == ws \in BOOLEAN /\ OutCount /\ OutFine /\ OutSeen /\ OutStream

LEMMA OutInit ==
  ASSUME Init PROVE OutInv
<1>1. /\ ws \in BOOLEAN /\ torn = FALSE /\ peer = "ok" /\ pushed = <<>> /\ seen = <<>>
      /\ ntries = 0 /\ intact = 0 /\ recvbuffer = <<>> /\ line = <<>> /\ wbuf = <<>>
  BY DEF Init
<1>2. OutCount /\ OutFine /\ OutSeen
  <2>1. /\ pushed \in Seq(Msgs) /\ Len(pushed) = 0 /\ seen \in Seq(Msgs) /\ Len(seen) = 0
        /\ 0 \in 0..MaxMsgs /\ 0 \in 0..0 /\ 1..0 = {}
    BY <1>1, BoundAssumption
  <2>2. intact \in 0..Len(pushed) /\ Len(pushed) <= ntries /\ Len(seen) <= intact
        /\ ntries \in 0..MaxMsgs /\ intact = Len(pushed) /\ 1..intact = {}
    BY <1>1, <2>1
  <2>3. OutCount
    BY <1>1, <2>1, <2>2 DEF OutCount
  <2>4. OutFine /\ OutSeen
    BY <1>1, <2>2 DEF OutFine, OutSeen
  <2> QED BY <2>3, <2>4
<1>3. <<>> \in Streams /\ <<>> \o <<>> = <<>>
  BY EmptyWire
<1>4. Framed(<<>>)
  BY DEF Framed
<1>5. Pieces(FALSE, <<>>, 0, 0, <<>>, FALSE) /\ Pieces(TRUE, <<>>, 0, 0, <<>>, FALSE)
  BY <1>3, PiecesNone
<1>6. Out(ws, <<>>, <<>>, 0, 0, <<>>, FALSE)
  <2>1. Halves(<<>>, <<>>, 0, 0, 0, <<>>, FALSE)
    BY <1>5 DEF Halves
  <2> QED BY <1>3, <1>5, <2>1 DEF Out
<1>7. OutStream
  <2>1. Len(seen) = 0
    BY <1>1
  <2> QED BY <1>1, <1>3, <1>4, <1>6, <2>1 DEF OutStream
<1> QED BY <1>1, <1>2, <1>7 DEF OutInv

(* Nothing is sent to the peer.                                            *)
LEMMA OutUnchanged ==
  ASSUME OutInv, UNCHANGED ws, UNCHANGED out_vars, ntries' \in 0..MaxMsgs, ntries <= ntries'
  PROVE  OutInv'
<1>1. UNCHANGED <<ws, pushed, torn, intact, wbuf, line, recvbuffer, seen, peer>>
  BY DEF out_vars
<1>2. OutCount'
  <2>1. Len(pushed) <= ntries /\ Len(pushed) \in Nat /\ ntries \in Int /\ ntries' \in Int
    BY BoundAssumption DEF OutInv, OutCount
  <2>2. Len(pushed) <= ntries'
    BY <2>1
  <2> QED BY <1>1, <2>2 DEF OutInv, OutCount
<1>3. OutFine' /\ OutSeen'
  BY <1>1 DEF OutInv, OutFine, OutSeen
<1>4. OutStream'
  BY <1>1 DEF OutInv, OutStream
<1> QED BY <1>1, <1>2, <1>3, <1>4 DEF OutInv

(* What a push adds to the outbuffer o when a write has failed, now or     *)
(* earlier.                                                                *)
Spoiled(w, b, l, o, a, n, sq) ==
  /\ o \in Streams /\ Framed(l \o o)
  /\ Out(w, b, l \o o, a, n, sq, TRUE)

LEMMA SpoiledMore ==
  ASSUME NEW w \in BOOLEAN, NEW b \in Streams, NEW l \in Streams, NEW o, NEW a, NEW n, NEW sq,
         Spoiled(w, b, l, o, a, n, sq), NEW x \in Streams, Framed(x)
  PROVE  Spoiled(w, b, l, o \o x, a, n, sq)
<1>1. o \in Streams /\ Framed(l \o o) /\ Out(w, b, l \o o, a, n, sq, TRUE)
  BY DEF Spoiled
<1>2. (l \o o) \o x = l \o (o \o x)
  BY <1>1, AssocWire
<1>3. l \o o \in Streams /\ o \o x \in Streams
  BY <1>1, CatIn
<1> DEFINE s == l \o o
<1>4. s \in Streams /\ Framed(s) /\ Out(w, b, s, a, n, sq, TRUE)
  BY <1>1, <1>3
<1> HIDE DEF s
<1>5. Framed(s \o x)
  BY <1>4, FramedCat
<1>6. Out(w, b, s \o x, a, n, sq, TRUE)
  BY <1>4, OutTorn
<1> QED BY <1>2, <1>3, <1>5, <1>6 DEF Spoiled, s

LEMMA WrittenFacts ==
  ASSUME NEW s \in Streams, Framed(s), NEW x \in Written(s)
  PROVE  x \in Streams /\ Framed(x)
<1>1. <<>> \in Streams /\ Framed(<<>>)
  BY EmptyWire DEF Framed
<1> QED BY <1>1 DEF Written

LEMMA PartFacts ==
  ASSUME NEW m \in Msgs
  PROVE  /\ Header(m) \in Streams /\ Framed(Header(m))
         /\ JsonPart(m) \in Streams /\ Framed(JsonPart(m))
         /\ BinPart(m) \in Streams /\ Framed(BinPart(m))
         /\ WsHeader(Len(Body(m))) \in Streams /\ Framed(WsHeader(Len(Body(m))))
<1>1. Header(m) \in Texts /\ JsonPart(m) \in Texts /\ BinPart(m) \in Texts /\ Len(Body(m)) \in Nat
  BY BodyFacts DEF Texts
<1> QED BY <1>1, FramedText, TextStreams, BareFacts, FramedHeader

LEMMA OutPush ==
  ASSUME OutInv, NEW m \in Msgs, Push(m)
  PROVE  OutInv'
<1> DEFINE a == Len(seen)
           x == IF ws THEN WsHeader(Len(Body(m))) ELSE <<>>
<1>1. /\ ws \in BOOLEAN /\ ntries \in 0..MaxMsgs /\ ntries < MaxMsgs /\ ntries' = ntries + 1
      /\ UNCHANGED <<ws, line, recvbuffer, seen, peer>>
  BY DEF OutInv, OutCount, Push
<1>2. /\ torn \in BOOLEAN /\ peer \in {"ok", "failed"} /\ pushed \in Seq(Msgs) /\ seen \in Seq(Msgs)
      /\ intact \in 0..Len(pushed) /\ Len(pushed) <= ntries /\ Len(pushed) \in Nat /\ a \in Nat
  BY DEF OutInv, OutCount
<1>3. /\ Append(pushed, m) \in Seq(Msgs) /\ Len(Append(pushed, m)) = Len(pushed) + 1
      /\ Append(pushed, m)[Len(pushed) + 1] = m
      /\ \A i \in 1..Len(pushed) : Append(pushed, m)[i] = pushed[i]
  BY <1>2
<1>4. Agree(Append(pushed, m), pushed, intact)
  <2>1. \A i \in 1..intact : i \in 1..Len(pushed)
    BY <1>2
  <2> QED BY <1>3, <2>1 DEF Agree
<1>5. ntries' \in 0..MaxMsgs /\ Len(pushed) + 1 <= ntries' /\ Len(pushed) <= ntries'
  BY <1>1, <1>2, BoundAssumption
<1>6. ASSUME a <= intact
      PROVE  /\ recvbuffer \in Streams /\ line \in Streams /\ wbuf \in Streams
             /\ Framed(line \o wbuf) /\ line \o wbuf \in Streams
             /\ Out(ws, recvbuffer, line \o wbuf, a, intact, pushed, torn)
  BY <1>6, CatIn DEF OutInv, OutStream
<1>7. a <= intact => Spoiled(ws, recvbuffer, line, wbuf, a, intact, pushed)
  <2> SUFFICES ASSUME a <= intact PROVE Spoiled(ws, recvbuffer, line, wbuf, a, intact, pushed)
    OBVIOUS
  <2> DEFINE s == line \o wbuf
  <2>1. Out(ws, recvbuffer, s, a, intact, pushed, torn)
    BY <1>6
  <2> HIDE DEF s, a
  <2>2. Agree(pushed, pushed, intact)
    BY DEF Agree
  <2>3. Out(ws, recvbuffer, s, a, intact, pushed, TRUE)
    BY <1>1, <2>1, <2>2, OutSame
  <2> QED BY <1>6, <2>3 DEF Spoiled, s
<1>8. /\ x \in Streams /\ Framed(x)
      /\ Header(m) \in Streams /\ Framed(Header(m))
      /\ JsonPart(m) \in Streams /\ Framed(JsonPart(m))
      /\ BinPart(m) \in Streams /\ Framed(BinPart(m))
  <2>1. <<>> \in Streams /\ Framed(<<>>)
    BY EmptyWire DEF Framed
  <2> QED BY <2>1, PartFacts
<1>9. PICK w \in Written(x), h \in Written(Header(m)) :
       \/ /\ h = <<>>
          /\ wbuf' = wbuf \o w
          /\ torn' = TRUE
          /\ UNCHANGED <<pushed, intact>>
       \/ /\ h # <<>>
          /\ \E j \in Written(JsonPart(m)), b \in Written(BinPart(m)) :
               /\ wbuf' = wbuf \o w \o h \o j \o b
               /\ torn' = (torn \/ wbuf' # wbuf \o PushedUnits(m))
          /\ pushed' = Append(pushed, m)
          /\ intact' = IF torn' THEN intact ELSE intact + 1
  BY DEF Push
<1>10. w \in Streams /\ Framed(w) /\ h \in Streams /\ Framed(h)
  <2> HIDE DEF x
  <2> QED BY <1>8, WrittenFacts
<1>11. a <= intact => Spoiled(ws, recvbuffer, line, wbuf \o w, a, intact, pushed)
  <2> HIDE DEF a
  <2> QED BY <1>1, <1>6, <1>7, <1>10, SpoiledMore
<1>12. ASSUME torn' = TRUE, intact' = intact, pushed' \in {pushed, Append(pushed, m)},
              a <= intact => Spoiled(ws, recvbuffer, line, wbuf', a, intact, pushed)
       PROVE  OutInv'
  <2>1. OutCount'
    <3>1. pushed' \in Seq(Msgs) /\ Len(pushed') \in Nat /\ Len(pushed) <= Len(pushed') /\ Len(pushed') <= ntries'
      BY <1>2, <1>3, <1>5, <1>12
    <3> QED BY <1>1, <1>2, <1>5, <1>12, <3>1 DEF OutCount
  <2>2. OutFine'
    BY <1>12 DEF OutFine
  <2>3. Agree(pushed', pushed, intact)
    BY <1>4, <1>12 DEF Agree
  <2>4. OutSeen'
    <3>1. \A i \in 1..intact : i <= Len(seen) => seen[i] = pushed[i]
      BY DEF OutInv, OutSeen
    <3> QED BY <1>1, <1>12, <2>3, <3>1 DEF OutSeen, Agree
  <2>5. OutStream'
    <3> SUFFICES ASSUME a <= intact
                 PROVE  /\ wbuf' \in Streams /\ Framed(line \o wbuf')
                        /\ Out(ws, recvbuffer, line \o wbuf', a, intact, pushed', torn')
      BY <1>1, <1>6, <1>12 DEF OutStream
    <3> DEFINE s == line \o wbuf'
    <3>1. wbuf' \in Streams /\ Framed(s) /\ Out(ws, recvbuffer, s, a, intact, pushed, TRUE)
      BY <1>12 DEF Spoiled
    <3> HIDE DEF s, a
    <3>2. Out(ws, recvbuffer, s, a, intact, pushed', TRUE)
      BY <1>1, <2>3, <3>1, OutSame
    <3> QED BY <1>12, <3>1, <3>2 DEF s
  <2> QED BY <1>1, <2>1, <2>2, <2>4, <2>5 DEF OutInv
<1>13. CASE /\ h = <<>> /\ wbuf' = wbuf \o w /\ torn' = TRUE
            /\ UNCHANGED <<pushed, intact>>
  BY <1>11, <1>12, <1>13
<1>14. CASE /\ \E j \in Written(JsonPart(m)), b \in Written(BinPart(m)) :
                 /\ wbuf' = wbuf \o w \o h \o j \o b
                 /\ torn' = (torn \/ wbuf' # wbuf \o PushedUnits(m))
            /\ pushed' = Append(pushed, m)
            /\ intact' = IF torn' THEN intact ELSE intact + 1
  <2>1. PICK j \in Written(JsonPart(m)), b \in Written(BinPart(m)) :
                 /\ wbuf' = (((wbuf \o w) \o h) \o j) \o b
                 /\ torn' = (torn \/ wbuf' # wbuf \o PushedUnits(m))
    BY <1>14
  <2>2. CASE torn'
    <3>1. j \in Streams /\ Framed(j) /\ b \in Streams /\ Framed(b)
      BY <1>8, WrittenFacts
    <3>2. torn' = TRUE /\ intact' = intact
      BY <1>14, <2>1, <2>2
    <3>3. ASSUME a <= intact PROVE Spoiled(ws, recvbuffer, line, wbuf', a, intact, pushed)
      <4> HIDE DEF a
      <4> DEFINE o == wbuf \o w
                 p == o \o h
                 q == p \o j
      <4>1. recvbuffer \in Streams /\ line \in Streams
        BY <1>6, <3>3
      <4>2. Spoiled(ws, recvbuffer, line, o, a, intact, pushed)
        BY <1>11, <3>3
      <4> HIDE DEF o
      <4>3. Spoiled(ws, recvbuffer, line, p, a, intact, pushed)
        BY <1>1, <1>10, <4>1, <4>2, SpoiledMore
      <4> HIDE DEF p
      <4>4. Spoiled(ws, recvbuffer, line, q, a, intact, pushed)
        BY <1>1, <3>1, <4>1, <4>3, SpoiledMore
      <4> HIDE DEF q
      <4>5. Spoiled(ws, recvbuffer, line, q \o b, a, intact, pushed)
        BY <1>1, <3>1, <4>1, <4>4, SpoiledMore
      <4> QED BY <2>1, <4>5 DEF o, p, q
    <3> QED BY <1>12, <1>14, <3>2, <3>3
  <2>3. CASE ~torn'
    <3>1. torn' = FALSE /\ torn = FALSE /\ wbuf' = wbuf \o PushedUnits(m) /\ intact' = intact + 1
      BY <1>2, <1>14, <2>1, <2>3
    <3>2. intact = Len(pushed) /\ a <= intact /\ peer = "ok"
      BY <3>1 DEF OutInv, OutFine
    <3> DEFINE u == Piece(ws, m)
               sq == Append(pushed, m)
               n == intact
    <3>3. PushedUnits(m) = u
      BY BodyWire, EmptyWire DEF PushedUnits, Piece
    <3>4. u \in Streams /\ Framed(u)
      BY PieceFacts, FramedPiece
    <3>5. sq[n + 1] = m /\ Agree(sq, pushed, n) /\ pushed' = sq
      BY <1>3, <1>4, <1>14, <3>2
    <3> HIDE DEF u, sq
    <3>6. OutCount'
      <4>1. /\ pushed' \in Seq(Msgs) /\ Len(pushed') = Len(pushed) + 1
            /\ intact + 1 \in 0..(Len(pushed) + 1)
        BY <1>2, <1>3, <3>2, <3>5 DEF sq
      <4> QED BY <1>1, <1>2, <1>5, <3>1, <4>1 DEF OutCount
    <3>7. OutFine'
      BY <1>1, <1>2, <1>3, <3>1, <3>2, <3>5 DEF OutFine, sq
    <3>8. OutSeen'
      <4>1. ASSUME NEW i \in 1..(n + 1), i <= Len(seen) PROVE seen[i] = sq[i]
        <5>1. i \in 1..n
          BY <1>2, <3>2, <4>1
        <5> QED BY <3>5, <4>1, <5>1 DEF OutInv, OutSeen, Agree
      <4> QED BY <1>1, <3>1, <3>5, <4>1 DEF OutSeen
    <3>9. OutStream'
      <4>1. /\ recvbuffer \in Streams /\ line \in Streams /\ wbuf \in Streams
            /\ Framed(line \o wbuf) /\ line \o wbuf \in Streams
            /\ Out(ws, recvbuffer, line \o wbuf, a, n, pushed, FALSE)
        BY <1>6, <3>1, <3>2
      <4>2. (line \o wbuf) \o u = line \o (wbuf \o u) /\ wbuf \o u \in Streams
        <5>1. line \in Streams /\ wbuf \in Streams /\ u \in Streams
          BY <3>4, <4>1
        <5>2. wbuf \o u \in Streams
          BY <5>1, CatIn
        <5>3. (line \o wbuf) \o u = line \o (wbuf \o u)
          BY <5>1, AssocWire
        <5> QED BY <5>2, <5>3
      <4> DEFINE s == line \o wbuf
      <4> HIDE DEF s, a, n
      <4>3. s \in Streams /\ Framed(s) /\ Out(ws, recvbuffer, s, a, n, pushed, FALSE)
        BY <4>1 DEF s
      <4>4. Out(ws, recvbuffer, s, a, n, sq, FALSE)
        BY <1>1, <3>5, <4>3, OutSame
      <4>5. Out(ws, recvbuffer, s \o u, a, n + 1, sq, FALSE)
        BY <1>1, <3>5, <4>1, <4>3, <4>4, OutAdd DEF u
      <4>6. Framed(s \o u)
        BY <3>4, <4>3, FramedCat
      <4>7. wbuf' = wbuf \o u /\ line' = line /\ recvbuffer' = recvbuffer
        BY <1>1, <3>1, <3>3
      <4>8. Framed(line' \o wbuf') /\ Out(ws', recvbuffer', line' \o wbuf', Len(seen'), intact', pushed', torn')
        BY <1>1, <3>1, <3>5, <4>2, <4>5, <4>6, <4>7 DEF s, a, n
      <4> QED BY <4>1, <4>2, <4>7, <4>8 DEF OutStream
    <3> QED BY <1>1, <3>6, <3>7, <3>8, <3>9 DEF OutInv
  <2> QED BY <2>2, <2>3
<1> QED BY <1>9, <1>13, <1>14

LEMMA OutSendPartial ==
  ASSUME OutInv, SendPartial
  PROVE  OutInv'
<1>1. PICK n \in 1..Len(wbuf) :
        line' = line \o SubSeq(wbuf, 1, n) /\ wbuf' = SubSeq(wbuf, n + 1, Len(wbuf))
  BY DEF SendPartial
<1>2. UNCHANGED <<ws, ntries, pushed, torn, intact, recvbuffer, seen, peer>>
  BY DEF SendPartial
<1>3. ws' \in BOOLEAN /\ OutCount' /\ OutFine' /\ OutSeen'
  BY <1>2 DEF OutInv, OutCount, OutFine, OutSeen
<1>4. OutStream'
  <2> SUFFICES ASSUME Len(seen) <= intact
               PROVE  /\ line' \in Streams /\ wbuf' \in Streams /\ recvbuffer \in Streams
                      /\ line' \o wbuf' = line \o wbuf
                      /\ Framed(line \o wbuf)
                      /\ Out(ws, recvbuffer, line \o wbuf, Len(seen), intact, pushed, torn)
    BY <1>2 DEF OutStream
  <2> DEFINE x == SubSeq(wbuf, 1, n)
             y == SubSeq(wbuf, n + 1, Len(wbuf))
  <2>1. /\ line \in Streams /\ wbuf \in Streams /\ recvbuffer \in Streams
        /\ Framed(line \o wbuf)
        /\ Out(ws, recvbuffer, line \o wbuf, Len(seen), intact, pushed, torn)
    BY DEF OutInv, OutStream
  <2>2. n \in 0..Len(wbuf)
    BY <2>1, CatWire
  <2>3. x \in Streams /\ y \in Streams /\ x \o y = wbuf
    BY <2>1, <2>2, CutWire
  <2> HIDE DEF x, y
  <2>4. line \o x \in Streams /\ (line \o x) \o y = line \o (x \o y)
    <3>1. line \in Streams /\ x \in Streams /\ y \in Streams
      BY <2>1, <2>3
    <3>2. line \o x \in Streams
      BY <3>1, CatIn
    <3>3. (line \o x) \o y = line \o (x \o y)
      BY <3>1, AssocWire
    <3> QED BY <3>2, <3>3
  <2> QED BY <1>1, <2>1, <2>3, <2>4 DEF x, y
<1> QED BY <1>3, <1>4 DEF OutInv

LEMMA OutPeerRecv ==
  ASSUME OutInv, PeerRecv
  PROVE  OutInv'
<1> DEFINE x == SubSeq(line, BareHeaderLen(line) + 1, BareHeaderLen(line) + FrameLen(line))
           y == SubSeq(line, BareHeaderLen(line) + FrameLen(line) + 1, Len(line))
           a == Len(seen)
<1>1. line # <<>> /\ peer = "ok" /\ UNCHANGED <<ws, ntries, pushed, torn, intact, wbuf, seen>>
  BY DEF PeerRecv
<1>2. /\ ws \in BOOLEAN /\ torn \in BOOLEAN /\ pushed \in Seq(Msgs) /\ intact \in 0..Len(pushed)
      /\ \A i \in 1..intact : pushed[i] \in Msgs
  BY DEF OutInv, OutCount
<1>3. \/ ~ws /\ recvbuffer' = recvbuffer \o line /\ line' = <<>> /\ peer' = peer
      \/ /\ ws /\ line[1][1] = "bare" /\ HasBareFrame(line)
         /\ recvbuffer' = recvbuffer \o x /\ line' = y /\ peer' = peer
      \/ /\ ws /\ line[1][1] # "bare" /\ peer' = "failed" /\ recvbuffer' = recvbuffer /\ line' = line
  BY DEF PeerRecv
<1>4. OutSeen'
  BY <1>1 DEF OutInv, OutSeen
<1>5. ASSUME peer' = peer PROVE OutCount' /\ OutFine'
  BY <1>1, <1>5 DEF OutInv, OutCount, OutFine
<1>6. a <= intact => /\ recvbuffer \in Streams /\ line \in Streams /\ wbuf \in Streams
                     /\ Framed(line \o wbuf)
                     /\ Out(ws, recvbuffer, line \o wbuf, a, intact, pushed, torn)
  BY DEF OutInv, OutStream
<1>7. ASSUME ws, a <= intact PROVE Received(recvbuffer, line, wbuf, a, intact, pushed, torn)
  <2>1. Out(TRUE, recvbuffer, line \o wbuf, a, intact, pushed, torn)
    <3>1. ws = TRUE
      BY <1>2, <1>7
    <3> QED BY <1>6, <1>7, <3>1
  <2>2. recvbuffer \in Streams /\ line \in Streams /\ wbuf \in Streams /\ Framed(line \o wbuf)
    BY <1>6, <1>7
  <2> HIDE DEF a
  <2> QED BY <1>1, <1>2, <2>1, <2>2, OutRecv
<1>8. CASE ~ws /\ recvbuffer' = recvbuffer \o line /\ line' = <<>> /\ peer' = peer
  <2>1. OutStream'
    <3> SUFFICES ASSUME a <= intact
                 PROVE  /\ recvbuffer' \in Streams /\ line' \in Streams /\ wbuf \in Streams
                        /\ Framed(line' \o wbuf)
                        /\ Out(ws, recvbuffer', line' \o wbuf, a, intact, pushed, torn)
      BY <1>1 DEF OutStream
    <3>1. /\ recvbuffer \in Streams /\ line \in Streams /\ wbuf \in Streams
          /\ Framed(line \o wbuf)
          /\ Out(ws, recvbuffer, line \o wbuf, a, intact, pushed, torn)
      BY <1>6
    <3>2. Pieces(FALSE, recvbuffer \o (line \o wbuf), a, intact, pushed, torn)
      BY <1>8, <3>1 DEF Out
    <3>3. line' \o wbuf = wbuf /\ line' \in Streams
      BY <1>8, <3>1, EmptyWire
    <3>4. Framed(wbuf)
      BY <3>1, FramedRest
    <3>5. recvbuffer \o line \in Streams
      BY <3>1, CatIn
    <3>6. (recvbuffer \o line) \o wbuf = recvbuffer \o (line \o wbuf)
      BY <3>1, AssocWire
    <3>7. Pieces(FALSE, recvbuffer' \o wbuf, a, intact, pushed, torn)
      BY <1>8, <3>2, <3>6
    <3> QED BY <1>8, <3>1, <3>3, <3>4, <3>5, <3>7 DEF Out
  <2> QED BY <1>1, <1>2, <1>4, <1>5, <1>8, <2>1 DEF OutInv
<1>9. CASE /\ ws /\ line[1][1] = "bare" /\ HasBareFrame(line)
           /\ recvbuffer' = recvbuffer \o x /\ line' = y /\ peer' = peer
  <2>1. OutStream'
    <3> SUFFICES ASSUME a <= intact
                 PROVE  /\ recvbuffer' \in Streams /\ line' \in Streams /\ wbuf \in Streams
                        /\ Framed(line' \o wbuf)
                        /\ Out(ws, recvbuffer', line' \o wbuf, a, intact, pushed, torn)
      BY <1>1 DEF OutStream
    <3>1. recvbuffer \in Streams /\ line \in Streams /\ wbuf \in Streams /\ Framed(line \o wbuf)
      BY <1>6
    <3>2. x \in Streams /\ y \in Streams /\ Framed(y \o wbuf)
      BY <1>9, <3>1, BareCut
    <3>3. Out(TRUE, recvbuffer \o x, y \o wbuf, a, intact, pushed, torn)
      BY <1>7, <1>9 DEF Received
    <3> HIDE DEF x, y
    <3>4. recvbuffer \o x \in Streams
      BY <3>1, <3>2, CatIn
    <3>5. ws = TRUE
      BY <1>2, <1>9
    <3> QED BY <1>9, <3>1, <3>2, <3>3, <3>4, <3>5
  <2> QED BY <1>1, <1>2, <1>4, <1>5, <1>9, <2>1 DEF OutInv
<1>10. CASE /\ ws /\ line[1][1] # "bare" /\ peer' = "failed"
            /\ recvbuffer' = recvbuffer /\ line' = line
  <2>1. torn
    <3>1. ASSUME ~torn PROVE FALSE
      <4>1. a <= intact
        BY <3>1 DEF OutInv, OutFine
      <4> QED BY <1>7, <1>10, <3>1, <4>1 DEF Received
    <3> QED BY <3>1
  <2>2. OutCount' /\ OutFine'
    BY <1>1, <1>10, <2>1 DEF OutInv, OutCount, OutFine
  <2>3. OutStream'
    BY <1>1, <1>10 DEF OutInv, OutStream
  <2> QED BY <1>1, <1>2, <1>4, <2>2, <2>3 DEF OutInv
<1> QED BY <1>3, <1>8, <1>9, <1>10

LEMMA OutPeerRead ==
  ASSUME OutInv, PeerRead
  PROVE  OutInv'
<1> DEFINE b == recvbuffer
           y == SubSeq(b, MsgSize(b) + 1, Len(b))
           s == line \o wbuf
           a == Len(seen)
           n == intact
<1>1. HasHeader(b) /\ UNCHANGED <<ws, ntries, pushed, torn, intact, wbuf, line>>
  BY DEF PeerRead
<1>2. /\ ws \in BOOLEAN /\ torn \in BOOLEAN /\ pushed \in Seq(Msgs) /\ n \in 0..Len(pushed)
      /\ seen \in Seq(Msgs) /\ a \in Nat /\ n \in Nat /\ \A i \in 1..n : pushed[i] \in Msgs
  BY DEF OutInv, OutCount
<1>3. \/ /\ HasMessage(b) /\ \E m \in Msgs : IsMessage(b, m) /\ seen' = Append(seen, m)
         /\ recvbuffer' = y /\ peer' = peer
      \/ /\ b[1] # Magic \/ (HasMessage(b) /\ \A m \in Msgs : ~IsMessage(b, m))
         /\ peer' = "failed" /\ recvbuffer' = recvbuffer /\ seen' = seen
  BY DEF PeerRead
<1>4. a <= n => /\ b \in Streams /\ line \in Streams /\ wbuf \in Streams /\ Framed(s)
                /\ Out(ws, b, s, a, n, pushed, torn)
  BY DEF OutInv, OutStream
<1>5. ASSUME ~torn \/ a < n
      PROVE  Readable(ws, b, s, a, n, pushed, torn)
  <2>1. a <= n
    BY <1>2, <1>5 DEF OutInv, OutFine
  <2>2. b \in Streams /\ s \in Streams /\ Out(ws, b, s, a, n, pushed, torn)
    BY <1>4, <2>1, CatIn
  <2> HIDE DEF a, n, s, b
  <2> QED BY <1>1, <1>2, <1>5, <2>2, OutRead
<1>6. CASE /\ HasMessage(b) /\ \E m \in Msgs : IsMessage(b, m) /\ seen' = Append(seen, m)
           /\ recvbuffer' = y /\ peer' = peer
  <2>1. PICK m \in Msgs : IsMessage(b, m) /\ seen' = Append(seen, m)
    BY <1>6
  <2>2. /\ seen' \in Seq(Msgs) /\ Len(seen') = a + 1 /\ seen'[a + 1] = m
        /\ \A i \in 1..a : seen'[i] = seen[i]
    BY <1>2, <2>1
  <2>3. ASSUME ~torn \/ a < n
        PROVE  /\ a < n /\ m = pushed[a + 1] /\ y \in Streams
               /\ Out(ws, y, s, a + 1, n, pushed, torn)
    <3> HIDE DEF a, n, s, b, y
    <3>1. Readable(ws, b, s, a, n, pushed, torn)
      BY <1>5, <2>3
    <3> QED BY <1>6, <2>1, <3>1 DEF Readable, y
  <2>4. OutCount'
    BY <1>1, <1>6, <2>2 DEF OutInv, OutCount
  <2>5. OutFine'
    <3> SUFFICES ASSUME ~torn PROVE intact = Len(pushed) /\ a + 1 <= n /\ peer = "ok"
      BY <1>1, <1>6, <2>2 DEF OutFine
    <3>1. a + 1 <= n
      BY <1>2, <2>3
    <3> QED BY <3>1 DEF OutInv, OutFine
  <2>6. OutSeen'
    <3>1. ASSUME NEW i \in 1..n, i <= a + 1 PROVE seen'[i] = pushed[i]
      <4>1. CASE i = a + 1
        <5>1. a < n
          BY <1>2, <4>1
        <5> QED BY <2>2, <2>3, <4>1, <5>1
      <4>2. CASE i # a + 1
        <5>1. i \in 1..a /\ i <= Len(seen)
          BY <1>2, <3>1, <4>2
        <5> QED BY <2>2, <5>1 DEF OutInv, OutSeen
      <4> QED BY <4>1, <4>2
    <3> QED BY <1>1, <2>2, <3>1 DEF OutSeen
  <2>7. OutStream'
    <3> SUFFICES ASSUME a + 1 <= n
                 PROVE  /\ y \in Streams /\ line \in Streams /\ wbuf \in Streams /\ Framed(s)
                        /\ Out(ws, y, s, a + 1, n, pushed, torn)
      BY <1>1, <1>6, <2>2 DEF OutStream
    <3>1. a < n /\ a <= n
      BY <1>2
    <3> QED BY <1>4, <2>3, <3>1
  <2> QED BY <1>1, <1>2, <2>4, <2>5, <2>6, <2>7 DEF OutInv
<1>7. CASE /\ b[1] # Magic \/ (HasMessage(b) /\ \A m \in Msgs : ~IsMessage(b, m))
           /\ peer' = "failed" /\ recvbuffer' = recvbuffer /\ seen' = seen
  <2>1. torn
    <3>1. ASSUME ~torn PROVE FALSE
      <4>1. Readable(ws, b, s, a, n, pushed, torn)
        BY <1>5, <3>1
      <4>2. a < n /\ b[1] = Magic /\ (HasMessage(b) => IsMessage(b, pushed[a + 1]))
        BY <4>1 DEF Readable
      <4>3. a + 1 \in 1..n
        BY <1>2, <4>2
      <4> QED BY <1>2, <1>7, <4>2, <4>3
    <3> QED BY <3>1
  <2>2. OutCount' /\ OutFine' /\ OutSeen'
    BY <1>1, <1>7, <2>1 DEF OutInv, OutCount, OutFine, OutSeen
  <2>3. OutStream'
    BY <1>1, <1>7 DEF OutInv, OutStream
  <2> QED BY <1>1, <1>2, <2>2, <2>3 DEF OutInv
<1> QED BY <1>3, <1>6, <1>7

LEMMA OutNext ==
  ASSUME OutInv, [Next]_vars
  PROVE  OutInv'
<1>1. ASSUME NEW m \in Msgs, Push(m) PROVE OutInv'
  BY <1>1, OutPush
<1>2. CASE SendPartial
  BY <1>2, OutSendPartial
<1>3. CASE PeerRecv
  BY <1>3, OutPeerRecv
<1>4. CASE PeerRead
  BY <1>4, OutPeerRead
<1>5. CASE (\E m \in Msgs : PeerSend(m)) \/ PeerSendBad
  <2>1. /\ UNCHANGED ws /\ UNCHANGED out_vars /\ ntries' = ntries + 1 /\ ntries < MaxMsgs
    BY <1>5 DEF PeerSend, PeerSendBad
  <2>2. ntries' \in 0..MaxMsgs /\ ntries <= ntries'
    BY <2>1, BoundAssumption DEF OutInv, OutCount
  <2> QED BY <2>1, <2>2, OutUnchanged
<1>6. CASE \/ Recv \/ RecvNoMemory \/ PopFrame \/ Pop \/ PopFails \/ PopNothing \/ PopNoMemory
           \/ UNCHANGED vars
  <2>1. UNCHANGED ws /\ UNCHANGED out_vars /\ UNCHANGED ntries
    BY <1>6 DEF Recv, RecvNoMemory, PopFrame, Pop, PopFails, PopNothing, PopNoMemory, vars
  <2>2. ntries' \in 0..MaxMsgs /\ ntries <= ntries'
    BY <2>1, BoundAssumption DEF OutInv, OutCount
  <2> QED BY <2>1, <2>2, OutUnchanged
<1> QED BY <1>1, <1>2, <1>3, <1>4, <1>5, <1>6 DEF Next

(* What the peer reads of the messages that dime_socket_push accepted      *)
(* before the first write that failed is what was pushed, in order, for    *)
(* all cuts of the stream by dime_socket_sendpartial; until then the peer  *)
(* meets nothing that it cannot read.                                      *)
THEOREM IntactUntilTornHolds == Spec => []IntactUntilTorn
<1>1. OutInv => IntactUntilTorn
  <2> SUFFICES ASSUME OutInv PROVE IntactUntilTorn
    OBVIOUS
  <2>1. seen \in Seq(Msgs) /\ pushed \in Seq(Msgs) /\ intact \in 0..Len(pushed)
    BY DEF OutInv, OutCount
  <2>2. ASSUME ~torn PROVE peer = "ok" /\ IsPrefix(seen, pushed)
    <3>1. peer = "ok" /\ intact = Len(pushed) /\ Len(seen) <= Len(pushed)
      BY <2>2 DEF OutInv, OutFine
    <3>2. Len(seen) \in Nat /\ Len(pushed) \in Nat
      BY <2>1
    <3>3. \A i \in 1..Len(seen) : seen[i] = pushed[i]
      <4>1. \A i \in 1..Len(seen) : i \in 1..intact /\ i <= Len(seen)
        BY <3>1, <3>2
      <4> QED BY <4>1 DEF OutInv, OutSeen
    <3>4. /\ SubSeq(seen, 1, Len(seen)) \in Seq(Msgs) /\ SubSeq(pushed, 1, Len(seen)) \in Seq(Msgs)
          /\ Len(SubSeq(seen, 1, Len(seen))) = Len(seen) /\ Len(SubSeq(pushed, 1, Len(seen))) = Len(seen)
          /\ \A i \in 1..Len(seen) : SubSeq(seen, 1, Len(seen))[i] = seen[i]
          /\ \A i \in 1..Len(seen) : SubSeq(pushed, 1, Len(seen))[i] = pushed[i]
      BY <2>1, <3>1, <3>2, SubSeqFacts
    <3>5. SubSeq(seen, 1, Len(seen)) = SubSeq(pushed, 1, Len(seen))
      BY <3>3, <3>4, SameSeq
    <3> QED BY <3>1, <3>5 DEF IsPrefix
  <2> QED BY <2>2 DEF IntactUntilTorn, OutInv, OutSeen
<1> QED BY <1>1, OutInit, OutNext, PTL DEF Spec

(* The buffers, flags and counters keep their types; in particular the     *)
(* payload that dime_socket_pop collects is made of units of messages, and *)
(* a plain connection never uses the buffer of frames.                     *)
THEOREM TypeCorrect == Spec => []TypeOK
<1>1. InInv /\ OutInv => TypeOK
  <2> SUFFICES ASSUME InInv, OutInv PROVE TypeOK
    OBVIOUS
  <2>1. /\ ws \in BOOLEAN /\ honest \in BOOLEAN /\ rbuf \in Seq(Units) /\ (~ws => wsrbuf = <<>>)
        /\ pc \in {"idle", "pop", "failed", "nomemory"} /\ got \in Seq(Msgs) /\ sent \in Seq(Msgs)
    BY DEF InInv, InTypes, InGot, InSent, Sent, Texts
  <2>2. /\ torn \in BOOLEAN /\ peer \in {"ok", "failed"} /\ pushed \in Seq(Msgs) /\ seen \in Seq(Msgs)
        /\ ntries \in 0..MaxMsgs /\ intact \in 0..Len(pushed) /\ Len(pushed) <= ntries
    BY DEF OutInv, OutCount
  <2>3. intact \in 0..MaxMsgs
    <3>1. Len(pushed) \in Nat
      BY <2>2
    <3> QED BY <2>2, <3>1, BoundAssumption
  <2> QED BY <2>1, <2>2, <2>3 DEF TypeOK
<1> QED BY <1>1, InInit, InNext, OutInit, OutNext, PTL DEF Spec

=============================================================================
