-------------------------- MODULE IpcStream_proofs --------------------------
(***************************************************************************)
(* The session reads what was typed in order, for every socket capacity,   *)
(* payload limit and number of requests.                                   *)
(***************************************************************************)
EXTENDS IpcStream, SequenceTheorems, TLAPS

-----------------------------------------------------------------------------
(* Sequences of units.                                                     *)

\* What a read takes off the front and what it leaves make up the whole.
LEMMA DropProperties ==
  ASSUME NEW S, NEW s \in Seq(S), NEW n \in 0..Len(s)
  PROVE  /\ Drop(s, n) \in Seq(S)
         /\ Len(Drop(s, n)) = Len(s) - n
         /\ \A i \in 1..(Len(s) - n) : Drop(s, n)[i] = s[n + i]
         /\ SubSeq(s, 1, n) \in Seq(S) /\ Len(SubSeq(s, 1, n)) = n
         /\ SubSeq(s, 1, n) \o Drop(s, n) = s
<1>1. /\ Len(s) \in Nat /\ n \in Nat /\ 1 \in 1..(Len(s) + 1)
      /\ n \in (1 - 1)..Len(s) /\ Len(s) \in n..Len(s)
  OBVIOUS
<1>2. /\ Drop(s, n) \in Seq(S) /\ Len(Drop(s, n)) = Len(s) - n
      /\ \A i \in 1..(Len(s) - n) : Drop(s, n)[i] = s[n + i]
  BY <1>1 DEF Drop
<1>3. SubSeq(s, 1, n) \in Seq(S) /\ Len(SubSeq(s, 1, n)) = n
  BY <1>1
<1>4. SubSeq(s, 1, n) \o SubSeq(s, n + 1, Len(s)) = SubSeq(s, 1, Len(s))
  BY <1>1, ConcatAdjacentSubSeq, Zenon
<1>5. SubSeq(s, 1, Len(s)) = s
  BY SubSeqFull
<1> QED BY <1>2, <1>3, <1>4, <1>5, Zenon DEF Drop

\* A part that is taken off the front of the first of two sequences.
LEMMA DropConcat ==
  ASSUME NEW S, NEW s \in Seq(S), NEW t \in Seq(S), NEW n \in 0..Len(s)
  PROVE  Drop(s, n) \o t = Drop(s \o t, n)
<1>1. Len(s) \in Nat /\ Len(t) \in Nat /\ s \o t \in Seq(S) /\ Len(s \o t) = Len(s) + Len(t)
  OBVIOUS
<1>2. n \in 0..Len(s \o t)
  BY <1>1
<1>3. /\ Drop(s, n) \in Seq(S) /\ Len(Drop(s, n)) = Len(s) - n
      /\ \A i \in 1..(Len(s) - n) : Drop(s, n)[i] = s[n + i]
  BY DropProperties
<1> DEFINE u == s \o t
<1>0. u \in Seq(S) /\ Len(u) = Len(s) + Len(t) /\ n \in 0..Len(u)
  BY <1>1, <1>2
<1> HIDE DEF u
<1>4. /\ Drop(u, n) \in Seq(S) /\ Len(Drop(u, n)) = Len(u) - n
      /\ \A i \in 1..(Len(u) - n) : Drop(u, n)[i] = u[n + i]
  BY <1>0, DropProperties, Zenon
<1>5. Drop(s, n) \o t \in Seq(S) /\ Len(Drop(s, n) \o t) = Len(u) - n
  <2>1. /\ Drop(s, n) \o t \in Seq(S)
        /\ Len(Drop(s, n) \o t) = Len(Drop(s, n)) + Len(t)
    BY <1>3, ConcatProperties, Zenon
  <2>2. (Len(s) - n) + Len(t) = (Len(s) + Len(t)) - n
    BY <1>1
  <2> QED BY <1>0, <1>3, <2>1, <2>2
<1>6. ASSUME NEW i \in 1..(Len(u) - n)
      PROVE  (Drop(s, n) \o t)[i] = Drop(u, n)[i]
  <2>1. CASE i <= Len(s) - n
    <3>1. (Drop(s, n) \o t)[i] = s[n + i]
      BY <1>0, <1>1, <1>3, <2>1, ConcatProperties
    <3>2. u[n + i] = s[n + i]
      BY <1>0, <1>1, <2>1, ConcatProperties DEF u
    <3> QED BY <1>4, <3>1, <3>2
  <2>2. CASE ~(i <= Len(s) - n)
    <3>1. (Drop(s, n) \o t)[i] = t[i - (Len(s) - n)]
      BY <1>0, <1>1, <1>3, <2>2, ConcatProperties
    <3>2. u[n + i] = t[n + i - Len(s)]
      BY <1>0, <1>1, <2>2, ConcatProperties DEF u
    <3>3. i - (Len(s) - n) = n + i - Len(s)
      BY <1>1
    <3> QED BY <1>4, <3>1, <3>2, <3>3
  <2> QED BY <2>1, <2>2, Zenon
<1>7. Drop(s, n) \o t = Drop(u, n)
  BY <1>4, <1>5, <1>6, SeqEqual, Zenon
<1> QED BY <1>7 DEF u

\* Concatenation is associative.
LEMMA Regroup ==
  ASSUME NEW s \in Seq(Unit), NEW t \in Seq(Unit), NEW u \in Seq(Unit)
  PROVE  (s \o t) \o u = s \o (t \o u)
  BY ConcatAssociative

\* Two sequences of units, one behind the other.
LEMMA ConcatUnits ==
  ASSUME NEW s \in Seq(Unit), NEW t \in Seq(Unit)
  PROVE  /\ s \o t \in Seq(Unit) /\ Len(s \o t) = Len(s) + Len(t)
         /\ \A i \in 1..Len(s) : (s \o t)[i] = s[i]
         /\ \A i \in 1..Len(t) : (s \o t)[Len(s) + i] = t[i]
<1>1. Len(s) \in Nat /\ Len(t) \in Nat
  OBVIOUS
<1>2. s \o t \in Seq(Unit) /\ Len(s \o t) = Len(s) + Len(t)
  BY ConcatProperties
<1>3. \A i \in 1..Len(s) : (s \o t)[i] = s[i]
  BY <1>1, ConcatProperties
<1>4. ASSUME NEW i \in 1..Len(t) PROVE (s \o t)[Len(s) + i] = t[i]
  <2>1. /\ Len(s) + i \in 1..(Len(s) + Len(t)) /\ ~(Len(s) + i <= Len(s))
        /\ (Len(s) + i) - Len(s) = i
    BY <1>1
  <2> QED BY <2>1, ConcatProperties
<1> QED BY <1>2, <1>3, <1>4

-----------------------------------------------------------------------------
(* The order of the input.                                                 *)

\* Input that is in order stays so when some of it is left out: t is what s
\* has at the places m.
LEMMA PartIsOrdered ==
  ASSUME NEW last, NEW s \in Seq(Unit), NEW t \in Seq(Unit), InputIsOrdered(s, last),
         NEW m \in [DOMAIN t -> DOMAIN s],
         \A i \in DOMAIN t : t[i] = s[m[i]],
         \A i, j \in DOMAIN t : i < j => m[i] < m[j]
  PROVE  InputIsOrdered(t, last)
  BY DEF InputIsOrdered

\* The first of two sequences is in order, and so are the two when units are
\* taken off the front of the second.
LEMMA DropIsOrdered ==
  ASSUME NEW last, NEW a \in Seq(Unit), NEW b \in Seq(Unit), NEW n \in 0..Len(b),
         InputIsOrdered(a \o b, last)
  PROVE  InputIsOrdered(a, last) /\ InputIsOrdered(a \o Drop(b, n), last)
<1>1. /\ Len(a) \in Nat /\ Len(b) \in Nat /\ a \o b \in Seq(Unit)
      /\ Len(a \o b) = Len(a) + Len(b) /\ n \in Nat
      /\ DOMAIN a = 1..Len(a) /\ DOMAIN (a \o b) = 1..(Len(a) + Len(b))
  OBVIOUS
<1>2. InputIsOrdered(a, last)
  <2> DEFINE m == [i \in DOMAIN a |-> i]
  <2>1. m \in [DOMAIN a -> DOMAIN (a \o b)]
    BY <1>1
  <2>2. \A i \in DOMAIN a : a[i] = (a \o b)[m[i]]
    BY <1>1, ConcatProperties
  <2>3. \A i, j \in DOMAIN a : i < j => m[i] < m[j]
    OBVIOUS
  <2> HIDE DEF m
  <2> QED BY <1>1, <2>1, <2>2, <2>3, PartIsOrdered, Zenon
<1>3. InputIsOrdered(a \o Drop(b, n), last)
  <2> DEFINE t == a \o Drop(b, n)
             m == [i \in DOMAIN t |-> IF i <= Len(a) THEN i ELSE i + n]
  <2>1. /\ Drop(b, n) \in Seq(Unit) /\ Len(Drop(b, n)) = Len(b) - n
        /\ \A i \in 1..(Len(b) - n) : Drop(b, n)[i] = b[n + i]
    BY DropProperties
  <2>2. t \in Seq(Unit) /\ DOMAIN t = 1..(Len(a) + Len(b) - n)
    BY <1>1, <2>1
  <2>3. m \in [DOMAIN t -> DOMAIN (a \o b)]
    BY <1>1, <2>2
  <2>4. ASSUME NEW i \in DOMAIN t PROVE t[i] = (a \o b)[m[i]]
    <3>1. CASE i <= Len(a)
      BY <1>1, <2>1, <2>2, <3>1, ConcatProperties
    <3>2. CASE ~(i <= Len(a))
      <4>1. t[i] = Drop(b, n)[i - Len(a)]
        BY <1>1, <2>1, <2>2, <3>2, ConcatProperties
      <4>2. i - Len(a) \in 1..(Len(b) - n) /\ i + n - Len(a) = n + (i - Len(a))
        BY <1>1, <2>2, <3>2
      <4>3. (a \o b)[i + n] = b[i + n - Len(a)]
        BY <1>1, <2>2, <3>2, ConcatProperties
      <4> QED BY <2>1, <3>2, <4>1, <4>2, <4>3, Zenon
    <3> QED BY <3>1, <3>2, Zenon
  <2>5. \A i, j \in DOMAIN t : i < j => m[i] < m[j]
    BY <1>1, <2>2
  <2> HIDE DEF m, t
  <2>6. InputIsOrdered(t, last)
    BY <1>1, <2>2, <2>3, <2>4, <2>5, PartIsOrdered, Zenon
  <2> QED BY <2>6 DEF t
<1> QED BY <1>2, <1>3

\* Input that is appended is in order when it is newer than all there is.
LEMMA ConcatIsOrdered ==
  ASSUME NEW last \in Nat, NEW next \in Nat, last <= next,
         NEW a \in Seq(Unit), NEW b \in Seq(Unit),
         InputIsOrdered(a, last), InputIsOrdered(b, next),
         \A i \in DOMAIN b : IsInput(b[i]) => last < b[i][2]
  PROVE  InputIsOrdered(a \o b, next)
<1> DEFINE t == a \o b
<1>1. /\ Len(a) \in Nat /\ Len(b) \in Nat /\ t \in Seq(Unit)
      /\ DOMAIN a = 1..Len(a) /\ DOMAIN b = 1..Len(b) /\ DOMAIN t = 1..(Len(a) + Len(b))
  OBVIOUS
<1>2. ASSUME NEW i \in DOMAIN t
      PROVE  \/ i \in DOMAIN a /\ t[i] = a[i]
             \/ i - Len(a) \in DOMAIN b /\ t[i] = b[i - Len(a)]
  <2>1. CASE i <= Len(a)
    BY <1>1, <2>1, ConcatProperties
  <2>2. CASE ~(i <= Len(a))
    BY <1>1, <2>2, ConcatProperties
  <2> QED BY <2>1, <2>2
<1> HIDE DEF t
<1>3. /\ \A i \in DOMAIN a : a[i][2] \in Nat
      /\ \A i \in DOMAIN b : b[i][2] \in Nat
  BY DEF Unit
<1>4. ASSUME NEW i \in DOMAIN t, IsInput(t[i]) PROVE t[i][2] <= next
  BY <1>2, <1>3, <1>4 DEF InputIsOrdered
<1>5. ASSUME NEW i \in DOMAIN t, NEW j \in DOMAIN t, i < j, IsInput(t[i]), IsInput(t[j])
      PROVE  t[i][2] < t[j][2]
  <2>1. CASE i \in DOMAIN a /\ t[i] = a[i] /\ j \in DOMAIN a /\ t[j] = a[j]
    BY <1>5, <2>1 DEF InputIsOrdered
  <2>2. CASE /\ i \in DOMAIN a /\ t[i] = a[i]
             /\ j - Len(a) \in DOMAIN b /\ t[j] = b[j - Len(a)]
    <3>1. a[i][2] <= last /\ last < b[j - Len(a)][2]
      BY <1>5, <2>2 DEF InputIsOrdered
    <3> QED BY <1>3, <2>2, <3>1
  <2>3. CASE /\ i - Len(a) \in DOMAIN b /\ t[i] = b[i - Len(a)]
             /\ j \in DOMAIN a /\ t[j] = a[j]
    BY <1>1, <1>5, <2>3
  <2>4. CASE /\ i - Len(a) \in DOMAIN b /\ t[i] = b[i - Len(a)]
             /\ j - Len(a) \in DOMAIN b /\ t[j] = b[j - Len(a)]
    <3>1. i - Len(a) < j - Len(a)
      BY <1>1, <1>5
    <3> QED BY <1>5, <2>4, <3>1 DEF InputIsOrdered
  <2> QED BY <1>2, <2>1, <2>2, <2>3, <2>4
<1> QED BY <1>4, <1>5, Zenon DEF InputIsOrdered, t

-----------------------------------------------------------------------------
(* The frames of the input.                                                *)

\* The server's reads leave whole frames.
LEMMA DropIsFramed ==
  ASSUME NEW s \in Seq(Unit), NEW n \in 0..Len(s), InputIsFramed(s)
  PROVE  InputIsFramed(Drop(s, n))
<1>1. /\ Drop(s, n) \in Seq(Unit) /\ Len(Drop(s, n)) = Len(s) - n
      /\ \A i \in 1..(Len(s) - n) : Drop(s, n)[i] = s[n + i]
  BY DropProperties
<1>2. /\ Len(s) \in Nat /\ n \in Nat /\ DOMAIN s = 1..Len(s)
      /\ DOMAIN Drop(s, n) = 1..(Len(s) - n)
  BY <1>1
<1> DEFINE t == Drop(s, n)
<1> HIDE DEF t
<1>3. ASSUME NEW i \in DOMAIN t, t[i][1] = "SessionInput"
      PROVE  /\ t[i][2] = 2 /\ i + 2 \in DOMAIN t
             /\ t[i + 1] = <<"size", 1>> /\ IsInput(t[i + 2])
  <2>1. n + i \in DOMAIN s /\ t[i] = s[n + i] /\ i \in 1..(Len(s) - n)
    BY <1>1, <1>2 DEF t
  <2>2. /\ s[n + i][2] = 2 /\ (n + i) + 2 \in DOMAIN s
        /\ s[(n + i) + 1] = <<"size", 1>> /\ IsInput(s[(n + i) + 2])
    BY <1>3, <2>1 DEF InputIsFramed
  <2>a. (n + i) + 2 \in 1..Len(s)
    BY <1>2, <2>2
  <2>3. /\ i + 1 \in 1..(Len(s) - n) /\ i + 2 \in 1..(Len(s) - n)
        /\ (n + i) + 1 = n + (i + 1) /\ (n + i) + 2 = n + (i + 2)
    BY <1>2, <2>1, <2>a
  <2>4. t[i + 1] = s[(n + i) + 1] /\ t[i + 2] = s[(n + i) + 2]
    <3>1. \A j \in 1..(Len(s) - n) : t[j] = s[n + j]
      BY <1>1 DEF t
    <3> QED BY <2>3, <3>1
  <2> QED BY <1>2, <2>1, <2>2, <2>3, <2>4 DEF t
<1> QED BY <1>3 DEF InputIsFramed, t

\* Frames that are appended to whole frames.
LEMMA ConcatIsFramed ==
  ASSUME NEW s \in Seq(Unit), NEW t \in Seq(Unit), InputIsFramed(s), InputIsFramed(t)
  PROVE  InputIsFramed(s \o t)
<1> DEFINE u == s \o t
<1>1. /\ Len(s) \in Nat /\ Len(t) \in Nat /\ u \in Seq(Unit)
      /\ DOMAIN s = 1..Len(s) /\ DOMAIN t = 1..Len(t) /\ DOMAIN u = 1..(Len(s) + Len(t))
  OBVIOUS
<1>2. \A i \in DOMAIN s : u[i] = s[i]
  BY <1>1, ConcatProperties
<1>3. ASSUME NEW i \in DOMAIN t PROVE u[Len(s) + i] = t[i] /\ Len(s) + i \in DOMAIN u
  <2>1. Len(s) + i \in 1..(Len(s) + Len(t)) /\ Len(s) + i > Len(s) /\ Len(s) + i - Len(s) = i
    BY <1>1
  <2> QED BY <1>1, <2>1, ConcatProperties
<1> HIDE DEF u
<1>4. ASSUME NEW i \in DOMAIN u, u[i][1] = "SessionInput"
      PROVE  /\ u[i][2] = 2 /\ i + 2 \in DOMAIN u
             /\ u[i + 1] = <<"size", 1>> /\ IsInput(u[i + 2])
  <2>1. CASE i \in DOMAIN s
    <3>1. /\ s[i][2] = 2 /\ i + 2 \in DOMAIN s
          /\ s[i + 1] = <<"size", 1>> /\ IsInput(s[i + 2])
      BY <1>2, <1>4, <2>1 DEF InputIsFramed
    <3>2. i + 1 \in DOMAIN s /\ i + 2 \in DOMAIN u
      BY <1>1, <2>1, <3>1
    <3> QED BY <1>2, <2>1, <3>1, <3>2
  <2>2. CASE i \notin DOMAIN s
    <3>1. PICK k \in DOMAIN t : i = Len(s) + k
      <4>1. i - Len(s) \in DOMAIN t /\ i = Len(s) + (i - Len(s))
        BY <1>1, <2>2
      <4> QED BY <4>1
    <3>2. /\ t[k][2] = 2 /\ k + 2 \in DOMAIN t
          /\ t[k + 1] = <<"size", 1>> /\ IsInput(t[k + 2])
      BY <1>3, <1>4, <3>1 DEF InputIsFramed
    <3>a. k + 2 \in 1..Len(t) /\ k \in 1..Len(t)
      BY <1>1, <3>2
    <3>b. k \in Nat /\ Len(s) \in Nat /\ i = Len(s) + k
      BY <1>1, <3>1, <3>a
    <3>c. i + 1 = Len(s) + (k + 1) /\ i + 2 = Len(s) + (k + 2)
      BY <3>b
    <3>3. k + 1 \in 1..Len(t)
      BY <1>1, <3>a
    <3> QED BY <1>1, <1>3, <3>1, <3>2, <3>3, <3>c, Zenon
  <2> QED BY <2>1, <2>2
<1> QED BY <1>4, Zenon DEF InputIsFramed, u

\* A sequence of input is a sequence of units.
LEMMA InputIsUnits == Seq({"in"} \X Nat) \subseteq Seq(Unit)
<1>1. {"in"} \X Nat \subseteq Unit
  BY DEF Unit
<1> QED BY <1>1, SeqMonotonic

\* encodeDaemonIpcFrame: a header, and the payload behind it.
LEMMA EncodeProperties ==
  ASSUME NEW type \in MessageTypes \cup {"size"}, NEW payload \in Seq(Unit)
  PROVE  /\ Encode(type, payload) \in Seq(Unit)
         /\ Len(Encode(type, payload)) = 1 + Len(payload)
         /\ Encode(type, payload)[1] = <<type, Len(payload)>>
         /\ \A i \in 1..Len(payload) : Encode(type, payload)[i + 1] = payload[i]
<1> DEFINE h == <<<<type, Len(payload)>>>>
<1>1. Len(payload) \in Nat
  OBVIOUS
<1>2. h \in Seq(Unit) /\ Len(h) = 1 /\ h[1] = <<type, Len(payload)>>
  BY <1>1 DEF Unit
<1> HIDE DEF h
<1>3. /\ h \o payload \in Seq(Unit) /\ Len(h \o payload) = 1 + Len(payload)
      /\ (h \o payload)[1] = <<type, Len(payload)>>
      /\ \A i \in 1..Len(payload) : (h \o payload)[1 + i] = payload[i]
  <2>1. /\ h \o payload \in Seq(Unit) /\ Len(h \o payload) = Len(h) + Len(payload)
        /\ \A i \in 1..Len(h) : (h \o payload)[i] = h[i]
        /\ \A i \in 1..Len(payload) : (h \o payload)[Len(h) + i] = payload[i]
    BY <1>2, ConcatUnits, Zenon
  <2>2. 1 \in 1..Len(h)
    BY <1>2
  <2> QED BY <1>2, <2>1, <2>2
<1>4. \A i \in 1..Len(payload) : 1 + i = i + 1
  BY <1>1
<1> QED BY <1>3, <1>4 DEF Encode, h

\* What a frame of the client must be so that the session reads in order: whole,
\* in order, and newer than all that was typed before.
FrameOK(frame, next) ==
    /\ frame \in Seq(Unit)
    /\ next \in {typed, typed + 1}
    /\ InputIsFramed(frame)
    /\ InputIsOrdered(frame, next)
    /\ \A i \in DOMAIN frame : IsInput(frame[i]) => typed < frame[i][2]

\* A request that carries no input.
LEMMA PlainFrame ==
  ASSUME NEW type \in MessageTypes \ {"SessionInput"}, typed \in Nat,
         NEW payload \in Seq({"version", "port", "size"} \X Nat)
  PROVE  FrameOK(Encode(type, payload), typed)
<1> DEFINE frame == Encode(type, payload)
<1>1. type \in MessageTypes /\ type # "in" /\ type # "SessionInput"
  BY DEF MessageTypes, SessionFrames
<1>2. payload \in Seq(Unit)
  <2>1. {"version", "port", "size"} \X Nat \subseteq Unit
    BY DEF Unit
  <2> QED BY <2>1, SeqMonotonic
<1>3. /\ frame \in Seq(Unit) /\ Len(frame) = 1 + Len(payload)
      /\ frame[1] = <<type, Len(payload)>>
      /\ \A i \in 1..Len(payload) : frame[i + 1] = payload[i]
  BY <1>1, <1>2, EncodeProperties
<1> HIDE DEF frame
<1>4. ASSUME NEW i \in DOMAIN frame
      PROVE  frame[i][1] # "in" /\ frame[i][1] # "SessionInput"
  <2>1. CASE i = 1
    BY <1>1, <1>3, <2>1
  <2>2. CASE i # 1
    <3>1. Len(payload) \in Nat /\ i \in 1..(1 + Len(payload))
      BY <1>2, <1>3
    <3>2. i - 1 \in 1..Len(payload) /\ (i - 1) + 1 = i
      BY <2>2, <3>1
    <3>3. frame[i] = payload[i - 1]
      BY <1>3, <3>2
    <3>4. payload[i - 1] \in {"version", "port", "size"} \X Nat
      BY <3>2
    <3> QED BY <3>3, <3>4
  <2> QED BY <2>1, <2>2
<1> QED BY <1>3, <1>4 DEF FrameOK, InputIsFramed, InputIsOrdered, IsInput, frame

\* The frame of a chunk of input.
LEMMA InputFrame ==
  ASSUME typed \in Nat
  PROVE  FrameOK(Encode("SessionInput", SessionData(<<<<"in", typed + 1>>>>)), typed + 1)
<1> DEFINE data == <<<<"in", typed + 1>>>>
           frame == Encode("SessionInput", SessionData(data))
<1>1. data \in Seq(Unit) /\ Len(data) = 1 /\ data[1] = <<"in", typed + 1>>
  BY DEF Unit
<1> HIDE DEF data
<1>2. /\ SessionData(data) \in Seq(Unit) /\ Len(SessionData(data)) = 2
      /\ SessionData(data)[1] = <<"size", 1>> /\ SessionData(data)[2] = data[1]
  <2>1. SessionData(data) = Encode("size", data)
    BY DEF SessionData, Encode
  <2>2. 1 \in 1..Len(data) /\ 1 + 1 = 2
    BY <1>1
  <2>3. /\ Encode("size", data) \in Seq(Unit) /\ Len(Encode("size", data)) = 1 + Len(data)
        /\ Encode("size", data)[1] = <<"size", Len(data)>>
        /\ \A i \in 1..Len(data) : Encode("size", data)[i + 1] = data[i]
    BY <1>1, EncodeProperties, Zenon
  <2> HIDE DEF frame
  <2> QED BY <1>1, <2>1, <2>2, <2>3
<1>3. /\ frame \in Seq(Unit) /\ Len(frame) = 3
      /\ frame[1] = <<"SessionInput", 2>>
      /\ \A i \in 1..2 : frame[i + 1] = SessionData(data)[i]
  <2>1. "SessionInput" \in MessageTypes
    BY DEF MessageTypes
  <2> DEFINE p == SessionData(data)
  <2>2. p \in Seq(Unit) /\ Len(p) = 2
    BY <1>2
  <2> HIDE DEF p
  <2>3. LET f == Encode("SessionInput", p) IN
        /\ f \in Seq(Unit) /\ Len(f) = 1 + Len(p)
        /\ f[1] = <<"SessionInput", Len(p)>>
        /\ \A i \in 1..Len(p) : f[i + 1] = p[i]
    BY <2>1, <2>2, EncodeProperties, Zenon
  <2> QED BY <2>2, <2>3 DEF p
<1> HIDE DEF frame
<1>4. DOMAIN frame = {1, 2, 3} /\ frame[2] = <<"size", 1>> /\ frame[3] = <<"in", typed + 1>>
  BY <1>1, <1>2, <1>3
<1>5. InputIsFramed(frame)
  BY <1>3, <1>4 DEF InputIsFramed, IsInput
<1>6. ASSUME NEW i \in DOMAIN frame, IsInput(frame[i])
      PROVE  i = 3 /\ frame[i][2] = typed + 1
  BY <1>3, <1>4, <1>6 DEF IsInput
<1>7. InputIsOrdered(frame, typed + 1)
  BY <1>4, <1>6 DEF InputIsOrdered
<1> QED BY <1>3, <1>5, <1>6, <1>7 DEF FrameOK, frame, data

-----------------------------------------------------------------------------
(* The client's half.                                                      *)

\* sendFrame and flushPendingWrite: what the socket does not take stays in
\* pendingWrite_, so nothing is lost between the two.
LEMMA SendUnitsKeepsUnits ==
  ASSUME UpstreamTypeOK, NEW w \in Seq(Unit), SendUnits(w)
  PROVE  /\ up' \in Seq(Unit) /\ Len(up') <= Capacity /\ unsent' \in Seq(Unit)
         /\ up' \o unsent' = up \o w
<1> DEFINE n == Smaller(Capacity - Len(up), Len(w))
<1>1. /\ up' = up \o SubSeq(w, 1, n) /\ unsent' = Drop(w, n)
  BY DEF SendUnits, UpRoom
<1>2. up \in Seq(Unit) /\ Len(up) \in Nat /\ Len(up) <= Capacity /\ Len(w) \in Nat
  BY DEF UpstreamTypeOK
<1>3. n \in 0..Len(w) /\ n <= Capacity - Len(up)
  BY <1>2, CapacityAssumption DEF Smaller
<1> HIDE DEF n
<1>4. /\ SubSeq(w, 1, n) \in Seq(Unit) /\ Len(SubSeq(w, 1, n)) = n
      /\ Drop(w, n) \in Seq(Unit) /\ SubSeq(w, 1, n) \o Drop(w, n) = w
  BY <1>3, DropProperties
<1>5. /\ up \o SubSeq(w, 1, n) \in Seq(Unit)
      /\ Len(up \o SubSeq(w, 1, n)) = Len(up) + n
  BY <1>2, <1>4, ConcatProperties
<1>6. Len(up) + n <= Capacity
  BY <1>2, <1>3, CapacityAssumption
<1>7. (up \o SubSeq(w, 1, n)) \o Drop(w, n) = up \o (SubSeq(w, 1, n) \o Drop(w, n))
  BY <1>2, <1>4, Regroup, Zenon
<1> QED BY <1>1, <1>4, <1>5, <1>6, <1>7, Zenon

\* A client that is connected sends a frame, or the rest of earlier ones.
LEMMA SendFrameInv ==
  ASSUME InputInv, NEW frame, NEW next, FrameOK(frame, next), typed' = next,
         SendFrame(frame), ~downEnd,
         UNCHANGED <<readBuffer, input, consumed, upEnd, downEnd, turn, accepted>>
  PROVE  InputInv'
<1>1. UpstreamTypeOK /\ frame \in Seq(Unit) /\ next \in Nat /\ typed \in Nat /\ typed <= next
  BY DEF InputInv, UpstreamTypeOK, FrameOK
<1>2. /\ readBuffer \in Seq(Unit) /\ up \in Seq(Unit) /\ unsent \in Seq(Unit)
      /\ unsent \o frame \in Seq(Unit)
  BY <1>1, ConcatProperties DEF UpstreamTypeOK
<1>3. /\ up' \in Seq(Unit) /\ Len(up') <= Capacity /\ unsent' \in Seq(Unit)
      /\ up' \o unsent' = up \o (unsent \o frame)
  BY <1>1, <1>2, SendUnitsKeepsUnits, Zenon DEF SendFrame
<1>4. UpstreamTypeOK'
  BY <1>1, <1>3 DEF UpstreamTypeOK
<1>5. Upstream' = Upstream \o frame /\ Upstream \in Seq(Unit)
  <2> DEFINE v == up \o unsent
  <2>1. (readBuffer \o up') \o unsent' = readBuffer \o (up' \o unsent')
    <3>1. readBuffer \in Seq(Unit) /\ up' \in Seq(Unit) /\ unsent' \in Seq(Unit)
      BY <1>2, <1>3
    <3> QED BY <3>1, Regroup
  <2>2. up \o (unsent \o frame) = v \o frame
    <3>1. up \in Seq(Unit) /\ unsent \in Seq(Unit) /\ frame \in Seq(Unit)
      BY <1>1, <1>2
    <3> QED BY <3>1, Regroup
  <2>3. (readBuffer \o up) \o unsent = readBuffer \o v
    BY <1>2, Regroup
  <2>4. v \in Seq(Unit)
    BY <1>2, ConcatUnits
  <2> HIDE DEF v
  <2>a. readBuffer \in Seq(Unit) /\ frame \in Seq(Unit)
    BY <1>1, <1>2
  <2>5. (readBuffer \o v) \o frame = readBuffer \o (v \o frame)
    BY <2>a, <2>4, Regroup
  <2>6. readBuffer \o v \in Seq(Unit)
    BY <1>2, <2>4, ConcatUnits
  <2> QED BY <1>3, <2>1, <2>2, <2>3, <2>5, <2>6 DEF Upstream
<1>6. consumed \o input \in Seq(Unit)
  BY <1>1, InputIsUnits, ConcatProperties DEF UpstreamTypeOK
<1>7. InputIsOrdered(consumed \o input, next)
  <2> DEFINE s == consumed \o input
  <2>1. s \in Seq(Unit) /\ InputIsOrdered(s, typed)
    BY <1>6 DEF InputInv
  <2> HIDE DEF s
  <2>2. \A i \in DOMAIN s : s[i][2] \in Nat
    BY <2>1 DEF Unit
  <2>3. InputIsOrdered(s, next)
    BY <1>1, <2>1, <2>2 DEF InputIsOrdered
  <2> QED BY <2>3 DEF s
<1>8. CASE Connected
  <2>1. InputIsFramed(Upstream \o frame)
    BY <1>1, <1>5, <1>8, ConcatIsFramed DEF InputInv, FrameOK
  <2>2. (consumed \o input) \o Upstream \in Seq(Unit)
    BY <1>5, <1>6, ConcatProperties
  <2>3. InputIsOrdered(((consumed \o input) \o Upstream) \o frame, next)
    BY <1>1, <1>8, <2>2, ConcatIsOrdered, Zenon DEF InputInv, FrameOK
  <2>4. ((consumed \o input) \o Upstream) \o frame = (consumed \o input) \o (Upstream \o frame)
    BY <1>1, <1>5, <1>6, Regroup, Zenon
  <2>5. /\ InputIsFramed(Upstream')
        /\ InputIsOrdered(consumed \o input \o Upstream', next)
    BY <1>5, <2>1, <2>3, <2>4
  <2> QED BY <1>4, <1>7, <2>5, Zenon DEF InputInv, InputIsOrdered, InputIsFramed
<1>9. CASE ~Connected
  <2>1. ~Connected'
    BY <1>9 DEF Connected
  <2> QED BY <1>4, <1>7, <2>1 DEF InputInv, InputIsOrdered
<1> QED BY <1>8, <1>9

\* runIoPump writes what is pending.
LEMMA PumpFlushInv ==
  ASSUME InputInv, PumpFlush PROVE InputInv'
<1>1. typed \in Nat /\ unsent \in Seq(Unit)
  BY DEF InputInv, UpstreamTypeOK
<1>2. FrameOK(<<>>, typed)
  BY <1>1 DEF FrameOK, InputIsFramed, InputIsOrdered
<1>3. unsent \o <<>> = unsent
  BY <1>1, ConcatEmptySeq
<1>4. SendFrame(<<>>)
  BY <1>3 DEF PumpFlush, SendFrame
<1>5. /\ ~downEnd /\ typed' = typed
      /\ UNCHANGED <<readBuffer, input, consumed, upEnd, downEnd, turn, accepted>>
  BY DEF PumpFlush, elsewhereVars, serverVars, sessionVars
<1> QED BY <1>2, <1>4, <1>5, SendFrameInv

\* Closing its end, the client forgets what it has not sent: nothing more is
\* dispatched on this connection.
LEMMA ClosedInv ==
  ASSUME InputInv, Closed,
         UNCHANGED <<readBuffer, input, consumed, typed, downEnd, turn, accepted>>
  PROVE  InputInv'
<1>1. upEnd' = TRUE /\ unsent' = <<>> /\ up' = up
  BY DEF Closed
<1>2. UpstreamTypeOK'
  BY <1>1 DEF InputInv, UpstreamTypeOK
<1>3. ~Connected'
  BY <1>1 DEF Connected
<1> QED BY <1>2, <1>3 DEF InputInv, InputIsOrdered

\* A request of the console, on a connection that may have gone.
LEMMA AskInv ==
  ASSUME InputInv, NEW frame, FrameOK(frame, typed), NEW call, NEW bytes, NEW left,
         Ask(frame, call, bytes, left),
         UNCHANGED <<readBuffer, input, consumed, typed, downEnd, turn, accepted>>
  PROVE  InputInv'
<1>1. CASE downEnd
  BY <1>1, ClosedInv DEF Ask
<1>2. CASE ~downEnd
  BY <1>2, SendFrameInv DEF Ask
<1> QED BY <1>1, <1>2

\* The console's three requests carry no input.
LEMMA ConsoleAsksInv ==
  ASSUME InputInv, NEW bytes, NEW left,
         \/ AskHandshake(bytes, left) \/ AskAttach(bytes, left) \/ AskDetach(bytes, left),
         UNCHANGED <<readBuffer, input, consumed, typed, downEnd, turn, accepted>>
  PROVE  InputInv'
<1> DEFINE Kinds == {"version", "port", "size"} \X Nat
<1>1. typed \in Nat
  BY DEF InputInv, UpstreamTypeOK
<1>2. /\ Field("version", Version) \in Seq(Kinds)
      /\ Field("port", 0) \in Seq(Kinds)
      /\ <<>> \in Seq(Kinds)
  BY DEF Field, Version
<1>3. {"Handshake", "AttachSession", "DetachSession"} \subseteq MessageTypes \ {"SessionInput"}
  BY DEF MessageTypes
<1>4. /\ FrameOK(Encode("Handshake", Field("version", Version)), typed)
      /\ FrameOK(Encode("AttachSession", Field("port", 0)), typed)
      /\ FrameOK(Encode("DetachSession", <<>>), typed)
  BY <1>1, <1>2, <1>3, PlainFrame, Zenon
<1> QED BY <1>4, AskInv DEF AskHandshake, AskAttach, AskDetach

\* A step that leaves both directions of the input alone.
LEMMA InputStaysInv ==
  ASSUME InputInv, ~downEnd \/ UNCHANGED <<turn, accepted>>,
         UNCHANGED <<up, upEnd, downEnd, readBuffer, unsent, input, consumed, typed>>
  PROVE  InputInv'
<1>1. UpstreamTypeOK'
  BY DEF InputInv, UpstreamTypeOK
<1>2. Upstream' = Upstream /\ Connected' = Connected
  BY DEF Upstream, Connected
<1>3. downEnd' => turn' = <<>> /\ ~accepted'
  BY DEF InputInv
<1>4. InputIsOrdered(consumed \o input, typed)'
  BY DEF InputInv, InputIsOrdered
<1>5. CASE Connected
  <2>1. InputIsFramed(Upstream)'
    BY <1>2, <1>5 DEF InputInv, InputIsFramed
  <2>2. InputIsOrdered(consumed \o input \o Upstream, typed)'
    BY <1>2, <1>5 DEF InputInv, InputIsOrdered
  <2> QED BY <1>1, <1>3, <1>4, <2>1, <2>2 DEF InputInv
<1>6. CASE ~Connected
  BY <1>1, <1>2, <1>3, <1>4, <1>6 DEF InputInv
<1> QED BY <1>5, <1>6

\* One round of the console's receive loops.
LEMMA ReceiveInv ==
  ASSUME InputInv, Receive PROVE InputInv'
<1>1. UNCHANGED <<readBuffer, input, consumed, typed, downEnd, turn, accepted>>
  BY DEF Receive, elsewhereVars, serverVars, sessionVars
<1>2. PICK next, rest : Proceed(next, rest)
  BY DEF Receive
<1>3. CASE next = "attach"
  BY <1>1, <1>2, <1>3, ConsoleAsksInv DEF Proceed
<1>4. CASE next = "detach"
  BY <1>1, <1>2, <1>4, ConsoleAsksInv DEF Proceed
<1>5. CASE next = "closed"
  BY <1>1, <1>2, <1>5, ClosedInv DEF Proceed
<1>6. CASE next \notin {"attach", "detach", "closed"}
  <2>1. UNCHANGED <<up, unsent, upEnd>>
    BY <1>2, <1>6 DEF Proceed
  <2> QED BY <1>1, <2>1, InputStaysInv
<1> QED BY <1>3, <1>4, <1>5, <1>6

\* A request of another client, whatever it is.
LEMMA RawSendInv ==
  ASSUME InputInv, NEW type \in RawRequests, RawSend(type) PROVE InputInv'
<1>1. typed \in Nat /\ type \in MessageTypes
  BY StreamAssumption DEF InputInv, UpstreamTypeOK
<1>2. /\ ~downEnd /\ SendFrame(Encode(type, RequestPayload(type)))
      /\ typed' = IF type = "SessionInput" THEN typed + 1 ELSE typed
      /\ UNCHANGED <<readBuffer, input, consumed, upEnd, downEnd, turn, accepted>>
  BY DEF RawSend, elsewhereVars, serverVars, sessionVars
<1>3. CASE type = "SessionInput"
  <2>1. RequestPayload(type) = SessionData(<<<<"in", typed + 1>>>>)
    BY <1>3 DEF RequestPayload, SessionFrames
  <2>2. FrameOK(Encode(type, RequestPayload(type)), typed + 1)
    BY <1>1, <1>3, <2>1, InputFrame
  <2> QED BY <1>2, <1>3, <2>2, SendFrameInv
<1>4. CASE type # "SessionInput"
  <2> DEFINE Kinds == {"version", "port", "size"} \X Nat
  <2>1. /\ Field("version", Version) \in Seq(Kinds) /\ Field("port", 0) \in Seq(Kinds)
        /\ <<>> \in Seq(Kinds)
    BY DEF Field, Version
  <2>2. SessionData(<<>>) \in Seq(Kinds)
    <3>1. <<<<"size", 0>>>> \in Seq(Kinds) /\ Len(<<>>) = 0
      OBVIOUS
    <3>2. <<<<"size", 0>>>> \o <<>> = <<<<"size", 0>>>>
      BY <3>1, ConcatEmptySeq
    <3> QED BY <3>1, <3>2 DEF SessionData
  <2>3. RequestPayload(type) \in Seq(Kinds)
    BY <1>4, <2>1, <2>2 DEF RequestPayload, SessionFrames
  <2>4. FrameOK(Encode(type, RequestPayload(type)), typed)
    BY <1>1, <1>4, <2>3, PlainFrame
  <2> QED BY <1>2, <1>4, <2>4, SendFrameInv
<1> QED BY <1>3, <1>4

\* Every step of the client.
LEMMA ClientStepInv ==
  ASSUME InputInv, ClientStep PROVE InputInv'
<1> USE DEF elsewhereVars, serverVars, sessionVars
<1>1. CASE Connect
  BY <1>1, ConsoleAsksInv DEF Connect
<1>2. CASE StopPump
  BY <1>2, ConsoleAsksInv DEF StopPump
<1>3. CASE PumpInput
  <2>1. typed \in Nat
    BY DEF InputInv, UpstreamTypeOK
  <2> QED BY <1>3, <2>1, InputFrame, SendFrameInv DEF PumpInput
<1>4. CASE Vanish
  BY <1>4, ClosedInv DEF Vanish
<1> QED BY <1>1, <1>2, <1>3, <1>4, PumpFlushInv, ReceiveInv, RawSendInv DEF ClientStep

-----------------------------------------------------------------------------
(* The server's half and the session's.                                    *)

\* readInputChar moves the next chunk from the queue to the session.
LEMMA ReadInv ==
  ASSUME InputInv, Read PROVE InputInv'
<1>1. UNCHANGED <<up, upEnd, downEnd, readBuffer, unsent, typed, turn, accepted>>
  BY DEF Read, serverVars, clientVars, socketVars
<1>2. CASE input # <<>> /\ consumed' = Append(consumed, Head(input)) /\ input' = Tail(input)
  <2> DEFINE In == {"in"} \X Nat
  <2>1. input \in Seq(In) /\ consumed \in Seq(In)
    BY DEF InputInv, UpstreamTypeOK
  <2>2. Head(input) \in In /\ Tail(input) \in Seq(In)
    BY <1>2, <2>1, HeadTailProperties
  <2>3. input' \in Seq(In) /\ consumed' \in Seq(In)
    BY <1>2, <2>1, <2>2, AppendProperties
  <2> HIDE DEF In
  <2>4. consumed' \o input' = consumed \o input
    <3> DEFINE a == consumed \o input
               b == consumed' \o input'
    <3>1. /\ Len(input) \in Nat /\ Len(input) > 0 /\ Len(consumed) \in Nat
          /\ Len(input') = Len(input) - 1 /\ Len(consumed') = Len(consumed) + 1
      BY <1>2, <2>1, <2>2, HeadTailProperties, AppendProperties
    <3>2. /\ a \in Seq(In) /\ Len(a) = Len(consumed) + Len(input)
          /\ b \in Seq(In) /\ Len(b) = Len(a)
      <4>1. a \in Seq(In) /\ Len(a) = Len(consumed) + Len(input)
        BY <2>1, ConcatProperties
      <4>2. b \in Seq(In) /\ Len(b) = Len(consumed') + Len(input')
        BY <2>3, ConcatProperties
      <4>3. (Len(consumed) + 1) + (Len(input) - 1) = Len(consumed) + Len(input)
        BY <3>1
      <4> QED BY <3>1, <4>1, <4>2, <4>3
    <3>3. ASSUME NEW i \in 1..Len(a) PROVE a[i] = b[i]
      <4>1. i \in 1..(Len(consumed) + Len(input)) /\ i \in 1..(Len(consumed') + Len(input'))
        BY <3>1, <3>2
      <4>2. CASE i <= Len(consumed)
        <5>1. a[i] = consumed[i] /\ b[i] = consumed'[i]
          BY <2>1, <2>3, <3>1, <4>1, <4>2
        <5>2. consumed'[i] = consumed[i]
          BY <1>2, <2>1, <2>2, <4>1, <4>2, AppendProperties
        <5> QED BY <5>1, <5>2
      <4>3. CASE i = Len(consumed) + 1
        <5>1. a[i] = input[1] /\ b[i] = consumed'[i]
          BY <2>1, <2>3, <3>1, <4>1, <4>3
        <5>2. consumed'[i] = Head(input) /\ Head(input) = input[1]
          BY <1>2, <2>1, <2>2, <4>3, AppendProperties
        <5> QED BY <5>1, <5>2
      <4>4. CASE i > Len(consumed) + 1
        <5>1. a[i] = input[i - Len(consumed)] /\ b[i] = input'[i - (Len(consumed) + 1)]
          BY <2>1, <2>3, <3>1, <4>1, <4>4
        <5>2. i - (Len(consumed) + 1) \in 1..Len(Tail(input))
          BY <1>2, <3>1, <4>1, <4>4
        <5>3. Tail(input)[i - (Len(consumed) + 1)] = input[i - (Len(consumed) + 1) + 1]
          BY <1>2, <2>1, <5>2, HeadTailProperties
        <5>4. i - (Len(consumed) + 1) + 1 = i - Len(consumed)
          BY <3>1
        <5> QED BY <1>2, <5>1, <5>3, <5>4
      <4> QED BY <3>1, <4>1, <4>2, <4>3, <4>4
    <3> HIDE DEF a, b
    <3>4. a = b
      BY <3>2, <3>3, SeqEqual
    <3> QED BY <3>4 DEF a, b
  <2>5. UpstreamTypeOK'
    BY <1>1, <2>3 DEF InputInv, UpstreamTypeOK, In
  <2>6. Upstream' = Upstream /\ Connected' = Connected
    BY <1>1 DEF Upstream, Connected
  <2> QED BY <1>1, <2>4, <2>5, <2>6, Zenon DEF InputInv, InputIsOrdered, InputIsFramed
<1>3. CASE UNCHANGED <<consumed, input>>
  BY <1>1, <1>3, InputStaysInv
<1> QED BY <1>2, <1>3 DEF Read

\* The channel of a session that has ended goes with the input it held.
LEMMA JoinInv ==
  ASSUME InputInv, Join PROVE InputInv'
<1>1. /\ UNCHANGED <<up, upEnd, downEnd, readBuffer, unsent, typed, consumed>>
      /\ input' = <<>> /\ ~downEnd
  BY DEF InputInv, Join, Phase, clientVars, socketVars
<1>2. UpstreamTypeOK'
  BY <1>1 DEF InputInv, UpstreamTypeOK
<1>3. /\ consumed \in Seq(Unit) /\ input \in Seq(Unit)
      /\ readBuffer \in Seq(Unit) /\ up \in Seq(Unit) /\ unsent \in Seq(Unit)
  BY InputIsUnits DEF InputInv, UpstreamTypeOK
<1>4. consumed \o <<>> = consumed
  BY <1>3, ConcatEmptySeq
<1>5. InputIsOrdered(consumed, typed)
  BY <1>3, DropIsOrdered DEF InputInv
<1>6. CASE Connected
  <2>1. Upstream \in Seq(Unit)
    BY <1>3, ConcatUnits DEF Upstream
  <2>2. InputIsOrdered(consumed \o (input \o Upstream), typed)
    <3>1. (consumed \o input) \o Upstream = consumed \o (input \o Upstream)
      <4>1. consumed \in Seq(Unit) /\ input \in Seq(Unit)
        BY <1>3
      <4> QED BY <2>1, <4>1, Regroup
    <3> QED BY <1>6, <3>1 DEF InputInv
  <2>3. /\ Len(input) \in 0..Len(input \o Upstream) /\ Len(input) \in 0..Len(input)
        /\ input \o Upstream \in Seq(Unit)
    BY <1>3, <2>1
  <2>4. InputIsOrdered(consumed \o Drop(input \o Upstream, Len(input)), typed)
    BY <1>3, <2>2, <2>3, DropIsOrdered, Zenon
  <2>5. Drop(input, Len(input)) \o Upstream = Drop(input \o Upstream, Len(input))
    BY <1>3, <2>1, <2>3, DropConcat, Zenon
  <2>6. Drop(input, Len(input)) = <<>>
    BY <1>3, SubSeqEmpty DEF Drop
  <2>7. <<>> \o Upstream = Upstream
    BY <2>1, ConcatEmptySeq
  <2>8. InputIsOrdered(consumed \o Upstream, typed)
    BY <2>4, <2>5, <2>6, <2>7
  <2>9. Upstream' = Upstream /\ InputIsFramed(Upstream)
    BY <1>1, <1>6 DEF InputInv, Upstream
  <2> QED BY <1>1, <1>2, <1>4, <1>5, <2>8, <2>9 DEF InputInv, InputIsOrdered, InputIsFramed
<1>7. CASE ~Connected
  <2>1. ~Connected'
    BY <1>1, <1>7 DEF Connected
  <2> QED BY <1>1, <1>2, <1>4, <1>5, <2>1, Zenon DEF InputInv, InputIsOrdered
<1> QED BY <1>6, <1>7

\* removeConnectionAt: what was received and not dispatched is gone.
LEMMA CloseInv ==
  ASSUME InputInv, Close PROVE InputInv'
<1>1. /\ UNCHANGED <<unsent, typed, consumed, input>>
      /\ downEnd' = TRUE /\ turn' = <<>> /\ accepted' = FALSE
      /\ up' = <<>> /\ readBuffer' = <<>>
  BY DEF Close, clientVars, sessionVars
<1>2. UpstreamTypeOK'
  BY <1>1, CapacityAssumption DEF InputInv, UpstreamTypeOK
<1>3. ~Connected'
  BY <1>1 DEF Connected
<1> QED BY <1>1, <1>2, <1>3 DEF InputInv, InputIsOrdered

\* Everything the socket held is now in the buffer and no frame is taken.
LEMMA BufferedInv ==
  ASSUME InputInv, ~downEnd, readBuffer' = readBuffer \o up, up' = <<>>,
         UNCHANGED <<upEnd, downEnd, unsent, typed, input, consumed>>
  PROVE  InputInv'
<1>1. /\ readBuffer \in Seq(Unit) /\ up \in Seq(Unit) /\ unsent \in Seq(Unit)
      /\ readBuffer \o up \in Seq(Unit)
  BY ConcatUnits DEF InputInv, UpstreamTypeOK
<1>2. UpstreamTypeOK'
  BY <1>1, CapacityAssumption DEF InputInv, UpstreamTypeOK
<1>3. (readBuffer \o up) \o <<>> = readBuffer \o up
  BY <1>1, ConcatEmptySeq
<1>4. Upstream' = Upstream /\ Connected' = Connected
  BY <1>3 DEF Upstream, Connected
<1>5. InputIsOrdered(consumed \o input, typed)'
  BY Zenon DEF InputInv, InputIsOrdered
<1>6. Connected => InputIsFramed(Upstream)'
  BY <1>4 DEF InputInv, InputIsFramed
<1>7. Connected => InputIsOrdered(consumed \o input \o Upstream, typed)'
  BY <1>4, Zenon DEF InputInv, InputIsOrdered
<1> QED BY <1>2, <1>4, <1>5, <1>6, <1>7 DEF InputInv

\* What dispatchFrame does to the input queue.
LEMMA DispatchInputs ==
  ASSUME NEW type, NEW payload, Dispatch(type, payload)
  PROVE  \/ input' = input
         \/ input' = <<>>
         \/ type = "SessionInput" /\ input' = input \o Tail(payload)
<1>1. CASE type = "OtherVersion"
  BY <1>1 DEF Dispatch
<1>2. CASE type # "OtherVersion" /\ ~handshaken
  BY <1>2, Zenon DEF Dispatch, DispatchHandshake
<1>3. CASE handshaken /\ type = "AttachSession"
  BY <1>3, Zenon DEF Dispatch, DispatchAttach
<1>4. CASE handshaken /\ type = "DetachSession"
  BY <1>4 DEF Dispatch, DispatchDetach
<1>5. CASE handshaken /\ type = "SessionInput"
  BY <1>5, Zenon DEF Dispatch, DispatchInput
<1>6. CASE /\ type \notin {"OtherVersion", "AttachSession", "DetachSession", "SessionInput"}
           /\ handshaken
  BY <1>6, Zenon DEF Dispatch, DispatchOther
<1> QED BY <1>1, <1>2, <1>3, <1>4, <1>5, <1>6

\* tryReadDaemonIpcFrame has a whole frame.
LEMMA FrameReadyMeans ==
  ASSUME NEW bytes \in Seq(Unit), NEW ended, ReadStatus(bytes, ended) = "FrameReady"
  PROVE  /\ ~ended /\ 1 \in 1..Len(bytes) /\ bytes[1][2] \in Nat
         /\ 1 + bytes[1][2] <= Len(bytes)
<1>1. ~ended /\ bytes # <<>>
  BY DEF ReadStatus
<1>2. 1 \in 1..Len(bytes) /\ Len(bytes) \in Nat
  BY <1>1, EmptySeq
<1>3. bytes[1] \in Unit
  BY <1>2
<1>4. bytes[1][2] \in Nat
  BY <1>3 DEF Unit
<1>5. ~(Len(bytes) < 1 + bytes[1][2])
  BY <1>1 DEF ReadStatus
<1> QED BY <1>1, <1>2, <1>4, <1>5

\* A frame is dispatched: input that it carries goes to the end of the queue,
\* and was in front of all that is still on its way.
LEMMA FrameInv ==
  ASSUME InputInv, ~downEnd,
         ReadStatus(readBuffer \o up, upEnd) = "FrameReady",
         readBuffer' = AfterFrame(readBuffer \o up), up' = <<>>,
         Dispatch(FrameType(readBuffer \o up), FramePayload(readBuffer \o up)),
         UNCHANGED <<upEnd, downEnd, unsent, typed, consumed>>
  PROVE  InputInv'
<1> DEFINE bytes == readBuffer \o up
           n == bytes[1][2]
           before == consumed \o input
<1>1. /\ readBuffer \in Seq(Unit) /\ up \in Seq(Unit) /\ unsent \in Seq(Unit)
      /\ consumed \in Seq(Unit) /\ input \in Seq(Unit) /\ typed \in Nat
  BY InputIsUnits DEF InputInv, UpstreamTypeOK
<1>2. bytes \in Seq(Unit) /\ before \in Seq(Unit)
  BY <1>1, ConcatUnits
<1>3. ~upEnd /\ 1 \in 1..Len(bytes) /\ n \in Nat /\ 1 + n <= Len(bytes)
  BY <1>2, FrameReadyMeans, Zenon
<1>4. Upstream = bytes \o unsent /\ Upstream \in Seq(Unit)
  BY <1>1, <1>2, ConcatUnits DEF Upstream
<1>5. /\ \/ input' = input
         \/ input' = <<>>
         \/ bytes[1][1] = "SessionInput" /\ input' = input \o Tail(SubSeq(bytes, 2, 1 + n))
      /\ readBuffer' = SubSeq(bytes, 2 + n, Len(bytes))
  BY DispatchInputs, Zenon DEF FrameType, FramePayload, AfterFrame
<1>6. InputIsFramed(Upstream) /\ InputIsOrdered(before \o Upstream, typed)
  BY <1>3 DEF InputInv, Connected
<1> HIDE DEF bytes, n, before
<1>7. readBuffer' = Drop(bytes, 1 + n) /\ 1 + n \in 0..Len(bytes)
  <2>1. 2 + n = (1 + n) + 1 /\ 1 + n \in 0..Len(bytes)
    BY <1>2, <1>3
  <2> QED BY <1>5, <2>1 DEF Drop
<1>8. readBuffer' \in Seq(Unit)
  BY <1>2, <1>7, DropProperties
<1>9. /\ Upstream' = Drop(Upstream, 1 + n) /\ 1 + n \in 0..Len(Upstream)
      /\ Len(bytes) <= Len(Upstream)
  <2>1. Drop(bytes, 1 + n) \o unsent = Drop(bytes \o unsent, 1 + n)
    BY <1>1, <1>2, <1>7, DropConcat, Zenon
  <2>2. readBuffer' \o <<>> = readBuffer'
    BY <1>8, ConcatEmptySeq
  <2>3. Upstream' = Drop(bytes, 1 + n) \o unsent
    BY <1>7, <2>2 DEF Upstream
  <2>4. Len(bytes \o unsent) = Len(bytes) + Len(unsent) /\ Len(unsent) \in Nat /\ Len(bytes) \in Nat
    BY <1>1, <1>2, ConcatUnits
  <2> QED BY <1>3, <1>4, <2>1, <2>3, <2>4
<1>10. InputIsFramed(Upstream')
  BY <1>4, <1>6, <1>9, DropIsFramed, Zenon
<1>11. /\ input' \in Seq({"in"} \X Nat)
       /\ InputIsOrdered(consumed' \o input' \o Upstream', typed)
  <2>1. input \in Seq({"in"} \X Nat)
    BY DEF InputInv, UpstreamTypeOK
  <2>2. InputIsOrdered(before \o Drop(Upstream, 1 + n), typed)
    BY <1>2, <1>4, <1>6, <1>9, DropIsOrdered, Zenon
  <2>3. CASE input' = input
    BY <1>9, <2>1, <2>2, <2>3 DEF before
  <2>4. CASE input' = <<>>
    <3> DEFINE u == Upstream'
    <3>1. u \in Seq(Unit) /\ InputIsOrdered((consumed \o input) \o u, typed)
      BY <1>4, <1>9, <2>2, DropProperties, Zenon DEF before
    <3> HIDE DEF u
    <3>2. (consumed \o input) \o u = consumed \o (input \o u)
      <4>1. consumed \in Seq(Unit) /\ input \in Seq(Unit) /\ u \in Seq(Unit)
        BY <1>1, <3>1
      <4> QED BY <4>1, Regroup
    <3>3. /\ Len(input) \in 0..Len(input \o u) /\ Len(input) \in 0..Len(input)
          /\ input \o u \in Seq(Unit)
      BY <1>1, <3>1
    <3>4. InputIsOrdered(consumed \o Drop(input \o u, Len(input)), typed)
      BY <1>1, <3>1, <3>2, <3>3, DropIsOrdered, Zenon
    <3>5. Drop(input, Len(input)) \o u = Drop(input \o u, Len(input))
      BY <1>1, <3>1, <3>3, DropConcat, Zenon
    <3>6. Drop(input, Len(input)) = <<>>
      BY <1>1, SubSeqEmpty DEF Drop
    <3>7. <<>> \o u = u /\ consumed \o <<>> = consumed
      BY <1>1, <3>1, ConcatEmptySeq
    <3>8. InputIsOrdered((consumed \o <<>>) \o u, typed)
      BY <3>4, <3>5, <3>6, <3>7
    <3> QED BY <2>4, <3>8 DEF u
  <2>5. CASE bytes[1][1] = "SessionInput" /\ input' = input \o Tail(SubSeq(bytes, 2, 1 + n))
    <3>1. \A i \in 1..Len(bytes) : Upstream[i] = bytes[i]
      BY <1>1, <1>2, <1>4, ConcatUnits
    <3>2. /\ 1 \in DOMAIN Upstream /\ Upstream[1] = bytes[1]
      BY <1>2, <1>3, <1>4, <1>9, <3>1
    <3>3. n = 2 /\ IsInput(Upstream[1 + 2])
      BY <1>6, <2>5, <3>2 DEF InputIsFramed, n
    <3>4. 3 \in 1..Len(bytes) /\ Len(bytes) \in Nat
      BY <1>2, <1>3, <3>3
    <3>5. bytes[3] = Upstream[3] /\ bytes[3] \in Unit
      BY <1>2, <3>1, <3>4
    <3>6. bytes[3] \in {"in"} \X Nat
      BY <3>3, <3>5 DEF IsInput, Unit
    <3>7. Tail(SubSeq(bytes, 2, 1 + n)) = <<bytes[3]>>
      <4>1. /\ 2 \in 1..Len(bytes) /\ 3 \in 2..Len(bytes) /\ 1 + n = 3
        BY <3>3, <3>4
      <4>2. Tail(SubSeq(bytes, 2, 3)) = SubSeq(bytes, 2 + 1, 3)
        BY <1>2, <4>1, HeadTailOfSubSeq
      <4>3. SubSeq(bytes, 3, 3) = <<bytes[3]>>
        <5>1. 3 \in 3..Len(bytes) /\ 3 < 3 + 1
          BY <3>4
        <5>2. SubSeq(bytes, 3, 3) = <<bytes[3]>> \o SubSeq(bytes, 3 + 1, 3)
          BY <1>2, <3>4, <5>1, SubSeqRecursiveFirst
        <5>3. SubSeq(bytes, 3 + 1, 3) = <<>>
          BY <5>1, SubSeqEmpty
        <5>4. <<bytes[3]>> \in Seq(Unit)
          BY <3>5
        <5>5. <<bytes[3]>> \o <<>> = <<bytes[3]>>
          BY <5>4, ConcatEmptySeq
        <5> QED BY <5>2, <5>3, <5>5, Zenon
      <4>4. 2 + 1 = 3
        OBVIOUS
      <4> QED BY <4>1, <4>2, <4>3, <4>4, Zenon
    <3>8. input' \in Seq({"in"} \X Nat)
      <4> DEFINE one == <<bytes[3]>>
      <4>1. one \in Seq({"in"} \X Nat)
        BY <3>6
      <4> HIDE DEF one
      <4>2. input \o one \in Seq({"in"} \X Nat)
        BY <2>1, <4>1, ConcatProperties
      <4> QED BY <2>5, <3>7, <4>2, Zenon DEF one
    <3>9. <<Upstream[3]>> \o Drop(Upstream, 3) = Drop(Upstream, 2)
      <4>1. 3 \in 1..Len(Upstream) /\ Len(Upstream) \in 3..Len(Upstream)
        BY <1>4, <1>9, <3>4
      <4>2. SubSeq(Upstream, 3, Len(Upstream)) = <<Upstream[3]>> \o SubSeq(Upstream, 3 + 1, Len(Upstream))
        BY <1>4, <4>1, SubSeqRecursiveFirst
      <4> QED BY <4>2 DEF Drop
    <3>10. InputIsOrdered(before \o Drop(Upstream, 2), typed)
      <4>1. 2 \in 0..Len(Upstream)
        BY <1>4, <1>9, <3>4
      <4> QED BY <1>2, <1>4, <1>6, <4>1, DropIsOrdered, Zenon
    <3>11. consumed \o (input \o <<Upstream[3]>>) \o Drop(Upstream, 3) = before \o Drop(Upstream, 2)
      <4> DEFINE one == <<Upstream[3]>>
                 rest == Drop(Upstream, 3)
      <4>1. one \in Seq(Unit)
        BY <3>5
      <4>2. rest \in Seq(Unit)
        <5>1. 3 \in 0..Len(Upstream)
          BY <1>4, <1>9, <3>4
        <5> QED BY <1>4, <5>1, DropProperties, Zenon
      <4>3. one \o rest = Drop(Upstream, 2)
        BY <3>9
      <4> HIDE DEF one, rest
      <4>4. consumed \o (input \o one) = before \o one
        <5>1. consumed \in Seq(Unit) /\ input \in Seq(Unit)
          BY <1>1
        <5>2. (consumed \o input) \o one = consumed \o (input \o one)
          BY <4>1, <5>1, Regroup
        <5> QED BY <5>2 DEF before
      <4>5. (before \o one) \o rest = before \o (one \o rest)
        BY <1>2, <4>1, <4>2, Regroup, Zenon
      <4> QED BY <4>3, <4>4, <4>5, Zenon DEF one, rest
    <3>12. consumed' = consumed /\ input' = input \o <<Upstream[3]>> /\ Upstream' = Drop(Upstream, 3)
      <4>1. 1 + n = 3
        BY <3>3
      <4> QED BY <1>9, <2>5, <3>5, <3>7, <4>1, Zenon
    <3> QED BY <3>8, <3>10, <3>11, <3>12, Zenon
  <2> QED BY <1>5, <2>3, <2>4, <2>5, Zenon
<1>12. UpstreamTypeOK'
  BY <1>8, <1>11, CapacityAssumption DEF InputInv, UpstreamTypeOK
<1>13. InputIsOrdered(consumed' \o input', typed)
  <2>1. consumed' \o input' \in Seq(Unit) /\ Upstream' \in Seq(Unit)
    <3>1. input' \in Seq(Unit) /\ consumed' \in Seq(Unit)
      BY <1>1, <1>11, InputIsUnits
    <3>2. Upstream' \in Seq(Unit)
      BY <1>4, <1>9, DropProperties, Zenon
    <3> QED BY <3>1, <3>2, ConcatUnits
  <2>2. 0 \in 0..Len(Upstream')
    BY <2>1
  <2> QED BY <1>11, <2>1, <2>2, DropIsOrdered, Zenon
<1> QED BY <1>10, <1>11, <1>12, <1>13, Zenon DEF InputInv, InputIsOrdered, InputIsFramed

\* One round of the read loop.
LEMMA ReadFrameInv ==
  ASSUME InputInv, ReadFrame PROVE InputInv'
<1>1. ~downEnd
  BY DEF InputInv, ReadFrame, Phase
<1>2. /\ up' = <<>>
      /\ UNCHANGED <<upEnd, downEnd, unsent, typed, consumed>>
  BY DEF ReadFrame, clientVars
<1>3. CASE ReadStatus(readBuffer \o up, upEnd) = "FrameReady"
  BY <1>1, <1>2, <1>3, FrameInv DEF ReadFrame
<1>4. CASE ReadStatus(readBuffer \o up, upEnd) = "Incomplete"
  BY <1>1, <1>2, <1>4, BufferedInv DEF ReadFrame
<1>5. CASE ReadStatus(readBuffer \o up, upEnd) \notin {"FrameReady", "Incomplete"}
  BY <1>1, <1>2, <1>5, BufferedInv DEF ReadFrame
<1> QED BY <1>3, <1>4, <1>5

\* Every step of the server.
LEMMA ServerStepInv ==
  ASSUME InputInv, ServerStep \/ Shutdown PROVE InputInv'
<1> USE DEF serverVars, sessionVars, clientVars, socketVars
<1>1. CASE Accept
  BY <1>1, InputStaysInv DEF Accept
<1>2. CASE Poll
  <2>1. ~downEnd
    BY <1>2 DEF Poll, InputInv
  <2> QED BY <1>2, <2>1, InputStaysInv DEF Poll
<1>3. CASE Shutdown
  <2>1. ~downEnd
    BY <1>3 DEF Shutdown, InputInv
  <2> QED BY <1>3, <2>1, InputStaysInv DEF Shutdown
<1>4. CASE Flush
  <2>1. ~downEnd
    BY <1>4 DEF Flush, Phase, InputInv
  <2> QED BY <1>4, <2>1, InputStaysInv DEF Flush
<1>5. CASE Send
  <2>1. ~downEnd
    BY <1>5 DEF Send, Phase, InputInv
  <2> QED BY <1>5, <2>1, InputStaysInv DEF Send
<1>6. CASE AnswerDetach
  <2>1. ~downEnd
    BY <1>6 DEF AnswerDetach, Phase, InputInv
  <2> QED BY <1>6, <2>1, InputStaysInv DEF AnswerDetach
<1> QED BY <1>1, <1>2, <1>3, <1>4, <1>5, <1>6, ReadFrameInv, JoinInv, CloseInv DEF ServerStep

\* The initial state satisfies the invariant.
LEMMA InputInitInv == IpcInit => InputInv
<1> SUFFICES ASSUME IpcInit PROVE InputInv
  OBVIOUS
<1>1. UpstreamTypeOK
  BY CapacityAssumption DEF IpcInit, UpstreamTypeOK
<1>2. consumed \o input = <<>> /\ Upstream = <<>>
  <2>1. <<>> \o <<>> = <<>>
    BY <1>1, ConcatEmptySeq DEF IpcInit, UpstreamTypeOK
  <2> QED BY <2>1 DEF IpcInit, Upstream
<1>3. consumed \o input \o Upstream = <<>>
  <2>1. <<>> \o <<>> = <<>>
    BY <1>1, ConcatEmptySeq DEF IpcInit, UpstreamTypeOK
  <2> QED BY <1>2, <2>1
<1>4. /\ InputIsOrdered(consumed \o input, typed)
      /\ InputIsOrdered(consumed \o input \o Upstream, typed)
      /\ InputIsFramed(Upstream)
  BY <1>2, <1>3 DEF InputIsOrdered, InputIsFramed
<1> QED BY <1>1, <1>4 DEF IpcInit, InputInv

\* Every step of the connection preserves the invariant.
LEMMA InputInvariant == IpcSpec => []InputInv
<1>1. InputInv /\ [IpcNext]_ipcVars => InputInv'
  <2> SUFFICES ASSUME InputInv, [IpcNext]_ipcVars PROVE InputInv'
    OBVIOUS
  <2> USE DEF streamVars, serverVars, sessionVars, clientVars, socketVars
  <2>1. CASE ServerStep \/ Shutdown
    BY <2>1, ServerStepInv
  <2>2. CASE SessionStep
    <3>1. CASE Read
      BY <3>1, ReadInv
    <3>2. ASSUME NEW s \in Streams, Write(s) PROVE InputInv'
      BY <3>2, InputStaysInv DEF Write
    <3> QED BY <2>2, <3>1, <3>2 DEF SessionStep
  <2>3. CASE ClientStep
    BY <2>3, ClientStepInv
  <2>4. CASE UNCHANGED ipcVars
    BY <2>4, InputStaysInv DEF ipcVars
  <2> QED BY <2>1, <2>2, <2>3, <2>4 DEF IpcNext
<1> QED BY <1>1, InputInitInv, PTL DEF IpcSpec

\* InputIsReadInOrder for every capacity of the socket, payload limit and number
\* of requests: however the reads and writes split the frames, whenever the
\* session detaches and whoever closes first, the session reads what was typed
\* in order and nothing twice.
THEOREM InputIsInOrder == IpcSpec => []InputIsReadInOrder
<1>1. InputInv => InputIsReadInOrder
  <2> SUFFICES ASSUME InputInv, NEW i \in 1..Len(consumed), NEW j \in 1..Len(consumed), i < j
               PROVE  consumed[i][2] < consumed[j][2]
    BY DEF InputIsReadInOrder
  <2>1. consumed \in Seq({"in"} \X Nat) /\ consumed \in Seq(Unit) /\ input \in Seq(Unit)
    BY InputIsUnits DEF InputInv, UpstreamTypeOK
  <2>2. 0 \in 0..Len(input)
    BY <2>1
  <2>3. InputIsOrdered(consumed, typed)
    BY <2>1, <2>2, DropIsOrdered DEF InputInv
  <2>4. IsInput(consumed[i]) /\ IsInput(consumed[j]) /\ i \in DOMAIN consumed /\ j \in DOMAIN consumed
    BY <2>1 DEF IsInput
  <2> QED BY <2>3, <2>4 DEF InputIsOrdered
<1> QED BY <1>1, InputInvariant, PTL
=============================================================================
