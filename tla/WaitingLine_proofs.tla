------------------------ MODULE WaitingLine_proofs ------------------------
(***************************************************************************)
(* What the list operations of a waiting line do to the ids that wait, for *)
(* every list.                                                             *)
(***************************************************************************)
EXTENDS WaitingLine, SequenceTheorems, TLAPS

(* Taking an id out of the waiting line leaves a waiting line.              *)
LEMMA WithoutType ==
  ASSUME NEW S, NEW q \in Seq(S), NEW t
  PROVE  Without(q, t) \in Seq(S)
<1>1. CASE \E i \in DOMAIN q : q[i] = t
  <2> DEFINE i == CHOOSE k \in DOMAIN q : q[k] = t
  <2>1. i \in DOMAIN q
    BY <1>1
  <2>2. i \in 1..Len(q) /\ Len(q) \in Nat /\ \A k \in 1..Len(q) : q[k] \in S
    BY <2>1, LenProperties, ElementOfSeq
  <2>3. Without(q, t) = SubSeq(q, 1, i - 1) \o SubSeq(q, i + 1, Len(q))
    BY <1>1 DEF Without
  <2> HIDE DEF i
  <2>4. SubSeq(q, 1, i - 1) \in Seq(S)
    <3>1. 1 \in Int /\ i - 1 \in Int /\ \A k \in 1..(i - 1) : q[k] \in S
      BY <2>2
    <3> QED
      BY ONLY <3>1, SubSeqProperties
  <2>5. SubSeq(q, i + 1, Len(q)) \in Seq(S)
    <3>1. i + 1 \in Int /\ Len(q) \in Int /\ \A k \in (i + 1)..Len(q) : q[k] \in S
      BY <2>2
    <3> QED
      BY ONLY <3>1, SubSeqProperties
  <2> QED
    BY <2>3, <2>4, <2>5, ConcatProperties
<1>2. CASE ~ \E i \in DOMAIN q : q[i] = t
  BY <1>2 DEF Without
<1> QED
  BY <1>1, <1>2

(* The FIFO as a sequence: no step brings an id in twice.                   *)
NoRepeat(q)  == \A i, k \in DOMAIN q : q[i] = q[k] => i = k
Occurs(q, t) == \E i \in DOMAIN q : q[i] = t

(* A drain takes out the head and nothing else.                           *)
LEMMA TailLine ==
  ASSUME NEW S, NEW q \in Seq(S), q # <<>>, NoRepeat(q)
  PROVE  /\ NoRepeat(Tail(q)) /\ Occurs(q, Head(q))
         /\ \A t : Occurs(Tail(q), t) <=> Occurs(q, t) /\ t # Head(q)
<1>1. /\ Tail(q) \in Seq(S) /\ Len(Tail(q)) = Len(q) - 1
      /\ \A i \in 1..Len(Tail(q)) : Tail(q)[i] = q[i + 1]
  BY HeadTailProperties
<1>2. /\ DOMAIN Tail(q) = 1..Len(Tail(q)) /\ DOMAIN q = 1..Len(q)
      /\ Len(q) \in Nat /\ Len(q) # 0
  BY <1>1, LenProperties, EmptySeq
<1>3. Head(q) = q[1] /\ 1 \in DOMAIN q
  BY <1>2
<1>4. \A i \in DOMAIN Tail(q) : i + 1 \in DOMAIN q /\ i + 1 # 1 /\ Tail(q)[i] = q[i + 1]
  BY <1>1, <1>2
<1>5. \A i \in DOMAIN q : i # 1 => i - 1 \in DOMAIN Tail(q) /\ Tail(q)[i - 1] = q[i]
  BY <1>1, <1>2
<1>6. \A t : Occurs(Tail(q), t) => Occurs(q, t) /\ t # Head(q)
  BY <1>3, <1>4 DEF NoRepeat, Occurs
<1>7. \A t : Occurs(q, t) /\ t # Head(q) => Occurs(Tail(q), t)
  BY <1>3, <1>5 DEF Occurs
<1> QED
  BY <1>1, <1>2, <1>3, <1>4, <1>6, <1>7 DEF NoRepeat, Occurs

(* Parking adds one id.                                                   *)
LEMMA AppendLine ==
  ASSUME NEW S, NEW q \in Seq(S), NEW t \in S, NoRepeat(q), ~ Occurs(q, t)
  PROVE  /\ NoRepeat(Append(q, t))
         /\ \A u : Occurs(Append(q, t), u) <=> Occurs(q, u) \/ u = t
<1>1. /\ Append(q, t) \in Seq(S) /\ Len(Append(q, t)) = Len(q) + 1
      /\ \A i \in 1..Len(q) : Append(q, t)[i] = q[i]
      /\ Append(q, t)[Len(q) + 1] = t
  BY AppendProperties
<1>2. /\ DOMAIN Append(q, t) = 1..(Len(q) + 1) /\ DOMAIN q = 1..Len(q) /\ Len(q) \in Nat
  BY <1>1, LenProperties
<1> QED
  BY <1>1, <1>2 DEF NoRepeat, Occurs

(* A removal takes out its id and nothing else.                           *)
LEMMA WithoutLine ==
  ASSUME NEW S, NEW q \in Seq(S), NEW t, NoRepeat(q)
  PROVE  /\ NoRepeat(Without(q, t))
         /\ \A u : Occurs(Without(q, t), u) <=> Occurs(q, u) /\ u # t
<1>1. CASE Occurs(q, t)
  <2> DEFINE i == CHOOSE k \in DOMAIN q : q[k] = t
             a == SubSeq(q, 1, i - 1)
             b == SubSeq(q, i + 1, Len(q))
  <2>1. i \in DOMAIN q /\ q[i] = t
    BY <1>1 DEF Occurs
  <2>2. /\ DOMAIN q = 1..Len(q) /\ Len(q) \in Nat /\ i \in 1..Len(q)
        /\ \A k \in 1..Len(q) : q[k] \in S
    BY <2>1, LenProperties, ElementOfSeq
  <2>3. Without(q, t) = a \o b
    BY <1>1 DEF Without, Occurs
  <2> HIDE DEF i
  <2>4. /\ a \in Seq(S) /\ Len(a) = i - 1
        /\ \A k \in 1..(i - 1) : a[k] = q[k]
    <3>1. 1 \in Int /\ i - 1 \in Int /\ \A k \in 1..(i - 1) : q[k] \in S
      BY <2>2
    <3>2. /\ a \in Seq(S)
          /\ Len(a) = IF 1 <= i - 1 THEN (i - 1) - 1 + 1 ELSE 0
          /\ \A k \in 1..((i - 1) - 1 + 1) : a[k] = q[1 + k - 1]
      BY ONLY <3>1, SubSeqProperties
    <3> QED
      BY <2>2, <3>2
  <2>5. /\ b \in Seq(S) /\ Len(b) = Len(q) - i
        /\ \A k \in 1..(Len(q) - i) : b[k] = q[i + k]
    <3>1. i + 1 \in Int /\ Len(q) \in Int /\ \A k \in (i + 1)..Len(q) : q[k] \in S
      BY <2>2
    <3>2. /\ b \in Seq(S)
          /\ Len(b) = IF i + 1 <= Len(q) THEN Len(q) - (i + 1) + 1 ELSE 0
          /\ \A k \in 1..(Len(q) - (i + 1) + 1) : b[k] = q[(i + 1) + k - 1]
      BY ONLY <3>1, SubSeqProperties
    <3> HIDE DEF b
    <3>3. i \in Int /\ Len(q) \in Int /\ i <= Len(q)
      BY <2>2
    <3>4. Len(q) - (i + 1) + 1 = Len(q) - i
      BY <3>3
    <3>5. Len(b) = Len(q) - i
      BY <3>2, <3>3
    <3>6. ASSUME NEW k \in 1..(Len(q) - i) PROVE b[k] = q[i + k]
      <4>1. b[k] = q[(i + 1) + k - 1]
        BY <3>2, <3>4
      <4>2. (i + 1) + k - 1 = i + k
        BY <3>3
      <4> QED
        BY <4>1, <4>2
    <3> QED
      BY <3>2, <3>5, <3>6
  <2> HIDE DEF a, b
  <2> DEFINE n == Len(q)
             f(k) == IF k < i THEN k ELSE k + 1
  <2>6. /\ a \o b \in Seq(S) /\ Len(a \o b) = n - 1
        /\ \A k \in 1..(n - 1) : (a \o b)[k] = q[f(k)]
    <3>1. /\ a \o b \in Seq(S) /\ Len(a \o b) = Len(a) + Len(b)
          /\ \A k \in 1..(Len(a) + Len(b)) :
               (a \o b)[k] = IF k <= Len(a) THEN a[k] ELSE b[k - Len(a)]
      BY <2>4, <2>5, ConcatProperties
    <3>2. i \in Int /\ n \in Int /\ Len(a) = i - 1 /\ Len(b) = n - i
      BY <2>2, <2>4, <2>5
    <3>3. Len(a) + Len(b) = n - 1
      BY <3>2
    <3>4. ASSUME NEW k \in 1..(n - 1) PROVE (a \o b)[k] = q[f(k)]
      <4>1. CASE k < i
        <5>1. k \in 1..(i - 1) /\ k <= Len(a)
          BY <3>2, <4>1
        <5> QED
          BY <2>4, <3>1, <3>3, <4>1, <5>1
      <4>2. CASE ~ (k < i)
        <5>1. k - (i - 1) \in 1..(n - i) /\ ~ (k <= Len(a)) /\ i + (k - (i - 1)) = k + 1
          BY <3>2, <4>2
        <5>2. (a \o b)[k] = b[k - (i - 1)]
          BY <3>1, <3>2, <3>3, <5>1
        <5>3. b[k - (i - 1)] = q[k + 1]
          BY <2>5, <5>1
        <5> QED
          BY <4>2, <5>2, <5>3
      <4> QED
        BY <4>1, <4>2
    <3> QED
      BY <3>1, <3>3, <3>4
  <2>7. DOMAIN (a \o b) = 1..(n - 1) /\ n \in Int /\ i \in Int /\ 1 <= i /\ i <= n
        /\ DOMAIN q = 1..n
    <3>1. DOMAIN (a \o b) = 1..(n - 1)
      <4> HIDE DEF n, f
      <4> QED
        BY <2>6, LenProperties
    <3>2. n \in Int /\ i \in Int /\ 1 <= i /\ i <= n /\ DOMAIN q = 1..n
      BY <2>2
    <3> QED
      BY <3>1, <3>2
  <2>f1. \A k \in 1..(n - 1) : f(k) \in 1..n /\ f(k) # i
    <3> HIDE DEF n
    <3> QED
      BY <2>7
  <2>f2. \A k, m \in 1..(n - 1) : f(k) = f(m) => k = m
    <3> HIDE DEF n
    <3> QED
      BY <2>7
  <2>f3. ASSUME NEW k \in 1..n, k # i PROVE \E m \in 1..(n - 1) : f(m) = k
    <3> HIDE DEF n
    <3>1. CASE k < i
      <4>1. k \in 1..(n - 1) /\ f(k) = k
        BY <2>7, <3>1
      <4> QED
        BY <4>1
    <3>2. CASE k > i
      <4>1. k - 1 \in 1..(n - 1)
        BY <2>7, <3>2
      <4>2. ~ (k - 1 < i) /\ (k - 1) + 1 = k
        BY <2>7, <3>2
      <4>3. f(k - 1) = k
        BY <4>2
      <4> QED
        BY <4>1, <4>3
    <3> QED
      BY <2>7, <2>f3, <3>1, <3>2
  <2> HIDE DEF f, n
  <2>8. NoRepeat(a \o b)
    <3>1. ASSUME NEW k \in 1..(n - 1), NEW m \in 1..(n - 1), (a \o b)[k] = (a \o b)[m]
          PROVE  k = m
      <4>1. q[f(k)] = q[f(m)] /\ f(k) \in DOMAIN q /\ f(m) \in DOMAIN q
        BY <2>6, <2>7, <2>f1, <3>1
      <4>2. f(k) = f(m)
        BY <4>1 DEF NoRepeat
      <4> QED
        BY <2>f2, <4>2
    <3> QED
      BY <2>7, <3>1 DEF NoRepeat
  <2>9. ASSUME NEW u, Occurs(a \o b, u) PROVE Occurs(q, u) /\ u # t
    BY <2>1, <2>6, <2>7, <2>f1, <2>9 DEF NoRepeat, Occurs
  <2>10. ASSUME NEW u, Occurs(q, u), u # t PROVE Occurs(a \o b, u)
    <3>1. PICK k \in 1..n : q[k] = u
      BY <2>7, <2>10 DEF Occurs
    <3>2. PICK m \in 1..(n - 1) : f(m) = k
      BY <2>1, <2>f3, <2>10, <3>1
    <3> QED
      BY <2>6, <2>7, <3>1, <3>2 DEF Occurs
  <2> QED
    BY <2>3, <2>8, <2>9, <2>10
<1>2. CASE ~ Occurs(q, t)
  BY <1>2 DEF Without, Occurs
<1> QED
  BY <1>1, <1>2
=============================================================================
