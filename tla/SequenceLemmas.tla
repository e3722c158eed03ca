--------------------------- MODULE SequenceLemmas ---------------------------
(* What sequences hold after an element is appended or removed. *)
EXTENDS SequencesExt, SequenceTheorems, TLAPS

\* Appending an element adds it to the elements held.
LEMMA AppendRange ==
  ASSUME NEW S, NEW s \in Seq(S), NEW x \in S
  PROVE  /\ Append(s, x) \in Seq(S)
         /\ Range(Append(s, x)) = Range(s) \union {x}
  <1> DEFINE t == Append(s, x)
  <1>1. t \in Seq(S) /\ Len(t) = Len(s) + 1 /\ DOMAIN t = 1..Len(s) + 1
        /\ DOMAIN s = 1..Len(s) /\ Len(s) \in Nat
    OBVIOUS
  <1>2. t[Len(s) + 1] = x /\ \A i \in 1..Len(s) : t[i] = s[i]
    OBVIOUS
  <1> HIDE DEF t
  <1>3. Range(t) = Range(s) \union {x}
    <2>1. ASSUME NEW y \in Range(t) PROVE y \in Range(s) \union {x}
      <3>1. PICK i \in 1..Len(s) + 1 : y = t[i]
        BY <1>1 DEF Range
      <3>2. CASE i \in 1..Len(s)
        BY <1>1, <1>2, <3>1, <3>2 DEF Range
      <3>3. CASE i = Len(s) + 1
        BY <1>2, <3>1, <3>3
      <3> QED
        BY <1>1, <3>2, <3>3
    <2>2. ASSUME NEW y \in Range(s) \union {x} PROVE y \in Range(t)
      <3>1. CASE y \in Range(s)
        <4>1. PICK i \in 1..Len(s) : y = s[i]
          BY <1>1, <3>1 DEF Range
        <4> QED
          BY <1>1, <1>2, <4>1 DEF Range
      <3>2. CASE y = x
        <4>1. Len(s) + 1 \in DOMAIN t
          BY <1>1
        <4> QED
          BY <1>2, <3>2, <4>1 DEF Range
      <3> QED
        BY <2>2, <3>1, <3>2
    <2> QED
      BY <2>1, <2>2
  <1> QED
    BY <1>1, <1>3 DEF t

\* The elements are of the type of the sequence.
LEMMA RangeType ==
  ASSUME NEW S, NEW s \in Seq(S)
  PROVE  Range(s) \subseteq S
  BY DEF Range

\* Removing an element adds none.
LEMMA RemoveAtRange ==
  ASSUME NEW S, NEW s \in Seq(S), NEW i \in DOMAIN s
  PROVE  /\ RemoveAt(s, i) \in Seq(S)
         /\ Range(RemoveAt(s, i)) \subseteq Range(s)
  <1> DEFINE R == Range(s)
             t == SubSeq(s, 1, i - 1)
             u == SubSeq(s, i + 1, Len(s))
  <1>1. /\ Len(s) \in Nat /\ DOMAIN s = 1..Len(s) /\ i \in 1..Len(s)
        /\ i - 1 \in Int /\ i + 1 \in Int
    OBVIOUS
  <1>2. \A j \in 1..Len(s) : s[j] \in R
    BY <1>1 DEF Range
  <1>3. /\ \A j \in 1..(i - 1) : s[j] \in R
        /\ \A j \in (i + 1)..Len(s) : s[j] \in R
    BY <1>1, <1>2
  <1> HIDE DEF R
  <1>4. t \in Seq(R) /\ u \in Seq(R)
    BY <1>1, <1>3, SubSeqProperties
  <1> HIDE DEF t, u
  <1>5. t \o u \in Seq(R)
    BY <1>4, ConcatProperties
  <1>6. R \subseteq S
    BY <1>1 DEF R, Range
  <1>7. t \o u \in Seq(S)
    BY <1>5, <1>6
  <1>8. RemoveAt(s, i) = t \o u
    BY DEF RemoveAt, t, u
  <1>9. Range(t \o u) \subseteq R
    BY <1>5, RangeType
  <1> QED
    BY <1>7, <1>8, <1>9 DEF R

\* Removing the first element moves the others up.
LEMMA RemoveHead ==
  ASSUME NEW S, NEW s \in Seq(S), 1 \in DOMAIN s
  PROVE  /\ RemoveAt(s, 1) \in Seq(S)
         /\ Len(RemoveAt(s, 1)) = Len(s) - 1
         /\ \A i \in 1..(Len(s) - 1) : RemoveAt(s, 1)[i] = s[i + 1]
  <1> DEFINE t == SubSeq(s, 1, 0)
             u == SubSeq(s, 2, Len(s))
  <1>1. Len(s) \in Nat /\ DOMAIN s = 1..Len(s) /\ Len(s) >= 1
    OBVIOUS
  <1>2. /\ \A j \in 1..0 : s[j] \in S
        /\ \A j \in 2..Len(s) : s[j] \in S
    BY <1>1
  <1>3. /\ t \in Seq(S) /\ Len(t) = 0
        /\ u \in Seq(S) /\ Len(u) = Len(s) - 1
        /\ \A i \in 1..(Len(s) - 1) : u[i] = s[i + 1]
    <2>1. t \in Seq(S) /\ Len(t) = 0
      BY <1>2, SubSeqProperties
    <2>2. /\ u \in Seq(S) /\ Len(u) = IF 2 <= Len(s) THEN Len(s) - 2 + 1 ELSE 0
          /\ \A i \in 1..(Len(s) - 2 + 1) : u[i] = s[2 + i - 1]
      BY <1>1, <1>2, SubSeqProperties
    <2> HIDE DEF t, u
    <2>3. /\ 2 <= Len(s) => Len(s) - 2 + 1 = Len(s) - 1
          /\ ~ (2 <= Len(s)) => Len(s) - 1 = 0
      BY <1>1
    <2>4. Len(u) = Len(s) - 1
      <3>1. CASE 2 <= Len(s)
        BY <2>2, <2>3, <3>1
      <3>2. CASE ~ (2 <= Len(s))
        BY <2>2, <2>3, <3>2
      <3> QED
        BY <3>1, <3>2
    <2>5. ASSUME NEW i \in 1..(Len(s) - 1) PROVE u[i] = s[i + 1]
      <3>1. i \in 1..(Len(s) - 2 + 1) /\ 2 + i - 1 = i + 1
        BY <1>1
      <3> QED
        BY <2>2, <3>1
    <2> QED
      BY <2>1, <2>2, <2>4, <2>5
  <1> HIDE DEF t, u
  <1>4. /\ t \o u \in Seq(S) /\ Len(t \o u) = Len(t) + Len(u)
        /\ \A i \in 1..(Len(t) + Len(u)) :
             (t \o u)[i] = IF i <= Len(t) THEN t[i] ELSE u[i - Len(t)]
    BY <1>3, ConcatProperties
  <1>5. RemoveAt(s, 1) = t \o u
    BY DEF RemoveAt, t, u
  <1>6. Len(t \o u) = Len(s) - 1
    BY <1>1, <1>3, <1>4
  <1>7. ASSUME NEW i \in 1..(Len(s) - 1) PROVE (t \o u)[i] = s[i + 1]
    <2>1. i \in 1..(Len(t) + Len(u)) /\ ~ (i <= Len(t)) /\ i - Len(t) = i
      BY <1>1, <1>3
    <2>2. (t \o u)[i] = u[i]
      BY <1>4, <2>1
    <2> QED
      BY <1>3, <2>2
  <1>8. t \o u \in Seq(S)
    BY <1>4
  <1> QED
    BY <1>5, <1>6, <1>7, <1>8
=============================================================================
