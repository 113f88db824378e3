--------------------------- MODULE SequenceFacts ----------------------------
(* Facts about sequences whose elements need no type, and about sets of      *)
(* numbers, that several of the proofs use.                                 *)
EXTENDS Naturals, Sequences, WellFoundedInduction, TLAPS

(* s is a sequence of whatever it holds. *)
IsSeq(s) == \E T : s \in Seq(T)

(* A channel after a message was put in. *)
LEMMA Appending ==
  ASSUME NEW s, IsSeq(s), NEW e
  PROVE  /\ IsSeq(Append(s, e))
         /\ \A i \in DOMAIN s : i \in Nat /\ i \in DOMAIN Append(s, e) /\ Append(s, e)[i] = s[i]
         /\ \A i \in DOMAIN Append(s, e) :
              \/ i \in DOMAIN s /\ Append(s, e)[i] = s[i]
              \/ i = Len(s) + 1 /\ Append(s, e)[i] = e
         /\ Len(s) + 1 \in DOMAIN Append(s, e) /\ Append(s, e)[Len(s) + 1] = e
         /\ DOMAIN Append(s, e) \subseteq Nat /\ Len(s) + 1 \notin DOMAIN s
<1>1. PICK T : s \in Seq(T)
  BY DEF IsSeq
<1>2. s \in Seq(T \cup {e})
  BY <1>1
<1>3. Append(s, e) \in Seq(T \cup {e})
  BY <1>2
<1>4. IsSeq(Append(s, e))
  BY <1>3 DEF IsSeq
<1>5. DOMAIN Append(s, e) = 1..(Len(s) + 1) /\ DOMAIN s = 1..Len(s) /\ Len(s) \in Nat
  BY <1>2
<1>6. \A i \in 1..(Len(s) + 1) : Append(s, e)[i] = IF i <= Len(s) THEN s[i] ELSE e
  BY <1>2
<1> QED
  BY <1>4, <1>5, <1>6

(* Two sequences, one after the other. *)
LEMMA Joining ==
  ASSUME NEW s, IsSeq(s), NEW t, IsSeq(t)
  PROVE  /\ IsSeq(s \o t)
         /\ \A i \in DOMAIN s : i \in Nat /\ i \in DOMAIN (s \o t) /\ (s \o t)[i] = s[i]
         /\ \A i \in DOMAIN (s \o t) :
              \/ i \in DOMAIN s /\ (s \o t)[i] = s[i]
              \/ i - Len(s) \in DOMAIN t /\ (s \o t)[i] = t[i - Len(s)]
         /\ DOMAIN (s \o t) \subseteq Nat
<1>1. PICK S : s \in Seq(S)
  BY DEF IsSeq
<1>2. PICK T : t \in Seq(T)
  BY DEF IsSeq
<1>3. s \in Seq(S \cup T) /\ t \in Seq(S \cup T)
  BY <1>1, <1>2
<1>4. s \o t \in Seq(S \cup T)
  BY <1>3
<1>5. IsSeq(s \o t)
  BY <1>4 DEF IsSeq
<1>6. /\ DOMAIN (s \o t) = 1..(Len(s) + Len(t))
      /\ DOMAIN s = 1..Len(s) /\ Len(s) \in Nat /\ DOMAIN t = 1..Len(t) /\ Len(t) \in Nat
  BY <1>3
<1>7. \A i \in 1..(Len(s) + Len(t)) : (s \o t)[i] = IF i <= Len(s) THEN s[i] ELSE t[i - Len(s)]
  BY <1>3
<1> QED
  BY <1>5, <1>6, <1>7

(* A channel after its first message was taken. *)
LEMMA Taking ==
  ASSUME NEW s, IsSeq(s), s # <<>>
  PROVE  /\ IsSeq(Tail(s))
         /\ 1 \in DOMAIN s /\ Head(s) = s[1]
         /\ \A i \in Nat : i \in DOMAIN Tail(s) <=> i # 0 /\ i + 1 \in DOMAIN s
         /\ \A i \in DOMAIN Tail(s) : i \in Nat /\ Tail(s)[i] = s[i + 1]
         /\ DOMAIN s \subseteq Nat \ {0}
<1>1. PICK T : s \in Seq(T)
  BY DEF IsSeq
<1>2. Tail(s) \in Seq(T)
  BY <1>1
<1>3. IsSeq(Tail(s))
  BY <1>2 DEF IsSeq
<1>4. /\ DOMAIN s = 1..Len(s) /\ Len(s) \in Nat \ {0}
      /\ DOMAIN Tail(s) = 1..(Len(s) - 1)
  BY <1>1
<1>5. Head(s) = s[1] /\ \A i \in 1..(Len(s) - 1) : Tail(s)[i] = s[i + 1]
  BY <1>1
<1> QED
  BY <1>3, <1>4, <1>5

(* An empty channel. *)
LEMMA EmptyIsSeq == IsSeq(<<>>)
<1>1. <<>> \in Seq({})
  OBVIOUS
<1> QED
  BY <1>1 DEF IsSeq

(* A set of numbers has a least one. *)
LEMMA LeastNumber ==
  ASSUME NEW S, S \subseteq Nat, S # {}
  PROVE  \E m \in S : \A n \in S : m <= n
<1> DEFINE R == OpToRel(<, Nat)
<1>1. IsWellFoundedOn(R, Nat)
  BY NatLessThanWellFounded, Zenon
<1>2. \A x, y \in Nat : y < x => <<y, x>> \in R
  BY Zenon DEF OpToRel
<1> HIDE DEF R
<1>3. PICK m \in S : \A n \in S : ~(<<n, m>> \in R)
  BY <1>1, WFMin
<1>4. ASSUME NEW n \in S PROVE m <= n
  <2>1. m \in Nat /\ n \in Nat
    OBVIOUS
  <2>2. ~(n < m)
    BY <1>2, <1>3, <2>1
  <2> QED
    BY <2>1, <2>2
<1> QED
  BY <1>4

-----------------------------------------------------------------------------
(* Channels.  What the messages of A do to x, which D holds when nothing of  *)
(* the channel was read yet, those of R undo.                               *)

(* All that is done is undone when the channel s is read to its end. *)
Undone(s, A, R, x, D) ==
  /\ x \in D => \E k \in DOMAIN s : s[k] \in R
  /\ \A i \in DOMAIN s : s[i] \in A => \E k \in DOMAIN s : k > i /\ s[k] \in R

(* All that is done before a message of B is undone before it. *)
UndoneBefore(s, A, R, B, x, D) ==
  /\ \A j \in DOMAIN s : s[j] \in B /\ x \in D => \E k \in DOMAIN s : k < j /\ s[k] \in R
  /\ \A i, j \in DOMAIN s : i < j /\ s[i] \in A /\ s[j] \in B
       => \E k \in DOMAIN s : i < k /\ k < j /\ s[k] \in R

(* The messages of M, each once, were put into the channel s. *)
Extends(s, t, M) ==
  /\ IsSeq(s) /\ IsSeq(t)
  /\ \A i \in DOMAIN s : i \in DOMAIN t /\ t[i] = s[i]
  /\ \A i \in DOMAIN t : i \in DOMAIN s \/ (t[i] \in M /\ \A k \in DOMAIN s : k < i)
  /\ \A m \in M : \E i \in DOMAIN t : i \notin DOMAIN s /\ t[i] = m
  /\ \A i, j \in DOMAIN t : i \notin DOMAIN s /\ j \notin DOMAIN s /\ t[i] = t[j] => i = j

LEMMA Places ==
  ASSUME NEW s, IsSeq(s)
  PROVE  DOMAIN s \subseteq Nat
<1>1. PICK T : s \in Seq(T)
  BY DEF IsSeq
<1> QED
  BY <1>1

LEMMA ReadUndone ==
  ASSUME NEW s, IsSeq(s), s # <<>>, NEW A, NEW R, NEW x, NEW D, NEW E,
         Undone(s, A, R, x, D),
         x \in E => s[1] \in A \/ (x \in D /\ s[1] \notin R)
  PROVE  Undone(Tail(s), A, R, x, E)
<1> DEFINE t == Tail(s)
<1>1. /\ \A i \in Nat : i \in DOMAIN t <=> i # 0 /\ i + 1 \in DOMAIN s
      /\ \A i \in DOMAIN t : i \in Nat /\ t[i] = s[i + 1]
      /\ 1 \in DOMAIN s /\ DOMAIN s \subseteq Nat \ {0}
  BY Taking
<1> HIDE DEF t
<1>2. ASSUME NEW k \in DOMAIN s, k > 1
      PROVE  k - 1 \in DOMAIN t /\ t[k - 1] = s[k]
  <2>1. k \in Nat /\ k - 1 \in Nat /\ k - 1 # 0 /\ (k - 1) + 1 = k
    BY <1>1, <1>2
  <2> QED
    BY <1>1, <2>1
<1>3. ASSUME x \in E
      PROVE  \E k \in DOMAIN t : t[k] \in R
  <2>1. PICK k \in DOMAIN s : k > 1 /\ s[k] \in R
    <3>1. CASE s[1] \in A
      BY <1>1, <3>1 DEF Undone
    <3>2. CASE x \in D /\ s[1] \notin R
      <4>1. PICK k \in DOMAIN s : s[k] \in R
        BY <3>2 DEF Undone
      <4>2. k # 1 /\ k \in Nat \ {0}
        BY <1>1, <3>2, <4>1
      <4> QED
        BY <4>1, <4>2
    <3> QED
      BY <1>3, <3>1, <3>2
  <2> QED
    BY <1>2, <2>1
<1>4. ASSUME NEW i \in DOMAIN t, t[i] \in A
      PROVE  \E k \in DOMAIN t : k > i /\ t[k] \in R
  <2>1. i \in Nat /\ i # 0 /\ i + 1 \in DOMAIN s /\ s[i + 1] \in A
    BY <1>1, <1>4
  <2>2. PICK k \in DOMAIN s : k > i + 1 /\ s[k] \in R
    BY <2>1 DEF Undone
  <2>3. k \in Nat /\ k > 1 /\ k - 1 > i
    BY <1>1, <2>1, <2>2
  <2> QED
    BY <1>2, <2>2, <2>3
<1> QED
  BY <1>3, <1>4 DEF Undone, t

LEMMA ReadUndoneBefore ==
  ASSUME NEW s, IsSeq(s), s # <<>>, NEW A, NEW R, NEW B, NEW x, NEW D, NEW E,
         UndoneBefore(s, A, R, B, x, D),
         x \in E => s[1] \in A \/ (x \in D /\ s[1] \notin R)
  PROVE  UndoneBefore(Tail(s), A, R, B, x, E)
<1> DEFINE t == Tail(s)
<1>1. /\ \A i \in Nat : i \in DOMAIN t <=> i # 0 /\ i + 1 \in DOMAIN s
      /\ \A i \in DOMAIN t : i \in Nat /\ t[i] = s[i + 1]
      /\ 1 \in DOMAIN s /\ DOMAIN s \subseteq Nat \ {0}
  BY Taking
<1> HIDE DEF t
<1>2. ASSUME NEW k \in DOMAIN s, k > 1
      PROVE  k - 1 \in DOMAIN t /\ t[k - 1] = s[k]
  <2>1. k \in Nat /\ k - 1 \in Nat /\ k - 1 # 0 /\ (k - 1) + 1 = k
    BY <1>1, <1>2
  <2> QED
    BY <1>1, <2>1
<1>3. ASSUME NEW j \in DOMAIN t, t[j] \in B, x \in E
      PROVE  \E k \in DOMAIN t : k < j /\ t[k] \in R
  <2>1. j \in Nat /\ j # 0 /\ j + 1 \in DOMAIN s /\ s[j + 1] \in B
    BY <1>1, <1>3
  <2>2. PICK k \in DOMAIN s : k > 1 /\ k < j + 1 /\ s[k] \in R
    <3>1. CASE s[1] \in A
      <4>1. 1 < j + 1
        BY <2>1
      <4> QED
        BY <1>1, <2>1, <3>1, <4>1 DEF UndoneBefore
    <3>2. CASE x \in D /\ s[1] \notin R
      <4>1. PICK k \in DOMAIN s : k < j + 1 /\ s[k] \in R
        BY <2>1, <3>2 DEF UndoneBefore
      <4>2. k # 1 /\ k \in Nat \ {0}
        BY <1>1, <3>2, <4>1
      <4> QED
        BY <4>1, <4>2
    <3> QED
      BY <1>3, <3>1, <3>2
  <2>3. k \in Nat /\ k - 1 < j
    BY <1>1, <2>1, <2>2
  <2> QED
    BY <1>2, <2>2, <2>3
<1>4. ASSUME NEW i \in DOMAIN t, NEW j \in DOMAIN t, i < j, t[i] \in A, t[j] \in B
      PROVE  \E k \in DOMAIN t : i < k /\ k < j /\ t[k] \in R
  <2>1. /\ i \in Nat /\ i # 0 /\ i + 1 \in DOMAIN s /\ s[i + 1] \in A
        /\ j \in Nat /\ j # 0 /\ j + 1 \in DOMAIN s /\ s[j + 1] \in B
        /\ i + 1 < j + 1
    BY <1>1, <1>4
  <2>2. PICK k \in DOMAIN s : i + 1 < k /\ k < j + 1 /\ s[k] \in R
    BY <2>1 DEF UndoneBefore
  <2>3. k \in Nat /\ k > 1 /\ i < k - 1 /\ k - 1 < j
    BY <1>1, <2>1, <2>2
  <2> QED
    BY <1>2, <2>2, <2>3
<1> QED
  BY <1>3, <1>4 DEF UndoneBefore, t

LEMMA FirstUndone ==
  ASSUME NEW s, IsSeq(s), s # <<>>, NEW A, NEW R, NEW B, NEW x, NEW D,
         UndoneBefore(s, A, R, B, x, D), s[1] \in B
  PROVE  x \notin D
<1> SUFFICES ASSUME x \in D PROVE FALSE
  OBVIOUS
<1>1. 1 \in DOMAIN s /\ DOMAIN s \subseteq Nat \ {0}
  BY Taking
<1>2. PICK k \in DOMAIN s : k < 1
  BY <1>1 DEF UndoneBefore
<1> QED
  BY <1>1, <1>2

LEMMA KeptUndone ==
  ASSUME NEW s, NEW t, NEW M, Extends(s, t, M), NEW A, NEW R, NEW x, NEW D,
         Undone(s, A, R, x, D), \A m \in M : m \notin A
  PROVE  Undone(t, A, R, x, D)
<1>1. ASSUME NEW i \in DOMAIN t, t[i] \in A
      PROVE  \E k \in DOMAIN t : k > i /\ t[k] \in R
  <2>1. i \in DOMAIN s /\ s[i] \in A
    BY <1>1 DEF Extends
  <2>2. PICK k \in DOMAIN s : k > i /\ s[k] \in R
    BY <2>1 DEF Undone
  <2> QED
    BY <2>2 DEF Extends
<1>2. x \in D => \E k \in DOMAIN t : t[k] \in R
  BY DEF Undone, Extends
<1> QED
  BY <1>1, <1>2 DEF Undone

LEMMA NowUndone ==
  ASSUME NEW s, NEW t, NEW M, Extends(s, t, M), NEW A, NEW R, NEW x, NEW D,
         \E m \in M : m \in R, \A m \in M : m \notin A
  PROVE  Undone(t, A, R, x, D)
<1>1. PICK k \in DOMAIN t : k \notin DOMAIN s /\ t[k] \in R
  BY DEF Extends
<1>2. DOMAIN s \subseteq Nat /\ DOMAIN t \subseteq Nat
  BY Places DEF Extends
<1>3. \A i \in DOMAIN t : t[i] \in A => i \in DOMAIN s
  BY DEF Extends
<1>4. \A i \in DOMAIN s : k > i
  BY <1>1, <1>2 DEF Extends
<1> QED
  BY <1>1, <1>3, <1>4 DEF Undone

LEMMA KeptUndoneBefore ==
  ASSUME NEW s, NEW t, NEW M, Extends(s, t, M), NEW A, NEW R, NEW B, NEW x, NEW D,
         UndoneBefore(s, A, R, B, x, D),
         (\E m \in M : m \in B) => Undone(s, A, R, x, D),
         \A m, n \in M : m \in A /\ n \in B => m = n
  PROVE  UndoneBefore(t, A, R, B, x, D)
<1>1. DOMAIN s \subseteq Nat /\ DOMAIN t \subseteq Nat
  BY Places DEF Extends
<1>2. /\ \A i \in DOMAIN s : i \in DOMAIN t /\ t[i] = s[i]
      /\ \A i \in DOMAIN t : i \in DOMAIN s \/ (t[i] \in M /\ \A k \in DOMAIN s : k < i)
      /\ \A i, j \in DOMAIN t : i \notin DOMAIN s /\ j \notin DOMAIN s /\ t[i] = t[j] => i = j
  BY DEF Extends
<1>3. ASSUME NEW j \in DOMAIN t, t[j] \in B, x \in D
      PROVE  \E k \in DOMAIN t : k < j /\ t[k] \in R
  <2>1. CASE j \in DOMAIN s
    BY <1>2, <1>3, <2>1 DEF UndoneBefore
  <2>2. CASE j \notin DOMAIN s
    <3>1. PICK k \in DOMAIN s : s[k] \in R
      BY <1>2, <1>3, <2>2 DEF Undone
    <3> QED
      BY <1>2, <2>2, <3>1
  <2> QED
    BY <2>1, <2>2
<1>4. ASSUME NEW i \in DOMAIN t, NEW j \in DOMAIN t, i < j, t[i] \in A, t[j] \in B
      PROVE  \E k \in DOMAIN t : i < k /\ k < j /\ t[k] \in R
  <2>1. CASE i \in DOMAIN s /\ j \in DOMAIN s
    BY <1>2, <1>4, <2>1 DEF UndoneBefore
  <2>2. CASE i \in DOMAIN s /\ j \notin DOMAIN s
    <3>1. PICK k \in DOMAIN s : k > i /\ s[k] \in R
      BY <1>2, <1>4, <2>2 DEF Undone
    <3>2. i < k
      BY <1>1, <3>1
    <3> QED
      BY <1>2, <2>2, <3>1, <3>2
  <2>3. CASE i \notin DOMAIN s /\ j \in DOMAIN s
    <3>1. j < i
      BY <1>2, <2>3
    <3> QED
      BY <1>1, <1>4, <3>1
  <2>4. CASE i \notin DOMAIN s /\ j \notin DOMAIN s
    <3>1. i = j
      BY <1>2, <1>4, <2>4
    <3> QED
      BY <1>1, <1>4, <3>1
  <2> QED
    BY <2>1, <2>2, <2>3, <2>4
<1> QED
  BY <1>3, <1>4 DEF UndoneBefore

LEMMA ExtendingByNone ==
  ASSUME NEW s, IsSeq(s)
  PROVE  Extends(s, s, {})
BY DEF Extends

LEMMA ExtendingByOne ==
  ASSUME NEW s, IsSeq(s), NEW m
  PROVE  Extends(s, Append(s, m), {m})
<1> DEFINE t == Append(s, m)
<1>1. PICK T : s \in Seq(T)
  BY DEF IsSeq
<1>2. DOMAIN s = 1..Len(s) /\ Len(s) \in Nat
  BY <1>1
<1>3. /\ IsSeq(t)
      /\ \A i \in DOMAIN s : i \in DOMAIN t /\ t[i] = s[i]
      /\ \A i \in DOMAIN t : i \in DOMAIN s \/ (i = Len(s) + 1 /\ t[i] = m)
      /\ Len(s) + 1 \in DOMAIN t /\ t[Len(s) + 1] = m /\ Len(s) + 1 \notin DOMAIN s
  BY Appending
<1> HIDE DEF t
<1>4. \A k \in DOMAIN s : k < Len(s) + 1
  BY <1>2
<1> QED
  BY <1>3, <1>4 DEF Extends, t

LEMMA ExtendingByList ==
  ASSUME NEW s, IsSeq(s), NEW r, IsSeq(r),
         \A i, j \in DOMAIN r : r[i] = r[j] => i = j
  PROVE  Extends(s, s \o r, {r[i] : i \in DOMAIN r})
<1> DEFINE t == s \o r
<1>1. PICK S : s \in Seq(S)
  BY DEF IsSeq
<1>2. PICK T : r \in Seq(T)
  BY DEF IsSeq
<1>3. s \in Seq(S \cup T) /\ r \in Seq(S \cup T)
  BY <1>1, <1>2
<1>4. /\ DOMAIN t = 1..(Len(s) + Len(r))
      /\ DOMAIN s = 1..Len(s) /\ Len(s) \in Nat /\ DOMAIN r = 1..Len(r) /\ Len(r) \in Nat
  BY <1>3
<1>5. \A i \in 1..(Len(s) + Len(r)) : t[i] = IF i <= Len(s) THEN s[i] ELSE r[i - Len(s)]
  BY <1>3
<1>6. IsSeq(t)
  BY Joining
<1> HIDE DEF t
<1>7. \A i \in DOMAIN s : i \in DOMAIN t /\ t[i] = s[i]
  BY <1>4, <1>5
<1>8. ASSUME NEW i \in DOMAIN t, i \notin DOMAIN s
      PROVE  i - Len(s) \in DOMAIN r /\ t[i] = r[i - Len(s)] /\ \A k \in DOMAIN s : k < i
  BY <1>4, <1>5, <1>8
<1>9. ASSUME NEW i \in DOMAIN r
      PROVE  /\ i + Len(s) \in DOMAIN t /\ i + Len(s) \notin DOMAIN s
             /\ t[i + Len(s)] = r[i]
  BY <1>4, <1>5, <1>9
<1>10. ASSUME NEW i \in DOMAIN t, NEW j \in DOMAIN t, i \notin DOMAIN s, j \notin DOMAIN s,
              t[i] = t[j]
       PROVE  i = j
  <2>1. i - Len(s) = j - Len(s)
    BY <1>8, <1>10
  <2> QED
    BY <1>4, <1>10, <2>1
<1> QED
  BY <1>6, <1>7, <1>8, <1>9, <1>10 DEF Extends, t
=============================================================================
