--------------------------- MODULE SequenceFacts ---------------------------
(***************************************************************************)
(* What a queue or a list of statements holds, said without positions:     *)
(* whether a value occurs, whether it occurs at most once, and whether all *)
(* occurrences of one value come before those of another; and how the      *)
(* operations on sequences change that. The proofs about the queues of the *)
(* FX thread work with these facts alone. The second half says the same of *)
(* values that belong to a set, for the bus of the media player.           *)
(***************************************************************************)
EXTENDS Integers, Sequences, TLAPS

Has(q, x) == \E i \in 1 .. Len(q) : q[i] = x
Single(q, x) == \A i, j \in 1 .. Len(q) : q[i] = x /\ q[j] = x => i = j
Before(q, x, y) == \A i, j \in 1 .. Len(q) : q[i] = x /\ q[j] = y => i < j

\* The positions of the three operations.
LEMMA AppendAt ==
  ASSUME NEW S, NEW q \in Seq(S), NEW e \in S
  PROVE  /\ Append(q, e) \in Seq(S) /\ Len(q) \in Nat /\ Len(Append(q, e)) = Len(q) + 1
         /\ Append(q, e)[Len(q) + 1] = e
         /\ \A i \in 1 .. Len(q) : Append(q, e)[i] = q[i]
OBVIOUS

LEMMA TailAt ==
  ASSUME NEW S, NEW q \in Seq(S), q # <<>>
  PROVE  /\ Tail(q) \in Seq(S) /\ Head(q) \in S /\ Head(q) = q[1]
         /\ Len(q) \in Nat /\ Len(q) >= 1 /\ Len(Tail(q)) = Len(q) - 1
         /\ \A i \in 1 .. Len(q) - 1 : Tail(q)[i] = q[i + 1]
OBVIOUS

LEMMA ConcatAt ==
  ASSUME NEW S, NEW p \in Seq(S), NEW q \in Seq(S)
  PROVE  /\ p \o q \in Seq(S) /\ Len(p) \in Nat /\ Len(q) \in Nat
         /\ Len(p \o q) = Len(p) + Len(q)
         /\ \A i \in 1 .. Len(p) : (p \o q)[i] = p[i]
         /\ \A i \in 1 .. Len(q) : (p \o q)[Len(p) + i] = q[i]
         /\ \A i \in 1 .. Len(p \o q) : i > Len(p) => (p \o q)[i] = q[i - Len(p)]
OBVIOUS

LEMMA EmptyHas == \A x, y : ~Has(<<>>, x) /\ Single(<<>>, x) /\ Before(<<>>, x, y)
BY DEF Has, Single, Before

LEMMA OneHas ==
  ASSUME NEW a
  PROVE  \A x : (Has(<<a>>, x) <=> x = a) /\ Single(<<a>>, x)
BY DEF Has, Single

LEMMA TwoHas ==
  ASSUME NEW a, NEW b
  PROVE  /\ \A x : Has(<<a, b>>, x) <=> x = a \/ x = b
         /\ a # b => Before(<<a, b>>, a, b) /\ \A x : Single(<<a, b>>, x)
BY DEF Has, Single, Before

\* A value joins the end of a queue.
LEMMA AppendHas ==
  ASSUME NEW S, NEW q \in Seq(S), NEW e \in S, NEW x
  PROVE  /\ Has(Append(q, e), x) <=> Has(q, x) \/ e = x
         /\ Single(q, x) /\ (e = x => ~Has(q, x)) => Single(Append(q, e), x)
         /\ \A y : Before(q, x, y) /\ x # y /\ (e = x => ~Has(q, y))
                     => Before(Append(q, e), x, y)
<1> DEFINE r == Append(q, e)
<1>1. /\ Len(q) \in Nat /\ Len(r) = Len(q) + 1 /\ r[Len(q) + 1] = e
      /\ \A i \in 1 .. Len(q) : r[i] = q[i]
  BY AppendAt
<1> HIDE DEF r
<1>2. Has(r, x) <=> Has(q, x) \/ e = x
  BY <1>1 DEF Has
<1>3. Single(q, x) /\ (e = x => ~Has(q, x)) => Single(r, x)
  BY <1>1 DEF Has, Single
<1>4. ASSUME NEW y, Before(q, x, y), x # y, e = x => ~Has(q, y) PROVE Before(r, x, y)
  BY <1>1, <1>4 DEF Has, Before
<1> QED BY <1>2, <1>3, <1>4 DEF r

\* The head of a queue is taken.
LEMMA TailHas ==
  ASSUME NEW S, NEW q \in Seq(S), q # <<>>, NEW x
  PROVE  /\ Has(q, x) <=> Head(q) = x \/ Has(Tail(q), x)
         /\ Single(q, x) => Single(Tail(q), x) /\ (Head(q) = x => ~Has(Tail(q), x))
         /\ \A y : Before(q, x, y) => Before(Tail(q), x, y) /\ (Head(q) = y => ~Has(q, x))
<1> DEFINE r == Tail(q)
<1>1. /\ Head(q) = q[1] /\ Len(q) \in Nat /\ Len(q) >= 1 /\ Len(r) = Len(q) - 1
      /\ \A i \in 1 .. Len(q) - 1 : r[i] = q[i + 1]
  BY TailAt
<1> HIDE DEF r
<1>2. Has(q, x) <=> Head(q) = x \/ Has(r, x)
  <2>1. Has(r, x) => Has(q, x)
    BY <1>1 DEF Has
  <2>2. Head(q) = x => Has(q, x)
    BY <1>1 DEF Has
  <2>3. ASSUME Has(q, x), Head(q) # x PROVE Has(r, x)
    <3>1. PICK i \in 1 .. Len(q) : q[i] = x
      BY <2>3 DEF Has
    <3>2. i - 1 \in 1 .. Len(r) /\ r[i - 1] = x
      BY <1>1, <2>3, <3>1
    <3> QED BY <3>2 DEF Has
  <2> QED BY <2>1, <2>2, <2>3
<1>3. ASSUME Single(q, x) PROVE Single(r, x) /\ (Head(q) = x => ~Has(r, x))
  <2>1. ASSUME NEW i \in 1 .. Len(r), NEW j \in 1 .. Len(r), r[i] = x, r[j] = x PROVE i = j
    <3>1. i + 1 \in 1 .. Len(q) /\ j + 1 \in 1 .. Len(q) /\ q[i + 1] = x /\ q[j + 1] = x
      BY <1>1, <2>1
    <3>2. i + 1 = j + 1
      BY <3>1, <1>3 DEF Single
    <3> QED BY <3>2
  <2>2. ASSUME Head(q) = x, NEW i \in 1 .. Len(r), r[i] = x PROVE FALSE
    <3>1. 1 \in 1 .. Len(q) /\ i + 1 \in 1 .. Len(q) /\ q[i + 1] = x /\ q[1] = x
      BY <1>1, <2>2
    <3>2. i + 1 = 1
      BY <3>1, <1>3 DEF Single
    <3> QED BY <3>2
  <2> QED BY <2>1, <2>2 DEF Single, Has
<1>4. ASSUME NEW y, Before(q, x, y) PROVE Before(r, x, y) /\ (Head(q) = y => ~Has(q, x))
  <2>1. ASSUME NEW i \in 1 .. Len(r), NEW j \in 1 .. Len(r), r[i] = x, r[j] = y PROVE i < j
    <3>1. i + 1 \in 1 .. Len(q) /\ j + 1 \in 1 .. Len(q) /\ q[i + 1] = x /\ q[j + 1] = y
      BY <1>1, <2>1
    <3>2. i + 1 < j + 1
      BY <3>1, <1>4 DEF Before
    <3> QED BY <3>2
  <2>2. ASSUME Head(q) = y, NEW i \in 1 .. Len(q), q[i] = x PROVE FALSE
    <3>1. i < 1
      BY <1>1, <2>2, <1>4 DEF Before
    <3> QED BY <3>1
  <2> QED BY <2>1, <2>2 DEF Before, Has
<1> QED BY <1>2, <1>3, <1>4 DEF r

\* Statements are put in front of the others.
LEMMA ConcatHas ==
  ASSUME NEW S, NEW p \in Seq(S), NEW q \in Seq(S), NEW x
  PROVE  /\ Has(p \o q, x) <=> Has(p, x) \/ Has(q, x)
         /\ Single(q, x) /\ ~Has(p, x) => Single(p \o q, x)
         /\ Single(p, x) /\ ~Has(q, x) => Single(p \o q, x)
         /\ \A y : Before(q, x, y) /\ ~Has(p, y) => Before(p \o q, x, y)
<1> DEFINE r == p \o q
<1>1. /\ Len(p) \in Nat /\ Len(q) \in Nat /\ Len(r) = Len(p) + Len(q)
      /\ \A i \in 1 .. Len(p) : r[i] = p[i]
      /\ \A i \in 1 .. Len(q) : r[Len(p) + i] = q[i]
      /\ \A i \in 1 .. Len(r) : i > Len(p) => r[i] = q[i - Len(p)]
  BY ConcatAt
<1> HIDE DEF r
\* A position of r is one of p or one of q.
<1>2. \A i \in 1 .. Len(r) : \/ i \in 1 .. Len(p) /\ r[i] = p[i]
                             \/ i - Len(p) \in 1 .. Len(q) /\ r[i] = q[i - Len(p)]
  BY <1>1
<1>3. Has(r, x) <=> Has(p, x) \/ Has(q, x)
  <2>1. Has(r, x) => Has(p, x) \/ Has(q, x)
    BY <1>2 DEF Has
  <2>2. Has(p, x) => Has(r, x)
    BY <1>1 DEF Has
  <2>3. ASSUME Has(q, x) PROVE Has(r, x)
    <3>1. PICK i \in 1 .. Len(q) : q[i] = x
      BY <2>3 DEF Has
    <3>2. Len(p) + i \in 1 .. Len(r) /\ r[Len(p) + i] = x
      BY <1>1, <3>1
    <3> QED BY <3>2 DEF Has
  <2> QED BY <2>1, <2>2, <2>3
<1>4. ASSUME Single(q, x), ~Has(p, x) PROVE Single(r, x)
  <2> SUFFICES ASSUME NEW i \in 1 .. Len(r), NEW j \in 1 .. Len(r), r[i] = x, r[j] = x
               PROVE  i = j
    BY DEF Single
  <2>1. i - Len(p) \in 1 .. Len(q) /\ q[i - Len(p)] = x
    BY <1>2, <1>4 DEF Has
  <2>2. j - Len(p) \in 1 .. Len(q) /\ q[j - Len(p)] = x
    BY <1>2, <1>4 DEF Has
  <2>3. i - Len(p) = j - Len(p)
    BY <2>1, <2>2, <1>4 DEF Single
  <2> QED BY <2>3, <1>1
<1>5. ASSUME Single(p, x), ~Has(q, x) PROVE Single(r, x)
  <2> SUFFICES ASSUME NEW i \in 1 .. Len(r), NEW j \in 1 .. Len(r), r[i] = x, r[j] = x
               PROVE  i = j
    BY DEF Single
  <2>1. i \in 1 .. Len(p) /\ p[i] = x /\ j \in 1 .. Len(p) /\ p[j] = x
    BY <1>2, <1>5 DEF Has
  <2> QED BY <2>1, <1>5 DEF Single
<1>6. ASSUME NEW y, Before(q, x, y), ~Has(p, y) PROVE Before(r, x, y)
  <2> SUFFICES ASSUME NEW i \in 1 .. Len(r), NEW j \in 1 .. Len(r), r[i] = x, r[j] = y
               PROVE  i < j
    BY DEF Before
  <2>1. j - Len(p) \in 1 .. Len(q) /\ q[j - Len(p)] = y
    BY <1>2, <1>6 DEF Has
  <2>2. CASE i \in 1 .. Len(p)
    BY <2>1, <2>2, <1>1
  <2>3. CASE i - Len(p) \in 1 .. Len(q) /\ q[i - Len(p)] = x
    <3>1. i - Len(p) < j - Len(p)
      BY <2>1, <2>3, <1>6 DEF Before
    <3> QED BY <3>1, <1>1
  <2> QED BY <1>2, <2>2, <2>3
<1> QED BY <1>3, <1>4, <1>5, <1>6 DEF r

(***************************************************************************)
(* The same for sets of values: whether one occurs, whether at most one    *)
(* does, whether a value of A is followed by one of B (also before every   *)
(* later value of E), and whether one of B precedes every value of E.      *)
(***************************************************************************)
Some(q, A) == \E i \in 1 .. Len(q) : q[i] \in A
AtMostOne(q, A) == \A i, j \in 1 .. Len(q) : q[i] \in A /\ q[j] \in A => i = j
Answered(q, A, B) ==
  \A i \in 1 .. Len(q) : q[i] \in A => \E j \in 1 .. Len(q) : i < j /\ q[j] \in B
AnsweredBefore(q, A, B, E) ==
  \A i, e \in 1 .. Len(q) : q[i] \in A /\ q[e] \in E /\ i < e =>
    \E j \in 1 .. Len(q) : i < j /\ j < e /\ q[j] \in B
Preceded(q, B, E) ==
  \A e \in 1 .. Len(q) : q[e] \in E => \E j \in 1 .. Len(q) : j < e /\ q[j] \in B

LEMMA EmptySome ==
  ASSUME NEW A, NEW B, NEW E
  PROVE  /\ ~Some(<<>>, A) /\ AtMostOne(<<>>, A) /\ Answered(<<>>, A, B)
         /\ AnsweredBefore(<<>>, A, B, E) /\ Preceded(<<>>, B, E)
BY DEF Some, AtMostOne, Answered, AnsweredBefore, Preceded

LEMMA OneSome ==
  ASSUME NEW a, NEW A
  PROVE  Some(<<a>>, A) <=> a \in A
BY DEF Some

\* A value joins the end.
LEMMA AppendSome ==
  ASSUME NEW S, NEW q \in Seq(S), NEW m \in S
  PROVE  /\ q \o <<m>> \in Seq(S)
         /\ \A A, B, E :
              /\ Some(q \o <<m>>, A) <=> Some(q, A) \/ m \in A
              /\ AtMostOne(q, A) /\ (m \in A => ~Some(q, A)) => AtMostOne(q \o <<m>>, A)
              /\ Answered(q, A, B) /\ m \notin A => Answered(q \o <<m>>, A, B)
              /\ m \in B /\ m \notin A => Answered(q \o <<m>>, A, B)
              /\ AnsweredBefore(q, A, B, E) /\ (m \in E => Answered(q, A, B))
                   => AnsweredBefore(q \o <<m>>, A, B, E)
              /\ Preceded(q, B, E) /\ (m \in E => Some(q, B)) => Preceded(q \o <<m>>, B, E)
<1> DEFINE r == q \o <<m>>
<1>1. /\ Len(q) \in Nat /\ Len(r) = Len(q) + 1 /\ r[Len(q) + 1] = m /\ r \in Seq(S)
      /\ \A i \in 1 .. Len(q) : r[i] = q[i]
  OBVIOUS
<1> SUFFICES ASSUME NEW A, NEW B, NEW E
             PROVE  /\ Some(r, A) <=> Some(q, A) \/ m \in A
                    /\ AtMostOne(q, A) /\ (m \in A => ~Some(q, A)) => AtMostOne(r, A)
                    /\ Answered(q, A, B) /\ m \notin A => Answered(r, A, B)
                    /\ m \in B /\ m \notin A => Answered(r, A, B)
                    /\ AnsweredBefore(q, A, B, E) /\ (m \in E => Answered(q, A, B))
                         => AnsweredBefore(r, A, B, E)
                    /\ Preceded(q, B, E) /\ (m \in E => Some(q, B)) => Preceded(r, B, E)
  BY <1>1
<1> HIDE DEF r
<1>2. Some(r, A) <=> Some(q, A) \/ m \in A
  BY <1>1 DEF Some
<1>3. AtMostOne(q, A) /\ (m \in A => ~Some(q, A)) => AtMostOne(r, A)
  BY <1>1 DEF Some, AtMostOne
<1>4. ASSUME Answered(q, A, B), m \notin A PROVE Answered(r, A, B)
  <2> SUFFICES ASSUME NEW i \in 1 .. Len(r), r[i] \in A
               PROVE  \E j \in 1 .. Len(r) : i < j /\ r[j] \in B
    BY DEF Answered
  <2>1. i \in 1 .. Len(q) /\ q[i] \in A
    BY <1>1, <1>4
  <2>2. PICK j \in 1 .. Len(q) : i < j /\ q[j] \in B
    BY <1>4, <2>1 DEF Answered
  <2> QED BY <1>1, <2>2
<1>5. m \in B /\ m \notin A => Answered(r, A, B)
  BY <1>1 DEF Answered
<1>6. ASSUME AnsweredBefore(q, A, B, E), m \in E => Answered(q, A, B)
      PROVE  AnsweredBefore(r, A, B, E)
  <2> SUFFICES ASSUME NEW i \in 1 .. Len(r), NEW e \in 1 .. Len(r), r[i] \in A, r[e] \in E, i < e
               PROVE  \E j \in 1 .. Len(r) : i < j /\ j < e /\ r[j] \in B
    BY DEF AnsweredBefore
  <2>1. CASE e = Len(q) + 1
    <3>1. i \in 1 .. Len(q) /\ q[i] \in A /\ m \in E
      BY <1>1, <2>1
    <3>2. PICK j \in 1 .. Len(q) : i < j /\ q[j] \in B
      BY <1>6, <3>1 DEF Answered
    <3> QED BY <1>1, <2>1, <3>2
  <2>2. CASE e \in 1 .. Len(q)
    <3>1. i \in 1 .. Len(q) /\ q[i] \in A /\ q[e] \in E
      BY <1>1, <2>2
    <3>2. PICK j \in 1 .. Len(q) : i < j /\ j < e /\ q[j] \in B
      BY <1>6, <2>2, <3>1 DEF AnsweredBefore
    <3> QED BY <1>1, <3>2
  <2> QED BY <1>1, <2>1, <2>2
<1>7. Preceded(q, B, E) /\ (m \in E => Some(q, B)) => Preceded(r, B, E)
  BY <1>1 DEF Some, Preceded
<1> QED BY <1>2, <1>3, <1>4, <1>5, <1>6, <1>7

\* The first value is taken.
LEMMA TailSome ==
  ASSUME NEW S, NEW q \in Seq(S), q # <<>>, NEW A, NEW B, NEW E
  PROVE  /\ Some(q, A) <=> Head(q) \in A \/ Some(Tail(q), A)
         /\ AtMostOne(q, A) => AtMostOne(Tail(q), A) /\ (Head(q) \in A => ~Some(Tail(q), A))
         /\ Answered(q, A, B) => Answered(Tail(q), A, B) /\ (Head(q) \in A => Some(Tail(q), B))
         /\ AnsweredBefore(q, A, B, E) =>
              AnsweredBefore(Tail(q), A, B, E) /\ (Head(q) \in A => Preceded(Tail(q), B, E))
         /\ Preceded(q, B, E) =>
              Head(q) \notin E /\ (Head(q) \notin B => Preceded(Tail(q), B, E))
<1> DEFINE r == Tail(q)
<1>1. /\ Head(q) = q[1] /\ Len(q) \in Nat /\ Len(q) >= 1 /\ Len(r) = Len(q) - 1
      /\ \A i \in 1 .. Len(q) - 1 : r[i] = q[i + 1]
  BY TailAt
<1> HIDE DEF r
\* A position of r is one of q.
<1>2. \A i \in 1 .. Len(r) : i + 1 \in 1 .. Len(q) /\ r[i] = q[i + 1]
  BY <1>1
<1>3. \A i \in 1 .. Len(q) : i = 1 \/ (i - 1 \in 1 .. Len(r) /\ r[i - 1] = q[i])
  BY <1>1
<1>4. 1 \in 1 .. Len(q)
  BY <1>1
<1>5. Some(q, A) <=> Head(q) \in A \/ Some(r, A)
  <2>1. Some(r, A) => Some(q, A)
    BY <1>2 DEF Some
  <2>2. Head(q) \in A => Some(q, A)
    BY <1>1, <1>4 DEF Some
  <2>3. Some(q, A) => Head(q) \in A \/ Some(r, A)
    BY <1>1, <1>3 DEF Some
  <2> QED BY <2>1, <2>2, <2>3
<1>6. ASSUME AtMostOne(q, A) PROVE AtMostOne(r, A) /\ (Head(q) \in A => ~Some(r, A))
  <2>1. ASSUME NEW i \in 1 .. Len(r), NEW j \in 1 .. Len(r), r[i] \in A, r[j] \in A PROVE i = j
    <3>1. i + 1 = j + 1
      BY <1>2, <1>6, <2>1 DEF AtMostOne
    <3> QED BY <3>1
  <2>2. ASSUME Head(q) \in A, NEW i \in 1 .. Len(r), r[i] \in A PROVE FALSE
    <3>1. i + 1 = 1
      BY <1>1, <1>2, <1>4, <1>6, <2>2 DEF AtMostOne
    <3> QED BY <3>1
  <2> QED BY <2>1, <2>2 DEF AtMostOne, Some
<1>7. ASSUME Answered(q, A, B) PROVE Answered(r, A, B) /\ (Head(q) \in A => Some(r, B))
  <2>1. ASSUME NEW i \in 1 .. Len(r), r[i] \in A PROVE \E j \in 1 .. Len(r) : i < j /\ r[j] \in B
    <3>1. PICK j \in 1 .. Len(q) : i + 1 < j /\ q[j] \in B
      BY <1>2, <1>7, <2>1 DEF Answered
    <3>2. j - 1 \in 1 .. Len(r) /\ i < j - 1 /\ r[j - 1] \in B
      BY <1>1, <1>3, <3>1
    <3> QED BY <3>2
  <2>2. ASSUME Head(q) \in A PROVE \E j \in 1 .. Len(r) : r[j] \in B
    <3>1. PICK j \in 1 .. Len(q) : 1 < j /\ q[j] \in B
      BY <1>1, <1>4, <1>7, <2>2 DEF Answered
    <3>2. j - 1 \in 1 .. Len(r) /\ r[j - 1] \in B
      BY <1>1, <1>3, <3>1
    <3> QED BY <3>2
  <2> QED BY <2>1, <2>2 DEF Answered, Some
<1>8. ASSUME AnsweredBefore(q, A, B, E)
      PROVE  AnsweredBefore(r, A, B, E) /\ (Head(q) \in A => Preceded(r, B, E))
  <2>1. ASSUME NEW i \in 1 .. Len(r), NEW e \in 1 .. Len(r), r[i] \in A, r[e] \in E, i < e
        PROVE  \E j \in 1 .. Len(r) : i < j /\ j < e /\ r[j] \in B
    <3>0. i + 1 \in 1 .. Len(q) /\ e + 1 \in 1 .. Len(q) /\ q[i + 1] \in A /\ q[e + 1] \in E /\ i + 1 < e + 1
      BY <1>2, <2>1
    <3>1. PICK j \in 1 .. Len(q) : i + 1 < j /\ j < e + 1 /\ q[j] \in B
      BY <1>8, <3>0 DEF AnsweredBefore
    <3>2. j - 1 \in 1 .. Len(r) /\ i < j - 1 /\ j - 1 < e /\ r[j - 1] \in B
      BY <1>1, <1>3, <3>1
    <3> QED BY <3>2
  <2>2. ASSUME Head(q) \in A, NEW e \in 1 .. Len(r), r[e] \in E
        PROVE  \E j \in 1 .. Len(r) : j < e /\ r[j] \in B
    <3>0. 1 \in 1 .. Len(q) /\ e + 1 \in 1 .. Len(q) /\ q[1] \in A /\ q[e + 1] \in E /\ 1 < e + 1
      BY <1>1, <1>2, <1>4, <2>2
    <3>1. PICK j \in 1 .. Len(q) : 1 < j /\ j < e + 1 /\ q[j] \in B
      BY <1>8, <3>0 DEF AnsweredBefore
    <3>2. j - 1 \in 1 .. Len(r) /\ j - 1 < e /\ r[j - 1] \in B
      BY <1>1, <1>3, <3>1
    <3> QED BY <3>2
  <2> QED BY <2>1, <2>2 DEF AnsweredBefore, Preceded
<1>9. ASSUME Preceded(q, B, E)
      PROVE  Head(q) \notin E /\ (Head(q) \notin B => Preceded(r, B, E))
  <2>1. Head(q) \notin E
    BY <1>1, <1>4, <1>9 DEF Preceded
  <2>2. ASSUME Head(q) \notin B, NEW e \in 1 .. Len(r), r[e] \in E
        PROVE  \E j \in 1 .. Len(r) : j < e /\ r[j] \in B
    <3>1. PICK j \in 1 .. Len(q) : j < e + 1 /\ q[j] \in B
      BY <1>2, <1>9, <2>2 DEF Preceded
    <3>2. j - 1 \in 1 .. Len(r) /\ j - 1 < e /\ r[j - 1] \in B
      BY <1>1, <1>3, <2>2, <3>1
    <3> QED BY <3>2
  <2> QED BY <2>1, <2>2 DEF Preceded
<1> QED BY <1>5, <1>6, <1>7, <1>8, <1>9 DEF r
============
