---------------------------- MODULE SqlPoolProofs ----------------------------
(***************************************************************************)
(* The pool keeps its statements and its workers together, for any number  *)
(* of handles, capacities of the rings and lists, statements and outages.  *)
(*                                                                         *)
(* A statement only moves: from the application to a ring or to the        *)
(* refused, from the front of one sequence to the end of the next, from    *)
(* the head of a list to those done (Once, and what keeps it).  That       *)
(* the pieces moved are not in two places needs the order of the sequences *)
(* and their order needs that nothing in them is younger than the last     *)
(* statement given: StatementOnce and GivenOrder are proved together.      *)
(*                                                                         *)
(* WorkersInv adds to the property what ties a thread to the pool: one     *)
(* that has not been told its pool is active and unlisted, and only a      *)
(* worker that executes has statements.                                    *)
(***************************************************************************)
EXTENDS SqlPool, FiniteSetTheorems, SequenceTheorems, TLAPS

-----------------------------------------------------------------------------
(* Sequences.                                                               *)

\* The elements of a sequence come from its set.
LEMMA ToSetType ==
    ASSUME NEW S, NEW s \in Seq(S)
    PROVE  ToSet(s) \subseteq S
BY DEF ToSet

\* An empty sequence has no elements, another has its head.
LEMMA ToSetEmpty ==
    /\ ToSet(<<>>) = {}
    /\ \A S : \A s \in Seq(S) : s # <<>> => Head(s) \in ToSet(s) /\ Len(s) > 0
<1>1. ToSet(<<>>) = {}
  BY DEF ToSet
<1>2. ASSUME NEW S, NEW s \in Seq(S), s # <<>>
      PROVE  Head(s) \in ToSet(s) /\ Len(s) > 0
  <2>1. 1 \in DOMAIN s /\ Head(s) = s[1] /\ Len(s) > 0
    BY <1>2
  <2> QED BY <2>1 DEF ToSet
<1> QED BY <1>1, <1>2

\* Contains looks for an element.
LEMMA ContainsElement ==
    ASSUME NEW S, NEW s \in Seq(S), NEW x
    PROVE  Contains(s, x) <=> x \in ToSet(s)
BY DEF Contains, ToSet

\* The elements of a concatenation.
LEMMA ToSetConcat ==
    ASSUME NEW S, NEW s \in Seq(S), NEW t \in Seq(S)
    PROVE  ToSet(s \o t) = ToSet(s) \cup ToSet(t)
<1> DEFINE c == s \o t
<1>1. c \in Seq(S) /\ Len(c) = Len(s) + Len(t) /\ Len(s) \in Nat /\ Len(t) \in Nat
  OBVIOUS
<1>2. /\ \A i \in 1..Len(s) : c[i] = s[i]
      /\ \A i \in 1..Len(t) : c[Len(s) + i] = t[i]
      /\ \A i \in 1..(Len(s) + Len(t)) : i > Len(s) => c[i] = t[i - Len(s)]
  OBVIOUS
<1>3. DOMAIN c = 1..Len(c) /\ DOMAIN s = 1..Len(s) /\ DOMAIN t = 1..Len(t)
  BY <1>1
<1> HIDE DEF c
<1>4. ASSUME NEW i \in 1..Len(c)
      PROVE  c[i] \in ToSet(s) \cup ToSet(t)
  <2>1. CASE i <= Len(s)
    BY <1>1, <1>2, <1>3, <2>1 DEF ToSet
  <2>2. CASE i > Len(s)
    <3>1. i - Len(s) \in 1..Len(t) /\ c[i] = t[i - Len(s)]
      BY <1>1, <1>2, <2>2
    <3> QED BY <1>3, <3>1 DEF ToSet
  <2> QED BY <1>1, <2>1, <2>2
<1>5. ASSUME NEW i \in 1..Len(s)
      PROVE  s[i] \in ToSet(c)
  BY <1>1, <1>2, <1>3 DEF ToSet
<1>6. ASSUME NEW i \in 1..Len(t)
      PROVE  t[i] \in ToSet(c)
  <2>1. Len(s) + i \in 1..Len(c) /\ c[Len(s) + i] = t[i]
    BY <1>1, <1>2
  <2> QED BY <1>3, <2>1 DEF ToSet
<1>7. ToSet(c) = ToSet(s) \cup ToSet(t)
  <2>1. ToSet(c) \subseteq ToSet(s) \cup ToSet(t)
    BY <1>3, <1>4 DEF ToSet
  <2>2. ToSet(s) \subseteq ToSet(c)
    BY <1>3, <1>5 DEF ToSet
  <2>3. ToSet(t) \subseteq ToSet(c)
    BY <1>3, <1>6 DEF ToSet
  <2> QED BY <2>1, <2>2, <2>3
<1> QED BY <1>7 DEF c

\* push_back adds one element.
LEMMA ToSetAppend ==
    ASSUME NEW S, NEW s \in Seq(S), NEW x \in S
    PROVE  ToSet(Append(s, x)) = ToSet(s) \cup {x}
<1>1. Append(s, x) = s \o <<x>> /\ <<x>> \in Seq(S)
  OBVIOUS
<1>2. ToSet(<<x>>) = {x}
  BY DEF ToSet
<1>3. \A t \in Seq(S) : ToSet(s \o t) = ToSet(s) \cup ToSet(t)
  BY ToSetConcat
<1> QED BY <1>1, <1>2, <1>3

\* Every element of a is below every element of b.
Below(a, b) == \A x \in ToSet(a), y \in ToSet(b) : x < y

\* What it takes for two sequences of numbers to be increasing one behind the other.
LEMMA IncreasingConcat ==
    ASSUME NEW s \in Seq(Nat), NEW t \in Seq(Nat)
    PROVE  Increasing(s \o t) <=> Increasing(s) /\ Increasing(t) /\ Below(s, t)
<1> DEFINE c == s \o t
<1>1. c \in Seq(Nat) /\ Len(c) = Len(s) + Len(t) /\ Len(s) \in Nat /\ Len(t) \in Nat
  OBVIOUS
<1>2. /\ \A i \in 1..Len(s) : c[i] = s[i]
      /\ \A i \in 1..Len(t) : c[Len(s) + i] = t[i]
      /\ \A i \in 1..(Len(s) + Len(t)) : i > Len(s) => c[i] = t[i - Len(s)]
  OBVIOUS
<1>3. DOMAIN c = 1..Len(c) /\ DOMAIN s = 1..Len(s) /\ DOMAIN t = 1..Len(t)
  BY <1>1
<1> HIDE DEF c
<1>4. ASSUME Increasing(c)
      PROVE  Increasing(s) /\ Increasing(t) /\ Below(s, t)
  <2>1. \A i, j \in 1..Len(c) : i < j => c[i] < c[j]
    BY <1>3, <1>4 DEF Increasing
  <2>2. ASSUME NEW i \in 1..Len(s), NEW j \in 1..Len(s), i < j
        PROVE  s[i] < s[j]
    BY <1>1, <1>2, <2>1, <2>2
  <2>3. ASSUME NEW i \in 1..Len(t), NEW j \in 1..Len(t), i < j
        PROVE  t[i] < t[j]
    <3>1. Len(s) + i \in 1..Len(c) /\ Len(s) + j \in 1..Len(c) /\ Len(s) + i < Len(s) + j
      BY <1>1, <2>3, SMTT(30)
    <3> QED BY <1>2, <2>1, <3>1
  <2>4. ASSUME NEW i \in 1..Len(s), NEW j \in 1..Len(t)
        PROVE  s[i] < t[j]
    <3>1. i \in 1..Len(c) /\ Len(s) + j \in 1..Len(c) /\ i < Len(s) + j
      BY <1>1, SMTT(30)
    <3> QED BY <1>2, <2>1, <3>1
  <2> QED BY <1>3, <2>2, <2>3, <2>4 DEF Increasing, Below, ToSet
<1>5. ASSUME Increasing(s), Increasing(t), Below(s, t), NEW i \in 1..Len(c), NEW j \in 1..Len(c), i < j
      PROVE  c[i] < c[j]
  <2>1. CASE j <= Len(s)
    <3>1. i \in 1..Len(s) /\ j \in 1..Len(s)
      BY <1>1, <1>5, <2>1
    <3>2. s[i] < s[j]
      BY <1>3, <1>5, <3>1 DEF Increasing
    <3> QED BY <1>2, <3>1, <3>2
  <2>2. CASE i > Len(s)
    <3>1. i - Len(s) \in 1..Len(t) /\ j - Len(s) \in 1..Len(t) /\ i - Len(s) < j - Len(s)
      BY <1>1, <1>5, <2>2
    <3>2. i \in 1..(Len(s) + Len(t)) /\ j \in 1..(Len(s) + Len(t)) /\ j > Len(s)
      BY <1>1, <1>5, <2>2
    <3>3. c[i] = t[i - Len(s)] /\ c[j] = t[j - Len(s)]
      BY <1>2, <2>2, <3>2
    <3> QED BY <1>3, <1>5, <3>1, <3>3 DEF Increasing
  <2>3. CASE i <= Len(s) /\ j > Len(s)
    <3>1. j - Len(s) \in 1..Len(t) /\ i \in 1..Len(s)
      BY <1>1, <2>3
    <3>2. j \in 1..(Len(s) + Len(t))
      BY <1>1
    <3>3. c[i] = s[i] /\ c[j] = t[j - Len(s)]
      BY <1>2, <2>3, <3>1, <3>2
    <3> QED BY <1>3, <1>5, <3>1, <3>3 DEF Below, ToSet
  <2> QED BY <1>1, <2>1, <2>2, <2>3, SMTT(30)
<1>6. Increasing(c) <=> Increasing(s) /\ Increasing(t) /\ Below(s, t)
  <2>1. Increasing(s) /\ Increasing(t) /\ Below(s, t) => Increasing(c)
    BY <1>3, <1>5 DEF Increasing
  <2> QED BY <1>4, <2>1
<1> QED BY <1>6 DEF c

\* A sequence is its first n elements followed by the others.
LEMMA Cut ==
    ASSUME NEW S, NEW s \in Seq(S), NEW n \in 0..Len(s)
    PROVE  /\ SubSeq(s, 1, n) \in Seq(S) /\ Len(SubSeq(s, 1, n)) = n
           /\ SubSeq(s, n + 1, Len(s)) \in Seq(S) /\ Len(SubSeq(s, n + 1, Len(s))) = Len(s) - n
           /\ SubSeq(s, 1, n) \o SubSeq(s, n + 1, Len(s)) = s
<1>1. Len(s) \in Nat
  OBVIOUS
<1>2. /\ SubSeq(s, 1, n) \in Seq(S) /\ Len(SubSeq(s, 1, n)) = n
      /\ SubSeq(s, n + 1, Len(s)) \in Seq(S) /\ Len(SubSeq(s, n + 1, Len(s))) = Len(s) - n
  BY <1>1
<1> DEFINE p == SubSeq(s, 1, n)
           q == SubSeq(s, n + 1, Len(s))
<1>3. \A i \in 1..n : p[i] = s[i]
  BY <1>1
<1>4. \A i \in 1..(Len(s) - n) : q[i] = s[n + i]
  BY <1>1
<1>5. p \in Seq(S) /\ q \in Seq(S) /\ Len(p) = n /\ Len(q) = Len(s) - n
  BY <1>2
<1> HIDE DEF p, q
<1>6. p \o q \in Seq(S) /\ Len(p \o q) = Len(s)
  BY <1>1, <1>5
<1>7. ASSUME NEW i \in 1..Len(s)
      PROVE  (p \o q)[i] = s[i]
  <2>1. CASE i <= n
    BY <1>1, <1>3, <1>5, <2>1
  <2>2. CASE i > n
    <3>1. i - n \in 1..(Len(s) - n)
      BY <1>1, <2>2
    <3>2. (p \o q)[i] = q[i - n]
      BY <1>1, <1>5, <2>2, <3>1
    <3>3. q[i - n] = s[n + (i - n)] /\ n + (i - n) = i
      BY <1>1, <1>4, <3>1
    <3> QED BY <3>2, <3>3
  <2>3. i <= n \/ i > n
    BY <1>1
  <2> QED BY <2>1, <2>2, <2>3
<1>8. p \o q = s
  BY <1>6, <1>7, SeqEqual
<1> QED BY <1>2, <1>8 DEF p, q

\* What two sequences without repetitions need to have none together.
LEMMA InjectiveConcat ==
    ASSUME NEW S, NEW s \in Seq(S), NEW t \in Seq(S)
    PROVE  IsInjective(s \o t) <=>
               IsInjective(s) /\ IsInjective(t) /\ ToSet(s) \cap ToSet(t) = {}
<1> DEFINE c == s \o t
<1>1. c \in Seq(S) /\ Len(c) = Len(s) + Len(t) /\ Len(s) \in Nat /\ Len(t) \in Nat
  OBVIOUS
<1>2. /\ \A i \in 1..Len(s) : c[i] = s[i]
      /\ \A i \in 1..Len(t) : c[Len(s) + i] = t[i]
      /\ \A i \in 1..(Len(s) + Len(t)) : i > Len(s) => c[i] = t[i - Len(s)]
  OBVIOUS
<1>3. DOMAIN c = 1..Len(c) /\ DOMAIN s = 1..Len(s) /\ DOMAIN t = 1..Len(t)
  BY <1>1
<1> HIDE DEF c
<1>4. ASSUME IsInjective(c)
      PROVE  IsInjective(s) /\ IsInjective(t) /\ ToSet(s) \cap ToSet(t) = {}
  <2>1. \A i, j \in 1..Len(c) : c[i] = c[j] => i = j
    BY <1>3, <1>4 DEF IsInjective
  <2>2. ASSUME NEW i \in 1..Len(s), NEW j \in 1..Len(s), s[i] = s[j]
        PROVE  i = j
    BY <1>1, <1>2, <2>1, <2>2
  <2>3. ASSUME NEW i \in 1..Len(t), NEW j \in 1..Len(t), t[i] = t[j]
        PROVE  i = j
    <3>1. Len(s) + i \in 1..Len(c) /\ Len(s) + j \in 1..Len(c)
      BY <1>1
    <3>2. Len(s) + i = Len(s) + j
      BY <1>2, <2>1, <2>3, <3>1
    <3> QED BY <1>1, <3>2
  <2>4. ASSUME NEW i \in 1..Len(s), NEW j \in 1..Len(t), s[i] = t[j]
        PROVE  FALSE
    <3>1. i \in 1..Len(c) /\ Len(s) + j \in 1..Len(c) /\ i # Len(s) + j
      BY <1>1
    <3> QED BY <1>2, <2>1, <2>4, <3>1
  <2> QED BY <1>3, <2>2, <2>3, <2>4 DEF IsInjective, ToSet
<1>5. ASSUME IsInjective(s), IsInjective(t), ToSet(s) \cap ToSet(t) = {},
             NEW i \in 1..Len(c), NEW j \in 1..Len(c), c[i] = c[j], i <= j
      PROVE  i = j
  <2>1. CASE j <= Len(s)
    <3>1. i \in 1..Len(s) /\ j \in 1..Len(s)
      BY <1>1, <1>5, <2>1
    <3>2. s[i] = s[j]
      BY <1>2, <1>5, <3>1
    <3> QED BY <1>3, <1>5, <3>1, <3>2 DEF IsInjective
  <2>2. CASE i > Len(s)
    <3>1. i - Len(s) \in 1..Len(t) /\ j - Len(s) \in 1..Len(t)
      BY <1>1, <1>5, <2>2
    <3>2. i \in 1..(Len(s) + Len(t)) /\ j \in 1..(Len(s) + Len(t)) /\ j > Len(s)
      BY <1>1, <1>5, <2>2
    <3>3. t[i - Len(s)] = t[j - Len(s)]
      BY <1>2, <1>5, <2>2, <3>2
    <3>4. i - Len(s) = j - Len(s)
      BY <1>3, <1>5, <3>1, <3>3 DEF IsInjective
    <3> QED BY <1>1, <3>4
  <2>3. CASE i <= Len(s) /\ j > Len(s)
    <3>1. j - Len(s) \in 1..Len(t) /\ i \in 1..Len(s)
      BY <1>1, <2>3
    <3>2. j \in 1..(Len(s) + Len(t))
      BY <1>1
    <3>3. s[i] = t[j - Len(s)]
      BY <1>2, <1>5, <2>3, <3>1, <3>2
    <3>4. s[i] \in ToSet(s) /\ t[j - Len(s)] \in ToSet(t)
      BY <1>3, <3>1 DEF ToSet
    <3> QED BY <1>5, <3>3, <3>4
  <2>4. j <= Len(s) \/ i > Len(s) \/ (i <= Len(s) /\ j > Len(s))
    BY <1>1
  <2> QED BY <2>1, <2>2, <2>3, <2>4
<1>6. ASSUME IsInjective(s), IsInjective(t), ToSet(s) \cap ToSet(t) = {}
      PROVE  IsInjective(c)
  <2>1. ASSUME NEW i \in 1..Len(c), NEW j \in 1..Len(c), c[i] = c[j]
        PROVE  i = j
    <3>1. i <= j \/ j <= i
      BY <1>1
    <3>2. CASE i <= j
      BY <1>5, <1>6, <2>1, <3>2
    <3>3. CASE j <= i
      BY <1>5, <1>6, <2>1, <3>3
    <3> QED BY <3>1, <3>2, <3>3
  <2> QED BY <1>3, <2>1 DEF IsInjective
<1>7. IsInjective(c) <=> IsInjective(s) /\ IsInjective(t) /\ ToSet(s) \cap ToSet(t) = {}
  BY <1>4, <1>6
<1> QED BY <1>7 DEF c

\* A sequence is its head followed by the others.
LEMMA HeadFirst ==
    ASSUME NEW S, NEW s \in Seq(S), s # <<>>
    PROVE  /\ Head(s) \in S /\ Tail(s) \in Seq(S) /\ <<Head(s)>> \in Seq(S)
           /\ Len(Tail(s)) = Len(s) - 1
           /\ <<Head(s)>> \o Tail(s) = s
           /\ ToSet(s) = {Head(s)} \cup ToSet(Tail(s))
<1>1. Head(s) \in S /\ Tail(s) \in Seq(S) /\ Len(Tail(s)) = Len(s) - 1 /\ Len(s) \in Nat /\ Len(s) > 0
  OBVIOUS
<1>2. Head(s) = s[1] /\ \A i \in 1..(Len(s) - 1) : Tail(s)[i] = s[i + 1]
  OBVIOUS
<1> DEFINE h == <<Head(s)>>
           r == Tail(s)
<1>3. h \in Seq(S) /\ Len(h) = 1 /\ h[1] = Head(s) /\ ToSet(h) = {Head(s)}
  BY <1>1 DEF ToSet
<1> HIDE DEF h, r
<1>4. r \in Seq(S) /\ Len(r) = Len(s) - 1 /\ \A i \in 1..(Len(s) - 1) : r[i] = s[i + 1]
  BY <1>1, <1>2 DEF r
<1>5. /\ h \o r \in Seq(S) /\ Len(h \o r) = Len(s)
      /\ \A i \in 1..Len(s) : (h \o r)[i] = IF i <= 1 THEN h[i] ELSE r[i - 1]
  <2>1. h \in Seq(S) /\ r \in Seq(S) /\ Len(h) = 1 /\ Len(h) + Len(r) = Len(s)
    BY <1>1, <1>3, <1>4
  <2>2. /\ h \o r \in Seq(S) /\ Len(h \o r) = Len(h) + Len(r)
        /\ \A i \in 1..Len(h) + Len(r) : (h \o r)[i] = IF i <= Len(h) THEN h[i] ELSE r[i - Len(h)]
    BY <1>3, <1>4, ConcatProperties, ZenonT(60)
  <2> QED BY <2>1, <2>2
<1>6. ASSUME NEW i \in 1..Len(s)
      PROVE  (h \o r)[i] = s[i]
  <2>1. CASE i = 1
    BY <1>2, <1>3, <1>5, <2>1
  <2>2. CASE i # 1
    <3>1. i - 1 \in 1..(Len(s) - 1) /\ i > 1
      BY <1>1, <2>2
    <3>2. (h \o r)[i] = r[i - 1]
      BY <1>5, <2>2, <3>1
    <3>3. r[i - 1] = s[(i - 1) + 1] /\ (i - 1) + 1 = i
      BY <1>1, <1>4, <3>1
    <3> QED BY <3>2, <3>3
  <2> QED BY <2>1, <2>2
<1>7. h \o r = s
  BY <1>5, <1>6, SeqEqual
<1>8. ToSet(h \o r) = ToSet(h) \cup ToSet(r)
  BY <1>3, <1>4, ToSetConcat
<1>9. <<Head(s)>> \o Tail(s) = s /\ ToSet(s) = {Head(s)} \cup ToSet(Tail(s)) /\ <<Head(s)>> \in Seq(S)
  BY <1>3, <1>7, <1>8 DEF h, r
<1> QED BY <1>1, <1>9

\* One entry less: erase takes its element out and leaves the others, once each.
LEMMA EraseOne ==
    ASSUME NEW S, NEW s \in Seq(S), NEW x \in ToSet(s)
    PROVE  /\ Erase(s, x) \in Seq(S)
           /\ IsInjective(s) => /\ IsInjective(Erase(s, x))
                                /\ ToSet(Erase(s, x)) = ToSet(s) \ {x}
<1> DEFINE it == CHOOSE i \in DOMAIN s : s[i] = x
<1>1. it \in DOMAIN s /\ s[it] = x
  BY DEF ToSet
<1> HIDE DEF it
<1>2. Len(s) \in Nat /\ DOMAIN s = 1..Len(s)
  OBVIOUS
<1>3. it \in 1..Len(s) /\ it - 1 \in 0..Len(s) /\ (it - 1) + 1 = it
  BY <1>1, <1>2
<1> DEFINE p == SubSeq(s, 1, it - 1)
           q == SubSeq(s, it, Len(s))
           r == SubSeq(s, it + 1, Len(s))
<1>4. p \in Seq(S) /\ q \in Seq(S) /\ Len(q) = Len(s) - (it - 1) /\ p \o q = s
  BY <1>3, Cut
<1>5. q # <<>> /\ Head(q) = x /\ Tail(q) = r
  <2>1. Len(q) > 0
    BY <1>2, <1>3, <1>4
  <2>2. q # <<>>
    <3>1. Len(<<>>) = 0
      OBVIOUS
    <3> HIDE DEF q
    <3> QED BY <2>1, <3>1
  <2>3. it \in 1..Len(s) /\ Len(s) \in it..Len(s)
    BY <1>2, <1>3
  <2> QED BY <1>1, <2>2, <2>3, HeadTailOfSubSeq
<1>6. Erase(s, x) = p \o r
  BY DEF Erase, it
<1> HIDE DEF p, q, r
<1>7. r \in Seq(S) /\ <<x>> \in Seq(S) /\ q = <<x>> \o r /\ ToSet(q) = {x} \cup ToSet(r)
  BY <1>4, <1>5, HeadFirst
<1>8. p \o r \in Seq(S)
  BY <1>4, <1>7
<1>9. ASSUME IsInjective(s)
      PROVE  IsInjective(p \o r) /\ ToSet(p \o r) = ToSet(s) \ {x}
  <2>1. IsInjective(p) /\ IsInjective(q) /\ ToSet(p) \cap ToSet(q) = {}
    BY <1>4, <1>9, InjectiveConcat
  <2>2. IsInjective(r) /\ ToSet(<<x>>) \cap ToSet(r) = {}
    BY <1>7, <2>1, InjectiveConcat
  <2>3. ToSet(<<x>>) = {x}
    BY DEF ToSet
  <2>4. IsInjective(p \o r)
    <3>1. ToSet(p) \cap ToSet(r) = {}
      BY <1>7, <2>1
    <3> QED BY <1>4, <1>7, <2>1, <2>2, <3>1, InjectiveConcat
  <2>5. ToSet(p \o r) = ToSet(p) \cup ToSet(r)
    BY <1>4, <1>7, ToSetConcat
  <2>6. ToSet(s) = ToSet(p) \cup ToSet(q)
    BY <1>4, ToSetConcat, ZenonT(60)
  <2> QED BY <1>7, <2>1, <2>2, <2>3, <2>4, <2>5, <2>6
<1> QED BY <1>6, <1>8, <1>9

\* What a merge moves fits.
LEMMA MoveFits ==
    ASSUME NEW S, NEW T, NEW to \in Seq(S), NEW from \in Seq(T), NEW cap \in Nat, Len(to) <= cap
    PROVE  /\ MoveCount(to, from, cap) \in 0..Len(from)
           /\ Len(to) + MoveCount(to, from, cap) <= cap
<1>1. Len(to) \in Nat /\ Len(from) \in Nat
  OBVIOUS
<1> QED BY <1>1 DEF MoveCount, Least


-----------------------------------------------------------------------------
(* One place for each statement.                                            *)

\* The statements G are spread over the refused R, the rings A and B, those done D and the lists
\* L of the workers, none of them twice.
Once(G, R, A, B, D, L) ==
    /\ G = R \cup A \cup B \cup D \cup (UNION {L[w] : w \in Workers})
    /\ R \cap A = {} /\ R \cap B = {} /\ R \cap D = {}
    /\ A \cap B = {} /\ A \cap D = {} /\ B \cap D = {}
    /\ \A w \in Workers : L[w] \cap (R \cup A \cup B \cup D) = {}
    /\ \A v, w \in Workers : v # w => L[v] \cap L[w] = {}

\* The elements of the lists.
Held(lists) == [w \in Workers |-> ToSet(lists[w])]

\* StatementOnce with the places by their names.
LEMMA OnceIs ==
    ASSUME NEW n, NEW R, NEW A, NEW B, NEW D, NEW lists
    PROVE  InOnePlace(n, <<R, A, B, D>>, lists) <=> Once(1..n, R, A, B, D, Held(lists))
<1> SUFFICES ASSUME NEW L, L = Held(lists), NEW P, P = <<R, A, B, D>>
             PROVE  InOnePlace(n, P, lists) <=> Once(1..n, R, A, B, D, L)
  OBVIOUS
<1>1. 1..4 = {1, 2, 3, 4}
  OBVIOUS
<1>2. P[1] = R /\ P[2] = A /\ P[3] = B /\ P[4] = D
  OBVIOUS
<1>3. (UNION {P[i] : i \in 1..4}) = R \cup A \cup B \cup D
  BY <1>1, <1>2
<1>4. (UNION {ToSet(lists[w]) : w \in Workers}) = (UNION {L[w] : w \in Workers})
  BY DEF Held
<1>5. \A w \in Workers : L[w] = ToSet(lists[w])
  BY DEF Held
<1>6. (\A i, j \in 1..4 : i # j => P[i] \cap P[j] = {}) <=>
        /\ R \cap A = {} /\ R \cap B = {} /\ R \cap D = {}
        /\ A \cap B = {} /\ A \cap D = {} /\ B \cap D = {}
  BY <1>1, <1>2
<1>7. (\A w \in Workers : \A i \in 1..4 : ToSet(lists[w]) \cap P[i] = {}) <=>
        \A w \in Workers : L[w] \cap (R \cup A \cup B \cup D) = {}
  <2>1. ASSUME NEW w \in Workers
        PROVE  (\A i \in 1..4 : ToSet(lists[w]) \cap P[i] = {}) <=>
                 L[w] \cap (R \cup A \cup B \cup D) = {}
    BY <1>1, <1>2, <1>5
  <2> QED BY <2>1
<1>8. (\A v, w \in Workers : v # w => ToSet(lists[v]) \cap ToSet(lists[w]) = {}) <=>
        \A v, w \in Workers : v # w => L[v] \cap L[w] = {}
  BY <1>5
<1>9. (UNION {P[i] : i \in 1..4}) \cup (UNION {ToSet(lists[w]) : w \in Workers}) =
          R \cup A \cup B \cup D \cup (UNION {L[w] : w \in Workers})
  BY <1>3, <1>4
<1> QED BY <1>6, <1>7, <1>8, <1>9 DEF InOnePlace, Once

\* A new statement enters the first ring, or is refused.
LEMMA OnceGiven ==
    ASSUME NEW G, NEW R, NEW A, NEW B, NEW D, NEW L, Once(G, R, A, B, D, L), NEW x, x \notin G
    PROVE  /\ Once(G \cup {x}, R, A \cup {x}, B, D, L)
           /\ Once(G \cup {x}, R \cup {x}, A, B, D, L)
BY DEF Once

\* A part of the first ring moves to the second.
LEMMA OnceCopied ==
    ASSUME NEW G, NEW R, NEW B, NEW D, NEW L, NEW P, NEW Q,
           Once(G, R, P \cup Q, B, D, L), P \cap Q = {}
    PROVE  Once(G, R, Q, B \cup P, D, L)
BY DEF Once

\* The lists L where worker w has X.
Put(L, w, X) == [v \in Workers |-> IF v = w THEN X ELSE L[v]]

\* A part of the second ring moves to the list of a worker.
LEMMA OnceTaken ==
    ASSUME NEW G, NEW R, NEW A, NEW D, NEW L, NEW P, NEW Q, NEW w \in Workers,
           Once(G, R, A, P \cup Q, D, L), P \cap Q = {}
    PROVE  Once(G, R, A, Q, D, Put(L, w, L[w] \cup P))
<1> SUFFICES ASSUME NEW M, M = Put(L, w, L[w] \cup P)
             PROVE  Once(G, R, A, Q, D, M)
  OBVIOUS
<1>0. M[w] = L[w] \cup P /\ \A v \in Workers : v # w => M[v] = L[v]
  BY DEF Put
<1>1. (UNION {M[v] : v \in Workers}) = P \cup (UNION {L[v] : v \in Workers})
  BY <1>0
<1>2. G = R \cup A \cup Q \cup D \cup (UNION {M[v] : v \in Workers})
  BY <1>1 DEF Once
<1>3. ASSUME NEW v \in Workers PROVE M[v] \cap (R \cup A \cup Q \cup D) = {}
  BY <1>0 DEF Once
<1>4. ASSUME NEW u \in Workers, NEW v \in Workers, u # v PROVE M[u] \cap M[v] = {}
  BY <1>0, <1>4, ZenonT(60) DEF Once
<1> QED BY <1>2, <1>3, <1>4 DEF Once

\* A statement of a worker is done.
LEMMA OnceDone ==
    ASSUME NEW G, NEW R, NEW A, NEW B, NEW D, NEW L, NEW x, NEW T, NEW w \in Workers,
           Once(G, R, A, B, D, L), x \notin T, L[w] = {x} \cup T
    PROVE  Once(G, R, A, B, D \cup {x}, Put(L, w, T))
<1> SUFFICES ASSUME NEW M, M = Put(L, w, T)
             PROVE  Once(G, R, A, B, D \cup {x}, M)
  OBVIOUS
<1>0. M[w] = T /\ \A v \in Workers : v # w => M[v] = L[v]
  BY DEF Put
<1>1. {x} \cup (UNION {M[v] : v \in Workers}) = (UNION {L[v] : v \in Workers})
  BY <1>0
<1>2. G = R \cup A \cup B \cup (D \cup {x}) \cup (UNION {M[v] : v \in Workers})
  BY <1>1 DEF Once
<1>3. ASSUME NEW v \in Workers PROVE M[v] \cap (R \cup A \cup B \cup (D \cup {x})) = {}
  BY <1>0 DEF Once
<1>4. ASSUME NEW u \in Workers, NEW v \in Workers, u # v PROVE M[u] \cap M[v] = {}
  BY <1>0, <1>4 DEF Once
<1> QED BY <1>2, <1>3, <1>4 DEF Once

-----------------------------------------------------------------------------
(* Order.                                                                   *)

\* A list, the second ring and the first ring, one behind the other.
Ordered(l, b, a) ==
    /\ Increasing(l) /\ Increasing(b) /\ Increasing(a)
    /\ Below(l, b) /\ Below(l, a) /\ Below(b, a)

LEMMA OrderedIs ==
    ASSUME NEW l \in Seq(Nat), NEW b \in Seq(Nat), NEW a \in Seq(Nat)
    PROVE  Increasing(l \o b \o a) <=> Ordered(l, b, a)
<1>1. l \o b \in Seq(Nat) /\ ToSet(l \o b) = ToSet(l) \cup ToSet(b)
  BY ToSetConcat
<1>2. Increasing((l \o b) \o a) <=> Increasing(l \o b) /\ Increasing(a) /\ Below(l \o b, a)
  BY <1>1, IncreasingConcat
<1>3. Increasing(l \o b) <=> Increasing(l) /\ Increasing(b) /\ Below(l, b)
  BY IncreasingConcat
<1>4. Below(l \o b, a) <=> Below(l, a) /\ Below(b, a)
  BY <1>1 DEF Below
<1> QED BY <1>2, <1>3, <1>4 DEF Ordered

\* The youngest statement goes to the end of the first ring.
LEMMA OrderedGiven ==
    ASSUME NEW l \in Seq(Nat), NEW b \in Seq(Nat), NEW a \in Seq(Nat), Ordered(l, b, a),
           NEW x \in Nat, \A y \in ToSet(l) \cup ToSet(b) \cup ToSet(a) : y < x
    PROVE  Ordered(l, b, Append(a, x))
<1>1. <<x>> \in Seq(Nat) /\ Append(a, x) = a \o <<x>> /\ ToSet(<<x>>) = {x} /\ Increasing(<<x>>)
  BY DEF ToSet, Increasing
<1>2. ToSet(Append(a, x)) = ToSet(a) \cup {x}
  <2>1. \A t \in Seq(Nat) : ToSet(a \o t) = ToSet(a) \cup ToSet(t)
    BY ToSetConcat
  <2> QED BY <1>1, <2>1
<1>3. Below(a, <<x>>)
  BY <1>1 DEF Below
<1>4. Increasing(Append(a, x))
  BY <1>1, <1>3, IncreasingConcat, ZenonT(60) DEF Ordered
<1>5. Below(l, Append(a, x)) /\ Below(b, Append(a, x))
  BY <1>2 DEF Ordered, Below
<1> QED BY <1>4, <1>5 DEF Ordered

\* A first part p of a sequence moves to the end of the one before.
LEMMA OrderedMoved ==
    ASSUME NEW b \in Seq(Nat), NEW p \in Seq(Nat), NEW q \in Seq(Nat),
           Increasing(b), Increasing(p \o q), Below(b, p \o q)
    PROVE  /\ Increasing(b \o p) /\ Increasing(q) /\ Below(b \o p, q)
           /\ ToSet(p \o q) = ToSet(p) \cup ToSet(q) /\ ToSet(p) \cap ToSet(q) = {}
           /\ ToSet(b \o p) = ToSet(b) \cup ToSet(p)
<1>1. ToSet(p \o q) = ToSet(p) \cup ToSet(q) /\ ToSet(b \o p) = ToSet(b) \cup ToSet(p)
  BY ToSetConcat
<1>2. Increasing(p) /\ Increasing(q) /\ Below(p, q)
  BY IncreasingConcat
<1>3. Below(b, p) /\ Below(b, q)
  BY <1>1 DEF Below
<1>4. Increasing(b \o p)
  BY <1>2, <1>3, IncreasingConcat
<1>5. Below(b \o p, q)
  BY <1>1, <1>2, <1>3 DEF Below
<1>6. ToSet(p) \cap ToSet(q) = {}
  <2>1. ToSet(p) \subseteq Nat
    BY ToSetType
  <2> QED BY <1>2, <2>1 DEF Below
<1> QED BY <1>1, <1>2, <1>4, <1>5, <1>6

-----------------------------------------------------------------------------
(* Types.                                                                   *)

\* Only a worker that executes has statements.
Working == \A w \in Workers : wpc[w] = "exec" <=> m_sqllist[w] # <<>>

PoolTypes == TypeOK /\ Working

LEMMA StatementsAreNumbers == MaxStmts \in Nat /\ Statements \subseteq Nat
BY SqlConstants DEF Statements

LEMMA PoolTypesInit == Init => PoolTypes
<1> SUFFICES ASSUME Init PROVE PoolTypes
  OBVIOUS
<1>1. /\ MaxStmts \in Nat /\ PoolMax \in Nat /\ ListMax \in Nat /\ ReConnEvery \in Nat
      /\ MaxOutages \in Nat
  BY SqlConstants
<1>2. /\ <<>> \in Seq(Statements) /\ <<>> \in Seq(Workers) /\ Len(<<>>) = 0
      /\ 0 \in 0..MaxStmts /\ 0 \in 0..0 /\ 0 \in 0..MaxOutages /\ 0 \in 0..ReConnEvery
  BY <1>1
<1>3. \A w \in Workers : m_sqllist[w] = <<>> /\ wpc[w] = "none"
  BY DEF Init
<1>4. Working
  BY <1>3 DEF Working
<1>5. TypeOK
  BY <1>1, <1>2 DEF Init, TypeOK
<1> QED BY <1>4, <1>5 DEF PoolTypes

\* A step of the copy thread moves a part of the first ring.
LEMMA CopyMoves ==
    ASSUME TypeOK, SqlCacheCopyThread
    PROVE  \E p, q \in Seq(Statements) :
             /\ receive = p \o q
             /\ issue' = issue \o p /\ issue' \in Seq(Statements) /\ Len(issue') <= PoolMax
             /\ receive' = q /\ Len(q) <= PoolMax
<1> DEFINE n == MoveCount(issue, receive, PoolMax)
           p == SubSeq(receive, 1, n)
           q == SubSeq(receive, n + 1, Len(receive))
<1>1. /\ issue \in Seq(Statements) /\ Len(issue) <= PoolMax /\ PoolMax \in Nat
      /\ receive \in Seq(Statements) /\ Len(receive) <= PoolMax
  BY SqlConstants DEF TypeOK
<1>2. n \in 0..Len(receive) /\ Len(issue) + n <= PoolMax
  BY <1>1, MoveFits
<1>3. issue' = issue \o p /\ receive' = q
  BY DEF SqlCacheCopyThread
<1> HIDE DEF n
<1>4. /\ p \in Seq(Statements) /\ Len(p) = n /\ q \in Seq(Statements) /\ Len(q) = Len(receive) - n
      /\ p \o q = receive
  BY <1>1, <1>2, Cut
<1> HIDE DEF p, q
<1>5. issue \o p \in Seq(Statements) /\ Len(issue \o p) = Len(issue) + Len(p)
  BY <1>1, <1>4, ConcatProperties
<1>6. Len(receive) \in Nat
  BY <1>1
<1>7. Len(issue \o p) <= PoolMax /\ Len(q) <= PoolMax
  BY <1>1, <1>2, <1>4, <1>5, <1>6
<1> QED BY <1>3, <1>4, <1>5, <1>7

\* A worker takes a part of the second ring.
LEMMA TakeMoves ==
    ASSUME PoolTypes, NEW w \in Workers, Take(w)
    PROVE  \E p, q \in Seq(Statements) :
             /\ issue = p \o q /\ issue' = q /\ Len(q) <= PoolMax
             /\ m_sqllist[w] = <<>> /\ Len(p) <= ListMax
             /\ m_sqllist' = [m_sqllist EXCEPT ![w] = p]
             /\ wpc' = [wpc EXCEPT ![w] = IF p = <<>> THEN "top" ELSE "exec"]
<1> DEFINE n == MoveCount(m_sqllist[w], issue, ListMax)
           p == SubSeq(issue, 1, n)
           q == SubSeq(issue, n + 1, Len(issue))
<1>1. /\ issue \in Seq(Statements) /\ Len(issue) <= PoolMax /\ PoolMax \in Nat /\ ListMax \in Nat
      /\ m_sqllist \in [Workers -> Seq(Statements)] /\ m_sqllist[w] \in Seq(Statements)
      /\ Len(m_sqllist[w]) <= ListMax
  BY SqlConstants DEF PoolTypes, TypeOK
<1>2. m_sqllist[w] = <<>>
  <2>1. wpc[w] # "exec"
    BY DEF Take
  <2> QED BY <2>1 DEF PoolTypes, Working
<1>3. n \in 0..Len(issue) /\ n <= ListMax
  <2>1. n \in 0..Len(issue) /\ Len(m_sqllist[w]) + n <= ListMax
    BY <1>1, MoveFits
  <2>2. Len(m_sqllist[w]) = 0
    BY <1>2
  <2> HIDE DEF n
  <2> QED BY <2>1, <2>2, <1>1
<1>4. /\ m_sqllist' = [m_sqllist EXCEPT ![w] = m_sqllist[w] \o p] /\ issue' = q
      /\ wpc' = [wpc EXCEPT ![w] = IF m_sqllist'[w] = <<>> THEN "top" ELSE "exec"]
  BY <1>1 DEF Take
<1> HIDE DEF n
<1>5. /\ p \in Seq(Statements) /\ Len(p) = n /\ q \in Seq(Statements) /\ Len(q) = Len(issue) - n
      /\ p \o q = issue
  BY <1>1, <1>3, Cut
<1> HIDE DEF p, q
<1>6. m_sqllist[w] \o p = p
  BY <1>2, <1>5, ConcatEmptySeq
<1>7. m_sqllist' = [m_sqllist EXCEPT ![w] = p] /\ m_sqllist'[w] = p
  BY <1>1, <1>4, <1>6
<1>8. Len(issue) \in Nat
  BY <1>1
<1>9. Len(q) <= PoolMax /\ Len(p) <= ListMax
  BY <1>1, <1>3, <1>5, <1>8
<1> QED BY <1>2, <1>4, <1>5, <1>7, <1>9

\* Activating a worker keeps the types.
LEMMA ActivateTypes ==
    ASSUME PoolTypes, NEW w \in Workers, Activate(w), m_bakList # <<>>, UNCHANGED m_sqllist
    PROVE  /\ m_connList' \in Seq(Workers) /\ m_bakList' \in Seq(Workers)
           /\ m_Active' \in [Workers -> BOOLEAN]
           /\ wpc' \in [Workers -> {"none", "started", "ended", "top", "wait", "take", "exec"}]
           /\ Working'
<1>1. /\ m_connList \in Seq(Workers) /\ m_bakList \in Seq(Workers) /\ m_Active \in [Workers -> BOOLEAN]
      /\ wpc \in [Workers -> {"none", "started", "ended", "top", "wait", "take", "exec"}]
  BY DEF PoolTypes, TypeOK
<1>2. m_connList' \in Seq(Workers) /\ m_bakList' \in Seq(Workers)
  BY <1>1, HeadFirst DEF Activate
<1>3. m_Active' \in [Workers -> BOOLEAN]
  BY <1>1 DEF Activate
<1>4. wpc' \in [Workers -> {"none", "started", "ended", "top", "wait", "take", "exec"}]
  BY <1>1 DEF Activate
<1>5. \A v \in Workers : wpc'[v] = "exec" <=> wpc[v] = "exec"
  BY <1>1 DEF Activate
<1>6. Working'
  BY <1>5 DEF PoolTypes, Working
<1> QED BY <1>2, <1>3, <1>4, <1>6

\* The numbers of a pass: what it retires is there, and half of the handles is left.
LEMMA PlanCounts ==
    ASSUME TypeOK
    PROVE  /\ nTreadCount \in Nat /\ nHalfCount \in Nat
           /\ Len(m_connList) > nTreadCount /\ Len(m_connList) > nHalfCount =>
                /\ nCloseCount \in 1..Len(m_connList)
                /\ Len(m_connList) - nCloseCount >= nHalfCount
<1>1. /\ PerThread \in Nat /\ PerThread > 0 /\ MaxStmts \in Nat /\ given \in Nat
      /\ m_nSqlCountPerSapce \in Nat
  BY SqlConstants DEF TypeOK
<1>2. Cardinality(Workers) \in Nat
  BY SqlConstants, FS_CardinalityType
<1>3. \A a \in Nat, b \in Nat : b > 0 => a \div b \in Nat
  OBVIOUS
<1>4. m_nSqlCountPerSapce + PerThread - 1 \in Nat
  BY <1>1
<1>5. nTreadCount \in Nat
  BY <1>1, <1>3, <1>4 DEF nTreadCount
<1>6. nHalfCount \in Nat
  BY <1>2, <1>3 DEF nHalfCount
<1>7. Len(m_connList) \in Nat
  BY DEF TypeOK
<1>8. Len(m_connList) > nTreadCount /\ Len(m_connList) > nHalfCount =>
        /\ nCloseCount \in 1..Len(m_connList)
        /\ Len(m_connList) - nCloseCount >= nHalfCount
  BY <1>5, <1>6, <1>7 DEF nCloseCount, Least
<1> QED BY <1>5, <1>6, <1>8

\* What a pass may do with the lists: nothing, or retire the first k workers.
LEMMA PlanMoves ==
    ASSUME TypeOK, Plan
    PROVE  /\ nOpen' \in Nat /\ cpc' = "open"
           /\ \/ UNCHANGED <<m_Active, m_connList, m_bakList>>
              \/ \E gone, rest \in Seq(Workers) :
                   /\ m_connList = gone \o rest /\ m_connList' = rest
                   /\ Len(rest) >= nHalfCount
                   /\ m_bakList' = m_bakList \o gone
                   /\ m_Active' = [w \in Workers |-> m_Active[w] /\ w \notin ToSet(gone)]
<1>1. /\ nTreadCount \in Nat /\ nHalfCount \in Nat
      /\ Len(m_connList) > nTreadCount /\ Len(m_connList) > nHalfCount =>
           /\ nCloseCount \in 1..Len(m_connList)
           /\ Len(m_connList) - nCloseCount >= nHalfCount
  BY PlanCounts
<1>2. m_connList \in Seq(Workers) /\ Len(m_connList) \in Nat
  BY DEF TypeOK
<1>3. CASE Len(m_connList) < nTreadCount /\ m_bakList # <<>>
  <2>1. nOpen' = nTreadCount - Len(m_connList) /\ UNCHANGED <<m_Active, m_connList, m_bakList>> /\ cpc' = "open"
    BY <1>1, <1>2, <1>3 DEF Plan
  <2> QED BY <1>1, <1>2, <1>3, <2>1
<1>4. CASE /\ Len(m_connList) > nTreadCount /\ Cardinality(Workers) >= 2
           /\ Len(m_connList) > nHalfCount
  <2> DEFINE gone == SubSeq(m_connList, 1, nCloseCount)
             rest == SubSeq(m_connList, nCloseCount + 1, Len(m_connList))
  <2>1. /\ nOpen' = 0 /\ cpc' = "open" /\ m_connList' = rest /\ m_bakList' = m_bakList \o gone
        /\ m_Active' = [w \in Workers |-> m_Active[w] /\ w \notin ToSet(gone)]
    BY <1>1, <1>2, <1>4, SMTT(30) DEF Plan
  <2>2. nCloseCount \in 0..Len(m_connList) /\ Len(m_connList) - nCloseCount >= nHalfCount
    BY <1>1, <1>2, <1>4
  <2>3. /\ gone \in Seq(Workers) /\ rest \in Seq(Workers) /\ m_connList = gone \o rest
        /\ Len(rest) = Len(m_connList) - nCloseCount
    BY <1>2, <2>2, Cut
  <2> HIDE DEF gone, rest
  <2> QED BY <2>1, <2>2, <2>3
<1>5. CASE /\ ~(Len(m_connList) < nTreadCount /\ m_bakList # <<>>)
           /\ ~(/\ Len(m_connList) > nTreadCount /\ Cardinality(Workers) >= 2
                /\ Len(m_connList) > nHalfCount)
  BY <1>5 DEF Plan
<1> QED BY <1>3, <1>4, <1>5

\* Every step keeps the types.
LEMMA PoolTypesStep == PoolTypes /\ [Next]_vars => PoolTypes'
<1> SUFFICES ASSUME PoolTypes, [Next]_vars PROVE PoolTypes'
  OBVIOUS
<1>0. /\ TypeOK /\ Working
      /\ MaxStmts \in Nat /\ PoolMax \in Nat /\ ListMax \in Nat /\ ReConnEvery \in Nat
      /\ MaxOutages \in Nat
  BY SqlConstants DEF PoolTypes
<1>1. CASE UNCHANGED vars
  BY <1>0, <1>1 DEF vars, stmts, work, conns, check, env, TypeOK, Working, PoolTypes
<1>2. ASSUME NEW w \in Workers, NewHandle(w)
      PROVE  PoolTypes'
  <2>1. TypeOK'
    BY <1>0, <1>2 DEF NewHandle, TypeOK, stmts, check, env
  <2>2. Working'
    BY <1>0, <1>2 DEF NewHandle, Working, TypeOK
  <2> QED BY <2>1, <2>2 DEF PoolTypes
<1>3. ASSUME NEW w \in Workers, setMyPool(w)
      PROVE  PoolTypes'
  <2>1. Append(m_connList, w) \in Seq(Workers)
    BY <1>0 DEF TypeOK
  <2>2. TypeOK'
    BY <1>0, <1>3, <2>1 DEF setMyPool, TypeOK, stmts, work, env
  <2>3. Working'
    BY <1>0, <1>3 DEF setMyPool, Working, work
  <2> QED BY <2>2, <2>3 DEF PoolTypes
<1>4. CASE execSqlAsy
  <2>1. given + 1 \in Statements /\ given' = given + 1 /\ given' \in 0..MaxStmts
        /\ m_nSqlCountPerSapce' \in 0..given'
    BY <1>0, <1>4 DEF execSqlAsy, TypeOK, Statements
  <2>2. /\ refused' \subseteq Statements
        /\ receive' \in Seq(Statements) /\ Len(receive') <= PoolMax
    <3>1. CASE Len(receive) < PoolMax
      <4>1. receive \in Seq(Statements) /\ Len(receive) \in Nat
        BY <1>0 DEF TypeOK
      <4>2. /\ Append(receive, given + 1) \in Seq(Statements)
            /\ Len(Append(receive, given + 1)) = Len(receive) + 1
        BY <2>1, <4>1
      <4>3. receive' = Append(receive, given + 1) /\ UNCHANGED refused
        BY <1>4, <3>1 DEF execSqlAsy
      <4> QED BY <1>0, <3>1, <4>1, <4>2, <4>3 DEF TypeOK
    <3>2. CASE ~(Len(receive) < PoolMax)
      BY <1>0, <1>4, <2>1, <3>2 DEF execSqlAsy, TypeOK
    <3> QED BY <3>1, <3>2
  <2>3. TypeOK'
    BY <1>0, <1>4, <2>1, <2>2 DEF execSqlAsy, TypeOK, work, conns, check, env
  <2>4. Working'
    BY <1>0, <1>4 DEF execSqlAsy, Working, work
  <2> QED BY <2>3, <2>4 DEF PoolTypes
<1>5. ASSUME NEW i \in 1..MaxStmts, GetSqlRestult(HashOf[i])
      PROVE  PoolTypes'
  <2>1. TypeOK'
    BY <1>0, <1>5 DEF GetSqlRestult, TypeOK, stmts, work, conns, check, env
  <2>2. Working'
    BY <1>0, <1>5 DEF GetSqlRestult, Working, work
  <2> QED BY <2>1, <2>2 DEF PoolTypes
<1>6. CASE SqlCacheCopyThread
  <2>1. PICK p, q \in Seq(Statements) :
             /\ issue' = issue \o p /\ issue' \in Seq(Statements) /\ Len(issue') <= PoolMax
             /\ receive' = q /\ Len(q) <= PoolMax
    BY <1>0, <1>6, CopyMoves
  <2>2. TypeOK'
    BY <1>0, <1>6, <2>1 DEF SqlCacheCopyThread, TypeOK, work, conns, check, env
  <2>3. Working'
    BY <1>0, <1>6 DEF SqlCacheCopyThread, Working, work
  <2> QED BY <2>2, <2>3 DEF PoolTypes
<1>7. ASSUME NEW w \in Workers, Begin(w)
      PROVE  PoolTypes'
  <2>1. TypeOK'
    BY <1>0, <1>7 DEF Begin, TypeOK, stmts, conns, check, env
  <2>2. Working'
    BY <1>0, <1>7 DEF Begin, Working, TypeOK
  <2> QED BY <2>1, <2>2 DEF PoolTypes
<1>8. ASSUME NEW w \in Workers, Wait(w)
      PROVE  PoolTypes'
  <2>1. TypeOK'
    BY <1>0, <1>8 DEF Wait, TypeOK, stmts, conns, check, env
  <2>2. Working'
    BY <1>0, <1>8 DEF Wait, Working, TypeOK
  <2> QED BY <2>1, <2>2 DEF PoolTypes
<1>9. ASSUME NEW w \in Workers, Take(w)
      PROVE  PoolTypes'
  <2>1. PICK p, q \in Seq(Statements) :
             /\ issue' = q /\ Len(q) <= PoolMax /\ Len(p) <= ListMax
             /\ m_sqllist' = [m_sqllist EXCEPT ![w] = p]
             /\ wpc' = [wpc EXCEPT ![w] = IF p = <<>> THEN "top" ELSE "exec"]
    BY <1>9, TakeMoves
  <2>2. TypeOK'
    BY <1>0, <1>9, <2>1, ZenonT(60) DEF Take, TypeOK, conns, check, env
  <2>3. Working'
    BY <1>0, <2>1 DEF Working, TypeOK
  <2> QED BY <2>2, <2>3 DEF PoolTypes
<1>10. ASSUME NEW w \in Workers, NEW ok \in BOOLEAN, Exec(w, ok)
       PROVE  PoolTypes'
  <2>1. m_sqllist[w] # <<>> /\ m_sqllist[w] \in Seq(Statements)
    BY <1>0, <1>10 DEF Exec, Working, TypeOK
  <2>2. /\ Head(m_sqllist[w]) \in Statements /\ Tail(m_sqllist[w]) \in Seq(Statements)
        /\ Len(Tail(m_sqllist[w])) = Len(m_sqllist[w]) - 1 /\ Len(m_sqllist[w]) \in Nat
    BY <2>1, HeadFirst
  <2>3. HashOf[Head(m_sqllist[w])] \in Nat
    BY <2>2, SqlConstants DEF Statements
  <2>4. ResultMap' \subseteq Nat /\ done' \subseteq Statements
    BY <1>0, <1>10, <2>2, <2>3 DEF Exec, TypeOK
  <2>5. /\ m_sqllist' \in [Workers -> Seq(Statements)] /\ \A v \in Workers : Len(m_sqllist'[v]) <= ListMax
        /\ wpc' \in [Workers -> {"none", "started", "ended", "top", "wait", "take", "exec"}]
    BY <1>0, <1>10, <2>2 DEF Exec, TypeOK
  <2>6. TypeOK'
    BY <1>0, <1>10, <2>4, <2>5 DEF Exec, TypeOK, stmts, conns, check, env
  <2>7. Working'
    BY <1>0, <1>10 DEF Exec, Working, TypeOK
  <2> QED BY <2>6, <2>7 DEF PoolTypes
<1>11. CASE SqlConnectCheckThread
  <2>1. m_bakList \o m_connList \in Seq(Workers)
    BY <1>0 DEF TypeOK
  <2>2. /\ cpc' \in {"none", "sleep", "test", "plan", "open"} /\ passes' \in 0..ReConnEvery
        /\ todo' \in Seq(Workers)
    <3>1. passes \in 0..ReConnEvery /\ todo \in Seq(Workers)
      BY <1>0 DEF TypeOK
    <3>2. CASE passes >= ReConnEvery
      <4>1. cpc' = "test" /\ todo' = m_bakList \o m_connList /\ passes' = 0
        BY <1>11, <3>2 DEF SqlConnectCheckThread
      <4> QED BY <1>0, <2>1, <4>1
    <3>3. CASE ~(passes >= ReConnEvery)
      <4>1. cpc' = "plan" /\ passes' = passes + 1 /\ todo' = todo
        BY <1>11, <3>3 DEF SqlConnectCheckThread
      <4> QED BY <1>0, <3>1, <3>3, <4>1
    <3> QED BY <3>2, <3>3
  <2>3. UNCHANGED <<stmts, work, ResultMap, m_MyPool, conns, nOpen, env>>
    BY <1>11 DEF SqlConnectCheckThread
  <2>4. TypeOK'
    BY <1>0, <2>2, <2>3 DEF TypeOK, stmts, work, conns, env
  <2>5. Working'
    BY <1>0, <2>3 DEF Working, work
  <2> QED BY <2>4, <2>5 DEF PoolTypes
<1>12. CASE TestOne
  <2>1. todo \in Seq(Workers) /\ Head(todo) \in Workers /\ Tail(todo) \in Seq(Workers)
    BY <1>0, <1>12, HeadFirst DEF TestOne, TypeOK
  <2>2. /\ m_bCooncet' \in [Workers -> BOOLEAN] /\ m_Active' \in [Workers -> BOOLEAN]
        /\ todo' = Tail(todo)
    BY <1>0, <1>12, <2>1 DEF TestOne, TypeOK
  <2>3. m_connList' \in Seq(Workers) /\ m_bakList' \in Seq(Workers)
    <3>1. /\ m_connList \in Seq(Workers) /\ m_bakList \in Seq(Workers)
          /\ Append(m_bakList, Head(todo)) \in Seq(Workers)
      BY <1>0, <2>1 DEF TypeOK
    <3>2. Contains(m_connList, Head(todo)) => Erase(m_connList, Head(todo)) \in Seq(Workers)
      BY <3>1, ContainsElement, EraseOne
    <3>3. \/ /\ Contains(m_connList, Head(todo)) /\ m_connList' = Erase(m_connList, Head(todo))
             /\ m_bakList' = Append(m_bakList, Head(todo))
          \/ UNCHANGED <<m_connList, m_bakList>>
      BY <1>12 DEF TestOne
    <3> QED BY <3>1, <3>2, <3>3
  <2>4. UNCHANGED <<stmts, work, ResultMap, m_MyPool, cpc, passes, nOpen, env>>
    BY <1>12 DEF TestOne
  <2>5. TypeOK'
    BY <1>0, <2>1, <2>2, <2>3, <2>4 DEF TypeOK, stmts, work, env
  <2>6. Working'
    BY <1>0, <2>4 DEF Working, work
  <2> QED BY <2>5, <2>6 DEF PoolTypes
<1>13. CASE TestsDone
  <2>1. TypeOK'
    BY <1>0, <1>13 DEF TestsDone, TypeOK, stmts, work, conns, env
  <2>2. Working'
    BY <1>0, <1>13 DEF TestsDone, Working, work
  <2> QED BY <2>1, <2>2 DEF PoolTypes
<1>14. CASE Plan
  <2>1. UNCHANGED <<stmts, work, ResultMap, m_MyPool, m_bCooncet, todo, passes, env>>
    BY <1>14 DEF Plan
  <2>2. nOpen' \in Nat /\ cpc' = "open"
    BY <1>0, <1>14, PlanMoves
  <2>3. /\ m_connList' \in Seq(Workers) /\ m_bakList' \in Seq(Workers)
        /\ m_Active' \in [Workers -> BOOLEAN]
    <3>1. CASE UNCHANGED <<m_Active, m_connList, m_bakList>>
      BY <1>0, <3>1 DEF TypeOK
    <3>2. CASE ~UNCHANGED <<m_Active, m_connList, m_bakList>>
      <4>1. PICK gone, rest \in Seq(Workers) :
              /\ m_connList' = rest /\ m_bakList' = m_bakList \o gone
              /\ m_Active' = [w \in Workers |-> m_Active[w] /\ w \notin ToSet(gone)]
        BY <1>0, <1>14, <3>2, PlanMoves
      <4>2. m_bakList \o gone \in Seq(Workers)
        BY <1>0 DEF TypeOK
      <4>3. \A w \in Workers : (m_Active[w] /\ w \notin ToSet(gone)) \in BOOLEAN
        OBVIOUS
      <4> QED BY <4>1, <4>2, <4>3
    <3> QED BY <3>1, <3>2
  <2>4. TypeOK'
    BY <1>0, <2>1, <2>2, <2>3 DEF TypeOK, stmts, work, env
  <2>5. Working'
    BY <1>0, <2>1 DEF Working, work
  <2> QED BY <2>4, <2>5 DEF PoolTypes
<1>15. CASE AddConnectionFromBak
  <2>1. /\ UNCHANGED <<stmts, m_sqllist, done, ResultMap, m_MyPool, cpc, todo, passes, env>>
        /\ m_bakList # <<>> /\ nOpen' = nOpen - 1 /\ nOpen > 0
    BY <1>15 DEF AddConnectionFromBak
  <2>2. Head(m_bakList) \in Workers
    BY <1>0, <2>1, HeadFirst DEF TypeOK
  <2>3. nOpen' \in Nat
    BY <1>0, <2>1 DEF TypeOK
  <2>4. m_bCooncet' \in [Workers -> BOOLEAN]
    BY <1>0, <1>15, <2>2 DEF AddConnectionFromBak, TypeOK
  <2>5. Activate(Head(m_bakList)) \/ UNCHANGED <<m_connList, m_bakList, m_Active, wpc>>
    BY <1>15 DEF AddConnectionFromBak
  <2>6. /\ m_connList' \in Seq(Workers) /\ m_bakList' \in Seq(Workers)
        /\ m_Active' \in [Workers -> BOOLEAN]
        /\ wpc' \in [Workers -> {"none", "started", "ended", "top", "wait", "take", "exec"}]
        /\ Working'
    <3>1. CASE Activate(Head(m_bakList))
      BY <2>1, <2>2, <3>1, ActivateTypes
    <3>2. CASE UNCHANGED <<m_connList, m_bakList, m_Active, wpc>>
      BY <1>0, <2>1, <3>2 DEF TypeOK, Working
    <3> QED BY <2>5, <3>1, <3>2
  <2>7. TypeOK'
    BY <1>0, <2>1, <2>3, <2>4, <2>6 DEF TypeOK, stmts, env
  <2> QED BY <2>6, <2>7 DEF PoolTypes
<1>16. CASE PassEnds
  <2>1. 0 \in 0..given
    BY <1>0 DEF TypeOK
  <2>2. TypeOK'
    BY <1>0, <1>16, <2>1 DEF PassEnds, TypeOK, work, conns, env
  <2>3. Working'
    BY <1>0, <1>16 DEF PassEnds, Working, work
  <2> QED BY <2>2, <2>3 DEF PoolTypes
<1>17. CASE Outage \/ Repair
  <2>1. TypeOK'
    <3>1. /\ UNCHANGED <<stmts, work, ResultMap, m_MyPool, conns, check>>
          /\ db' \in BOOLEAN /\ outages' \in 0..MaxOutages
      <4>1. outages \in 0..MaxOutages
        BY <1>0 DEF TypeOK
      <4>2. CASE Outage
        <5>1. /\ UNCHANGED <<stmts, work, ResultMap, m_MyPool, conns, check>> /\ db' = FALSE
              /\ outages < MaxOutages /\ outages' = outages + 1
          BY <4>2 DEF Outage
        <5>2. outages + 1 \in 0..MaxOutages
          BY <1>0, <4>1, <5>1
        <5> QED BY <5>1, <5>2
      <4>3. CASE Repair
        BY <4>1, <4>3 DEF Repair
      <4> QED BY <1>17, <4>2, <4>3
    <3> QED BY <1>0, <3>1 DEF TypeOK, stmts, work, conns, check
  <2>2. Working'
    BY <1>0, <1>17 DEF Outage, Repair, Working, work
  <2> QED BY <2>1, <2>2 DEF PoolTypes
<1> QED
  BY <1>1, <1>2, <1>3, <1>4, <1>5, <1>6, <1>7, <1>8, <1>9, <1>10, <1>11, <1>12, <1>13, <1>14,
     <1>15, <1>16, <1>17 DEF Next, InitConnection, Worker, Checker

\* The variables of the pool keep their types, and only a worker that executes has statements
\* (SqlConnPool, CSqlBase::SqlProcessThread).
THEOREM PoolTypeCorrect == Spec => []PoolTypes
<1>1. Init => PoolTypes
  BY PoolTypesInit
<1>2. PoolTypes /\ [Next]_vars => PoolTypes'
  BY PoolTypesStep
<1> QED BY <1>1, <1>2, PTL DEF Spec

\* A pass of the check thread leaves half of the handles active, or the workers it found:
\* DelConnectionFromActive never retires more (SqlConnectCheckThread).
THEOREM PoolKeepsHalf == Spec => HalfKept
<1> DEFINE Half == cpc = "plan" => Len(m_connList') >= Least(Len(m_connList), nHalfCount)
<1>1. PoolTypes /\ [Next]_vars => [Half]_vars
  <2> SUFFICES ASSUME PoolTypes, Next, cpc = "plan"
               PROVE  Len(m_connList') >= Least(Len(m_connList), nHalfCount)
    OBVIOUS
  <2>1. TypeOK /\ m_connList \in Seq(Workers) /\ Len(m_connList) \in Nat
    BY DEF PoolTypes, TypeOK
  <2>2. nHalfCount \in Nat
    BY <2>1, PlanCounts
  <2>3. CASE UNCHANGED m_connList
    BY <2>1, <2>2, <2>3 DEF Least
  <2>4. CASE Plan
    <3>1. CASE ~UNCHANGED m_connList
      <4>1. PICK gone, rest \in Seq(Workers) : m_connList' = rest /\ Len(rest) >= nHalfCount
        BY <2>1, <2>4, <3>1, PlanMoves
      <4> QED BY <2>1, <2>2, <4>1 DEF Least
    <3> QED BY <2>3, <3>1
  <2>5. ASSUME NEW w \in Workers, setMyPool(w)
        PROVE  Len(m_connList') >= Least(Len(m_connList), nHalfCount)
    <3>1. m_connList' = Append(m_connList, w) /\ Len(Append(m_connList, w)) = Len(m_connList) + 1
      BY <2>1, <2>5 DEF setMyPool
    <3> QED BY <2>1, <2>2, <3>1 DEF Least
  <2>6. Plan \/ (\E w \in Workers : setMyPool(w)) \/ UNCHANGED m_connList
    BY DEF Next, InitConnection, Worker, Checker, NewHandle, execSqlAsy, GetSqlRestult,
           SqlCacheCopyThread, Begin, Wait, Take, Exec, SqlConnectCheckThread, TestOne, TestsDone,
           AddConnectionFromBak, PassEnds, Outage, Repair, conns
  <2> QED BY <2>3, <2>4, <2>5, <2>6
<1> QED BY <1>1, PoolTypeCorrect, PTL DEF Spec, HalfKept

-----------------------------------------------------------------------------
(* Statements.                                                              *)

\* StatementsKept over its parts.
Spread(g, R, a, b, D, lists) ==
    /\ Once(1..g, R, ToSet(a), ToSet(b), D, Held(lists))
    /\ \A w \in Workers : Ordered(lists[w], b, a)

\* StatementsKept is Spread.
LEMMA SpreadIs ==
    ASSUME NEW g, NEW R, NEW a \in Seq(Statements), NEW b \in Seq(Statements), NEW D,
           NEW lists \in [Workers -> Seq(Statements)]
    PROVE  /\ InOnePlace(g, <<R, ToSet(a), ToSet(b), D>>, lists)
           /\ \A w \in Workers : Increasing(lists[w] \o b \o a)
           <=> Spread(g, R, a, b, D, lists)
<1>1. a \in Seq(Nat) /\ b \in Seq(Nat) /\ \A w \in Workers : lists[w] \in Seq(Nat)
  BY StatementsAreNumbers, SeqMonotonic
<1>2. \A w \in Workers : Increasing(lists[w] \o b \o a) <=> Ordered(lists[w], b, a)
  BY <1>1, OrderedIs
<1>3. InOnePlace(g, <<R, ToSet(a), ToSet(b), D>>, lists) <=>
        Once(1..g, R, ToSet(a), ToSet(b), D, Held(lists))
  BY OnceIs
<1> QED BY <1>2, <1>3 DEF Spread

\* Statement g + 1 is given, and accepted or refused.
LEMMA SpreadGiven ==
    ASSUME NEW g \in Nat, NEW R, NEW a \in Seq(Nat), NEW b \in Seq(Nat), NEW D,
           NEW lists \in [Workers -> Seq(Nat)], Spread(g, R, a, b, D, lists)
    PROVE  /\ Spread(g + 1, R \cup {g + 1}, a, b, D, lists)
           /\ Spread(g + 1, R, Append(a, g + 1), b, D, lists)
<1> DEFINE x == g + 1
<1>1. x \in Nat /\ x \notin 1..g /\ 1..x = (1..g) \cup {x}
  OBVIOUS
<1>2. ToSet(Append(a, x)) = ToSet(a) \cup {x}
  BY <1>1, ToSetAppend
<1>3. Once(1..g, R, ToSet(a), ToSet(b), D, Held(lists))
  BY DEF Spread
<1>4. /\ Once((1..g) \cup {x}, R, ToSet(a) \cup {x}, ToSet(b), D, Held(lists))
      /\ Once((1..g) \cup {x}, R \cup {x}, ToSet(a), ToSet(b), D, Held(lists))
  BY <1>1, <1>3, OnceGiven
<1>5. ASSUME NEW w \in Workers
      PROVE  Ordered(lists[w], b, Append(a, x))
  <2>1. ToSet(lists[w]) \cup ToSet(b) \cup ToSet(a) \subseteq 1..g
    BY <1>3 DEF Once, Held
  <2>2. \A y \in ToSet(lists[w]) \cup ToSet(b) \cup ToSet(a) : y < x
    BY <2>1
  <2>3. Ordered(lists[w], b, a) /\ lists[w] \in Seq(Nat)
    BY DEF Spread
  <2> HIDE DEF x
  <2> QED BY <1>1, <2>2, <2>3, OrderedGiven
<1>6. Spread(x, R \cup {x}, a, b, D, lists)
  BY <1>1, <1>4 DEF Spread
<1>7. Spread(x, R, Append(a, x), b, D, lists)
  BY <1>1, <1>2, <1>4, <1>5 DEF Spread
<1> QED BY <1>6, <1>7

\* The first part p of the first ring goes to the second.
LEMMA SpreadCopied ==
    ASSUME NEW g, NEW R, NEW p \in Seq(Nat), NEW q \in Seq(Nat), NEW b \in Seq(Nat), NEW D,
           NEW lists \in [Workers -> Seq(Nat)], Spread(g, R, p \o q, b, D, lists)
    PROVE  Spread(g, R, q, b \o p, D, lists)
<1>1. PICK w0 \in Workers : TRUE
  BY SqlConstants
<1>2. Increasing(b) /\ Increasing(p \o q) /\ Below(b, p \o q)
  BY <1>1 DEF Spread, Ordered
<1>3. /\ Increasing(b \o p) /\ Increasing(q) /\ Below(b \o p, q)
      /\ ToSet(p \o q) = ToSet(p) \cup ToSet(q) /\ ToSet(p) \cap ToSet(q) = {}
      /\ ToSet(b \o p) = ToSet(b) \cup ToSet(p)
  BY <1>2, OrderedMoved
<1>4. Once(1..g, R, ToSet(q), ToSet(b \o p), D, Held(lists))
  <2>1. Once(1..g, R, ToSet(p) \cup ToSet(q), ToSet(b), D, Held(lists))
    BY <1>3 DEF Spread
  <2>2. Once(1..g, R, ToSet(q), ToSet(b) \cup ToSet(p), D, Held(lists))
    BY <1>3, <2>1, OnceCopied
  <2> QED BY <1>3, <2>2
<1>5. ASSUME NEW w \in Workers
      PROVE  Ordered(lists[w], b \o p, q)
  <2>1. Increasing(lists[w]) /\ Below(lists[w], b) /\ Below(lists[w], p \o q)
    BY DEF Spread, Ordered
  <2>2. Below(lists[w], b \o p) /\ Below(lists[w], q)
    BY <1>3, <2>1 DEF Below
  <2> QED BY <1>3, <2>1, <2>2 DEF Ordered
<1> QED BY <1>4, <1>5 DEF Spread

\* The first part p of the second ring goes to a worker that had none.
LEMMA SpreadTaken ==
    ASSUME NEW g, NEW R, NEW a \in Seq(Nat), NEW p \in Seq(Nat), NEW q \in Seq(Nat), NEW D,
           NEW lists \in [Workers -> Seq(Nat)], NEW w \in Workers, lists[w] = <<>>,
           Spread(g, R, a, p \o q, D, lists)
    PROVE  Spread(g, R, a, q, D, [lists EXCEPT ![w] = p])
<1> SUFFICES ASSUME NEW lists1, lists1 = [lists EXCEPT ![w] = p]
             PROVE  Spread(g, R, a, q, D, lists1)
  OBVIOUS
<1>1. /\ Increasing(p \o q) /\ Increasing(a) /\ Below(p \o q, a)
      /\ ToSet(p \o q) = ToSet(p) \cup ToSet(q)
  BY ToSetConcat DEF Spread, Ordered
<1>2. Increasing(p) /\ Increasing(q) /\ Below(p, q)
  BY <1>1, IncreasingConcat
<1>3. ToSet(p) \cap ToSet(q) = {}
  <2>1. ToSet(p) \subseteq Nat
    BY ToSetType
  <2> QED BY <1>2, <2>1 DEF Below
<1>4. /\ Held(lists)[w] = {} /\ Held(lists1)[w] = ToSet(p)
      /\ \A v \in Workers : v # w => Held(lists1)[v] = Held(lists)[v]
  BY ToSetEmpty DEF Held
<1>5. Once(1..g, R, ToSet(a), ToSet(q), D, Held(lists1))
  <2> SUFFICES ASSUME NEW L, L = Held(lists), NEW M, M = Held(lists1),
                      NEW P, P = ToSet(p), NEW Q, Q = ToSet(q), NEW A, A = ToSet(a), NEW G, G = 1..g
               PROVE  Once(G, R, A, Q, D, M)
    OBVIOUS
  <2>1. Once(G, R, A, P \cup Q, D, L)
    BY <1>1 DEF Spread
  <2>2. P \cap Q = {} /\ M = Put(L, w, L[w] \cup P)
    BY <1>3, <1>4 DEF Held, Put
  <2>3. Once(G, R, A, Q, D, Put(L, w, L[w] \cup P))
    BY <2>1, <2>2, OnceTaken
  <2> QED BY <2>2, <2>3
<1>6. Below(p, a) /\ Below(q, a)
  BY <1>1 DEF Below
<1>7. ASSUME NEW v \in Workers
      PROVE  Ordered(lists1[v], q, a)
  <2>1. CASE v = w
    BY <1>1, <1>2, <1>6, <2>1 DEF Ordered
  <2>2. CASE v # w
    <3>1. lists1[v] = lists[v]
      BY <2>2
    <3>2. Increasing(lists[v]) /\ Below(lists[v], p \o q) /\ Below(lists[v], a)
      BY DEF Spread, Ordered
    <3>3. Below(lists[v], q)
      BY <1>1, <3>2 DEF Below
    <3> QED BY <1>1, <1>2, <1>6, <3>1, <3>2, <3>3 DEF Ordered
  <2> QED BY <2>1, <2>2
<1> QED BY <1>5, <1>7 DEF Spread

\* A worker is done with its first statement.
LEMMA SpreadDone ==
    ASSUME NEW g, NEW R, NEW a \in Seq(Nat), NEW b \in Seq(Nat), NEW D,
           NEW lists \in [Workers -> Seq(Nat)], NEW w \in Workers, lists[w] # <<>>,
           Spread(g, R, a, b, D, lists)
    PROVE  Spread(g, R, a, b, D \cup {Head(lists[w])}, [lists EXCEPT ![w] = Tail(@)])
<1> SUFFICES ASSUME NEW lists1, lists1 = [lists EXCEPT ![w] = Tail(@)],
                    NEW x, x = Head(lists[w]), NEW t, t = Tail(lists[w])
             PROVE  Spread(g, R, a, b, D \cup {x}, lists1)
  OBVIOUS
<1>1. /\ x \in Nat /\ t \in Seq(Nat) /\ <<x>> \in Seq(Nat)
      /\ <<x>> \o t = lists[w] /\ ToSet(lists[w]) = {x} \cup ToSet(t)
  BY HeadFirst
<1>2. Increasing(lists[w]) /\ Below(lists[w], b) /\ Below(lists[w], a)
  BY DEF Spread, Ordered
<1>3. Increasing(t) /\ Below(<<x>>, t)
  BY <1>1, <1>2, IncreasingConcat, ZenonT(60)
<1>4. x \notin ToSet(t)
  <2>1. ToSet(<<x>>) = {x}
    BY DEF ToSet
  <2>2. \A y \in ToSet(t) : x < y
    BY <1>3, <2>1 DEF Below
  <2> QED BY <1>1, <2>2
<1>5. /\ Held(lists)[w] = {x} \cup ToSet(t) /\ Held(lists1)[w] = ToSet(t)
      /\ \A v \in Workers : v # w => Held(lists1)[v] = Held(lists)[v]
  BY <1>1 DEF Held
<1>6. Once(1..g, R, ToSet(a), ToSet(b), D \cup {x}, Held(lists1))
  <2> SUFFICES ASSUME NEW L, L = Held(lists), NEW M, M = Held(lists1), NEW T, T = ToSet(t),
                      NEW A, A = ToSet(a), NEW B, B = ToSet(b), NEW G, G = 1..g
               PROVE  Once(G, R, A, B, D \cup {x}, M)
    OBVIOUS
  <2>1. Once(G, R, A, B, D, L)
    BY DEF Spread
  <2>2. /\ x \notin T /\ L[w] = {x} \cup T
        /\ M = Put(L, w, T)
    BY <1>4, <1>5 DEF Held, Put
  <2>3. Once(G, R, A, B, D \cup {x}, Put(L, w, T))
    BY <2>1, <2>2, OnceDone
  <2> QED BY <2>2, <2>3
<1>7. ASSUME NEW v \in Workers
      PROVE  Ordered(lists1[v], b, a)
  <2>1. CASE v = w
    <3>1. Below(t, b) /\ Below(t, a)
      BY <1>1, <1>2 DEF Below
    <3> QED BY <1>3, <2>1, <3>1 DEF Spread, Ordered
  <2>2. CASE v # w
    BY <2>2 DEF Spread
  <2> QED BY <2>1, <2>2
<1> QED BY <1>6, <1>7 DEF Spread

\* StatementsKept, now and after a step, is Spread.
LEMMA KeptIsSpread ==
    /\ TypeOK => (StatementsKept <=> Spread(given, refused, receive, issue, done, m_sqllist))
    /\ TypeOK' => (StatementsKept' <=>
                     Spread(given', refused', receive', issue', done', m_sqllist'))
<1>1. ASSUME TypeOK
      PROVE  StatementsKept <=> Spread(given, refused, receive, issue, done, m_sqllist)
  <2>1. /\ receive \in Seq(Statements) /\ issue \in Seq(Statements)
        /\ m_sqllist \in [Workers -> Seq(Statements)]
    BY <1>1 DEF TypeOK
  <2> QED BY <2>1, SpreadIs DEF StatementsKept, StatementOnce, GivenOrder
<1>2. ASSUME TypeOK'
      PROVE  StatementsKept' <=> Spread(given', refused', receive', issue', done', m_sqllist')
  <2>1. /\ receive' \in Seq(Statements) /\ issue' \in Seq(Statements)
        /\ m_sqllist' \in [Workers -> Seq(Statements)]
    BY <1>2 DEF TypeOK
  <2> QED BY <2>1, SpreadIs DEF StatementsKept, StatementOnce, GivenOrder
<1> QED BY <1>1, <1>2

LEMMA StatementsInit == Init => StatementsKept
<1> SUFFICES ASSUME Init PROVE StatementsKept
  OBVIOUS
<1>1. TypeOK
  BY PoolTypesInit DEF PoolTypes
<1>2. /\ given = 0 /\ refused = {} /\ receive = <<>> /\ issue = <<>> /\ done = {}
      /\ \A w \in Workers : m_sqllist[w] = <<>>
  BY DEF Init
<1>3. ToSet(<<>>) = {} /\ 1..0 = {}
  BY ToSetEmpty
<1>4. \A w \in Workers : Held(m_sqllist)[w] = {}
  BY <1>2, <1>3 DEF Held
<1>5. Once(1..0, {}, {}, {}, {}, Held(m_sqllist))
  BY <1>3, <1>4 DEF Once
<1>6. Increasing(<<>>) /\ Below(<<>>, <<>>)
  <2>1. DOMAIN <<>> = {}
    OBVIOUS
  <2> QED BY <1>3, <2>1 DEF Increasing, Below
<1>7. \A w \in Workers : Ordered(m_sqllist[w], issue, receive)
  BY <1>2, <1>6 DEF Ordered
<1>8. Spread(given, refused, receive, issue, done, m_sqllist)
  BY <1>2, <1>3, <1>5, <1>7 DEF Spread
<1> QED BY <1>1, <1>8, KeptIsSpread

\* The steps that move a statement, and what the others leave alone.
LEMMA StatementMoves ==
    Next => \/ execSqlAsy
            \/ SqlCacheCopyThread
            \/ \E w \in Workers : Take(w)
            \/ \E w \in Workers, ok \in BOOLEAN : Exec(w, ok)
            \/ UNCHANGED <<given, refused, receive, issue, done, m_sqllist>>
BY DEF Next, InitConnection, Worker, Checker, NewHandle, setMyPool, GetSqlRestult, Begin, Wait,
       SqlConnectCheckThread, TestOne, TestsDone, Plan, AddConnectionFromBak, PassEnds, Outage,
       Repair, stmts, work

LEMMA StatementsStep == PoolTypes /\ StatementsKept /\ [Next]_vars => StatementsKept'
<1> SUFFICES ASSUME PoolTypes, StatementsKept, [Next]_vars
             PROVE  Spread(given', refused', receive', issue', done', m_sqllist')
  BY PoolTypesStep, KeptIsSpread DEF PoolTypes
<1>1. Spread(given, refused, receive, issue, done, m_sqllist)
  BY KeptIsSpread DEF PoolTypes
<1>2. /\ given \in Nat /\ receive \in Seq(Nat) /\ issue \in Seq(Nat)
      /\ m_sqllist \in [Workers -> Seq(Nat)]
  <2>1. /\ receive \in Seq(Statements) /\ issue \in Seq(Statements) /\ given \in 0..MaxStmts
        /\ m_sqllist \in [Workers -> Seq(Statements)]
    BY DEF PoolTypes, TypeOK
  <2>2. Seq(Statements) \subseteq Seq(Nat)
    BY StatementsAreNumbers, SeqMonotonic
  <2> QED BY <2>1, <2>2, StatementsAreNumbers
<1>3. CASE execSqlAsy
  <2>1. UNCHANGED <<issue, done, m_sqllist>> /\ given' = given + 1
    BY <1>3 DEF execSqlAsy, work
  <2>2. \/ receive' = Append(receive, given + 1) /\ UNCHANGED refused
        \/ refused' = refused \cup {given + 1} /\ UNCHANGED receive
    BY <1>3 DEF execSqlAsy
  <2>3. /\ Spread(given + 1, refused \cup {given + 1}, receive, issue, done, m_sqllist)
        /\ Spread(given + 1, refused, Append(receive, given + 1), issue, done, m_sqllist)
    BY <1>1, <1>2, SpreadGiven
  <2> QED BY <2>1, <2>2, <2>3
<1>4. CASE SqlCacheCopyThread
  <2>1. PICK p, q \in Seq(Statements) :
          receive = p \o q /\ issue' = issue \o p /\ receive' = q
    BY <1>4, CopyMoves DEF PoolTypes
  <2>2. p \in Seq(Nat) /\ q \in Seq(Nat)
    BY StatementsAreNumbers, SeqMonotonic
  <2>3. UNCHANGED <<given, refused, done, m_sqllist>>
    BY <1>4 DEF SqlCacheCopyThread, work
  <2>4. Spread(given, refused, q, issue \o p, done, m_sqllist)
    BY <1>1, <1>2, <2>1, <2>2, SpreadCopied
  <2> QED BY <2>1, <2>3, <2>4
<1>5. ASSUME NEW w \in Workers, Take(w)
      PROVE  Spread(given', refused', receive', issue', done', m_sqllist')
  <2>1. PICK p, q \in Seq(Statements) :
          /\ issue = p \o q /\ issue' = q /\ m_sqllist[w] = <<>>
          /\ m_sqllist' = [m_sqllist EXCEPT ![w] = p]
    BY <1>5, TakeMoves
  <2>2. p \in Seq(Nat) /\ q \in Seq(Nat)
    BY StatementsAreNumbers, SeqMonotonic
  <2>3. UNCHANGED <<given, refused, receive, done>>
    BY <1>5 DEF Take
  <2>4. Spread(given, refused, receive, q, done, [m_sqllist EXCEPT ![w] = p])
    BY <1>1, <1>2, <2>1, <2>2, SpreadTaken
  <2> QED BY <2>1, <2>3, <2>4
<1>6. ASSUME NEW w \in Workers, NEW ok \in BOOLEAN, Exec(w, ok)
      PROVE  Spread(given', refused', receive', issue', done', m_sqllist')
  <2>1. m_sqllist[w] # <<>>
    BY <1>6 DEF Exec, PoolTypes, Working
  <2>2. UNCHANGED <<given, refused, receive, issue>>
    BY <1>6 DEF Exec, stmts
  <2>3. /\ m_sqllist' = [m_sqllist EXCEPT ![w] = Tail(@)]
        /\ done' = done \cup {Head(m_sqllist[w])}
    BY <1>6 DEF Exec
  <2>4. Spread(given, refused, receive, issue, done \cup {Head(m_sqllist[w])},
               [m_sqllist EXCEPT ![w] = Tail(@)])
    BY <1>1, <1>2, <2>1, SpreadDone
  <2> QED BY <2>2, <2>3, <2>4
<1>7. CASE UNCHANGED <<given, refused, receive, issue, done, m_sqllist>>
  BY <1>1, <1>7
<1>8. UNCHANGED vars => UNCHANGED <<given, refused, receive, issue, done, m_sqllist>>
  BY DEF vars, stmts, work
<1> QED BY <1>3, <1>4, <1>5, <1>6, <1>7, <1>8, StatementMoves

\* For any handles, capacities and statements: each statement given is in one place, never lost
\* nor run twice, and a worker runs its own in the order they were given (execSqlAsy,
\* SqlCacheCopyThread, SqlProcessThread).
THEOREM PoolKeepsStatements == Spec => []StatementsKept
<1>1. Init => StatementsKept
  BY StatementsInit
<1>2. PoolTypes /\ StatementsKept /\ [Next]_vars => StatementsKept'
  BY StatementsStep
<1> QED BY <1>1, <1>2, PoolTypeCorrect, PTL DEF Spec

-----------------------------------------------------------------------------
(* Workers.                                                                 *)

\* The active list c and the spare list b hold the workers of the pool, once each, and the flags
\* are those of the active ones.
Listing(c, b, pool, active) ==
    /\ IsInjective(c) /\ IsInjective(b) /\ ToSet(c) \cap ToSet(b) = {}
    /\ ToSet(c) \cup ToSet(b) = pool
    /\ \A w \in pool : active[w] <=> w \in ToSet(c)

\* ActiveIsListed is Listing.
LEMMA ListingIs ==
    ASSUME NEW c \in Seq(Workers), NEW b \in Seq(Workers), NEW pool, NEW active
    PROVE  /\ IsInjective(c \o b)
           /\ ToSet(c \o b) = pool
           /\ \A w \in pool : active[w] <=> Contains(c, w)
           <=> Listing(c, b, pool, active)
<1>1. IsInjective(c \o b) <=> IsInjective(c) /\ IsInjective(b) /\ ToSet(c) \cap ToSet(b) = {}
  BY InjectiveConcat
<1>2. ToSet(c \o b) = ToSet(c) \cup ToSet(b)
  BY ToSetConcat
<1>3. \A w : Contains(c, w) <=> w \in ToSet(c)
  BY ContainsElement
<1> QED BY <1>1, <1>2, <1>3 DEF Listing

\* A worker that is in neither list can be added to one.
LEMMA AppendOne ==
    ASSUME NEW c \in Seq(Workers), NEW w \in Workers, IsInjective(c), w \notin ToSet(c)
    PROVE  IsInjective(Append(c, w)) /\ ToSet(Append(c, w)) = ToSet(c) \cup {w}
<1>1. <<w>> \in Seq(Workers) /\ Append(c, w) = c \o <<w>> /\ ToSet(<<w>>) = {w} /\ IsInjective(<<w>>)
  BY DEF ToSet, IsInjective
<1>2. IsInjective(c \o <<w>>)
  <2> SUFFICES ASSUME NEW h \in Seq(Workers), ToSet(h) = {w}, IsInjective(h)
               PROVE  IsInjective(c \o h)
    BY <1>1
  <2>1. ToSet(c) \cap ToSet(h) = {}
    OBVIOUS
  <2> QED BY <2>1, InjectiveConcat
<1>3. \A t \in Seq(Workers) : ToSet(c \o t) = ToSet(c) \cup ToSet(t)
  BY ToSetConcat
<1> QED BY <1>1, <1>2, <1>3

\* The first spare worker leaves the spare list.
LEMMA TailOne ==
    ASSUME NEW b \in Seq(Workers), b # <<>>, IsInjective(b)
    PROVE  /\ Head(b) \in ToSet(b) /\ IsInjective(Tail(b))
           /\ ToSet(Tail(b)) = ToSet(b) \ {Head(b)}
<1>1. /\ <<Head(b)>> \in Seq(Workers) /\ Tail(b) \in Seq(Workers) /\ b = <<Head(b)>> \o Tail(b)
      /\ ToSet(b) = {Head(b)} \cup ToSet(Tail(b))
  BY HeadFirst
<1>2. IsInjective(Tail(b)) /\ ToSet(<<Head(b)>>) \cap ToSet(Tail(b)) = {}
  <2> SUFFICES ASSUME NEW h \in Seq(Workers), h = <<Head(b)>>,
                      NEW r \in Seq(Workers), r = Tail(b), IsInjective(h \o r)
               PROVE  IsInjective(r) /\ ToSet(h) \cap ToSet(r) = {}
    BY <1>1
  <2> QED BY InjectiveConcat
<1>3. ToSet(<<Head(b)>>) = {Head(b)}
  BY DEF ToSet
<1> QED BY <1>1, <1>2, <1>3

\* A thread and the pool: it is known to the pool after it was started, active until then, and
\* only known workers are tested.
Known ==
    /\ \A w \in m_MyPool : wpc[w] # "none"
    /\ \A w \in Workers \ m_MyPool : wpc[w] # "none" => m_Active[w]
    /\ ToSet(todo) \subseteq m_MyPool

WorkersInv ==
    /\ Listing(m_connList, m_bakList, m_MyPool, m_Active)
    /\ NoLostWakeup
    /\ Known

LEMMA WorkersInit == Init => WorkersInv
<1> SUFFICES ASSUME Init PROVE WorkersInv
  OBVIOUS
<1>1. /\ m_connList = <<>> /\ m_bakList = <<>> /\ todo = <<>> /\ m_MyPool = {}
      /\ \A w \in Workers : wpc[w] = "none"
  BY DEF Init
<1>2. ToSet(<<>>) = {} /\ IsInjective(<<>>)
  <2>1. DOMAIN <<>> = {}
    OBVIOUS
  <2> QED BY <2>1, ToSetEmpty DEF IsInjective
<1> QED BY <1>1, <1>2 DEF WorkersInv, Listing, NoLostWakeup, Known

\* What each step does to the lists of the pool.
LEMMA WorkersStep == PoolTypes /\ WorkersInv /\ [Next]_vars => WorkersInv'
<1> SUFFICES ASSUME PoolTypes, WorkersInv, [Next]_vars PROVE WorkersInv'
  OBVIOUS
<1>0. /\ m_connList \in Seq(Workers) /\ m_bakList \in Seq(Workers) /\ todo \in Seq(Workers)
      /\ m_MyPool \subseteq Workers
      /\ m_Active \in [Workers -> BOOLEAN] /\ m_bCooncet \in [Workers -> BOOLEAN]
      /\ wpc \in [Workers -> {"none", "started", "ended", "top", "wait", "take", "exec"}]
  BY DEF PoolTypes, TypeOK
<1>1. /\ IsInjective(m_connList) /\ IsInjective(m_bakList)
      /\ ToSet(m_connList) \cap ToSet(m_bakList) = {}
      /\ ToSet(m_connList) \cup ToSet(m_bakList) = m_MyPool
      /\ \A w \in m_MyPool : m_Active[w] <=> w \in ToSet(m_connList)
  BY DEF WorkersInv, Listing
<1>2. /\ \A w \in Workers : wpc[w] = "wait" => ~m_Active[w]
      /\ \A w \in m_MyPool : wpc[w] # "none"
      /\ \A w \in Workers \ m_MyPool : wpc[w] # "none" => m_Active[w]
      /\ ToSet(todo) \subseteq m_MyPool
  BY DEF WorkersInv, NoLostWakeup, Known
<1>3. CASE UNCHANGED <<m_connList, m_bakList, m_MyPool, m_Active, wpc, todo>>
  BY <1>3 DEF WorkersInv, Listing, NoLostWakeup, Known
<1>4. ASSUME NEW w \in Workers, NewHandle(w)
      PROVE  WorkersInv'
  <2>1. /\ UNCHANGED <<m_MyPool, m_connList, m_bakList, todo>> /\ wpc[w] = "none"
        /\ wpc' = [wpc EXCEPT ![w] = "started"] /\ m_Active' = [m_Active EXCEPT ![w] = TRUE]
    BY <1>4 DEF NewHandle, check
  <2>2. w \notin m_MyPool
    BY <1>2, <2>1
  <2>3. /\ wpc'[w] = "started" /\ m_Active'[w] = TRUE
        /\ \A v \in Workers : v # w => wpc'[v] = wpc[v] /\ m_Active'[v] = m_Active[v]
    BY <1>0, <2>1
  <2>4. \A v \in m_MyPool : m_Active'[v] <=> v \in ToSet(m_connList)
    BY <1>0, <1>1, <2>2, <2>3
  <2>5. Listing(m_connList', m_bakList', m_MyPool', m_Active')
    BY <1>1, <2>1, <2>4 DEF Listing
  <2>6. NoLostWakeup'
    BY <1>2, <2>3 DEF NoLostWakeup
  <2>7. Known'
    BY <1>0, <1>2, <2>1, <2>2, <2>3 DEF Known
  <2> QED BY <2>5, <2>6, <2>7 DEF WorkersInv
<1>5. ASSUME NEW w \in Workers, setMyPool(w)
      PROVE  WorkersInv'
  <2>1. /\ UNCHANGED <<m_Active, m_bakList, wpc, todo>> /\ wpc[w] # "none" /\ w \notin m_MyPool
        /\ m_MyPool' = m_MyPool \cup {w} /\ m_connList' = Append(m_connList, w)
    BY <1>5 DEF setMyPool, work
  <2>2. IsInjective(m_connList') /\ ToSet(m_connList') = ToSet(m_connList) \cup {w}
    BY <1>0, <1>1, <2>1, AppendOne
  <2>3. m_Active[w]
    BY <1>2, <2>1
  <2>4. Listing(m_connList', m_bakList', m_MyPool', m_Active')
    BY <1>1, <2>1, <2>2, <2>3 DEF Listing
  <2>5. NoLostWakeup' /\ Known'
    BY <1>2, <2>1 DEF NoLostWakeup, Known
  <2> QED BY <2>4, <2>5 DEF WorkersInv
<1>6. ASSUME NEW w \in Workers, Worker(w)
      PROVE  WorkersInv'
  <2>1. UNCHANGED <<m_connList, m_bakList, m_MyPool, m_Active, todo>>
    BY <1>6 DEF Worker, Begin, Wait, Take, Exec, conns, check
  <2>2. /\ wpc'[w] # "none" /\ wpc[w] # "none" /\ (wpc'[w] = "wait" => ~m_Active[w])
        /\ \A v \in Workers : v # w => wpc'[v] = wpc[v]
    BY <1>0, <1>6 DEF Worker, Begin, Wait, Take, Exec
  <2>3. Listing(m_connList', m_bakList', m_MyPool', m_Active')
    BY <2>1 DEF WorkersInv
  <2>4. NoLostWakeup'
    BY <1>2, <2>1, <2>2 DEF NoLostWakeup
  <2>5. Known'
    <3>1. \A v \in Workers : wpc'[v] = "none" <=> wpc[v] = "none"
      BY <2>2
    <3> QED BY <1>0, <1>2, <2>1, <3>1 DEF Known
  <2> QED BY <2>3, <2>4, <2>5 DEF WorkersInv
<1>7. CASE SqlConnectCheckThread
  <2>1. /\ UNCHANGED <<m_connList, m_bakList, m_MyPool, m_Active, wpc>>
        /\ todo' = m_bakList \o m_connList \/ todo' = todo
    BY <1>7 DEF SqlConnectCheckThread, conns, work
  <2>2. ToSet(m_bakList \o m_connList) = ToSet(m_bakList) \cup ToSet(m_connList)
    BY <1>0, ToSetConcat
  <2>3. ToSet(todo') \subseteq m_MyPool
    BY <1>1, <1>2, <2>1, <2>2
  <2>4. Listing(m_connList', m_bakList', m_MyPool', m_Active')
    BY <2>1 DEF WorkersInv
  <2>5. NoLostWakeup' /\ Known'
    BY <1>2, <2>1, <2>3 DEF NoLostWakeup, Known
  <2> QED BY <2>4, <2>5 DEF WorkersInv
<1>8. CASE TestOne
  <2> DEFINE w == Head(todo)
             ok == db /\ (m_bCooncet[w] \/ ~Contains(m_connList, w))
  <2>1. /\ UNCHANGED <<m_MyPool, wpc>> /\ todo # <<>> /\ todo' = Tail(todo)
        /\ m_Active' = [m_Active EXCEPT ![w] =
                          @ /\ (ok \/ (~m_bCooncet[w] /\ ~Contains(m_connList, w)))]
        /\ IF Contains(m_connList, w) /\ ~ok
           THEN m_connList' = Erase(m_connList, w) /\ m_bakList' = Append(m_bakList, w)
           ELSE UNCHANGED <<m_connList, m_bakList>>
    BY <1>8 DEF TestOne, work
  <2>2. w \in Workers /\ w \in ToSet(todo) /\ ToSet(todo') \subseteq ToSet(todo)
    <3>1. ToSet(todo) = {Head(todo)} \cup ToSet(Tail(todo)) /\ Head(todo) \in Workers
      BY <1>0, <2>1, HeadFirst
    <3> QED BY <2>1, <3>1
  <2>3. w \in m_MyPool /\ (Contains(m_connList, w) <=> w \in ToSet(m_connList))
    BY <1>0, <1>2, <2>2, ContainsElement
  <2> HIDE DEF w
  <2>4. /\ m_Active'[w] <=> (m_Active[w] /\ (ok \/ (~m_bCooncet[w] /\ ~Contains(m_connList, w))))
        /\ \A v \in Workers : v # w => m_Active'[v] = m_Active[v]
    BY <1>0, <2>1, <2>2
  <2> HIDE DEF ok
  <2>5. m_Active'[w] <=> (w \in ToSet(m_connList) /\ ok)
    BY <1>1, <2>3, <2>4
  <2>6. Listing(m_connList', m_bakList', m_MyPool', m_Active')
    <3>1. CASE w \in ToSet(m_connList) /\ ~ok
      <4>1. IsInjective(m_connList') /\ ToSet(m_connList') = ToSet(m_connList) \ {w}
        BY <1>0, <1>1, <2>1, <2>3, <3>1, EraseOne
      <4>2. IsInjective(m_bakList') /\ ToSet(m_bakList') = ToSet(m_bakList) \cup {w}
        <5>1. w \notin ToSet(m_bakList) /\ m_bakList' = Append(m_bakList, w)
          BY <1>1, <2>1, <2>3, <3>1
        <5> QED BY <1>0, <1>1, <2>2, <5>1, AppendOne
      <4>3. \A v \in m_MyPool : m_Active'[v] <=> v \in ToSet(m_connList) \ {w}
        BY <1>0, <1>1, <2>4, <2>5, <3>1
      <4> QED BY <1>1, <2>1, <2>3, <3>1, <4>1, <4>2, <4>3 DEF Listing
    <3>2. CASE ~(w \in ToSet(m_connList) /\ ~ok)
      <4>1. UNCHANGED <<m_connList, m_bakList>>
        BY <2>1, <2>3, <3>2
      <4>2. \A v \in m_MyPool : m_Active'[v] <=> v \in ToSet(m_connList)
        BY <1>0, <1>1, <2>4, <2>5, <3>2
      <4> QED BY <1>1, <2>1, <4>1, <4>2 DEF Listing
    <3> QED BY <3>1, <3>2
  <2>7. NoLostWakeup'
    BY <1>2, <2>1, <2>4 DEF NoLostWakeup
  <2>8. Known'
    BY <1>0, <1>2, <2>1, <2>2, <2>3, <2>4 DEF Known
  <2> QED BY <2>6, <2>7, <2>8 DEF WorkersInv
<1>9. CASE Plan
  <2>1. UNCHANGED <<m_MyPool, wpc, todo>>
    BY <1>9 DEF Plan, work
  <2>2. ASSUME ~UNCHANGED <<m_Active, m_connList, m_bakList>>
        PROVE  WorkersInv'
    <3>1. PICK gone, rest \in Seq(Workers) :
            /\ m_connList = gone \o rest /\ m_connList' = rest /\ m_bakList' = m_bakList \o gone
            /\ m_Active' = [w \in Workers |-> m_Active[w] /\ w \notin ToSet(gone)]
      BY <1>9, <2>2, PlanMoves DEF PoolTypes
    <3>2. /\ IsInjective(gone) /\ IsInjective(rest) /\ ToSet(gone) \cap ToSet(rest) = {}
          /\ ToSet(m_connList) = ToSet(gone) \cup ToSet(rest)
      BY <1>1, <3>1, InjectiveConcat, ToSetConcat
    <3>3. ToSet(m_bakList \o gone) = ToSet(m_bakList) \cup ToSet(gone) /\ IsInjective(m_bakList \o gone)
      <4>1. ToSet(m_bakList) \cap ToSet(gone) = {}
        BY <1>1, <3>2
      <4> QED BY <1>0, <1>1, <3>2, <4>1, InjectiveConcat, ToSetConcat
    <3>4. \A w \in Workers : m_Active'[w] <=> (m_Active[w] /\ w \notin ToSet(gone))
      BY <3>1
    <3>5. \A w \in m_MyPool : m_Active'[w] <=> w \in ToSet(rest)
      BY <1>0, <1>1, <3>2, <3>4
    <3>6. ToSet(rest) \cap ToSet(m_bakList \o gone) = {} /\ ToSet(rest) \cup ToSet(m_bakList \o gone) = m_MyPool
      BY <1>1, <3>2, <3>3
    <3>7. Listing(m_connList', m_bakList', m_MyPool', m_Active')
      BY <2>1, <3>1, <3>2, <3>3, <3>5, <3>6 DEF Listing
    <3>8. NoLostWakeup'
      BY <1>2, <2>1, <3>4 DEF NoLostWakeup
    <3>9. Known'
      <4>1. \A w \in Workers \ m_MyPool : w \notin ToSet(gone)
        BY <1>1, <3>2
      <4> QED BY <1>2, <2>1, <3>4, <4>1 DEF Known
    <3> QED BY <3>7, <3>8, <3>9 DEF WorkersInv
  <2> QED BY <1>3, <2>1, <2>2
<1>10. CASE AddConnectionFromBak
  <2> DEFINE w == Head(m_bakList)
  <2>1. /\ UNCHANGED <<m_MyPool, todo>> /\ m_bakList # <<>>
        /\ Activate(w) \/ UNCHANGED <<m_connList, m_bakList, m_Active, wpc>>
    BY <1>10 DEF AddConnectionFromBak
  <2>2. ASSUME Activate(w)
        PROVE  WorkersInv'
    <3>1. /\ w \in ToSet(m_bakList) /\ IsInjective(Tail(m_bakList))
          /\ ToSet(Tail(m_bakList)) = ToSet(m_bakList) \ {w}
      BY <1>0, <1>1, <2>1, TailOne
    <3>2. w \in Workers /\ w \in m_MyPool /\ w \notin ToSet(m_connList)
      BY <1>0, <1>1, <3>1
    <3>3. /\ m_connList' = Append(m_connList, w) /\ m_bakList' = Tail(m_bakList)
          /\ m_Active' = [m_Active EXCEPT ![w] = TRUE]
          /\ wpc' = [wpc EXCEPT ![w] = IF @ = "wait" THEN "top" ELSE @]
      BY <2>2 DEF Activate
    <3> HIDE DEF w
    <3>4. IsInjective(m_connList') /\ ToSet(m_connList') = ToSet(m_connList) \cup {w}
      BY <1>0, <1>1, <3>2, <3>3, AppendOne
    <3>5. /\ m_Active'[w] = TRUE /\ wpc'[w] # "wait" /\ (wpc'[w] = "none" <=> wpc[w] = "none")
          /\ \A v \in Workers : v # w => m_Active'[v] = m_Active[v] /\ wpc'[v] = wpc[v]
      BY <1>0, <3>2, <3>3
    <3>6. \A v \in m_MyPool : m_Active'[v] <=> v \in ToSet(m_connList) \cup {w}
      BY <1>0, <1>1, <3>5
    <3>7. Listing(m_connList', m_bakList', m_MyPool', m_Active')
      BY <1>1, <2>1, <3>1, <3>2, <3>3, <3>4, <3>6 DEF Listing
    <3>8. NoLostWakeup'
      BY <1>2, <3>5 DEF NoLostWakeup
    <3>9. Known'
      BY <1>0, <1>2, <2>1, <3>2, <3>5 DEF Known
    <3> QED BY <3>7, <3>8, <3>9 DEF WorkersInv
  <2> QED BY <1>3, <2>1, <2>2
<1>11. CASE TestsDone \/ PassEnds \/ Outage \/ Repair \/ execSqlAsy \/ SqlCacheCopyThread
            \/ (\E i \in 1..MaxStmts : GetSqlRestult(HashOf[i]))
  BY <1>3, <1>11 DEF TestsDone, PassEnds, Outage, Repair, execSqlAsy, SqlCacheCopyThread,
                     GetSqlRestult, conns, work, check
<1>12. CASE UNCHANGED vars
  BY <1>3, <1>12 DEF vars, conns, work, check
<1> QED
  BY <1>4, <1>5, <1>6, <1>7, <1>8, <1>9, <1>10, <1>11, <1>12 DEF Next, InitConnection, Checker

\* For any handles and whatever the check thread retires and activates: the pool's lists and the
\* flags the threads read agree, no active worker sleeps, and no sleeping one has statements
\* (AddConnectionFromBak, DelConnectionFromActive, SqlProcessThread).
THEOREM PoolKeepsWorkers == Spec => []WorkersKept
<1>1. Init => WorkersInv
  BY WorkersInit
<1>2. PoolTypes /\ WorkersInv /\ [Next]_vars => WorkersInv'
  BY WorkersStep
<1>3. PoolTypes /\ WorkersInv => WorkersKept
  <2> SUFFICES ASSUME PoolTypes, WorkersInv PROVE WorkersKept
    OBVIOUS
  <2>1. ActiveIsListed
    BY ListingIs DEF PoolTypes, TypeOK, WorkersInv, ActiveIsListed
  <2>2. InactiveHoldsNothing
    BY DEF PoolTypes, Working, InactiveHoldsNothing
  <2> QED BY <2>1, <2>2 DEF WorkersInv, WorkersKept
<1> QED BY <1>1, <1>2, <1>3, PoolTypeCorrect, PTL DEF Spec
=============================================================================
