----------------------- MODULE GarbageCollector_proofs ----------------------
(***************************************************************************)
(* Proofs about the lock-free stack with the garbage collector, for every  *)
(* number of nodes and of pushes, every threshold and every capacity of    *)
(* the lists, and for at most two threads.  Three threads are one too      *)
(* many: getminclock() loads a clock twice, to compare it and to take it,  *)
(* and what it takes may by then be later than a clock it is past (run     *)
(* garbage_collector_three).  With two threads, there is no such clock:    *)
(* the other one's is the only one that moves.                             *)
(***************************************************************************)
EXTENDS GarbageCollector, FiniteSetTheorems, WellFoundedInduction, TLAPS

-----------------------------------------------------------------------------
(* Sequences without repetitions: the stack and the lists *)

Inj(s) == \A i, j \in 1..Len(s) : s[i] = s[j] => i = j

\* What ToSet() of the community modules is for a sequence.
LEMMA InSet ==
  ASSUME NEW S, NEW s \in Seq(S)
  PROVE  /\ \A x : x \in ToSet(s) <=> \E i \in 1..Len(s) : s[i] = x
         /\ ToSet(s) \subseteq S /\ DOMAIN s = 1..Len(s) /\ Len(s) \in Nat
         /\ (s = << >> <=> ToSet(s) = {}) /\ (s = << >> <=> Len(s) = 0)
<1>1. DOMAIN s = 1..Len(s) /\ Len(s) \in Nat /\ (s = << >> <=> Len(s) = 0)
      /\ \A i \in 1..Len(s) : s[i] \in S
  OBVIOUS
<1>2. \A x : x \in ToSet(s) <=> \E i \in 1..Len(s) : s[i] = x
  BY <1>1 DEF ToSet
<1>3. ToSet(s) = {} => Len(s) = 0
  <2> SUFFICES ASSUME Len(s) # 0 PROVE ToSet(s) # {}
    OBVIOUS
  <2>1. 1 \in 1..Len(s)
    BY <1>1
  <2>2. QED
    BY <1>2, <2>1
<1>4. QED
  BY <1>1, <1>2, <1>3

\* A push: m goes to the front.
LEMMA ConsSet ==
  ASSUME NEW S, NEW s \in Seq(S), NEW m \in S
  PROVE  /\ <<m>> \o s \in Seq(S) /\ <<m>> \o s # << >>
         /\ (<<m>> \o s)[1] = m /\ Len(<<m>> \o s) = Len(s) + 1
         /\ \A i \in 1..Len(s) : (<<m>> \o s)[i+1] = s[i]
         /\ ToSet(<<m>> \o s) = ToSet(s) \cup {m}
         /\ Inj(s) /\ m \notin ToSet(s) => Inj(<<m>> \o s)
<1> DEFINE q == <<m>> \o s
<1>1. /\ q \in Seq(S) /\ q # << >> /\ q[1] = m /\ Len(q) = Len(s) + 1
      /\ \A i \in 1..Len(s) : q[i+1] = s[i]
      /\ \A i \in 2..Len(q) : q[i] = s[i-1]
  OBVIOUS
<1> HIDE DEF q
<1>2. ToSet(q) = ToSet(s) \cup {m}
  <2>a. /\ \A x : x \in ToSet(q) <=> \E i \in 1..Len(q) : q[i] = x
        /\ \A x : x \in ToSet(s) <=> \E i \in 1..Len(s) : s[i] = x
    BY <1>1, InSet
  <2>1. ASSUME NEW i \in 1..Len(q) PROVE q[i] \in ToSet(s) \cup {m}
    <3>1. CASE i = 1
      BY <1>1, <3>1
    <3>2. CASE i # 1
      <4>1. q[i] = s[i-1] /\ i-1 \in 1..Len(s)
        BY <1>1, <3>2
      <4>2. QED
        BY <2>a, <4>1
    <3>3. QED
      BY <3>1, <3>2
  <2>2. m \in ToSet(q)
    <3>1. 1 \in 1..Len(q) /\ q[1] = m
      BY <1>1
    <3>2. QED
      BY <2>a, <3>1
  <2>3. ASSUME NEW i \in 1..Len(s) PROVE s[i] \in ToSet(q)
    <3>1. s[i] = q[i+1] /\ i+1 \in 1..Len(q)
      BY <1>1
    <3>2. QED
      BY <2>a, <3>1
  <2>4. \A x : x \in ToSet(q) <=> x \in ToSet(s) \cup {m}
    BY <2>a, <2>1, <2>2, <2>3
  <2>5. QED
    BY <2>4
<1>3. ASSUME Inj(s), m \notin ToSet(s)
      PROVE  Inj(q)
  <2> SUFFICES ASSUME NEW i \in 1..Len(q), NEW j \in 1..Len(q), q[i] = q[j]
               PROVE  i = j
    BY DEF Inj
  <2>1. \A k \in 1..Len(s) : s[k] # m
    BY <1>3 DEF ToSet
  <2>2. CASE i = 1 \/ j = 1
    BY <1>1, <2>1, <2>2
  <2>3. CASE i # 1 /\ j # 1
    <3>1. i-1 \in 1..Len(s) /\ j-1 \in 1..Len(s) /\ s[i-1] = s[j-1]
      BY <1>1, <2>3
    <3>2. i-1 = j-1
      BY <1>3, <3>1 DEF Inj
    <3>3. QED
      BY <3>2
  <2>4. QED
    BY <2>2, <2>3
<1>4. QED
  BY <1>1, <1>2, <1>3 DEF q

\* A pop: the first element goes.
LEMMA TailSet ==
  ASSUME NEW S, NEW s \in Seq(S), s # << >>
  PROVE  /\ Tail(s) \in Seq(S) /\ SubSeq(s, 2, Len(s)) = Tail(s)
         /\ Len(s) >= 1 /\ Len(Tail(s)) = Len(s) - 1
         /\ \A i \in 1..Len(s)-1 : Tail(s)[i] = s[i+1]
         /\ Head(s) = s[1] /\ s[1] \in ToSet(s)
         /\ Inj(s) => ToSet(Tail(s)) = ToSet(s) \ {s[1]} /\ Inj(Tail(s))
<1> DEFINE q == Tail(s)
<1>1. /\ q \in Seq(S) /\ Len(s) >= 1 /\ Len(q) = Len(s) - 1
      /\ \A i \in 1..Len(q) : q[i] = s[i+1]
      /\ \A i \in 2..Len(s) : s[i] = q[i-1]
      /\ SubSeq(s, 2, Len(s)) = q /\ Head(s) = s[1]
  OBVIOUS
<1> HIDE DEF q
<1>2. s[1] \in ToSet(s)
  BY <1>1 DEF ToSet
<1>3. ASSUME Inj(s)
      PROVE  ToSet(q) = ToSet(s) \ {s[1]} /\ Inj(q)
  <2>1. ASSUME NEW i \in 1..Len(q)
        PROVE  q[i] \in ToSet(s) \ {s[1]}
    <3>1. i+1 \in 1..Len(s) /\ 1 \in 1..Len(s) /\ q[i] = s[i+1] /\ i+1 # 1
      BY <1>1
    <3>2. q[i] # s[1]
      BY <1>3, <3>1 DEF Inj
    <3>3. QED
      BY <3>1, <3>2 DEF ToSet
  <2>2. ASSUME NEW i \in 1..Len(s), s[i] # s[1]
        PROVE  s[i] \in ToSet(q)
    <3>1. i-1 \in 1..Len(q) /\ s[i] = q[i-1]
      BY <1>1, <2>2
    <3>2. QED
      BY <1>1, <3>1 DEF ToSet
  <2>3. ASSUME NEW i \in 1..Len(q), NEW j \in 1..Len(q), q[i] = q[j]
        PROVE  i = j
    <3>1. i+1 \in 1..Len(s) /\ j+1 \in 1..Len(s) /\ s[i+1] = s[j+1]
      BY <1>1, <2>3
    <3>2. i+1 = j+1
      BY <1>3, <3>1 DEF Inj
    <3>3. QED
      BY <3>2
  <2>4. Inj(q)
    BY <2>3 DEF Inj
  <2>5. QED
    <3>1. \A x : x \in ToSet(q) <=> x \in ToSet(s) \ {s[1]}
      BY <1>1, <2>1, <2>2, InSet
    <3>2. QED
      BY <2>4, <3>1
<1>4. QED
  BY <1>1, <1>2, <1>3 DEF q

\* One list behind another.
LEMMA ConcatSet ==
  ASSUME NEW S, NEW s \in Seq(S), NEW r \in Seq(S)
  PROVE  /\ s \o r \in Seq(S) /\ Len(s \o r) = Len(s) + Len(r)
         /\ \A i \in 1..Len(s) : (s \o r)[i] = s[i]
         /\ \A i \in 1..Len(r) : (s \o r)[Len(s) + i] = r[i]
         /\ ToSet(s \o r) = ToSet(s) \cup ToSet(r)
         /\ Inj(s) /\ Inj(r) /\ ToSet(s) \cap ToSet(r) = {} => Inj(s \o r)
<1> DEFINE q == s \o r
<1>1. /\ q \in Seq(S) /\ Len(q) = Len(s) + Len(r)
      /\ Len(s) \in Nat /\ Len(r) \in Nat
      /\ \A i \in 1..Len(s) : q[i] = s[i]
      /\ \A i \in 1..Len(r) : q[Len(s) + i] = r[i]
      /\ \A i \in Len(s)+1..Len(q) : q[i] = r[i - Len(s)]
  OBVIOUS
<1> HIDE DEF q
<1>2. ToSet(q) = ToSet(s) \cup ToSet(r)
  <2>1. ASSUME NEW i \in 1..Len(q)
        PROVE  q[i] \in ToSet(s) \cup ToSet(r)
    <3>1. CASE i <= Len(s)
      <4>1. i \in 1..Len(s) /\ q[i] = s[i]
        BY <1>1, <3>1
      <4>2. QED
        BY <4>1 DEF ToSet
    <3>2. CASE i > Len(s)
      <4>1. i - Len(s) \in 1..Len(r) /\ q[i] = r[i - Len(s)]
        BY <1>1, <3>2
      <4>2. QED
        BY <4>1 DEF ToSet
    <3>3. QED
      BY <1>1, <3>1, <3>2
  <2>2. ASSUME NEW i \in 1..Len(s)
        PROVE  s[i] \in ToSet(q)
    <3>1. i \in 1..Len(q) /\ q[i] = s[i]
      BY <1>1
    <3>2. QED
      BY <1>1, <3>1 DEF ToSet
  <2>3. ASSUME NEW i \in 1..Len(r)
        PROVE  r[i] \in ToSet(q)
    <3>1. Len(s) + i \in 1..Len(q) /\ q[Len(s) + i] = r[i]
      BY <1>1
    <3>2. QED
      BY <1>1, <3>1 DEF ToSet
  <2>4. QED
    <3>1. /\ \A x : x \in ToSet(q) <=> \E i \in 1..Len(q) : q[i] = x
          /\ \A x : x \in ToSet(s) <=> \E i \in 1..Len(s) : s[i] = x
          /\ \A x : x \in ToSet(r) <=> \E i \in 1..Len(r) : r[i] = x
      BY <1>1, InSet
    <3>2. \A x : x \in ToSet(q) <=> x \in ToSet(s) \cup ToSet(r)
      BY <2>1, <2>2, <2>3, <3>1
    <3>3. QED
      BY <3>2
<1>3. ASSUME Inj(s), Inj(r), ToSet(s) \cap ToSet(r) = {}
      PROVE  Inj(q)
  <2>1. \A i \in 1..Len(s), j \in 1..Len(r) : s[i] # r[j]
    BY <1>3 DEF ToSet
  <2>2. ASSUME NEW i \in 1..Len(q), NEW j \in 1..Len(q), q[i] = q[j],
               i <= Len(s)
        PROVE  i = j
    <3>1. i \in 1..Len(s) /\ q[i] = s[i]
      BY <1>1, <2>2
    <3>2. CASE j <= Len(s)
      <4>1. j \in 1..Len(s) /\ q[j] = s[j]
        BY <1>1, <3>2
      <4>2. QED
        BY <1>3, <2>2, <3>1, <4>1 DEF Inj
    <3>3. CASE j > Len(s)
      <4>1. j - Len(s) \in 1..Len(r) /\ q[j] = r[j - Len(s)]
        BY <1>1, <3>3
      <4>2. QED
        BY <2>1, <2>2, <3>1, <4>1
    <3>4. QED
      BY <1>1, <3>2, <3>3
  <2>3. ASSUME NEW i \in 1..Len(q), NEW j \in 1..Len(q), q[i] = q[j],
               i > Len(s), j > Len(s)
        PROVE  i = j
    <3>1. /\ i - Len(s) \in 1..Len(r) /\ j - Len(s) \in 1..Len(r)
          /\ r[i - Len(s)] = r[j - Len(s)]
      BY <1>1, <2>3
    <3>2. i - Len(s) = j - Len(s)
      BY <1>3, <3>1 DEF Inj
    <3>3. QED
      BY <1>1, <3>2
  <2>4. QED
    BY <1>1, <2>2, <2>3 DEF Inj
<1>4. QED
  BY <1>1, <1>2, <1>3 DEF q

\* push_back().
LEMMA AppendSet ==
  ASSUME NEW S, NEW s \in Seq(S), NEW m \in S
  PROVE  /\ Append(s, m) \in Seq(S)
         /\ Len(Append(s, m)) = Len(s) + 1
         /\ \A i \in 1..Len(s) : Append(s, m)[i] = s[i]
         /\ Append(s, m)[Len(s) + 1] = m
         /\ ToSet(Append(s, m)) = ToSet(s) \cup {m}
         /\ Inj(s) /\ m \notin ToSet(s) => Inj(Append(s, m))
<1> DEFINE q == <<m>>
<1>1. q \in Seq(S) /\ ToSet(q) = {m} /\ Inj(q)
  BY DEF ToSet, Inj
<1>2. /\ Append(s, m) = s \o q /\ Append(s, m) \in Seq(S)
      /\ Len(Append(s, m)) = Len(s) + 1
      /\ \A i \in 1..Len(s) : Append(s, m)[i] = s[i]
      /\ Append(s, m)[Len(s) + 1] = m
  OBVIOUS
<1> HIDE DEF q
<1>3. /\ ToSet(s \o q) = ToSet(s) \cup {m}
      /\ Inj(s) /\ m \notin ToSet(s) => Inj(s \o q)
  BY <1>1, ConcatSet
<1>4. QED
  BY <1>2, <1>3 DEF q

\* A list cut in two, as cleanup() does.
LEMMA SplitSet ==
  ASSUME NEW S, NEW s \in Seq(S), NEW k \in 0..Len(s)
  PROVE  LET p == SubSeq(s, 1, k)
             q == SubSeq(s, k+1, Len(s))
         IN  /\ p \in Seq(S) /\ Len(p) = k /\ \A i \in 1..k : p[i] = s[i]
             /\ q \in Seq(S) /\ Len(q) = Len(s) - k
             /\ \A i \in 1..Len(q) : q[i] = s[k+i]
             /\ ToSet(p) \cup ToSet(q) = ToSet(s)
             /\ Inj(s) => Inj(p) /\ Inj(q) /\ ToSet(p) \cap ToSet(q) = {}
<1> DEFINE p == SubSeq(s, 1, k)
           q == SubSeq(s, k+1, Len(s))
<1>1. /\ p \in Seq(S) /\ Len(p) = k /\ \A i \in 1..k : p[i] = s[i]
      /\ q \in Seq(S) /\ Len(q) = Len(s) - k
      /\ \A i \in 1..Len(q) : q[i] = s[k+i]
      /\ k \in Nat /\ Len(s) \in Nat /\ k <= Len(s)
  OBVIOUS
<1> HIDE DEF p, q
<1>2. ToSet(p) \cup ToSet(q) = ToSet(s)
  <2>a. /\ \A x : x \in ToSet(q) <=> \E i \in 1..Len(q) : q[i] = x
        /\ \A x : x \in ToSet(s) <=> \E i \in 1..Len(s) : s[i] = x
        /\ \A x : x \in ToSet(p) <=> \E i \in 1..k : p[i] = x
    BY <1>1, InSet
  <2>1. ASSUME NEW i \in 1..k
        PROVE  p[i] \in ToSet(s)
    <3>1. i \in 1..Len(s) /\ p[i] = s[i]
      BY <1>1
    <3>2. QED
      BY <2>a, <3>1
  <2>2. ASSUME NEW i \in 1..Len(q)
        PROVE  q[i] \in ToSet(s)
    <3>1. k+i \in 1..Len(s) /\ q[i] = s[k+i]
      BY <1>1
    <3>2. QED
      BY <2>a, <3>1
  <2>3. ASSUME NEW i \in 1..Len(s)
        PROVE  s[i] \in ToSet(p) \cup ToSet(q)
    <3>1. CASE i <= k
      <4>1. i \in 1..k /\ p[i] = s[i]
        BY <1>1, <3>1
      <4>2. QED
        BY <2>a, <4>1
    <3>2. CASE i > k
      <4>1. i-k \in 1..Len(q) /\ k+(i-k) = i
        BY <1>1, <3>2
      <4>2. q[i-k] = s[i]
        BY <1>1, <4>1
      <4>3. QED
        BY <2>a, <4>1, <4>2
    <3>3. QED
      BY <1>1, <3>1, <3>2
  <2>4. \A x : x \in ToSet(p) \cup ToSet(q) <=> x \in ToSet(s)
    BY <2>a, <2>1, <2>2, <2>3
  <2>5. QED
    BY <2>4
<1>3. ASSUME Inj(s)
      PROVE  Inj(p) /\ Inj(q) /\ ToSet(p) \cap ToSet(q) = {}
  <2>1. Inj(p)
    BY <1>1, <1>3 DEF Inj
  <2>2. ASSUME NEW i \in 1..Len(q), NEW j \in 1..Len(q), q[i] = q[j]
        PROVE  i = j
    <3>1. k+i \in 1..Len(s) /\ k+j \in 1..Len(s) /\ s[k+i] = s[k+j]
      BY <1>1, <2>2
    <3>2. k+i = k+j
      BY <1>3, <3>1 DEF Inj
    <3>3. QED
      BY <1>1, <3>2
  <2>3. ASSUME NEW i \in 1..k, NEW j \in 1..Len(q)
        PROVE  p[i] # q[j]
    <3>1. i \in 1..Len(s) /\ k+j \in 1..Len(s) /\ i # k+j
      BY <1>1
    <3>2. QED
      BY <1>1, <1>3, <3>1 DEF Inj
  <2>4. Inj(p) /\ Inj(q)
    BY <1>1, <2>1, <2>2 DEF Inj
  <2>5. \A x : ~(x \in ToSet(p) /\ x \in ToSet(q))
    <3>1. /\ \A x : x \in ToSet(q) <=> \E i \in 1..Len(q) : q[i] = x
          /\ \A x : x \in ToSet(p) <=> \E i \in 1..k : p[i] = x
      BY <1>1, InSet
    <3>2. QED
      BY <2>3, <3>1
  <2>6. QED
    BY <2>4, <2>5
<1>4. QED
  BY <1>1, <1>2, <1>3 DEF p, q

\* What is pushed to the front one by one comes out in reverse.
LEMMA ReverseSet ==
  ASSUME NEW S, NEW s \in Seq(S)
  PROVE  /\ Reverse(s) \in Seq(S) /\ Len(Reverse(s)) = Len(s)
         /\ ToSet(Reverse(s)) = ToSet(s)
         /\ Inj(s) => Inj(Reverse(s))
<1> DEFINE q == Reverse(s)
<1>1. /\ q \in Seq(S) /\ Len(q) = Len(s) /\ Len(s) \in Nat
      /\ \A i \in 1..Len(s) : q[i] = s[Len(s) - i + 1]
  BY DEF Reverse
<1> HIDE DEF q
<1>2. \A i \in 1..Len(s) : Len(s) - i + 1 \in 1..Len(s)
  BY <1>1
<1>3. \A i \in 1..Len(s) : s[i] = q[Len(s) - i + 1]
  <2> SUFFICES ASSUME NEW i \in 1..Len(s) PROVE s[i] = q[Len(s) - i + 1]
    OBVIOUS
  <2>1. Len(s) - (Len(s) - i + 1) + 1 = i
    BY <1>1
  <2>2. QED
    BY <1>1, <1>2, <2>1
<1>4. ToSet(q) = ToSet(s)
  <2>1. /\ \A x : x \in ToSet(q) <=> \E i \in 1..Len(q) : q[i] = x
        /\ \A x : x \in ToSet(s) <=> \E i \in 1..Len(s) : s[i] = x
    BY <1>1, InSet
  <2>2. ASSUME NEW i \in 1..Len(s)
        PROVE  q[i] \in ToSet(s) /\ s[i] \in ToSet(q)
    BY <1>1, <1>2, <1>3, <2>1
  <2>3. \A x : x \in ToSet(q) <=> x \in ToSet(s)
    BY <1>1, <2>1, <2>2
  <2>4. QED
    BY <2>3
<1>5. ASSUME Inj(s), NEW i \in 1..Len(q), NEW j \in 1..Len(q), q[i] = q[j]
      PROVE  i = j
  <2>1. Len(s) - i + 1 = Len(s) - j + 1
    BY <1>1, <1>2, <1>5 DEF Inj
  <2>2. QED
    BY <1>1, <2>1
<1>6. QED
  BY <1>1, <1>4, <1>5 DEF q, Inj

\* clocks.remove() takes one clock out.
LEMMA RemoveSet ==
  ASSUME NEW S, NEW s \in Seq(S), NEW i \in 1..Len(s), Inj(s)
  PROVE  /\ RemoveAt(s, i) \in Seq(S) /\ Inj(RemoveAt(s, i))
         /\ ToSet(RemoveAt(s, i)) = ToSet(s) \ {s[i]}
<1> DEFINE p == SubSeq(s, 1, i-1)
           q == SubSeq(s, i, Len(s))
<1>1. i-1 \in 0..Len(s) /\ (i-1)+1 = i
  OBVIOUS
<1>2. /\ p \in Seq(S) /\ q \in Seq(S)
      /\ Len(q) = Len(s) - (i-1) /\ q[1] = s[i]
      /\ ToSet(p) \cup ToSet(q) = ToSet(s)
      /\ Inj(p) /\ Inj(q) /\ ToSet(p) \cap ToSet(q) = {}
  <2>1. \A j \in 1..Len(q) : q[j] = s[(i-1)+j]
    BY <1>1, SplitSet
  <2>2. Len(q) = Len(s) - (i-1) /\ 1 \in 1..Len(q) /\ (i-1)+1 = i
    BY <1>1, SplitSet
  <2>3. q[1] = s[i]
    BY <2>1, <2>2
  <2>4. QED
    BY <1>1, <2>2, <2>3, SplitSet
<1>3. Tail(q) = SubSeq(s, i+1, Len(s))
  OBVIOUS
<1> HIDE DEF p, q
<1>a. q # << >>
  BY <1>1, <1>2
<1>4. Tail(q) \in Seq(S) /\ Inj(Tail(q)) /\ ToSet(Tail(q)) = ToSet(q) \ {s[i]}
      /\ s[i] \in ToSet(q)
  BY <1>2, <1>a, TailSet
<1>5. RemoveAt(s, i) = p \o Tail(q)
  BY <1>3 DEF RemoveAt, p
<1>6. ToSet(p) \cap ToSet(Tail(q)) = {} /\ s[i] \notin ToSet(p)
  BY <1>2, <1>4
<1>7. ToSet(p \o Tail(q)) = ToSet(p) \cup ToSet(Tail(q)) /\ Inj(p \o Tail(q))
      /\ p \o Tail(q) \in Seq(S)
  <2>1. Inj(p) /\ Inj(Tail(q)) /\ p \in Seq(S) /\ Tail(q) \in Seq(S)
    BY <1>2, <1>4
  <2> DEFINE r == Tail(q)
  <2> HIDE DEF r
  <2>2. Inj(p) /\ Inj(r) /\ p \in Seq(S) /\ r \in Seq(S) /\ ToSet(p) \cap ToSet(r) = {}
    BY <1>6, <2>1 DEF r
  <2>3. /\ ToSet(p \o r) = ToSet(p) \cup ToSet(r) /\ p \o r \in Seq(S)
        /\ Inj(p \o r)
    BY <2>2, ConcatSet
  <2>4. QED
    BY <2>3 DEF r
<1>8. QED
  BY <1>2, <1>4, <1>5, <1>6, <1>7

-----------------------------------------------------------------------------
(* Maxima, and what cleanup() takes *)

\* A set of naturals with a bound has a maximum.
LEMMA MaxIs ==
  ASSUME NEW b \in Nat, NEW S \in SUBSET (0..b), S # {}
  PROVE  Max(S) \in S /\ \A x \in S : x <= Max(S)
<1> DEFINE T == {b - x : x \in S}
           R == OpToRel(<, Nat)
<1>0. S \subseteq Nat
  OBVIOUS
<1>1. T \subseteq Nat /\ T # {}
  <2>1. \A x \in S : x \in Nat /\ b - x \in Nat
    OBVIOUS
  <2>2. QED
    BY <2>1
<1>2. IsWellFoundedOn(R, Nat)
  BY NatLessThanWellFounded
<1>3. PICK y \in T : \A z \in T : <<z, y>> \notin R
  <2> HIDE DEF T, R
  <2>1. QED
    BY <1>1, <1>2, WFMin
<1>4. \A z \in T : ~(z < y)
  BY <1>1, <1>3 DEF OpToRel
<1>5. PICK x \in S : y = b - x
  BY <1>3
<1>6. \A z \in S : x >= z
  <2> SUFFICES ASSUME NEW z \in S PROVE x >= z
    OBVIOUS
  <2>a. b - z \in T
    BY Zenon
  <2>1. b - z \in T /\ x \in Nat /\ z \in Nat
    BY <1>0, <2>a
  <2>2. ~(b - z < b - x)
    BY <1>4, <1>5, <2>1
  <2>3. QED
    BY <2>1, <2>2
<1>7. \E z \in S : \A w \in S : z >= w
  BY <1>6
<1>8. Max(S) \in S /\ \A w \in S : Max(S) >= w
  BY <1>7 DEF Max
<1>9. QED
  BY <1>8

\* The smaller one of two numbers.
LEMMA MinIs ==
  ASSUME NEW a \in Nat, NEW b \in Nat
  PROVE  Min({a, b}) = IF a <= b THEN a ELSE b
<1>1. \E x \in {a, b} : \A y \in {a, b} : x <= y
  OBVIOUS
<1>2. Min({a, b}) \in {a, b} /\ \A y \in {a, b} : Min({a, b}) <= y
  BY <1>1 DEF Min
<1>3. QED
  BY <1>2

\* cleanup() takes nodes from the front, all of them older than min.
LEMMA OldNodesAre ==
  ASSUME NEW t \in Workers, dirty[t] \in Seq(Nodes)
  PROVE  \E k \in 0..Len(dirty[t]) :
           /\ OldNodes(t) = SubSeq(dirty[t], 1, k) /\ Len(OldNodes(t)) = k
           /\ YoungNodes(t) = SubSeq(dirty[t], k+1, Len(dirty[t]))
           /\ \A i \in 1..k : stamp[dirty[t][i]] < seen[t]
<1> DEFINE d == dirty[t]
           S == {k \in 0..Len(d) : \A i \in 1..k : stamp[d[i]] < seen[t]}
<1>1. Len(d) \in Nat /\ S \in SUBSET (0..Len(d)) /\ 0 \in S
  OBVIOUS
<1>2. Max(S) \in S
  <2> HIDE DEF S
  <2>1. QED
    BY <1>1, MaxIs
<1>3. OldNodes(t) = SubSeq(d, 1, Max(S))
  BY DEF OldNodes
<1> DEFINE k == Max(S)
<1>4. k \in 0..Len(d) /\ \A i \in 1..k : stamp[d[i]] < seen[t]
  BY <1>2
<1> HIDE DEF k, S
<1>5. OldNodes(t) = SubSeq(d, 1, k)
  BY <1>3 DEF k
<1>6. Len(OldNodes(t)) = k
  BY <1>4, <1>5
<1>7. YoungNodes(t) = SubSeq(d, k+1, Len(d))
  BY <1>6 DEF YoungNodes
<1>8. QED
  BY <1>4, <1>5, <1>6, <1>7

-----------------------------------------------------------------------------
(* The clock *)

\* The numbers in use when thread t draws a clock.
InUse(t, s) ==
  {0} \cup {clock[u] : u \in Workers} \cup {drawn[u] : u \in Workers}
  \cup {seen[u] : u \in Workers \ {t}} \cup {s[n] : n \in Nodes}

Earlier(t, s, c) == {d \in InUse(t, s) : d < c}

\* The clock that is drawn is later than all others, and their order stays.
Renumbers(t, s, r, m) ==
  /\ m \in Nat /\ r \in [Nat -> Nat]
  /\ \A c \in InUse(t, s) : r[c] < m
  /\ \A c, d \in InUse(t, s) : c < d => r[c] < r[d]
  /\ clock' = [u \in Workers |-> r[clock[u]]]
  /\ drawn' = [u \in Workers |-> IF u = t THEN m ELSE r[drawn[u]]]
  /\ seen' = [u \in Workers |-> IF u = t THEN 0 ELSE r[seen[u]]]
  /\ stamp' = [n \in Nodes |-> r[s[n]]]

\* There are finitely many clocks in use.
LEMMA InUseFinite ==
  ASSUME NEW t, NEW s \in [Nodes -> Nat],
         clock \in [Workers -> Nat], drawn \in [Workers -> Nat],
         seen \in [Workers -> Nat]
  PROVE  IsFiniteSet(InUse(t, s)) /\ InUse(t, s) \subseteq Nat
<1> DEFINE W == Workers \ {t}
<1>1. IsFiniteSet(Workers) /\ IsFiniteSet(W) /\ IsFiniteSet(Nodes)
  <2>1. IsFiniteSet(Workers)
    BY FS_Interval, StackTestAssumption DEF Workers
  <2>2. QED
    BY <2>1, FS_Subset, GarbageCollectorAssumption
<1>2. ASSUME NEW S, IsFiniteSet(S), NEW f \in [S -> Nat]
      PROVE  IsFiniteSet({f[x] : x \in S})
  <2> DEFINE T == {f[x] : x \in S}
             g == [x \in S |-> f[x]]
  <2>1. g \in Surjection(S, T)
    BY DEF Surjection
  <2>2. QED
    BY <1>2, <2>1, FS_Surjection
<1>3. /\ IsFiniteSet({clock[u] : u \in Workers})
      /\ IsFiniteSet({drawn[u] : u \in Workers})
      /\ IsFiniteSet({s[n] : n \in Nodes})
  BY <1>1, <1>2
<1>4. IsFiniteSet({seen[u] : u \in W})
  <2> DEFINE f == [u \in W |-> seen[u]]
  <2>1. f \in [W -> Nat] /\ \A u \in W : f[u] = seen[u]
    OBVIOUS
  <2> HIDE DEF f
  <2>2. {seen[u] : u \in W} = {f[u] : u \in W}
    BY <2>1
  <2>3. IsFiniteSet({f[u] : u \in W})
    BY <1>1, <1>2, <2>1
  <2>4. QED
    BY <2>2, <2>3
<1>5. IsFiniteSet({0})
  BY FS_Singleton
<1>6. IsFiniteSet(InUse(t, s))
  BY <1>3, <1>4, <1>5, FS_Union DEF InUse
<1>7. InUse(t, s) \subseteq Nat
  BY DEF InUse
<1>8. QED
  BY <1>6, <1>7

\* A part of a finite set has fewer elements.
LEMMA Fewer ==
  ASSUME NEW S, NEW T, IsFiniteSet(S), T \subseteq S, NEW x \in S \ T
  PROVE  Cardinality(T) < Cardinality(S)
<1>1. /\ IsFiniteSet(T) /\ Cardinality(T) <= Cardinality(S)
      /\ Cardinality(S) # Cardinality(T)
  BY FS_Subset
<1>2. Cardinality(T) \in Nat /\ Cardinality(S) \in Nat
  BY <1>1, FS_CardinalityType
<1>3. QED
  BY <1>1, <1>2

\* GetClock() draws a clock later than all in use, and keeps their order.
LEMMA ClockDrawn ==
  ASSUME NEW t \in Workers, NEW s \in [Nodes -> Nat], GetClock(t, s),
         clock \in [Workers -> Nat], drawn \in [Workers -> Nat],
         seen \in [Workers -> Nat]
  PROVE  \E r, m : Renumbers(t, s, r, m)
<1> DEFINE U == InUse(t, s)
           r == [c \in Nat |-> Cardinality(Earlier(t, s, c))]
           m == Cardinality(U)
<1>1. IsFiniteSet(U) /\ U \subseteq Nat
  BY InUseFinite
<1>2. \A c : IsFiniteSet(Earlier(t, s, c)) /\ Earlier(t, s, c) \subseteq U
  BY <1>1, FS_Subset DEF Earlier
<1>3. m \in Nat /\ r \in [Nat -> Nat]
  BY <1>1, <1>2, FS_CardinalityType
<1>4. ASSUME NEW c \in U
      PROVE  r[c] < m
  <2>1. c \in U \ Earlier(t, s, c)
    BY <1>1 DEF Earlier
  <2>2. Cardinality(Earlier(t, s, c)) < Cardinality(U)
    BY <1>1, <1>2, <2>1, Fewer
  <2>3. QED
    BY <1>1, <2>2
<1>5. ASSUME NEW c \in U, NEW d \in U, c < d
      PROVE  r[c] < r[d]
  <2>1. Earlier(t, s, c) \subseteq Earlier(t, s, d)
    BY <1>1, <1>5 DEF Earlier
  <2>2. c \in Earlier(t, s, d) \ Earlier(t, s, c)
    BY <1>1, <1>5 DEF Earlier
  <2>3. Cardinality(Earlier(t, s, c)) < Cardinality(Earlier(t, s, d))
    BY <1>2, <2>1, <2>2, Fewer
  <2>4. QED
    BY <1>1, <2>3
<1>6. /\ clock' = [u \in Workers |-> r[clock[u]]]
      /\ drawn' = [u \in Workers |-> IF u = t THEN m ELSE r[drawn[u]]]
      /\ seen' = [u \in Workers |-> IF u = t THEN 0 ELSE r[seen[u]]]
      /\ stamp' = [n \in Nodes |-> r[s[n]]]
  BY DEF GetClock, InUse, Earlier
<1> HIDE DEF r, m, U
<1>7. Renumbers(t, s, r, m)
  BY <1>3, <1>4, <1>5, <1>6 DEF Renumbers, U
<1>8. QED
  BY <1>7

-----------------------------------------------------------------------------
(* The invariant *)

PushPoints == {"push", "pushlink", "pushcas", "backoff", "widen"}
\* Where a popped node is in its popper's hands.
HandPoints == {"popped", "stamp", "scan", "take", "scanned"}
\* In trypop(), with a node in n.
TryPoints == {"popnext", "popcas"}
\* Not registered with the collector.
OutPoints == {"start", "register", "done"}
\* Where main can be: it never pushes and keeps no clock.
MainPoints == {"join", "pop", "popread", "popnext", "popcas", "popped", "exit",
               "aborted"}

Types ==
  /\ TypeOK
  /\ dirty \in [Workers -> Seq(Nodes)]
  /\ clean \in [Workers -> Seq(Nodes)]

\* main pops only once the workers are done, and alone.
MainInv ==
  /\ pc[Main] \in MainPoints
  /\ pc[Main] \notin {"join", "aborted"} => \A t \in Workers : pc[t] = "done"
  /\ pc[Main] = "popped" /\ node[Main] = NULL => contents = << >>
  /\ pc[Main] = "exit" => node[Main] = NULL /\ contents = << >>
  /\ pc[Main] \in TryPoints => cur[Main] = head /\ head # NULL

\* Who has a node in hand is about to push it, or has popped it.
HandInv ==
  \A a \in Actors :
    /\ node[a] # NULL => pc[a] \in PushPoints \cup HandPoints
    /\ pc[a] \in PushPoints \cup {"stamp"} => node[a] # NULL

\* dereg() leaves the lists empty.
ListInv ==
  \A t \in Workers :
    /\ pc[t] \in OutPoints \cup {"unregister"} => dirty[t] = << >>
    /\ pc[t] \in OutPoints => clean[t] = << >>

\* clocks are those of the registered threads, each once.
RegInv ==
  /\ \A t \in Workers : t \in ToSet(clocks) <=> pc[t] \notin OutPoints
  /\ Inj(clocks)
  /\ \A t \in Workers :
       /\ pc[t] \in {"scan", "take"} => at[t] \in 1..Len(clocks)
       /\ pc[t] \notin {"scan", "take"} => at[t] = 1

Kinds == {"stack", "hand", "dirty", "clean", "free"}

\* The node n is in a place of kind k, that of actor w if actors have such
\* places, and in no other.
Placed(n, k, w) ==
  /\ n \in ToSet(contents) <=> k = "stack"
  /\ \A a \in Actors : node[a] = n <=> k = "hand" /\ w = a
  /\ \A t \in Workers : n \in ToSet(dirty[t]) <=> k = "dirty" /\ w = t
  /\ \A t \in Workers : n \in ToSet(clean[t]) <=> k = "clean" /\ w = t
  /\ n \in free <=> k = "free"
  /\ k \in {"dirty", "clean"} => w \in Workers

\* Every node is in one place, and there once.
PlaceInv ==
  /\ \A n \in Nodes : \E k \in Kinds, w \in Actors : Placed(n, k, w)
  /\ Inj(contents)
  /\ \A t \in Workers : Inj(dirty[t]) /\ Inj(clean[t])

\* The nodes c are linked through nx, starting at h.
Linked(h, nx, c) ==
  /\ h = IF c = << >> THEN NULL ELSE c[1]
  /\ \A i \in 1..Len(c) : nx[c[i]] = IF i < Len(c) THEN c[i+1] ELSE NULL

\* What trypush() and trypop() know of next stays true until their swaps.
ChainInv ==
  /\ Linked(head, next, contents)
  /\ \A a \in Actors :
       /\ pc[a] = "pushcas" => next[node[a]] = cur[a]
       /\ pc[a] = "popcas" => nxt[a] = next[cur[a]]

\* When u has gone through the clocks it knows that min is not later than a's.
\* What is loaded for min at the second load is either a's clock or u's own,
\* which is still as small as it was when it was compared.
Seen(u, a) ==
  /\ pc[u] = "scanned" => seen[u] <= clock[a]
  /\ pc[u] = "scan" => \/ at[u] > 1 /\ seen[u] <= clock[a]
                       \/ \E i \in at[u]..Len(clocks) : clocks[i] = a
  /\ pc[u] = "take" => \/ /\ at[u] > 1 /\ seen[u] <= clock[a]
                          /\ clocks[at[u]] = u => clock[u] < seen[u]
                       \/ \E i \in at[u]..Len(clocks) : clocks[i] = a

\* While thread a is in trypop() with the node n, thread u does not let it go:
\* it popped n later than a's clock, and a's clock is in its way.
Guarded(a, u, n) ==
  /\ n \notin ToSet(clean[u])
  /\ node[u] = n =>
       /\ pc[u] \in HandPoints
       /\ pc[u] = "stamp" => clock[a] < drawn[u]
       /\ pc[u] \in {"scan", "take", "scanned"} => clock[a] < clock[u]
  /\ n \in ToSet(dirty[u]) => clock[a] < stamp[n]
  /\ node[u] = n \/ n \in ToSet(dirty[u]) => Seen(u, a)

GuardInv ==
  \A a \in Workers : pc[a] \in TryPoints =>
    /\ cur[a] \in Nodes /\ cur[a] \notin free
    /\ \A u \in Workers : Guarded(a, u, cur[a])

\* What goes to the end of a dirty list gets a later clock than all in it.
OrderInv ==
  \A t \in Workers :
    /\ \A i, j \in 1..Len(dirty[t]) :
         i < j => stamp[dirty[t][i]] < stamp[dirty[t][j]]
    /\ pc[t] = "stamp" => \A n \in ToSet(dirty[t]) : stamp[n] < drawn[t]
    /\ pc[t] \in {"scan", "take", "scanned"} /\ node[t] # NULL =>
         \A n \in ToSet(dirty[t]) : stamp[n] < clock[t]

Inv ==
  /\ Types /\ MainInv /\ HandInv /\ ListInv /\ RegInv
  /\ PlaceInv /\ ChainInv /\ GuardInv /\ OrderInv

\* main is an actor and no worker.
LEMMA Threads ==
  /\ Actors = Workers \cup {Main} /\ Main \notin Workers /\ Main \in Actors
  /\ Workers \subseteq Actors
  BY StackTestAssumption DEF Actors, Workers, Main

\* The points of the program, spelled out.
LEMMA PointsAre ==
  Points = {"start", "loop", "push", "pushed", "pop", "popped", "test", "total",
            "done", "join", "exit", "pushlink", "pushcas", "backoff", "widen",
            "popread", "popnext", "popcas", "stamp", "scanned", "restamp",
            "deregstamp", "unregister", "register", "scan", "take", "aborted"}
  BY DEF Points, WorkPoints, OpPoints, CleanPoints, DeregPoints, ScanPoints

\* The invariant holds at first.
LEMMA InvInit == Init => Inv
<1> SUFFICES ASSUME Init PROVE Inv
  OBVIOUS
<1> USE Threads, StackTestAssumption
    DEF Init, HarnessInit, StackInit, LinkInit, OutPoints, TryPoints
<1>1. Types
  <2>1. pc \in [Actors -> Points]
    BY PointsAre
  <2>2. HarnessTypeOK(Points)
    BY <2>1 DEF HarnessTypeOK
  <2>3. StackTypeOK
    BY DEF StackTypeOK, LinkTypeOK
  <2>4. QED
    BY <2>2, <2>3, GarbageCollectorAssumption DEF Types, TypeOK
<1>2. /\ ToSet(contents) = {} /\ ToSet(clocks) = {}
      /\ \A t \in Workers : ToSet(dirty[t]) = {} /\ ToSet(clean[t]) = {}
  <2>1. ToSet(<< >>) = {}
    BY DEF ToSet
  <2>2. QED
    BY <2>1
<1>3. MainInv
  BY DEF MainInv, MainPoints
<1>4. HandInv
  BY DEF HandInv, PushPoints
<1>5. ListInv /\ RegInv
  BY <1>2 DEF ListInv, RegInv, Inj
<1>6. PlaceInv
  <2>1. \A n \in Nodes : Placed(n, "free", Main)
    BY <1>2 DEF Placed
  <2>2. QED
    BY <2>1 DEF PlaceInv, Kinds, Inj
<1>7. ChainInv /\ GuardInv /\ OrderInv
  BY DEF ChainInv, GuardInv, OrderInv, Linked
<1>8. QED
  BY <1>1, <1>3, <1>4, <1>5, <1>6, <1>7 DEF Inv

-----------------------------------------------------------------------------
(* Steps that leave the nodes, the clocks and the lists alone *)

QuietPoints == {"loop", "test", "total", "push", "pushed", "pop", "popped"}
               \cup OpPoints

\* Actor a goes on in worker(), main(), push() or pop().
Quiet(a, to) ==
  /\ pc[a] \in QuietPoints /\ to \in QuietPoints \ {"pushcas"}
  /\ pc' = [pc EXCEPT ![a] = to] /\ node' = node
  /\ to \in PushPoints => pc[a] \in PushPoints
  /\ pc[a] \in PushPoints => to \in PushPoints
  /\ pc[a] = "popped" => node[a] = NULL
  /\ \A b \in Actors \ {a} : cur'[b] = cur[b] /\ nxt'[b] = nxt[b]
  /\ to = "popnext" => head # NULL /\ cur'[a] = head
  /\ to = "popcas" => /\ pc[a] = "popnext" /\ cur'[a] = cur[a]
                      /\ nxt'[a] = next[cur[a]]
  /\ UNCHANGED <<linkVars, clockVars, listVars>>

\* A node on the stack is nowhere else.
LEMMA OnStack ==
  ASSUME PlaceInv, NEW n \in Nodes, n \in ToSet(contents)
  PROVE  /\ n \notin free
         /\ \A a \in Actors : node[a] # n
         /\ \A t \in Workers : n \notin ToSet(dirty[t]) /\ n \notin ToSet(clean[t])
  BY DEF PlaceInv, Placed

\* head is the first node of the stack.
LEMMA HeadIs ==
  ASSUME Types, ChainInv
  PROVE  /\ head = NULL <=> contents = << >>
         /\ head # NULL => /\ head \in Nodes /\ head = contents[1]
                           /\ head \in ToSet(contents) /\ 1 \in 1..Len(contents)
<1>1. contents \in Seq(Nodes) /\ head = IF contents = << >> THEN NULL ELSE contents[1]
  BY DEF Types, TypeOK, StackTypeOK, LinkTypeOK, ChainInv, Linked
<1>2. CASE contents = << >>
  BY <1>1, <1>2
<1>3. CASE contents # << >>
  <2>1. contents[1] \in ToSet(contents) /\ Len(contents) >= 1
    BY <1>1, <1>3, TailSet
  <2>2. contents[1] \in Nodes
    BY <1>1, <2>1, InSet
  <2>3. QED
    BY <1>1, <1>3, <2>1, <2>2, StackTestAssumption
<1>4. QED
  BY <1>2, <1>3

\* Such a step keeps all parts of the invariant but those about main and types.
LEMMA QuietKeeps ==
  ASSUME Inv, NEW a \in Actors, NEW to, Quiet(a, to)
  PROVE  HandInv' /\ ListInv' /\ RegInv' /\ PlaceInv' /\ ChainInv' /\ GuardInv'
         /\ OrderInv'
<1> USE Threads
    DEF Quiet, linkVars, clockVars, listVars, QuietPoints, OpPoints, OutPoints,
        PushPoints, HandPoints, TryPoints
<1>1. pc \in [Actors -> Points] /\ node \in [Actors -> Nodes \cup {NULL}]
  BY DEF Inv, Types, TypeOK, HarnessTypeOK
<1>2. HandInv'
  BY <1>1 DEF Inv, HandInv
<1>3. ListInv' /\ RegInv'
  BY <1>1 DEF Inv, ListInv, RegInv
<1>4. PlaceInv'
  BY DEF Inv, PlaceInv, Placed
<1>5. ChainInv'
  BY <1>1 DEF Inv, ChainInv
<1>6. OrderInv'
  BY <1>1 DEF Inv, OrderInv
<1>7. GuardInv'
  <2> SUFFICES ASSUME NEW b \in Workers, pc'[b] \in TryPoints
               PROVE  /\ cur'[b] \in Nodes /\ cur'[b] \notin free'
                      /\ \A u \in Workers : Guarded(b, u, cur[b])'
    BY DEF GuardInv
  <2>1. CASE b = a /\ to = "popnext"
    <3>1. cur'[b] = head /\ head \in Nodes /\ head \in ToSet(contents)
      BY <2>1, HeadIs DEF Inv
    <3>2. QED
      BY <3>1, OnStack DEF Inv, Guarded
  <2>2. CASE ~(b = a /\ to = "popnext")
    <3>1. pc[b] \in TryPoints /\ cur'[b] = cur[b]
      BY <1>1, <2>2
    <3>2. /\ cur[b] \in Nodes /\ cur[b] \notin free
          /\ \A u \in Workers : Guarded(b, u, cur[b])
      BY <3>1 DEF Inv, GuardInv
    <3>3. ASSUME NEW u \in Workers
          PROVE  Guarded(b, u, cur[b])'
      <4>1. Guarded(b, u, cur[b])
        BY <3>2
      <4>2. pc'[u] # pc[u] => pc[u] \notin {"stamp", "scan", "take", "scanned"}
                             /\ pc'[u] \notin {"stamp", "scan", "take", "scanned"}
        BY <1>1
      <4>3. pc[u] = "popped" /\ node[u] = cur[b] => pc'[u] = pc[u]
        BY <1>1, <3>2, StackTestAssumption
      <4>4. Seen(u, b) => Seen(u, b)'
        BY <4>2 DEF Seen
      <4>5. QED
        BY <3>1, <4>1, <4>2, <4>3, <4>4 DEF Guarded
    <3>4. QED
      BY <3>1, <3>2, <3>3
  <2>3. QED
    BY <2>1, <2>2
<1>8. QED
  BY <1>2, <1>3, <1>4, <1>5, <1>6, <1>7

\* The steps of a worker that are quiet, and those of pop(), which main calls
\* as well.
QuietStep(t) ==
  \/ /\ BeginPop(t) \/ CountPush(t) \/ Again(t) \/ Leave(t)
     /\ UNCHANGED <<stackVars, clockVars, listVars>>
  \/ NothingPopped(t)
  \/ /\ PushRead(t) \/ PushFail(t) \/ LoadLimit(t) \/ StoreLimit(t)
     /\ UNCHANGED <<clockVars, listVars>>

QuietPop(a) ==
  /\ PopEmpty(a) \/ PopTry(a) \/ PopRead(a) \/ PopNext(a) \/ PopFail(a)
  /\ UNCHANGED <<clockVars, listVars>>

\* The types of the collector's variables, when it does nothing.
LEMMA ListTypesStay ==
  ASSUME Types, UNCHANGED <<clockVars, listVars>>, HarnessTypeOK(Points)', StackTypeOK'
  PROVE  Types'
  BY DEF Types, TypeOK, clockVars, listVars

\* These are quiet steps, ...
LEMMA QuietIs ==
  ASSUME Inv, NEW t \in Workers, QuietStep(t)
  PROVE  Types' /\ Running /\ \E to : Quiet(t, to)
<1> USE Threads
    DEF StackStep, Goto, countVars, linkVars, stackVars, regVars
<1> DEFINE Goal == Types' /\ Running /\ \E to : Quiet(t, to)
<1>1. /\ Types /\ TypeOK /\ HandInv /\ HarnessTypeOK(Points) /\ StackTypeOK
      /\ UNCHANGED <<clockVars, listVars>>
  BY DEF Inv, Types, TypeOK, QuietStep, NothingPopped
<1>2. CASE /\ BeginPop(t) \/ CountPush(t) \/ Again(t) \/ Leave(t)
           /\ UNCHANGED stackVars
  <2>1. PICK to \in {"pop", "test", "loop", "total"} :
          /\ pc' = [pc EXCEPT ![t] = to] /\ node' = node /\ Running
          /\ pc[t] \in {"loop", "pushed", "test"}
    BY <1>2 DEF BeginPop, CountPush, Again, Leave
  <2>2. /\ UNCHANGED <<timeup, popcount, totalpushcount, totalpopcount, mypopcount>>
        /\ pushcount' \in [Workers -> Nat]
    BY <1>1, <1>2 DEF BeginPop, CountPush, Again, Leave, HarnessTypeOK
  <2>3. HarnessTypeOK(Points)'
    BY <1>1, <2>1, <2>2, PointsAre DEF HarnessTypeOK
  <2>4. StackTypeOK'
    BY <1>1, <1>2 DEF StackTypeOK, LinkTypeOK
  <2>5. Quiet(t, to)
    BY <1>1, <1>2, <2>1 DEF Quiet, QuietPoints, OpPoints, PushPoints
  <2>6. QED
    BY <1>1, <2>1, <2>3, <2>4, <2>5, ListTypesStay
<1>3. CASE NothingPopped(t)
  <2>1. /\ pc' = [pc EXCEPT ![t] = "test"] /\ pc[t] = "popped" /\ node[t] = NULL
        /\ node' = node /\ UNCHANGED stackVars /\ Running
    BY <1>1, <1>3 DEF NothingPopped, CountPop, HarnessTypeOK
  <2>2. /\ UNCHANGED <<timeup, pushcount, totalpushcount, totalpopcount, mypopcount>>
        /\ popcount' \in [Workers -> Nat]
    BY <1>1, <1>3 DEF NothingPopped, CountPop, HarnessTypeOK
  <2>3. HarnessTypeOK(Points)'
    BY <1>1, <2>1, <2>2, PointsAre DEF HarnessTypeOK
  <2>4. StackTypeOK'
    BY <1>1, <2>1 DEF StackTypeOK, LinkTypeOK
  <2>5. Quiet(t, "test")
    BY <1>1, <2>1 DEF Quiet, QuietPoints, OpPoints, PushPoints
  <2>6. QED
    BY <1>1, <2>1, <2>3, <2>4, <2>5, ListTypesStay
<1>4. CASE PushRead(t) \/ PushFail(t) \/ LoadLimit(t) \/ StoreLimit(t)
  <2>1. PICK to \in {"pushlink", "backoff", "widen", "push"} :
          /\ pc' = [pc EXCEPT ![t] = to] /\ UNCHANGED <<node, countVars, linkVars>>
          /\ pc[t] \in {"push", "pushcas", "backoff", "widen"} /\ Running
    BY <1>4 DEF PushRead, PushFail, LoadLimit, StoreLimit
  <2>2. HarnessTypeOK(Points)'
    BY <1>1, <2>1, PointsAre DEF HarnessTypeOK
  <2>3. StackTypeOK'
    BY <1>1, <1>4, LockFreeStackAssumption
    DEF StackTypeOK, LinkTypeOK, PushRead, PushFail, LoadLimit, StoreLimit
  <2>4. \A b \in Actors \ {t} : cur'[b] = cur[b] /\ nxt'[b] = nxt[b]
    BY <1>1, <1>4 DEF StackTypeOK, PushRead, PushFail, LoadLimit, StoreLimit
  <2>5. Quiet(t, to)
    BY <1>1, <2>1, <2>4 DEF Quiet, QuietPoints, OpPoints, PushPoints
  <2>6. QED
    BY <1>1, <2>1, <2>2, <2>3, <2>5, ListTypesStay
<1>5. QED
  BY <1>2, <1>3, <1>4 DEF QuietStep

\* ... and so are these of pop().
LEMMA QuietPopIs ==
  ASSUME Inv, NEW a \in Actors, QuietPop(a)
  PROVE  Types' /\ Running /\ \E to : Quiet(a, to)
<1> USE Threads
    DEF StackStep, Goto, countVars, linkVars, stackVars, regVars
<1>1. /\ Types /\ TypeOK /\ HandInv /\ HarnessTypeOK(Points) /\ StackTypeOK
      /\ UNCHANGED <<clockVars, listVars>>
  BY DEF Inv, Types, TypeOK, QuietPop
<1>2. PICK to \in {"popped", "pop", "popread", "popnext", "popcas"} :
        /\ pc' = [pc EXCEPT ![a] = to] /\ UNCHANGED <<countVars, linkVars>>
        /\ pc[a] \in {"pop", "popread", "popnext", "popcas"} /\ Running
        /\ to = "popnext" => head # NULL /\ cur'[a] = head
        /\ to = "popcas" => /\ pc[a] = "popnext" /\ cur' = cur
                            /\ nxt'[a] = next[cur[a]]
  <2>1. CASE PopEmpty(a)
    BY <2>1 DEF PopEmpty, PopReturns
  <2>2. CASE PopTry(a) \/ PopFail(a)
    BY <2>2 DEF PopTry, PopFail
  <2>3. CASE PopRead(a)
    BY <1>1, <2>3 DEF PopRead, StackTypeOK
  <2>4. CASE PopNext(a)
    BY <1>1, <2>4 DEF PopNext, StackTypeOK
  <2>5. QED
    BY <2>1, <2>2, <2>3, <2>4 DEF QuietPop
<1>3. node' = node
  <2>1. node[a] = NULL
    BY <1>1, <1>2 DEF HandInv, PushPoints, HandPoints
  <2>2. node' = node \/ node' = [node EXCEPT ![a] = NULL]
    BY DEF QuietPop, PopEmpty, PopReturns, PopTry, PopRead, PopNext, PopFail
  <2>3. QED
    BY <1>1, <2>1, <2>2 DEF HarnessTypeOK
<1>4. HarnessTypeOK(Points)'
  BY <1>1, <1>2, <1>3, PointsAre DEF HarnessTypeOK
<1>5. /\ UNCHANGED <<limit, lim>>
      /\ cur' \in [Actors -> Nodes \cup {NULL}]
      /\ nxt' \in [Actors -> Nodes \cup {NULL}]
      /\ \A b \in Actors \ {a} : cur'[b] = cur[b] /\ nxt'[b] = nxt[b]
  <2>1. CASE PopEmpty(a) \/ PopTry(a) \/ PopRead(a) \/ PopFail(a)
    BY <1>1, <2>1 DEF StackTypeOK, LinkTypeOK, PopEmpty, PopReturns, PopTry, PopRead,
                      PopFail
  <2>2. CASE PopNext(a)
    <3>1. cur[a] \in Nodes
      <4>1. CASE a = Main
        BY <2>2, <4>1, HeadIs DEF Inv, MainInv, TryPoints, PopNext
      <4>2. CASE a # Main
        BY <2>2, <4>2 DEF Inv, GuardInv, TryPoints, PopNext
      <4>3. QED
        BY <4>1, <4>2
    <3>2. QED
      BY <1>1, <2>2, <3>1 DEF StackTypeOK, LinkTypeOK, PopNext
  <2>3. QED
    BY <2>1, <2>2 DEF QuietPop
<1>6. StackTypeOK'
  BY <1>1, <1>2, <1>5 DEF StackTypeOK, LinkTypeOK
<1>7. Quiet(a, to)
  BY <1>1, <1>2, <1>3, <1>5 DEF Quiet, QuietPoints, OpPoints, PushPoints, HandInv
<1>8. QED
  BY <1>1, <1>2, <1>4, <1>6, <1>7, ListTypesStay

-----------------------------------------------------------------------------
(* Steps of a worker that move a node to the stack or from it *)

\* While a worker is at work main waits.
LEMMA MainWaits ==
  ASSUME Inv, NEW t \in Workers, Running, pc[t] # "done"
  PROVE  pc[Main] = "join"
  BY DEF Inv, MainInv, Running

\* ... and it goes on waiting.
LEMMA MainStillWaits ==
  ASSUME Inv, pc[Main] = "join", NEW t \in Workers, NEW to,
         pc' = [pc EXCEPT ![t] = to]
  PROVE  MainInv'
<1>1. pc'[Main] = "join"
  BY Threads DEF Inv, Types, TypeOK, HarnessTypeOK
<1>2. QED
  BY <1>1 DEF MainInv, MainPoints, TryPoints

\* Such a step does not concern the lists and the clocks.
LEMMA CalmKeeps ==
  ASSUME Inv, NEW t \in Actors, NEW to \in QuietPoints, pc[t] \in QuietPoints,
         pc' = [pc EXCEPT ![t] = to],
         UNCHANGED <<clockVars, clocks, at, dirty>>,
         \A u \in Workers \ {t} : clean'[u] = clean[u] /\ node'[u] = node[u]
  PROVE  ListInv' /\ RegInv' /\ OrderInv'
<1> USE DEF QuietPoints, OpPoints, OutPoints, clockVars
<1>1. pc \in [Actors -> Points] /\ Workers \subseteq Actors
  BY Threads DEF Inv, Types, TypeOK, HarnessTypeOK
<1>2. ListInv'
  BY <1>1 DEF Inv, ListInv
<1>3. RegInv'
  BY <1>1 DEF Inv, RegInv
<1>4. OrderInv'
  BY <1>1 DEF Inv, OrderInv
<1>5. QED
  BY <1>2, <1>3, <1>4

\* Nobody but t looks at the node n.
Private(t, n) ==
  /\ n \notin ToSet(contents)
  /\ \A b \in Actors \ {t} : node[b] # n
  /\ \A b \in Workers : pc[b] \in TryPoints => cur[b] # n

\* Writing the next of such a node.
LEMMA NextKeeps ==
  ASSUME Inv, NEW t \in Workers, NEW n \in Nodes, NEW x, NEW to, NEW m,
         pc[Main] = "join", Private(t, n),
         node' = node \/ node' = [node EXCEPT ![t] = m],
         next' = [next EXCEPT ![n] = x], pc' = [pc EXCEPT ![t] = to],
         UNCHANGED <<head, contents, cur, nxt>>,
         to # "popcas", to = "pushcas" => node'[t] = n /\ x = cur[t]
  PROVE  ChainInv'
<1> USE Threads DEF Private
<1>1. /\ pc \in [Actors -> Points] /\ contents \in Seq(Nodes)
      /\ next \in [Nodes -> Nodes \cup {NULL}]
      /\ node \in [Actors -> Nodes \cup {NULL}]
  BY DEF Inv, Types, TypeOK, HarnessTypeOK, StackTypeOK, LinkTypeOK
<1>2. \A i \in 1..Len(contents) : contents[i] \in Nodes /\ contents[i] # n
  BY <1>1, InSet
<1>3. Linked(head', next', contents')
  BY <1>1, <1>2 DEF Inv, ChainInv, Linked
<1>4. ASSUME NEW a \in Actors, pc'[a] = "pushcas"
      PROVE  next'[node'[a]] = cur'[a]
  <2>1. CASE a = t
    BY <1>1, <1>4, <2>1
  <2>2. CASE a # t
    <3>1. /\ pc[a] = "pushcas" /\ node[a] # NULL /\ node'[a] = node[a]
          /\ next[node[a]] = cur[a]
      BY <1>1, <1>4, <2>2 DEF Inv, HandInv, PushPoints, ChainInv
    <3>2. QED
      BY <1>1, <2>2, <3>1
  <2>3. QED
    BY <2>1, <2>2
<1>5. ASSUME NEW a \in Actors, pc'[a] = "popcas"
      PROVE  nxt'[a] = next'[cur'[a]]
  <2>1. a \in Workers /\ pc[a] = "popcas"
    BY <1>1, <1>5
  <2>2. cur[a] \in Nodes /\ cur[a] # n /\ nxt[a] = next[cur[a]]
    BY <2>1 DEF Inv, GuardInv, TryPoints, ChainInv
  <2>3. QED
    BY <1>1, <2>2
<1>6. QED
  BY <1>3, <1>4, <1>5 DEF ChainInv

\* A thread that does nothing about the node n guards it as before.
LEMMA GuardStays ==
  ASSUME NEW b \in Workers, NEW u \in Workers, NEW n, Guarded(b, u, n),
         UNCHANGED <<clockVars, clocks, at>>, dirty'[u] = dirty[u],
         n \notin ToSet(clean[u])',
         node'[u] = n => node[u] = n /\ pc'[u] = pc[u],
         pc'[u] # pc[u] => pc'[u] \notin {"scan", "take", "scanned"}
  PROVE  Guarded(b, u, n)'
  BY DEF Guarded, Seen, clockVars

\* The links after a push ...
LEMMA LinkedPush ==
  ASSUME NEW h, NEW nx, NEW c \in Seq(Nodes), NEW m \in Nodes,
         Linked(h, nx, c), nx[m] = h
  PROVE  Linked(m, nx, <<m>> \o c)
<1> DEFINE q == <<m>> \o c
<1>1. /\ q # << >> /\ q[1] = m /\ Len(q) = Len(c) + 1
      /\ \A i \in 1..Len(c) : q[i+1] = c[i]
  BY ConsSet
<1> HIDE DEF q
<1>2. c = << >> <=> Len(c) = 0
  BY InSet
<1>3. ASSUME NEW i \in 1..Len(q)
      PROVE  nx[q[i]] = IF i < Len(q) THEN q[i+1] ELSE NULL
  <2>1. CASE i = 1
    <3>1. Len(c) # 0 => q[1+1] = c[1]
      BY <1>1
    <3>2. QED
      BY <1>1, <1>2, <2>1, <3>1 DEF Linked
  <2>2. CASE i # 1
    <3>1. i-1 \in 1..Len(c) /\ (i-1)+1 = i
      BY <1>1, <2>2
    <3>2. q[i] = c[i-1] /\ nx[c[i-1]] = IF i-1 < Len(c) THEN c[i] ELSE NULL
      BY <1>1, <3>1 DEF Linked
    <3>3. i < Len(q) <=> i-1 < Len(c)
      BY <1>1
    <3>4. i < Len(q) => q[i+1] = c[i]
      BY <1>1
    <3>5. QED
      BY <3>2, <3>3, <3>4
  <2>3. QED
    BY <2>1, <2>2
<1>4. QED
  BY <1>1, <1>3 DEF Linked, q

\* ... and after a pop.
LEMMA LinkedPop ==
  ASSUME NEW h, NEW nx, NEW c \in Seq(Nodes), c # << >>, Linked(h, nx, c)
  PROVE  h = c[1] /\ Linked(nx[h], nx, Tail(c))
<1> DEFINE q == Tail(c)
<1>1. /\ q \in Seq(Nodes) /\ Len(c) >= 1 /\ Len(q) = Len(c) - 1
      /\ \A i \in 1..Len(q) : q[i] = c[i+1]
  BY TailSet
<1> HIDE DEF q
<1>2. h = c[1] /\ (q = << >> <=> Len(q) = 0)
  BY <1>1, InSet DEF Linked
<1>3. nx[h] = IF q = << >> THEN NULL ELSE q[1]
  <2>1. nx[c[1]] = IF 1 < Len(c) THEN c[1+1] ELSE NULL
    BY <1>1 DEF Linked
  <2>2. QED
    BY <1>1, <1>2, <2>1
<1>4. ASSUME NEW i \in 1..Len(q)
      PROVE  nx[q[i]] = IF i < Len(q) THEN q[i+1] ELSE NULL
  <2>1. i+1 \in 1..Len(c) /\ q[i] = c[i+1]
    BY <1>1
  <2>2. nx[c[i+1]] = IF i+1 < Len(c) THEN c[(i+1)+1] ELSE NULL
    BY <2>1 DEF Linked
  <2>3. i < Len(q) => q[i+1] = c[(i+1)+1]
    BY <1>1
  <2>4. i < Len(q) <=> i+1 < Len(c)
    BY <1>1
  <2>5. QED
    BY <2>1, <2>2, <2>3, <2>4
<1>5. QED
  BY <1>2, <1>3, <1>4 DEF Linked, q

\* alloc(), from the heap or from the clean list.
LEMMA AllocKeeps ==
  ASSUME Inv, NEW t \in Workers, Reuse(t) \/ Allocate(t)
  PROVE  Inv'
<1> USE Threads, StackTestAssumption DEF linkVars, regVars, clockVars, listVars
<1>1. /\ Types /\ TypeOK /\ HarnessTypeOK(Points) /\ StackTypeOK
      /\ PlaceInv /\ GuardInv /\ HandInv
  BY DEF Inv, Types, TypeOK
<1>2. PICK n \in Nodes :
        /\ \/ n \in free /\ free' = free \ {n} /\ clean' = clean
           \/ /\ clean[t] # << >> /\ n = Head(clean[t]) /\ free' = free
              /\ clean' = [clean EXCEPT ![t] = Tail(@)]
        /\ BeginPush(t, n) /\ next' = [next EXCEPT ![n] = NULL]
        /\ UNCHANGED <<head, contents, regVars, clockVars, clocks, at, dirty>>
  <2>1. CASE Allocate(t)
    BY <2>1 DEF Allocate, New
  <2>2. CASE Reuse(t)
    <3>1. clean[t] # << >> /\ Head(clean[t]) \in Nodes
      BY <1>1, <2>2 DEF Reuse, Types
    <3>2. QED
      BY <2>2, <3>1 DEF Reuse
  <2>3. QED
    BY <2>1, <2>2
<1>3. /\ pc[t] = "loop" /\ pc' = [pc EXCEPT ![t] = "push"] /\ Running
      /\ node' = [node EXCEPT ![t] = n] /\ UNCHANGED countVars
  BY <1>2 DEF BeginPush, Goto
<1>4. /\ pc[Main] = "join" /\ MainInv'
  BY <1>3, MainWaits, MainStillWaits
<1>5. /\ clean' \in [Workers -> Seq(Nodes)]
      /\ \A u \in Workers \ {t} : clean'[u] = clean[u]
      /\ \A u \in Workers : Len(clean'[u]) <= ListSize /\ Inj(clean'[u])
      /\ \A u \in Workers : ToSet(clean'[u]) = ToSet(clean[u]) \ {n}
      /\ n \in free \/ n \in ToSet(clean[t])
      /\ n \notin free'
  <2>1. CASE n \in free /\ free' = free \ {n} /\ clean' = clean
    <3>1. \A u \in Workers : n \notin ToSet(clean[u])
      BY <1>1, <2>1 DEF PlaceInv, Placed
    <3>2. QED
      BY <1>1, <1>2, <2>1, <3>1 DEF Types, TypeOK, PlaceInv
  <2>2. CASE /\ clean[t] # << >> /\ n = Head(clean[t]) /\ free' = free
             /\ clean' = [clean EXCEPT ![t] = Tail(@)]
    <3>1. clean[t] \in Seq(Nodes) /\ Inj(clean[t]) /\ Len(clean[t]) <= ListSize
      BY <1>1 DEF Types, TypeOK, PlaceInv
    <3>2. /\ Tail(clean[t]) \in Seq(Nodes) /\ Inj(Tail(clean[t]))
          /\ Len(Tail(clean[t])) = Len(clean[t]) - 1
          /\ ToSet(Tail(clean[t])) = ToSet(clean[t]) \ {n}
          /\ n \in ToSet(clean[t])
      BY <2>2, <3>1, TailSet
    <3>3. \A u \in Workers \ {t} : n \notin ToSet(clean[u])
      BY <1>1, <3>2 DEF PlaceInv, Placed
    <3>4. \A u \in Workers : clean'[u] = IF u = t THEN Tail(clean[t]) ELSE clean[u]
      BY <1>1, <2>2 DEF Types
    <3>5. Len(Tail(clean[t])) <= ListSize
      BY <3>1, <3>2, GarbageCollectorAssumption
    <3>6. clean' \in [Workers -> Seq(Nodes)]
      BY <1>1, <2>2, <3>2 DEF Types
    <3>7. n \notin free'
      BY <1>1, <2>2, <3>2 DEF PlaceInv, Placed
    <3>8. \A u \in Workers : ToSet(clean'[u]) = ToSet(clean[u]) \ {n}
      BY <3>2, <3>3, <3>4
    <3>9. \A u \in Workers : Len(clean'[u]) <= ListSize /\ Inj(clean'[u])
      BY <1>1, <3>2, <3>4, <3>5 DEF TypeOK, PlaceInv
    <3>10. QED
      BY <3>2, <3>4, <3>6, <3>7, <3>8, <3>9
  <2>3. QED
    BY <1>2, <2>1, <2>2
<1>6. /\ n \notin ToSet(contents) /\ \A a \in Actors : node[a] # n
      /\ \A u \in Workers : n \notin ToSet(dirty[u])
  BY <1>1, <1>5 DEF PlaceInv, Placed
<1>7. \A b \in Workers : pc[b] \in TryPoints => cur[b] # n
  BY <1>1, <1>5 DEF GuardInv, Guarded
<1>8. Types'
  <2>1. HarnessTypeOK(Points)'
    BY <1>1, <1>3, PointsAre DEF HarnessTypeOK, countVars
  <2>2. StackTypeOK'
    BY <1>1, <1>2 DEF StackTypeOK, LinkTypeOK
  <2>3. QED
    BY <1>1, <1>2, <1>5, <2>1, <2>2 DEF Types, TypeOK
<1>9. HandInv'
  BY <1>1, <1>3 DEF HandInv, HarnessTypeOK, PushPoints, HandPoints
<1>10. ListInv' /\ RegInv' /\ OrderInv'
  <2>1. \A u \in Workers \ {t} : clean'[u] = clean[u] /\ node'[u] = node[u]
    BY <1>1, <1>3, <1>5 DEF HarnessTypeOK
  <2>2. "loop" \in QuietPoints /\ "push" \in QuietPoints
    BY DEF QuietPoints
  <2>3. QED
    BY <1>2, <1>3, <2>1, <2>2, CalmKeeps
<1>11. PlaceInv'
  <2>1. ASSUME NEW x \in Nodes
        PROVE  \E k \in Kinds, w \in Actors : Placed(x, k, w)'
    <3>1. PICK k \in Kinds, w \in Actors : Placed(x, k, w)
      BY <1>1 DEF PlaceInv
    <3>2. CASE x = n
      <4>1. n \notin free'
        BY <1>5
      <4>2. \A a \in Actors : node'[a] = n <=> a = t
        BY <1>1, <1>3, <1>6 DEF HarnessTypeOK
      <4>3. Placed(x, "hand", t)'
        BY <1>2, <1>5, <1>6, <3>2, <4>1, <4>2 DEF Placed
      <4>4. QED
        BY <4>3 DEF Kinds
    <3>3. CASE x # n
      <4>1. /\ x \in free' <=> x \in free
            /\ \A a \in Actors : node'[a] = x <=> node[a] = x
        BY <1>1, <1>2, <1>3, <1>6, <3>3 DEF HarnessTypeOK, HandInv, PushPoints, HandPoints
      <4>2. Placed(x, k, w)'
        BY <1>2, <1>5, <3>1, <3>3, <4>1 DEF Placed
      <4>3. QED
        BY <4>2
    <3>4. QED
      BY <3>2, <3>3
  <2>2. QED
    BY <1>1, <1>2, <1>5, <2>1 DEF PlaceInv
<1>12. ChainInv'
  <2>1. Private(t, n)
    BY <1>6, <1>7 DEF Private
  <2>2. QED
    BY <1>2, <1>3, <1>4, <2>1, NextKeeps
<1>13. GuardInv'
  <2> SUFFICES ASSUME NEW b \in Workers, pc'[b] \in TryPoints
               PROVE  /\ cur'[b] \in Nodes /\ cur'[b] \notin free'
                      /\ \A u \in Workers : Guarded(b, u, cur[b])'
    BY DEF GuardInv
  <2>1. /\ pc[b] \in TryPoints /\ cur'[b] = cur[b]
        /\ cur[b] \in Nodes /\ cur[b] \notin free' /\ cur[b] # n
    <3>1. pc[b] \in TryPoints
      BY <1>1, <1>3 DEF HarnessTypeOK, TryPoints
    <3>2. QED
      BY <1>1, <1>2, <1>7, <3>1 DEF GuardInv
  <2>2. ASSUME NEW u \in Workers
        PROVE  Guarded(b, u, cur[b])'
    <3> DEFINE m == cur[b]
    <3>1. Guarded(b, u, m)
      BY <1>1, <2>1 DEF GuardInv
    <3>2. m \notin ToSet(clean[u])'
      BY <1>5, <3>1 DEF Guarded
    <3>3. node'[u] = m => node[u] = m /\ pc'[u] = pc[u]
      BY <1>1, <1>3, <2>1 DEF HarnessTypeOK
    <3>4. pc'[u] # pc[u] => pc'[u] \notin {"scan", "take", "scanned"}
      BY <1>1, <1>3 DEF HarnessTypeOK
    <3>5. Guarded(b, u, m)'
      BY <1>2, <3>1, <3>2, <3>3, <3>4, GuardStays
    <3>6. QED
      BY <2>1, <3>5
  <2>3. QED
    BY <2>1, <2>2
<1>14. QED
  BY <1>4, <1>8, <1>9, <1>10, <1>11, <1>12, <1>13 DEF Inv

\* node->next = n;
LEMMA PushLinkKeeps ==
  ASSUME Inv, NEW t \in Workers, PushLink(t), UNCHANGED <<clockVars, listVars>>
  PROVE  Inv'
<1> USE Threads, StackTestAssumption DEF linkVars, regVars, clockVars, listVars
<1>1. /\ Types /\ TypeOK /\ HarnessTypeOK(Points) /\ StackTypeOK
      /\ PlaceInv /\ GuardInv /\ HandInv
  BY DEF Inv, Types, TypeOK
<1>2. /\ pc[t] = "pushlink" /\ pc' = [pc EXCEPT ![t] = "pushcas"] /\ Running
      /\ next' = [next EXCEPT ![node[t]] = cur[t]]
      /\ UNCHANGED <<node, countVars, head, free, contents, regVars>>
  BY DEF PushLink, StackStep, Goto
<1> DEFINE n == node[t]
<1>3. n \in Nodes
  BY <1>1, <1>2 DEF HandInv, HarnessTypeOK, PushPoints
<1>4. /\ pc[Main] = "join" /\ MainInv'
  BY <1>2, MainWaits, MainStillWaits
<1>5. n \notin ToSet(contents) /\ \A a \in Actors \ {t} : node[a] # n
  BY <1>1, <1>3 DEF PlaceInv, Placed
<1>6. \A b \in Workers : pc[b] \in TryPoints => cur[b] # n
  BY <1>1, <1>2 DEF GuardInv, Guarded, HandPoints
<1>7. Types'
  <2>1. HarnessTypeOK(Points)'
    BY <1>1, <1>2, PointsAre DEF HarnessTypeOK, countVars
  <2>2. StackTypeOK'
    BY <1>1, <1>2, <1>3 DEF StackTypeOK, LinkTypeOK
  <2>3. QED
    BY <1>1, <2>1, <2>2, ListTypesStay
<1>8. HandInv'
  BY <1>1, <1>2 DEF HandInv, HarnessTypeOK, PushPoints, HandPoints
<1>9. ListInv' /\ RegInv' /\ OrderInv'
  BY <1>2, CalmKeeps DEF QuietPoints, OpPoints
<1>10. PlaceInv'
  BY <1>1, <1>2 DEF PlaceInv, Placed
<1>11. ChainInv'
  <2>1. /\ node'[t] = n /\ next' = [next EXCEPT ![n] = cur[t]]
        /\ Private(t, n)
    BY <1>2, <1>5, <1>6 DEF Private
  <2> HIDE DEF n
  <2>2. QED
    BY <1>2, <1>3, <1>4, <2>1, NextKeeps
<1>12. GuardInv'
  BY <1>1, <1>2 DEF GuardInv, Guarded, Seen, HarnessTypeOK, TryPoints, HandPoints
<1>13. QED
  BY <1>4, <1>7, <1>8, <1>9, <1>10, <1>11, <1>12 DEF Inv

\* The swap of trypush()
LEMMA PushSwapKeeps ==
  ASSUME Inv, NEW t \in Workers, PushSwap(t), UNCHANGED <<clockVars, listVars>>
  PROVE  Inv'
<1> USE Threads, StackTestAssumption DEF linkVars, regVars, clockVars, listVars
<1>1. /\ Types /\ TypeOK /\ HarnessTypeOK(Points) /\ StackTypeOK
      /\ PlaceInv /\ GuardInv /\ HandInv /\ ChainInv
  BY DEF Inv, Types, TypeOK
<1> DEFINE n == node[t]
<1>2. /\ pc[t] = "pushcas" /\ pc' = [pc EXCEPT ![t] = "pushed"] /\ Running
      /\ head = cur[t] /\ head' = n /\ contents' = <<n>> \o contents
      /\ node' = [node EXCEPT ![t] = NULL] /\ cur' = [cur EXCEPT ![t] = NULL]
      /\ UNCHANGED <<countVars, next, free, nxt, limit, lim>>
  BY DEF PushSwap, PushReturns, Goto
<1>3. n \in Nodes
  BY <1>1, <1>2 DEF HandInv, HarnessTypeOK, PushPoints
<1>4. /\ pc[Main] = "join" /\ MainInv'
  BY <1>2, MainWaits, MainStillWaits
<1>5. /\ n \notin ToSet(contents) /\ n \notin free
      /\ \A a \in Actors \ {t} : node[a] # n
      /\ \A u \in Workers : n \notin ToSet(dirty[u]) /\ n \notin ToSet(clean[u])
  BY <1>1, <1>3 DEF PlaceInv, Placed
<1>6. contents \in Seq(Nodes) /\ Inj(contents) /\ Linked(head, next, contents)
      /\ next[n] = head
  BY <1>1, <1>2 DEF StackTypeOK, LinkTypeOK, PlaceInv, ChainInv
<1>7. /\ contents' \in Seq(Nodes) /\ Inj(contents)'
      /\ ToSet(contents)' = ToSet(contents) \cup {n}
      /\ Linked(head, next, contents)'
  <2> HIDE DEF n
  <2>1. LET q == <<n>> \o contents
        IN  /\ q \in Seq(Nodes) /\ Inj(q) /\ ToSet(q) = ToSet(contents) \cup {n}
            /\ Linked(n, next, q)
    BY <1>3, <1>5, <1>6, ConsSet, LinkedPush
  <2>2. QED
    BY <1>2, <2>1
<1>8. Types'
  <2>1. HarnessTypeOK(Points)'
    BY <1>1, <1>2, PointsAre DEF HarnessTypeOK, countVars
  <2>2. StackTypeOK'
    BY <1>1, <1>2, <1>3, <1>7 DEF StackTypeOK, LinkTypeOK
  <2>3. QED
    BY <1>1, <2>1, <2>2, ListTypesStay
<1>9. HandInv'
  BY <1>1, <1>2 DEF HandInv, HarnessTypeOK, PushPoints, HandPoints
<1>10. ListInv' /\ RegInv' /\ OrderInv'
  <2>1. \A u \in Workers \ {t} : node'[u] = node[u]
    BY <1>1, <1>2 DEF HarnessTypeOK
  <2>2. QED
    BY <1>2, <2>1, CalmKeeps DEF QuietPoints, OpPoints
<1>11. \A a \in Actors : node'[a] = IF a = t THEN NULL ELSE node[a]
  BY <1>1, <1>2 DEF HarnessTypeOK
<1>12. PlaceInv'
  <2>1. ASSUME NEW x \in Nodes
        PROVE  \E k \in Kinds, w \in Actors : Placed(x, k, w)'
    <3>1. PICK k \in Kinds, w \in Actors : Placed(x, k, w)
      BY <1>1 DEF PlaceInv
    <3>2. CASE x = n
      <4>1. Placed(x, "stack", t)'
        BY <1>2, <1>5, <1>7, <1>11, <3>2 DEF Placed
      <4>2. QED
        BY <4>1 DEF Kinds
    <3>3. CASE x # n
      <4>1. Placed(x, k, w)'
        BY <1>2, <1>7, <1>11, <3>1, <3>3 DEF Placed
      <4>2. QED
        BY <4>1
    <3>4. QED
      BY <3>2, <3>3
  <2>2. QED
    BY <1>1, <1>7, <2>1 DEF PlaceInv
<1>13. ChainInv'
  <2>1. \A a \in Actors : pc'[a] \in {"pushcas", "popcas"} =>
          pc'[a] = pc[a] /\ cur'[a] = cur[a] /\ node'[a] = node[a]
    BY <1>1, <1>2, <1>11 DEF HarnessTypeOK, StackTypeOK
  <2>2. QED
    BY <1>1, <1>2, <1>7, <2>1 DEF ChainInv
<1>14. GuardInv'
  <2>1. \A b \in Workers : pc'[b] \in TryPoints => pc'[b] = pc[b] /\ cur'[b] = cur[b]
    BY <1>1, <1>2 DEF HarnessTypeOK, StackTypeOK, TryPoints
  <2>2. \A u \in Workers : pc'[u] \in {"scan", "take", "scanned", "stamp"} => pc'[u] = pc[u]
    BY <1>1, <1>2 DEF HarnessTypeOK
  <2>3. QED
    BY <1>1, <1>2, <1>11, <2>1, <2>2 DEF GuardInv, Guarded, Seen, HandPoints
<1>15. QED
  BY <1>4, <1>8, <1>9, <1>10, <1>12, <1>13, <1>14 DEF Inv

\* The swap of trypop(), a worker's or main's: from now on the node is a's, and
\* the other threads that have it in trypop() had their clocks before.
LEMMA PopSwapKeeps ==
  ASSUME Inv, NEW a \in Actors, PopSwap(a), UNCHANGED <<clockVars, listVars>>
  PROVE  /\ Types' /\ HandInv' /\ ListInv' /\ RegInv' /\ PlaceInv' /\ ChainInv'
         /\ GuardInv' /\ OrderInv'
<1> USE Threads, StackTestAssumption DEF linkVars, regVars, clockVars, listVars
<1>1. /\ Types /\ TypeOK /\ HarnessTypeOK(Points) /\ StackTypeOK
      /\ PlaceInv /\ GuardInv /\ HandInv /\ ChainInv
  BY DEF Inv, Types, TypeOK
<1> DEFINE n == head
<1>2. /\ pc[a] = "popcas" /\ pc' = [pc EXCEPT ![a] = "popped"] /\ Running
      /\ head = cur[a] /\ head' = nxt[a]
      /\ contents' = SubSeq(contents, 2, Len(contents))
      /\ node' = [node EXCEPT ![a] = n] /\ cur' = [cur EXCEPT ![a] = NULL]
      /\ nxt' = [nxt EXCEPT ![a] = NULL]
      /\ UNCHANGED <<countVars, next, free, limit, lim>>
  BY DEF PopSwap, PopReturns, Goto
<1>3. head # NULL /\ nxt[a] = next[head]
  <2>1. CASE a = Main
    BY <1>1, <1>2, <2>1 DEF Inv, MainInv, TryPoints, ChainInv
  <2>2. CASE a # Main
    BY <1>1, <1>2, <2>2 DEF GuardInv, TryPoints, ChainInv
  <2>3. QED
    BY <2>1, <2>2
<1>4. /\ contents # << >> /\ n \in Nodes /\ n = contents[1] /\ n \in ToSet(contents)
  BY <1>1, <1>3, HeadIs
<1>5. /\ n \notin free /\ \A b \in Actors : node[b] # n
      /\ \A u \in Workers : n \notin ToSet(dirty[u]) /\ n \notin ToSet(clean[u])
  BY <1>1, <1>4, OnStack
<1>6. /\ contents' \in Seq(Nodes) /\ Inj(contents)'
      /\ ToSet(contents)' = ToSet(contents) \ {n}
      /\ Linked(head, next, contents)'
  <2>1. contents \in Seq(Nodes) /\ Inj(contents) /\ Linked(head, next, contents)
    BY <1>1 DEF StackTypeOK, LinkTypeOK, PlaceInv, ChainInv
  <2>2. LET q == Tail(contents)
        IN  /\ q \in Seq(Nodes) /\ Inj(q) /\ ToSet(q) = ToSet(contents) \ {contents[1]}
            /\ SubSeq(contents, 2, Len(contents)) = q
            /\ Linked(next[head], next, q)
    BY <1>4, <2>1, TailSet, LinkedPop
  <2>3. QED
    BY <1>2, <1>3, <1>4, <2>2
<1>7. Types'
  <2>1. HarnessTypeOK(Points)'
    BY <1>1, <1>2, <1>4, PointsAre DEF HarnessTypeOK, countVars
  <2>2. StackTypeOK'
    BY <1>1, <1>2, <1>6 DEF StackTypeOK, LinkTypeOK
  <2>3. QED
    BY <1>1, <2>1, <2>2, ListTypesStay
<1>8. HandInv'
  BY <1>1, <1>2 DEF HandInv, HarnessTypeOK, PushPoints, HandPoints
<1>9. \A b \in Actors : node'[b] = IF b = a THEN n ELSE node[b]
  BY <1>1, <1>2 DEF HarnessTypeOK
<1>10. ListInv' /\ RegInv' /\ OrderInv'
  <2>1. pc[a] \in QuietPoints /\ "popped" \in QuietPoints
    BY <1>2 DEF QuietPoints, OpPoints
  <2>2. \A u \in Workers \ {a} : clean'[u] = clean[u] /\ node'[u] = node[u]
    BY <1>9
  <2>3. UNCHANGED <<clockVars, clocks, at, dirty>>
    OBVIOUS
  <2>4. QED
    BY <1>2, <2>1, <2>2, <2>3, CalmKeeps
<1>11. node[a] = NULL
  BY <1>1, <1>2 DEF HandInv, PushPoints, HandPoints
<1>12. PlaceInv'
  <2>1. ASSUME NEW x \in Nodes
        PROVE  \E k \in Kinds, w \in Actors : Placed(x, k, w)'
    <3>1. PICK k \in Kinds, w \in Actors : Placed(x, k, w)
      BY <1>1 DEF PlaceInv
    <3>2. CASE x = n
      <4>1. Placed(x, "hand", a)'
        BY <1>2, <1>5, <1>6, <1>9, <3>2 DEF Placed
      <4>2. QED
        BY <4>1 DEF Kinds
    <3>3. CASE x # n
      <4>1. Placed(x, k, w)'
        BY <1>2, <1>6, <1>9, <1>11, <3>1, <3>3 DEF Placed
      <4>2. QED
        BY <4>1
    <3>4. QED
      BY <3>2, <3>3
  <2>2. QED
    BY <1>1, <1>6, <2>1 DEF PlaceInv
<1>13. ChainInv'
  <2>1. \A b \in Actors : pc'[b] \in {"pushcas", "popcas"} =>
          /\ pc'[b] = pc[b] /\ cur'[b] = cur[b] /\ nxt'[b] = nxt[b]
          /\ node'[b] = node[b]
    BY <1>1, <1>2, <1>9 DEF HarnessTypeOK, StackTypeOK
  <2>2. QED
    BY <1>1, <1>2, <1>6, <2>1 DEF ChainInv
<1>14. GuardInv'
  <2> SUFFICES ASSUME NEW b \in Workers, pc'[b] \in TryPoints
               PROVE  /\ cur'[b] \in Nodes /\ cur'[b] \notin free'
                      /\ \A u \in Workers : Guarded(b, u, cur[b])'
    BY DEF GuardInv
  <2>1. b # a /\ pc'[b] = pc[b] /\ cur'[b] = cur[b]
    BY <1>1, <1>2 DEF HarnessTypeOK, StackTypeOK, TryPoints
  <2>2. cur[b] \in Nodes /\ cur[b] \notin free
        /\ \A u \in Workers : Guarded(b, u, cur[b])
    BY <1>1, <2>1 DEF GuardInv
  <2>3. ASSUME NEW u \in Workers
        PROVE  Guarded(b, u, cur[b])'
    <3>1. CASE u = a
      <4>1. pc'[u] = "popped"
        BY <1>1, <1>2, <3>1 DEF HarnessTypeOK
      <4>2. QED
        BY <2>1, <2>2, <4>1 DEF Guarded, Seen, HandPoints
    <3>2. CASE u # a
      <4>1. pc'[u] = pc[u] /\ node'[u] = node[u]
        BY <1>1, <1>2, <1>9, <3>2 DEF HarnessTypeOK
      <4>2. QED
        BY <2>1, <2>2, <4>1 DEF Guarded, Seen
    <3>3. QED
      BY <3>1, <3>2
  <2>4. QED
    BY <1>2, <2>1, <2>2, <2>3
<1>15. QED
  BY <1>7, <1>8, <1>10, <1>12, <1>13, <1>14

-----------------------------------------------------------------------------
(* Steps of the clocks *)

\* What was earlier stays earlier when the clocks are renumbered, and t's new
\* clock is later than all.
LEMMA OrderStays ==
  ASSUME Types, NEW t \in Workers, NEW s \in [Nodes -> Nat], NEW r, NEW m,
         Renumbers(t, s, r, m)
  PROVE  /\ clock' \in [Workers -> Nat] /\ drawn' \in [Workers -> Nat]
         /\ seen' \in [Workers -> Nat] /\ stamp' \in [Nodes -> Nat]
         /\ \A u, v \in Workers :
              /\ clock[u] < clock[v] => clock'[u] < clock'[v]
              /\ v # t /\ clock[u] < drawn[v] => clock'[u] < drawn'[v]
              /\ v # t /\ seen[v] <= clock[u] => seen'[v] <= clock'[u]
              /\ v # t /\ clock[u] < seen[v] => clock'[u] < seen'[v]
         /\ \A u \in Workers, n \in Nodes :
              /\ clock[u] < s[n] => clock'[u] < stamp'[n]
              /\ s[n] < clock[u] => stamp'[n] < clock'[u]
              /\ u # t /\ s[n] < drawn[u] => stamp'[n] < drawn'[u]
         /\ \A n, k \in Nodes : s[n] < s[k] => stamp'[n] < stamp'[k]
         /\ \A u \in Workers : clock'[u] < drawn'[t]
         /\ \A n \in Nodes : stamp'[n] < drawn'[t]
<1>1. /\ clock \in [Workers -> Nat] /\ drawn \in [Workers -> Nat]
      /\ seen \in [Workers -> Nat]
  BY DEF Types, TypeOK
<1>2. /\ \A u \in Workers : clock[u] \in InUse(t, s) /\ drawn[u] \in InUse(t, s)
      /\ \A u \in Workers \ {t} : seen[u] \in InUse(t, s)
      /\ \A n \in Nodes : s[n] \in InUse(t, s)
  BY DEF InUse
<1> DEFINE U == InUse(t, s)
<1>3. U \subseteq Nat
  BY <1>1, InUseFinite
<1>4. /\ m \in Nat /\ r \in [Nat -> Nat] /\ \A c \in U : r[c] < m
      /\ \A c, d \in U : c < d => r[c] < r[d]
      /\ \A u \in Workers : clock'[u] = r[clock[u]]
      /\ drawn'[t] = m /\ \A u \in Workers \ {t} : drawn'[u] = r[drawn[u]]
      /\ \A u \in Workers \ {t} : seen'[u] = r[seen[u]]
      /\ \A n \in Nodes : stamp'[n] = r[s[n]]
  BY DEF Renumbers
<1>5. /\ clock' \in [Workers -> Nat] /\ drawn' \in [Workers -> Nat]
      /\ seen' \in [Workers -> Nat] /\ stamp' \in [Nodes -> Nat]
  BY <1>1 DEF Renumbers
<1> HIDE DEF U
<1>6. \A c, d \in U : c <= d => r[c] <= r[d]
  <2> SUFFICES ASSUME NEW c \in U, NEW d \in U, c <= d PROVE r[c] <= r[d]
    OBVIOUS
  <2>1. c \in Nat /\ d \in Nat /\ r[c] \in Nat /\ r[d] \in Nat
    BY <1>3, <1>4
  <2>2. c = d \/ c < d
    BY <2>1
  <2>3. CASE c = d
    BY <2>1, <2>3
  <2>4. CASE c < d
    BY <1>4, <2>1, <2>4
  <2>5. QED
    BY <2>2, <2>3, <2>4
<1>7. /\ \A c \in U : r[c] < m
      /\ \A c, d \in U : c <= d => r[c] <= r[d]
  BY <1>4, <1>6
<1>8. \A u, v \in Workers :
        /\ clock[u] < clock[v] => clock'[u] < clock'[v]
        /\ v # t /\ clock[u] < drawn[v] => clock'[u] < drawn'[v]
        /\ v # t /\ seen[v] <= clock[u] => seen'[v] <= clock'[u]
        /\ v # t /\ clock[u] < seen[v] => clock'[u] < seen'[v]
  BY <1>2, <1>4, <1>7 DEF U
<1>9. \A u \in Workers, n \in Nodes :
        /\ clock[u] < s[n] => clock'[u] < stamp'[n]
        /\ s[n] < clock[u] => stamp'[n] < clock'[u]
        /\ u # t /\ s[n] < drawn[u] => stamp'[n] < drawn'[u]
  BY <1>2, <1>4 DEF U
<1>10. \A n, k \in Nodes : s[n] < s[k] => stamp'[n] < stamp'[k]
  BY <1>2, <1>4 DEF U
<1>11. /\ \A u \in Workers : clock'[u] < drawn'[t]
       /\ \A n \in Nodes : stamp'[n] < drawn'[t]
  BY <1>2, <1>4 DEF U
<1>12. QED
  BY <1>5, <1>8, <1>9, <1>10, <1>11

\* A clock is drawn, and nothing else happens to the node n.
LEMMA GuardRenumbered ==
  ASSUME Types, NEW t \in Workers, NEW s \in [Nodes -> Nat], NEW r, NEW m,
         Renumbers(t, s, r, m), clocks' = clocks, at' = at,
         NEW b \in Workers, NEW u \in Workers \ {t}, NEW n \in Nodes,
         Guarded(b, u, n), s[n] = stamp[n],
         pc'[u] = pc[u], node'[u] = node[u], dirty'[u] = dirty[u], clean'[u] = clean[u]
  PROVE  Guarded(b, u, n)'
<1>1. Seen(u, b) => Seen(u, b)'
  BY OrderStays DEF Seen
<1>2. QED
  BY <1>1, OrderStays DEF Guarded

\* A thread draws a clock to register, or to stamp the node it has popped.
LEMMA DrawKeeps ==
  ASSUME Inv, NEW t \in Workers, RegisterDraw(t) \/ BeginClean(t)
  PROVE  Inv'
<1> USE Threads, StackTestAssumption DEF linkVars, regVars, stackVars, listVars
<1>1. /\ Types /\ TypeOK /\ HarnessTypeOK(Points) /\ StackTypeOK
      /\ PlaceInv /\ GuardInv /\ HandInv /\ ChainInv /\ OrderInv
  BY DEF Inv, Types, TypeOK
<1>2. /\ \/ pc[t] = "start" /\ pc' = [pc EXCEPT ![t] = "register"]
         \/ pc[t] = "popped" /\ pc' = [pc EXCEPT ![t] = "stamp"] /\ node[t] # NULL
      /\ Running /\ GetClock(t, stamp)
      /\ UNCHANGED <<node, stackVars, listVars>>
  BY DEF RegisterDraw, BeginClean, StackStep, Goto
<1>3. stamp \in [Nodes -> Nat]
  BY <1>1 DEF TypeOK
<1>4. PICK r, m : Renumbers(t, stamp, r, m)
  BY <1>1, <1>2, <1>3, ClockDrawn DEF TypeOK
<1>5. pc[Main] = "join" /\ MainInv'
  BY <1>2, MainWaits, MainStillWaits
<1>6. Types'
  <2>1. HarnessTypeOK(Points)'
    BY <1>1, <1>2, PointsAre
    DEF HarnessTypeOK, RegisterDraw, BeginClean, StackStep, countVars
  <2>2. StackTypeOK'
    BY <1>1, <1>2 DEF StackTypeOK, LinkTypeOK
  <2>3. /\ clock' \in [Workers -> Nat] /\ drawn' \in [Workers -> Nat]
        /\ seen' \in [Workers -> Nat] /\ stamp' \in [Nodes -> Nat]
    BY <1>1, <1>3, <1>4, OrderStays
  <2>4. QED
    BY <1>1, <1>2, <2>1, <2>2, <2>3 DEF Types, TypeOK
<1>7. pc \in [Actors -> Points] /\ Workers \subseteq Actors
  BY <1>1 DEF HarnessTypeOK
<1>8. HandInv'
  BY <1>1, <1>2, <1>7 DEF HandInv, PushPoints, HandPoints
<1>9. ListInv' /\ RegInv'
  BY <1>2, <1>7 DEF Inv, ListInv, RegInv, OutPoints
<1>10. PlaceInv' /\ ChainInv'
  BY <1>1, <1>2, <1>7 DEF PlaceInv, Placed, ChainInv
<1>11. OrderInv'
  <2> SUFFICES ASSUME NEW u \in Workers
               PROVE  /\ \A i, j \in 1..Len(dirty[u]) :
                           i < j => stamp'[dirty[u][i]] < stamp'[dirty[u][j]]
                      /\ pc'[u] = "stamp" =>
                           \A n \in ToSet(dirty[u]) : stamp'[n] < drawn'[u]
                      /\ pc'[u] \in {"scan", "take", "scanned"} /\ node[u] # NULL =>
                           \A n \in ToSet(dirty[u]) : stamp'[n] < clock'[u]
    BY <1>2 DEF OrderInv
  <2>1. /\ \A i \in 1..Len(dirty[u]) : dirty[u][i] \in Nodes
        /\ ToSet(dirty[u]) \subseteq Nodes
    BY <1>1, InSet DEF Types
  <2>2. \A i, j \in 1..Len(dirty[u]) :
          i < j => stamp'[dirty[u][i]] < stamp'[dirty[u][j]]
    BY <1>1, <1>3, <1>4, <2>1, OrderStays DEF OrderInv
  <2>3. CASE u = t
    BY <1>1, <1>2, <1>3, <1>4, <1>7, <2>1, <2>2, <2>3, OrderStays
  <2>4. CASE u # t
    BY <1>1, <1>2, <1>3, <1>4, <1>7, <2>1, <2>2, <2>4, OrderStays DEF OrderInv
  <2>5. QED
    BY <2>3, <2>4
<1>12. GuardInv'
  <2> SUFFICES ASSUME NEW b \in Workers, pc'[b] \in TryPoints
               PROVE  /\ cur'[b] \in Nodes /\ cur'[b] \notin free'
                      /\ \A u \in Workers : Guarded(b, u, cur[b])'
    BY DEF GuardInv
  <2>1. pc[b] \in TryPoints /\ cur'[b] = cur[b]
    BY <1>2, <1>7 DEF TryPoints
  <2>2. PICK n \in Nodes : n = cur[b] /\ n \notin free
                          /\ \A u \in Workers : Guarded(b, u, n)
    BY <1>1, <2>1 DEF GuardInv
  <2>3. ASSUME NEW u \in Workers
        PROVE  Guarded(b, u, n)'
    <3>1. CASE u = t
      <4>1. pc'[u] \in {"register", "stamp"} /\ (pc'[u] = "register" => node[u] = NULL)
        BY <1>1, <1>2, <1>7, <3>1 DEF HandInv, PushPoints, HandPoints
      <4>2. clock'[b] < drawn'[t] /\ (clock[b] < stamp[n] => clock'[b] < stamp'[n])
        BY <1>1, <1>3, <1>4, OrderStays
      <4>3. QED
        BY <1>2, <2>2, <3>1, <4>1, <4>2 DEF Guarded, Seen, HandPoints
    <3>2. CASE u # t
      BY <1>1, <1>2, <1>3, <1>4, <1>7, <2>2, <3>2, GuardRenumbered
    <3>3. QED
      BY <3>1, <3>2
  <2>4. QED
    BY <1>2, <2>1, <2>2, <2>3
<1>13. QED
  BY <1>5, <1>6, <1>8, <1>9, <1>10, <1>11, <1>12 DEF Inv

\* A thread that is in trypop() is among the clocks.
LEMMA Registered ==
  ASSUME Inv, NEW b \in Workers, pc[b] \in TryPoints
  PROVE  \E i \in 1..Len(clocks) : clocks[i] = b
<1>1. b \in ToSet(clocks)
  BY DEF Inv, RegInv, TryPoints, OutPoints
<1>2. QED
  BY <1>1, InSet DEF Inv, Types, TypeOK

\* The clock that was drawn is stored: in reg(), with the thread's clock among
\* the others, or in clean() or dereg().
LEMMA StoreKeeps ==
  ASSUME Inv, NEW t \in Workers,
         \/ Register(t)
         \/ /\ \/ StoreClock(t, "stamp", "scan")
               \/ StoreClock(t, "restamp", "test")
               \/ StoreClock(t, "deregstamp", DeregTest(t))
            /\ UNCHANGED clocks
  PROVE  Inv'
<1> USE Threads, StackTestAssumption DEF linkVars, regVars, stackVars
<1>1. /\ Types /\ TypeOK /\ HarnessTypeOK(Points) /\ StackTypeOK
      /\ PlaceInv /\ GuardInv /\ HandInv /\ ChainInv /\ OrderInv /\ RegInv
  BY DEF Inv, Types, TypeOK
<1>2. PICK from, to :
        /\ pc[t] = from /\ pc' = [pc EXCEPT ![t] = to] /\ Running
        /\ \/ /\ from = "register" /\ to = "loop"
              /\ Unlocked /\ clocks' = Append(clocks, t)
           \/ from = "stamp" /\ to = "scan" /\ clocks' = clocks
           \/ from = "restamp" /\ to = "test" /\ clocks' = clocks
           \/ /\ from = "deregstamp" /\ clocks' = clocks
              /\ to = IF dirty[t] = << >> THEN "unregister" ELSE "scan"
        /\ clock' = [clock EXCEPT ![t] = drawn[t]]
        /\ drawn' = [drawn EXCEPT ![t] = 0]
        /\ UNCHANGED <<node, countVars, seen, stamp, stackVars, at, dirty, clean>>
  BY DEF Register, StoreClock, StackStep, Goto, DeregTest
<1>3. /\ from \in {"register", "stamp", "restamp", "deregstamp"}
      /\ to \in {"loop", "scan", "test", "unregister"}
  BY <1>2
<1>4. pc[Main] = "join" /\ MainInv'
  BY <1>2, <1>3, MainWaits, MainStillWaits
<1>5. /\ pc \in [Actors -> Points] /\ Workers \subseteq Actors
      /\ clock \in [Workers -> Nat] /\ drawn \in [Workers -> Nat]
      /\ clocks \in Seq(Workers)
  BY <1>1 DEF HarnessTypeOK, TypeOK
<1>6. /\ clocks' \in Seq(Workers) /\ Inj(clocks)'
      /\ ToSet(clocks)' = IF from = "register" THEN ToSet(clocks) \cup {t}
                                               ELSE ToSet(clocks)
  <2>1. CASE from = "register"
    <3>1. t \notin ToSet(clocks) /\ Inj(clocks)
      BY <1>1, <1>2, <2>1 DEF RegInv, OutPoints
    <3>2. clocks' = Append(clocks, t)
      BY <1>2, <2>1
    <3>3. clocks \in Seq(Workers) /\ t \in Workers
      BY <1>5
    <3>4. Append(clocks, t) \in Seq(Workers)
      BY <3>3
    <3>5. ToSet(Append(clocks, t)) = ToSet(clocks) \cup {t}
      BY <3>3, AppendSet
    <3>6. Inj(Append(clocks, t))
      BY <3>1, <3>3, AppendSet
    <3>7. QED
      BY <2>1, <3>2, <3>4, <3>5, <3>6
  <2>2. CASE from # "register"
    BY <1>1, <1>2, <1>5, <2>2 DEF RegInv
  <2>3. QED
    BY <2>1, <2>2
<1>7. Types'
  <2>1. HarnessTypeOK(Points)'
    BY <1>1, <1>2, <1>3, PointsAre DEF HarnessTypeOK, countVars
  <2>2. StackTypeOK'
    BY <1>1, <1>2 DEF StackTypeOK, LinkTypeOK
  <2>3. QED
    BY <1>1, <1>2, <1>5, <1>6, <2>1, <2>2 DEF Types, TypeOK
<1>8. HandInv'
  BY <1>1, <1>2, <1>3, <1>5 DEF HandInv, PushPoints, HandPoints
<1>9. ListInv'
  BY <1>2, <1>3, <1>5 DEF Inv, ListInv, OutPoints
<1>10. RegInv'
  <2>1. \A u \in Workers : u \in ToSet(clocks)' <=> pc'[u] \notin OutPoints
    BY <1>1, <1>2, <1>5, <1>6 DEF RegInv, OutPoints
  <2>2. ASSUME NEW u \in Workers, pc'[u] \in {"scan", "take"}
        PROVE  at[u] \in 1..Len(clocks')
    <3>1. CASE u = t
      <4>1. at[u] = 1 /\ u \in ToSet(clocks)'
        BY <1>1, <1>2, <2>1, <2>2, <3>1 DEF RegInv, OutPoints
      <4>2. QED
        BY <1>6, <4>1, InSet
    <3>2. CASE u # t
      <4>1. pc[u] \in {"scan", "take"}
        BY <1>2, <1>5, <2>2, <3>2
      <4>2. clocks' = clocks
BY <1>2, <4>1 DEF Unlocked, ScanPoints
      <4>3. QED
        BY <1>1, <4>1, <4>2 DEF RegInv
    <3>3. QED
      BY <3>1, <3>2
  <2>3. ASSUME NEW u \in Workers, pc'[u] \notin {"scan", "take"}
        PROVE  at[u] = 1
    BY <1>1, <1>2, <1>3, <1>5, <2>3 DEF RegInv
  <2>4. QED
    BY <1>2, <1>6, <2>1, <2>2, <2>3 DEF RegInv
<1>11. PlaceInv' /\ ChainInv'
  BY <1>1, <1>2, <1>3, <1>5 DEF PlaceInv, Placed, ChainInv
<1>12. OrderInv'
  <2>1. node[t] # NULL => from = "stamp"
    BY <1>1, <1>2, <1>3 DEF HandInv, PushPoints, HandPoints
  <2>2. QED
    BY <1>1, <1>2, <1>3, <1>5, <2>1 DEF OrderInv
<1>13. GuardInv'
  <2> SUFFICES ASSUME NEW b \in Workers, pc'[b] \in TryPoints
               PROVE  /\ cur'[b] \in Nodes /\ cur'[b] \notin free'
                      /\ \A u \in Workers : Guarded(b, u, cur[b])'
    BY DEF GuardInv
  <2>1. b # t /\ pc[b] \in TryPoints /\ cur'[b] = cur[b] /\ clock'[b] = clock[b]
    BY <1>2, <1>3, <1>5 DEF TryPoints
  <2>2. PICK n \in Nodes : n = cur[b] /\ n \notin free
                          /\ \A u \in Workers : Guarded(b, u, n)
    BY <1>1, <2>1 DEF GuardInv
  <2>3. ASSUME NEW u \in Workers
        PROVE  Guarded(b, u, n)'
    <3>1. CASE u = t
      <4>1. PICK i \in 1..Len(clocks) : clocks[i] = b
        BY <2>1, Registered
      <4>2. Seen(t, b)'
        <5>1. CASE to = "scan"
          <6>1. clocks' = clocks /\ at'[t] = 1
            BY <1>1, <1>2, <1>3, <5>1 DEF RegInv
          <6>2. QED
            BY <1>2, <1>5, <4>1, <5>1, <6>1 DEF Seen
        <5>2. CASE to # "scan"
          BY <1>2, <1>3, <1>5, <5>2 DEF Seen
        <5>3. QED
          BY <5>1, <5>2
      <4>3. node[t] = n => from = "stamp" /\ clock[b] < drawn[t]
        BY <1>1, <1>2, <1>3, <2>2 DEF HandInv, Guarded, PushPoints, HandPoints
      <4>4. pc'[t] = to /\ clock'[t] = drawn[t]
        BY <1>2, <1>5
      <4>5. QED
        BY <1>2, <1>3, <2>1, <2>2, <3>1, <4>2, <4>3, <4>4 DEF Guarded, HandPoints
    <3>2. CASE u # t
      <4>1. pc'[u] = pc[u] /\ clock'[u] = clock[u] /\ drawn'[u] = drawn[u]
        BY <1>2, <1>5, <3>2
      <4>2. Seen(u, b) => Seen(u, b)'
        <5>1. pc[u] \in {"scan", "take"} => clocks' = clocks
          BY <1>2 DEF Unlocked, ScanPoints
        <5>2. QED
          BY <1>2, <2>1, <4>1, <5>1 DEF Seen
      <4>3. QED
        BY <1>2, <2>1, <2>2, <4>1, <4>2 DEF Guarded
    <3>3. QED
      BY <3>1, <3>2
  <2>4. QED
    BY <1>2, <2>1, <2>2, <2>3
<1>14. QED
  BY <1>4, <1>7, <1>8, <1>9, <1>10, <1>11, <1>12, <1>13 DEF Inv

\* getminclock() compares with one more clock, or takes it, loading it again.
\* With two threads, what it takes is the other's clock or its own; a third
\* thread's could have become later than those that the scan is past.
LEMMA ScanKeeps ==
  ASSUME N <= 2, Inv, NEW t \in Workers, ScanCompare(t) \/ ScanTake(t)
  PROVE  Inv'
<1> USE Threads, StackTestAssumption DEF linkVars, regVars, stackVars
<1>1. /\ Types /\ TypeOK /\ HarnessTypeOK(Points) /\ StackTypeOK
      /\ PlaceInv /\ GuardInv /\ HandInv /\ ChainInv /\ OrderInv /\ RegInv
  BY DEF Inv, Types, TypeOK
<1> DEFINE last == at[t] = Len(clocks)
           c == clock[clocks[at[t]]]
           Goes(from, to, k, m) ==
             /\ pc[t] = from /\ pc' = [pc EXCEPT ![t] = to]
             /\ at' = [at EXCEPT ![t] = k]
             /\ seen' = [seen EXCEPT ![t] = m]
             /\ \/ /\ from = "scan" /\ to = "take" /\ k = at[t] /\ m = seen[t]
                   /\ at[t] = 1 \/ c < seen[t]
                \/ /\ to = IF last THEN "scanned" ELSE "scan"
                   /\ k = IF last THEN 1 ELSE at[t] + 1
                   /\ \/ from = "scan" /\ m = seen[t] /\ ~(c < seen[t])
                      \/ from = "take" /\ m = c
             /\ Running
             /\ UNCHANGED <<node, countVars, stackVars, clock, drawn, stamp, clocks,
                            dirty, clean>>
<1>2. PICK from, to, k, m : Goes(from, to, k, m)
  <2>1. at = [at EXCEPT ![t] = at[t]] /\ seen = [seen EXCEPT ![t] = seen[t]]
    BY <1>1 DEF TypeOK
  <2>2. CASE ScanTake(t)
    <3>1. Goes("take", IF last THEN "scanned" ELSE "scan", IF last THEN 1 ELSE at[t] + 1, c)
      BY <2>2 DEF ScanTake, ScanPast, Scanned, StackStep, Goto
    <3>2. QED
      BY <3>1
  <2>3. CASE StackStep(t, "scan", "take") /\ Smaller(t) /\ ScanCompare(t) /\ at' = at
    <3>1. Goes("scan", "take", at[t], seen[t])
      BY <2>1, <2>3 DEF ScanCompare, Smaller, Scanned, StackStep, Goto, clockVars
    <3>2. QED
      BY <3>1
  <2>4. CASE ScanPast(t, "scan") /\ ~Smaller(t) /\ ScanCompare(t)
    <3>1. Goes("scan", IF last THEN "scanned" ELSE "scan",
               IF last THEN 1 ELSE at[t] + 1, seen[t])
      BY <2>1, <2>4 DEF ScanCompare, ScanPast, Smaller, Scanned, StackStep, Goto,
                        clockVars
    <3>2. QED
      BY <3>1
  <2>5. QED
    BY <2>2, <2>3, <2>4 DEF ScanCompare
<1>3. /\ from \in {"scan", "take"} /\ to \in {"scan", "take", "scanned"}
      /\ pc[Main] = "join" /\ MainInv'
  <2>1. from \in {"scan", "take"} /\ to \in {"scan", "take", "scanned"}
    BY <1>2
  <2>2. QED
    BY <1>2, <2>1, MainWaits, MainStillWaits
<1>4. /\ pc \in [Actors -> Points] /\ Workers \subseteq Actors
      /\ clock \in [Workers -> Nat] /\ seen \in [Workers -> Nat]
      /\ at \in [Workers -> Nat] /\ clocks \in Seq(Workers) /\ Len(clocks) \in Nat
      /\ at[t] \in 1..Len(clocks) /\ clocks[at[t]] \in Workers /\ c \in Nat
  <2>1. /\ clocks \in Seq(Workers) /\ Len(clocks) \in Nat /\ at[t] \in 1..Len(clocks)
    <3>1. clocks \in Seq(Workers) /\ at[t] \in 1..Len(clocks)
      BY <1>1, <1>2, <1>3 DEF TypeOK, RegInv
    <3>2. QED
      BY <3>1
  <2>2. clocks[at[t]] \in Workers
    BY <2>1
  <2>3. QED
    BY <1>1, <2>1, <2>2 DEF HarnessTypeOK, TypeOK
<1>5. c = clock[clocks[at[t]]]
  OBVIOUS
<1> HIDE DEF c
<1>6. /\ pc'[t] = to /\ \A a \in Actors \ {t} : pc'[a] = pc[a]
      /\ at'[t] = k /\ seen'[t] = m /\ k \in Nat /\ m \in Nat
      /\ \A u \in Workers \ {t} : seen'[u] = seen[u] /\ at'[u] = at[u]
      /\ seen' \in [Workers -> Nat] /\ at' \in [Workers -> Nat]
  <2>1. k \in Nat /\ m \in Nat
    BY <1>2, <1>4
  <2>2. QED
    BY <1>2, <1>4, <2>1
<1>7. Types'
  <2>1. HarnessTypeOK(Points)'
    BY <1>1, <1>2, <1>3, PointsAre DEF HarnessTypeOK, countVars
  <2>2. StackTypeOK'
    BY <1>1, <1>2 DEF StackTypeOK, LinkTypeOK
  <2>3. QED
    BY <1>1, <1>2, <1>6, <2>1, <2>2 DEF Types, TypeOK
<1>8. HandInv'
  BY <1>1, <1>2, <1>3, <1>4, <1>6 DEF HandInv, PushPoints, HandPoints
<1>9. ListInv'
  BY <1>2, <1>3, <1>4, <1>6 DEF Inv, ListInv, OutPoints
<1>10. RegInv'
  <2>1. /\ clocks' = clocks
        /\ \A u \in Workers : pc'[u] \notin OutPoints <=> pc[u] \notin OutPoints
    BY <1>2, <1>3, <1>4, <1>6 DEF OutPoints
  <2>2. \A u \in Workers \ {t} :
          /\ pc'[u] \in {"scan", "take"} => at'[u] \in 1..Len(clocks)
          /\ pc'[u] \notin {"scan", "take"} => at'[u] = 1
    BY <1>1, <1>4, <1>6 DEF RegInv
  <2>3. /\ to \in {"scan", "take"} => k \in 1..Len(clocks)
        /\ to \notin {"scan", "take"} => k = 1
    BY <1>2, <1>4
  <2>4. QED
    BY <1>1, <1>6, <2>1, <2>2, <2>3 DEF RegInv
<1>11. PlaceInv' /\ ChainInv'
  BY <1>1, <1>2, <1>3, <1>4, <1>6 DEF PlaceInv, Placed, ChainInv
<1>12. OrderInv'
  BY <1>1, <1>2, <1>3, <1>4, <1>6 DEF OrderInv
<1>13. GuardInv'
  <2> SUFFICES ASSUME NEW b \in Workers, pc'[b] \in TryPoints
               PROVE  /\ cur'[b] \in Nodes /\ cur'[b] \notin free'
                      /\ \A u \in Workers : Guarded(b, u, cur[b])'
    BY DEF GuardInv
  <2>1. b # t /\ pc[b] \in TryPoints /\ cur'[b] = cur[b] /\ clock'[b] = clock[b]
    BY <1>2, <1>3, <1>4, <1>6 DEF TryPoints
  <2>2. PICK n \in Nodes : n = cur[b] /\ n \notin free
                          /\ \A u \in Workers : Guarded(b, u, n)
    BY <1>1, <2>1 DEF GuardInv
  <2>3. Seen(t, b) => Seen(t, b)'
    <3> SUFFICES ASSUME Seen(t, b) PROVE Seen(t, b)'
      OBVIOUS
    <3>1. /\ clock[b] \in Nat /\ seen[t] \in Nat /\ c \in Nat
          /\ at[t] \in 1..Len(clocks) /\ Len(clocks) \in Nat
          /\ clock[t] \in Nat /\ clock'[t] = clock[t] /\ clock'[b] = clock[b]
          /\ clocks' = clocks
      BY <1>2, <1>4, <2>1
    <3>2. clocks[at[t]] \in {t, b}
      <4>1. ASSUME NEW u \in Workers PROVE u \in {t, b}
        BY <2>1 DEF Workers
      <4>2. QED
        BY <1>4, <4>1
    <3>3. CASE \E i \in at[t]+1..Len(clocks) : clocks[i] = b
      <4>1. /\ ~last /\ to \in {"scan", "take"}
            /\ k \in {at[t], at[t] + 1}
        BY <1>2, <3>1, <3>3
      <4>2. \E i \in k..Len(clocks) : clocks[i] = b
        BY <3>1, <3>3, <4>1
      <4>3. QED
        BY <1>6, <3>1, <4>1, <4>2 DEF Seen
    <3>4. CASE ~\E i \in at[t]+1..Len(clocks) : clocks[i] = b
      <4>1. \/ clocks[at[t]] = b
            \/ /\ at[t] > 1 /\ seen[t] <= clock[b]
               /\ from = "take" /\ clocks[at[t]] = t => clock[t] < seen[t]
        <5>1. ASSUME NEW i \in at[t]..Len(clocks), clocks[i] = b
              PROVE  clocks[at[t]] = b
          BY <3>1, <3>4, <5>1
        <5>2. QED
          BY <1>2, <1>3, <5>1 DEF Seen
      <4>2. CASE to = "take"
        <5>1. from = "scan" /\ k = at[t] /\ m = seen[t] /\ (at[t] = 1 \/ c < seen[t])
          BY <1>2, <4>2
        <5>2. CASE clocks[at[t]] = b
          <6>1. at[t] \in at[t]..Len(clocks)
            BY <3>1
          <6>2. QED
            BY <1>6, <3>1, <4>2, <5>1, <5>2, <6>1 DEF Seen
        <5>3. CASE at[t] > 1 /\ seen[t] <= clock[b]
          BY <1>5, <1>6, <3>1, <4>2, <5>1, <5>3 DEF Seen
        <5>4. QED
          BY <4>1, <5>2, <5>3
      <4>3. CASE to # "take"
        <5>1. m <= clock[b]
          <6>1. \/ from = "scan" /\ m = seen[t] /\ seen[t] <= c
                \/ from = "take" /\ m = c
            BY <1>2, <3>1, <4>3
          <6>2. CASE clocks[at[t]] = b
            BY <1>5, <3>1, <6>1, <6>2
          <6>3. CASE clocks[at[t]] = t
            BY <1>5, <2>1, <3>1, <4>1, <6>1, <6>3
          <6>4. QED
            BY <3>2, <6>2, <6>3
        <5>2. to = "scan" => k > 1
          BY <1>2, <3>1, <4>3
        <5>3. to \in {"scan", "scanned"}
          BY <1>3, <4>3
        <5>4. QED
          BY <1>6, <3>1, <5>1, <5>2, <5>3 DEF Seen
      <4>4. QED
        BY <4>2, <4>3
    <3>5. QED
      BY <3>3, <3>4
  <2>4. ASSUME NEW u \in Workers
        PROVE  Guarded(b, u, n)'
    <3>1. CASE u = t
      BY <1>2, <1>3, <1>6, <2>1, <2>2, <2>3, <3>1 DEF Guarded, HandPoints
    <3>2. CASE u # t
      <4>1. Seen(u, b) => Seen(u, b)'
        BY <1>2, <1>6, <2>1, <3>2 DEF Seen
      <4>2. QED
        BY <1>2, <1>6, <2>1, <2>2, <3>2, <4>1 DEF Guarded
    <3>3. QED
      BY <3>1, <3>2
  <2>5. QED
    BY <1>2, <2>1, <2>2, <2>4
<1>14. QED
  BY <1>3, <1>7, <1>8, <1>9, <1>10, <1>11, <1>12, <1>13 DEF Inv

-----------------------------------------------------------------------------
(* Steps that let a node go or keep it *)

\* Every clock is later than when t popped its node: no thread has it.
LEMMA NobodyReads ==
  ASSUME Inv, NEW t \in Workers, pc[t] = "scanned", node[t] # NULL,
         clock[t] <= seen[t],
         NEW b \in Workers, pc[b] \in TryPoints
  PROVE  cur[b] # node[t]
<1> SUFFICES ASSUME cur[b] = node[t] PROVE FALSE
  OBVIOUS
<1>1. Guarded(b, t, cur[b])
  BY DEF Inv, GuardInv
<1>2. clock[b] < clock[t] /\ seen[t] <= clock[b]
  BY <1>1 DEF Guarded, Seen
<1>3. clock[b] \in Nat /\ clock[t] \in Nat /\ seen[t] \in Nat
  BY DEF Inv, Types, TypeOK
<1>4. QED
  BY <1>2, <1>3

\* minclock is this thread's clock: delete n.
LEMMA DeleteAtOnceKeeps ==
  ASSUME Inv, NEW t \in Workers, DeleteAtOnce(t)
  PROVE  Inv'
<1> USE Threads, StackTestAssumption DEF linkVars, regVars, stackVars, listVars
<1>1. /\ Types /\ TypeOK /\ HarnessTypeOK(Points) /\ StackTypeOK
      /\ PlaceInv /\ GuardInv /\ HandInv /\ ChainInv /\ OrderInv /\ RegInv
  BY DEF Inv, Types, TypeOK
<1> DEFINE n == node[t]
<1>2. /\ pc[t] = "scanned" /\ pc' = [pc EXCEPT ![t] = "test"] /\ Running
      /\ n # NULL /\ clock[t] = seen[t]
      /\ node' = [node EXCEPT ![t] = NULL] /\ free' = free \cup {n}
      /\ seen' = [seen EXCEPT ![t] = 0]
      /\ UNCHANGED <<countVars, head, next, contents, regVars, clock, drawn, stamp,
                     listVars>>
  BY DEF DeleteAtOnce, NobodyBehind, Goto
<1>3. pc[Main] = "join" /\ MainInv'
  BY <1>2, MainWaits, MainStillWaits
<1>4. /\ pc \in [Actors -> Points] /\ Workers \subseteq Actors /\ n \in Nodes
      /\ seen \in [Workers -> Nat] /\ clock \in [Workers -> Nat]
      /\ node \in [Actors -> Nodes \cup {NULL}]
  BY <1>1, <1>2 DEF HarnessTypeOK, TypeOK
<1>5. /\ pc'[t] = "test" /\ \A a \in Actors \ {t} : pc'[a] = pc[a]
      /\ \A a \in Actors : node'[a] = IF a = t THEN NULL ELSE node[a]
      /\ \A u \in Workers \ {t} : seen'[u] = seen[u]
      /\ seen' \in [Workers -> Nat]
  BY <1>2, <1>4
<1>6. /\ n \notin ToSet(contents) /\ \A a \in Actors \ {t} : node[a] # n
      /\ \A u \in Workers : n \notin ToSet(dirty[u]) /\ n \notin ToSet(clean[u])
  BY <1>1, <1>4 DEF PlaceInv, Placed
<1>7. \A b \in Workers : pc[b] \in TryPoints => cur[b] # n
  BY <1>2, <1>4, NobodyReads
<1> HIDE DEF n
<1>8. Types'
  <2>1. HarnessTypeOK(Points)'
    BY <1>1, <1>2, PointsAre DEF HarnessTypeOK, countVars
  <2>2. StackTypeOK'
    BY <1>1, <1>2, <1>4 DEF StackTypeOK, LinkTypeOK
  <2>3. QED
    BY <1>1, <1>2, <1>5, <2>1, <2>2 DEF Types, TypeOK
<1>9. HandInv'
  BY <1>1, <1>4, <1>5 DEF HandInv, PushPoints, HandPoints
<1>10. ListInv' /\ RegInv'
  BY <1>1, <1>2, <1>4, <1>5 DEF Inv, ListInv, RegInv, OutPoints
<1>11. PlaceInv'
  <2>1. ASSUME NEW x \in Nodes
        PROVE  \E k \in Kinds, w \in Actors : Placed(x, k, w)'
    <3>1. PICK k \in Kinds, w \in Actors : Placed(x, k, w)
      BY <1>1 DEF PlaceInv
    <3>2. CASE x = n
      <4>1. Placed(x, "free", t)'
        BY <1>2, <1>4, <1>5, <1>6, <3>2 DEF Placed
      <4>2. QED
        BY <4>1 DEF Kinds
    <3>3. CASE x # n
      <4>1. Placed(x, k, w)'
        BY <1>2, <1>4, <1>5, <3>1, <3>3 DEF Placed, n
      <4>2. QED
        BY <4>1
    <3>4. QED
      BY <3>2, <3>3
  <2>2. QED
    BY <1>1, <1>2, <2>1 DEF PlaceInv
<1>12. ChainInv' /\ OrderInv'
  BY <1>1, <1>2, <1>4, <1>5 DEF ChainInv, OrderInv
<1>13. GuardInv'
  <2> SUFFICES ASSUME NEW b \in Workers, pc'[b] \in TryPoints
               PROVE  /\ cur'[b] \in Nodes /\ cur'[b] \notin free'
                      /\ \A u \in Workers : Guarded(b, u, cur[b])'
    BY DEF GuardInv
  <2>1. b # t /\ pc[b] \in TryPoints /\ cur'[b] = cur[b] /\ cur[b] # n
    BY <1>2, <1>4, <1>5, <1>7 DEF TryPoints
  <2>2. PICK k \in Nodes : k = cur[b] /\ k \notin free
                          /\ \A u \in Workers : Guarded(b, u, k)
    BY <1>1, <2>1 DEF GuardInv
  <2>3. ASSUME NEW u \in Workers
        PROVE  Guarded(b, u, k)'
    <3>1. CASE u = t
      BY <1>2, <1>5, <2>2, <3>1, StackTestAssumption DEF Guarded, Seen
    <3>2. CASE u # t
      BY <1>2, <1>4, <1>5, <2>2, <3>2 DEF Guarded, Seen
    <3>3. QED
      BY <3>1, <3>2
  <2>4. QED
    BY <1>2, <2>1, <2>2, <2>3
<1>14. QED
  BY <1>3, <1>8, <1>9, <1>10, <1>11, <1>12, <1>13 DEF Inv

\* dirty_list.push_back(n)
LEMMA KeepDirtyKeeps ==
  ASSUME Inv, NEW t \in Workers, KeepDirty(t)
  PROVE  Inv'
<1> USE Threads, StackTestAssumption DEF linkVars, regVars, stackVars
<1>1. /\ Types /\ TypeOK /\ HarnessTypeOK(Points) /\ StackTypeOK
      /\ PlaceInv /\ GuardInv /\ HandInv /\ ChainInv /\ OrderInv /\ RegInv
  BY DEF Inv, Types, TypeOK
<1> DEFINE n == node[t]
<1>2. /\ pc[t] = "scanned" /\ pc' = [pc EXCEPT ![t] = "test"] /\ Running
      /\ n # NULL /\ Len(dirty[t]) < ListSize
      /\ node' = [node EXCEPT ![t] = NULL]
      /\ stamp' = [stamp EXCEPT ![n] = clock[t]]
      /\ dirty' = [dirty EXCEPT ![t] = Append(@, n)]
      /\ seen' = [seen EXCEPT ![t] = 0]
      /\ UNCHANGED <<countVars, stackVars, clock, drawn, clocks, at, clean>>
  BY DEF KeepDirty, MustWait, Goto
<1>3. pc[Main] = "join" /\ MainInv'
  BY <1>2, MainWaits, MainStillWaits
<1>4. /\ pc \in [Actors -> Points] /\ Workers \subseteq Actors /\ n \in Nodes
      /\ seen \in [Workers -> Nat] /\ clock \in [Workers -> Nat]
      /\ stamp \in [Nodes -> Nat] /\ node \in [Actors -> Nodes \cup {NULL}]
      /\ dirty \in [Workers -> Seq(Nodes)]
  BY <1>1, <1>2 DEF HarnessTypeOK, TypeOK, Types
<1>5. /\ pc'[t] = "test" /\ \A a \in Actors \ {t} : pc'[a] = pc[a]
      /\ \A a \in Actors : node'[a] = IF a = t THEN NULL ELSE node[a]
      /\ \A u \in Workers \ {t} : seen'[u] = seen[u] /\ dirty'[u] = dirty[u]
      /\ \A k \in Nodes : stamp'[k] = IF k = n THEN clock[t] ELSE stamp[k]
      /\ seen' \in [Workers -> Nat] /\ stamp' \in [Nodes -> Nat]
      /\ dirty'[t] = Append(dirty[t], n)
  BY <1>2, <1>4
<1>6. /\ n \notin ToSet(contents) /\ n \notin free
      /\ \A a \in Actors \ {t} : node[a] # n
      /\ \A u \in Workers : n \notin ToSet(dirty[u]) /\ n \notin ToSet(clean[u])
  BY <1>1, <1>4 DEF PlaceInv, Placed
<1> HIDE DEF n
<1>7. /\ dirty' \in [Workers -> Seq(Nodes)]
      /\ \A u \in Workers : Len(dirty'[u]) <= ListSize /\ Inj(dirty'[u])
      /\ ToSet(dirty'[t]) = ToSet(dirty[t]) \cup {n}
      /\ Len(dirty'[t]) = Len(dirty[t]) + 1 /\ Len(dirty[t]) \in Nat
      /\ \A i \in 1..Len(dirty[t]) : dirty'[t][i] = dirty[t][i]
      /\ dirty'[t][Len(dirty[t]) + 1] = n
  <2>1. dirty[t] \in Seq(Nodes) /\ Inj(dirty[t])
    BY <1>1, <1>4 DEF PlaceInv
  <2> DEFINE q == Append(dirty[t], n)
  <2>2. /\ q \in Seq(Nodes) /\ Inj(q) /\ ToSet(q) = ToSet(dirty[t]) \cup {n}
        /\ Len(q) = Len(dirty[t]) + 1 /\ Len(dirty[t]) \in Nat
        /\ \A i \in 1..Len(dirty[t]) : q[i] = dirty[t][i]
        /\ q[Len(dirty[t]) + 1] = n
    <3>1. n \in Nodes /\ n \notin ToSet(dirty[t])
      BY <1>4, <1>6
    <3>2. q \in Seq(Nodes)
      BY <2>1, <3>1
    <3>3. ToSet(q) = ToSet(dirty[t]) \cup {n}
      BY <2>1, <3>1, AppendSet
    <3>4. Inj(q)
      BY <2>1, <3>1, AppendSet
    <3>5. QED
      BY <2>1, <3>1, <3>2, <3>3, <3>4
  <2>3. dirty'[t] = q /\ dirty' = [dirty EXCEPT ![t] = q]
    BY <1>2, <1>5
  <2> HIDE DEF q
  <2>4. dirty' \in [Workers -> Seq(Nodes)]
    BY <1>4, <2>2, <2>3
  <2>5. Len(q) <= ListSize
    BY <1>2, <2>2, GarbageCollectorAssumption
  <2>6. \A u \in Workers : Len(dirty'[u]) <= ListSize /\ Inj(dirty'[u])
    BY <1>1, <1>5, <2>2, <2>3, <2>5 DEF TypeOK, PlaceInv
  <2>7. QED
    BY <2>2, <2>3, <2>4, <2>6
<1>8. Types'
  <2>1. HarnessTypeOK(Points)'
    BY <1>1, <1>2, PointsAre DEF HarnessTypeOK, countVars
  <2>2. StackTypeOK'
    BY <1>1, <1>2 DEF StackTypeOK, LinkTypeOK
  <2>3. QED
    BY <1>1, <1>2, <1>5, <1>7, <2>1, <2>2 DEF Types, TypeOK
<1>9. HandInv'
  BY <1>1, <1>4, <1>5 DEF HandInv, PushPoints, HandPoints
<1>10. ListInv' /\ RegInv'
  BY <1>1, <1>2, <1>4, <1>5 DEF Inv, ListInv, RegInv, OutPoints
<1>11. PlaceInv'
  <2>1. ASSUME NEW x \in Nodes
        PROVE  \E k \in Kinds, w \in Actors : Placed(x, k, w)'
    <3>1. PICK k \in Kinds, w \in Actors : Placed(x, k, w)
      BY <1>1 DEF PlaceInv
    <3>2. CASE x = n
      <4>1. Placed(x, "dirty", t)'
        BY <1>2, <1>4, <1>5, <1>6, <1>7, <3>2 DEF Placed
      <4>2. QED
        BY <4>1 DEF Kinds
    <3>3. CASE x # n
      <4>1. \A u \in Workers : x \in ToSet(dirty'[u]) <=> x \in ToSet(dirty[u])
        BY <1>5, <1>7, <3>3
      <4>2. Placed(x, k, w)'
        BY <1>2, <1>4, <1>5, <3>1, <3>3, <4>1 DEF Placed, n
      <4>3. QED
        BY <4>2
    <3>4. QED
      BY <3>2, <3>3
  <2>2. QED
    BY <1>1, <1>2, <1>7, <2>1 DEF PlaceInv
<1>12. ChainInv'
  BY <1>1, <1>2, <1>4, <1>5 DEF ChainInv
<1>13. OrderInv'
  <2> SUFFICES ASSUME NEW u \in Workers
               PROVE  /\ \A i, j \in 1..Len(dirty'[u]) :
                           i < j => stamp'[dirty'[u][i]] < stamp'[dirty'[u][j]]
                      /\ pc'[u] = "stamp" =>
                           \A k \in ToSet(dirty'[u]) : stamp'[k] < drawn'[u]
                      /\ pc'[u] \in {"scan", "take", "scanned"} /\ node'[u] # NULL =>
                           \A k \in ToSet(dirty'[u]) : stamp'[k] < clock'[u]
    BY DEF OrderInv
  <2>1. /\ \A i \in 1..Len(dirty[u]) : dirty[u][i] \in ToSet(dirty[u])
        /\ ToSet(dirty[u]) \subseteq Nodes
    BY <1>4, InSet
  <2>2. \A k \in ToSet(dirty[u]) : stamp'[k] = stamp[k]
    BY <1>5, <1>6, <2>1
  <2>3. \A i, j \in 1..Len(dirty[u]) :
          i < j => stamp'[dirty[u][i]] < stamp'[dirty[u][j]]
    BY <1>1, <2>1, <2>2 DEF OrderInv
  <2>4. CASE u = t
    <3>1. \A k \in ToSet(dirty[t]) : stamp[k] < clock[t]
      BY <1>1, <1>2 DEF OrderInv, n
    <3>2. ASSUME NEW i \in 1..Len(dirty'[t]), NEW j \in 1..Len(dirty'[t]), i < j
          PROVE  stamp'[dirty'[t][i]] < stamp'[dirty'[t][j]]
      <4>1. i \in 1..Len(dirty[t]) /\ dirty'[t][i] = dirty[t][i]
        BY <1>7, <3>2
      <4>2. CASE j \in 1..Len(dirty[t])
        BY <1>7, <2>3, <2>4, <3>2, <4>1, <4>2
      <4>3. CASE j = Len(dirty[t]) + 1
        <5>1. dirty'[t][j] = n /\ stamp'[n] = clock[t]
          BY <1>4, <1>5, <1>7, <4>3
        <5>2. dirty[t][i] \in ToSet(dirty[t]) /\ stamp'[dirty[t][i]] = stamp[dirty[t][i]]
          BY <2>1, <2>2, <2>4, <4>1
        <5>3. QED
          BY <3>1, <4>1, <5>1, <5>2
      <4>4. QED
        BY <1>7, <4>2, <4>3
    <3>3. QED
      BY <1>5, <2>4, <3>2
  <2>5. CASE u # t
    BY <1>1, <1>2, <1>5, <2>2, <2>3, <2>5 DEF OrderInv
  <2>6. QED
    BY <2>4, <2>5
<1>14. GuardInv'
  <2> SUFFICES ASSUME NEW b \in Workers, pc'[b] \in TryPoints
               PROVE  /\ cur'[b] \in Nodes /\ cur'[b] \notin free'
                      /\ \A u \in Workers : Guarded(b, u, cur[b])'
    BY DEF GuardInv
  <2>1. b # t /\ pc[b] \in TryPoints /\ cur'[b] = cur[b]
    BY <1>2, <1>4, <1>5 DEF TryPoints
  <2>2. PICK k \in Nodes : k = cur[b] /\ k \notin free
                          /\ \A u \in Workers : Guarded(b, u, k)
    BY <1>1, <2>1 DEF GuardInv
  <2>3. ASSUME NEW u \in Workers
        PROVE  Guarded(b, u, k)'
    <3>1. CASE u = t
      <4>1. k = n => clock[b] < clock[t]
        BY <1>2, <2>2 DEF Guarded, n
      <4>2. k \in ToSet(dirty'[t]) => clock[b] < stamp'[k]
        BY <1>5, <1>7, <2>2, <4>1 DEF Guarded
      <4>3. QED
        BY <1>2, <1>5, <2>2, <3>1, <4>2 DEF Guarded, Seen
    <3>2. CASE u # t
      <4>1. k \in ToSet(dirty[u]) => stamp'[k] = stamp[k]
        BY <1>5, <1>6
      <4>2. QED
        BY <1>2, <1>4, <1>5, <2>2, <3>2, <4>1 DEF Guarded, Seen
    <3>3. QED
      BY <3>1, <3>2
  <2>4. QED
    BY <1>2, <2>1, <2>2, <2>3
<1>15. QED
  BY <1>3, <1>8, <1>9, <1>10, <1>11, <1>12, <1>13, <1>14 DEF Inv

\* What cleanup() does, in terms of the sets of the nodes that it moves: those
\* in K to the clean list, those in R to the heap.
Recycles(t, more, K, R, s) ==
  /\ K \cap R = {} /\ K \cup R \subseteq ToSet(dirty[t])
  /\ \A n \in K \cup R : stamp[n] < seen[t]
  /\ dirty' \in [Workers -> Seq(Nodes)] /\ clean' \in [Workers -> Seq(Nodes)]
  /\ \A u \in Workers : /\ Inj(dirty'[u]) /\ Len(dirty'[u]) <= ListSize
                        /\ Inj(clean'[u]) /\ Len(clean'[u]) <= ListSize
  /\ \A u \in Workers \ {t} : dirty'[u] = dirty[u] /\ clean'[u] = clean[u]
  /\ ToSet(dirty'[t]) = (ToSet(dirty[t]) \ (K \cup R)) \cup ToSet(more)
  /\ ToSet(clean'[t]) = ToSet(clean[t]) \cup K
  /\ free' = free \cup R
  /\ \E k \in 0..Len(dirty[t]) : \A i \in 1..Len(dirty'[t]) :
       \/ k+i <= Len(dirty[t]) /\ dirty'[t][i] = dirty[t][k+i]
       \/ i = Len(dirty'[t]) /\ dirty'[t][i] \in ToSet(more)
  /\ s = [n \in Nodes |-> IF n \in K \cup R THEN 0
                          ELSE IF n \in ToSet(more) THEN clock[t] ELSE stamp[n]]
  /\ GetClock(t, s)
  /\ UNCHANGED <<head, next, contents, regVars, clocks, at>>

\* What cleanup() does to the lists and to the clocks.
LEMMA CleanupIs ==
  ASSUME Types, PlaceInv, NEW t \in Workers, NEW more \in Seq(Nodes), Cleanup(t, more),
         Len(more) <= 1, ToSet(more) \cap ToSet(dirty[t]) = {}
  PROVE  \E K, R, s : Recycles(t, more, K, R, s)
<1> DEFINE D == dirty[t]
           C == clean[t]
           old == OldNodes(t)
           young == YoungNodes(t)
           kept == Min({Len(old), ListSize - Len(C)})
           first == SubSeq(old, 1, kept)
           rest == SubSeq(old, kept+1, Len(old))
           q == young \o more
           c == Reverse(first) \o C
           K == ToSet(first)
           R == ToSet(rest)
           s == [n \in Nodes |-> IF n \in K \cup R THEN 0
                                 ELSE IF n \in ToSet(more) THEN clock[t] ELSE stamp[n]]
<1>1. /\ D \in Seq(Nodes) /\ Inj(D) /\ Len(D) \in Nat
      /\ C \in Seq(Nodes) /\ Inj(C) /\ Len(C) \in Nat /\ Len(C) <= ListSize
      /\ ToSet(D) \cap ToSet(C) = {}
  <2>1. D \in Seq(Nodes) /\ C \in Seq(Nodes) /\ Inj(D) /\ Inj(C) /\ Len(C) <= ListSize
    BY DEF Types, TypeOK, PlaceInv
  <2>2. Len(D) \in Nat /\ Len(C) \in Nat /\ ToSet(D) \subseteq Nodes
    BY <2>1, InSet
  <2>3. ToSet(D) \cap ToSet(C) = {}
    BY <2>2 DEF PlaceInv, Placed
  <2>4. QED
    BY <2>1, <2>2, <2>3
<1>2. /\ Len(young) + Len(more) <= ListSize
      /\ clean' = [clean EXCEPT ![t] = c] /\ free' = free \cup R
      /\ dirty' = [dirty EXCEPT ![t] = q]
      /\ GetClock(t, [n \in Nodes |->
                        CASE n \in ToSet(old) -> 0
                          [] n \in ToSet(q) \ ToSet(D) -> clock[t]
                          [] OTHER -> stamp[n]])
      /\ UNCHANGED <<head, next, contents, regVars, clocks, at>>
  BY DEF Cleanup, Recycle
<1>3. PICK k \in 0..Len(D) :
        /\ old = SubSeq(D, 1, k) /\ Len(old) = k /\ young = SubSeq(D, k+1, Len(D))
        /\ \A i \in 1..k : stamp[D[i]] < seen[t]
  BY <1>1, OldNodesAre
<1> HIDE DEF D, C, old, young
<1>4. /\ old \in Seq(Nodes) /\ \A i \in 1..k : old[i] = D[i]
      /\ young \in Seq(Nodes) /\ Len(young) = Len(D) - k
      /\ \A i \in 1..Len(young) : young[i] = D[k+i]
      /\ ToSet(old) \cup ToSet(young) = ToSet(D) /\ Inj(old) /\ Inj(young)
      /\ ToSet(old) \cap ToSet(young) = {}
  <2>1. LET p == SubSeq(D, 1, k)
            r == SubSeq(D, k+1, Len(D))
        IN  /\ p \in Seq(Nodes) /\ \A i \in 1..k : p[i] = D[i]
            /\ r \in Seq(Nodes) /\ Len(r) = Len(D) - k
            /\ \A i \in 1..Len(r) : r[i] = D[k+i]
            /\ ToSet(p) \cup ToSet(r) = ToSet(D)
    BY <1>1, SplitSet
  <2>2. LET p == SubSeq(D, 1, k)
            r == SubSeq(D, k+1, Len(D))
        IN  Inj(p) /\ Inj(r) /\ ToSet(p) \cap ToSet(r) = {}
    BY <1>1, SplitSet
  <2>3. QED
    BY <1>3, <2>1, <2>2
<1>5. kept \in 0..Len(old) /\ kept + Len(C) <= ListSize
  <2>1. ListSize - Len(C) \in Nat /\ Len(old) \in Nat
    BY <1>1, <1>3, GarbageCollectorAssumption
  <2>2. kept = IF Len(old) <= ListSize - Len(C) THEN Len(old) ELSE ListSize - Len(C)
    BY <2>1, MinIs
  <2> HIDE DEF kept
  <2>3. QED
    BY <1>1, <2>1, <2>2, GarbageCollectorAssumption
<1> HIDE DEF kept
<1>6. /\ first \in Seq(Nodes) /\ Len(first) = kept /\ Inj(first)
      /\ rest \in Seq(Nodes) /\ K \cup R = ToSet(old) /\ K \cap R = {}
  BY <1>4, <1>5, SplitSet
<1> HIDE DEF first, rest
<1>7. /\ Reverse(first) \in Seq(Nodes) /\ Len(Reverse(first)) = kept
      /\ ToSet(Reverse(first)) = K /\ Inj(Reverse(first))
  BY <1>6, ReverseSet
<1>8. /\ c \in Seq(Nodes) /\ Len(c) <= ListSize /\ Inj(c) /\ ToSet(c) = ToSet(C) \cup K
  <2> DEFINE p == Reverse(first)
  <2>1. p \in Seq(Nodes) /\ Len(p) = kept /\ ToSet(p) = K /\ Inj(p)
    BY <1>7
  <2>2. ToSet(p) \cap ToSet(C) = {}
    BY <1>1, <1>4, <1>6, <1>7
  <2> HIDE DEF p
  <2>3. /\ p \o C \in Seq(Nodes) /\ Len(p \o C) = Len(p) + Len(C)
        /\ ToSet(p \o C) = ToSet(p) \cup ToSet(C) /\ Inj(p \o C)
    BY <1>1, <2>1, <2>2, ConcatSet
  <2>4. QED
    BY <1>1, <1>5, <2>1, <2>3 DEF p
<1>9. /\ q \in Seq(Nodes) /\ Len(q) <= ListSize /\ Inj(q)
      /\ ToSet(q) = (ToSet(D) \ (K \cup R)) \cup ToSet(more)
      /\ Len(q) = Len(young) + Len(more) /\ Len(more) \in Nat
      /\ \A i \in 1..Len(young) : q[i] = young[i]
      /\ \A i \in 1..Len(more) : q[Len(young) + i] = more[i]
  <2>1. Inj(more) /\ Len(more) \in Nat
    BY DEF Inj
  <2>2. ToSet(young) \cap ToSet(more) = {}
    BY <1>4 DEF D
  <2>3. /\ q \in Seq(Nodes) /\ Len(q) = Len(young) + Len(more)
        /\ ToSet(q) = ToSet(young) \cup ToSet(more)
        /\ \A i \in 1..Len(young) : q[i] = young[i]
        /\ \A i \in 1..Len(more) : q[Len(young) + i] = more[i]
    <3>1. young \in Seq(Nodes) /\ more \in Seq(Nodes)
      BY <1>4
    <3>2. q \in Seq(Nodes) /\ Len(q) = Len(young) + Len(more)
      BY <3>1, ConcatSet
    <3>3. ToSet(q) = ToSet(young) \cup ToSet(more)
      BY <3>1, ConcatSet
    <3>4. \A i \in 1..Len(young) : q[i] = young[i]
      BY <3>1, ConcatSet
    <3>5. \A i \in 1..Len(more) : q[Len(young) + i] = more[i]
      BY <3>1, ConcatSet
    <3>6. QED
      BY <3>2, <3>3, <3>4, <3>5
  <2>4. Inj(q)
    BY <1>4, <2>1, <2>2, ConcatSet
  <2>5. ToSet(young) = ToSet(D) \ (K \cup R)
    BY <1>4, <1>6
  <2>6. QED
    BY <1>2, <2>1, <2>3, <2>4, <2>5
<1> HIDE DEF c, q, K, R
<1>10. \A n \in K \cup R : stamp[n] < seen[t]
  <2>1. \A n \in ToSet(old) : \E i \in 1..k : old[i] = n
    BY <1>3, <1>4, InSet
  <2>2. QED
    BY <1>3, <1>4, <1>6, <2>1
<1>11. /\ dirty \in [Workers -> Seq(Nodes)] /\ clean \in [Workers -> Seq(Nodes)]
       /\ dirty' = [dirty EXCEPT ![t] = q] /\ clean' = [clean EXCEPT ![t] = c]
  BY <1>2 DEF Types
<1>12. /\ dirty' \in [Workers -> Seq(Nodes)] /\ clean' \in [Workers -> Seq(Nodes)]
       /\ dirty'[t] = q /\ clean'[t] = c
       /\ \A u \in Workers \ {t} : dirty'[u] = dirty[u] /\ clean'[u] = clean[u]
  BY <1>8, <1>9, <1>11
<1>13. \A u \in Workers : /\ Inj(dirty'[u]) /\ Len(dirty'[u]) <= ListSize
                          /\ Inj(clean'[u]) /\ Len(clean'[u]) <= ListSize
  BY <1>8, <1>9, <1>12 DEF PlaceInv, Types, TypeOK
<1>14. ASSUME NEW i \in 1..Len(q)
       PROVE  \/ k+i <= Len(D) /\ q[i] = D[k+i]
              \/ i = Len(q) /\ q[i] \in ToSet(more)
  <2>1. CASE i <= Len(young)
    BY <1>1, <1>3, <1>4, <1>9, <2>1
  <2>2. CASE i > Len(young)
    <3>1. Len(young) \in Nat
      BY <1>1, <1>3, <1>4
    <3>2. i = Len(young) + 1 /\ Len(more) = 1 /\ i = Len(q)
      <4>1. /\ i \in Nat /\ i <= Len(young) + Len(more) /\ Len(more) \in Nat
            /\ Len(q) = Len(young) + Len(more)
        BY <1>9, <3>1
      <4> DEFINE y == Len(young)
                 l == Len(more)
      <4>2. y \in Nat /\ l \in Nat /\ l <= 1 /\ i \in Nat /\ i > y /\ i <= y + l
        BY <2>2, <3>1, <4>1
      <4> HIDE DEF y, l
      <4>3. l = 1 /\ i = y + 1
        BY <4>2
      <4>4. QED
        BY <4>1, <4>3 DEF y, l
    <3>3. q[i] = more[1] /\ 1 \in 1..Len(more)
      BY <1>9, <3>2
    <3>4. more[1] \in ToSet(more)
      BY <3>3, InSet
    <3>5. QED
      BY <3>2, <3>3, <3>4
  <2>3. QED
    BY <1>1, <1>3, <1>4, <2>1, <2>2
<1>15. GetClock(t, s)
  <2>1. \A n : n \in ToSet(q) \ ToSet(D) <=> n \in ToSet(more)
    BY <1>9 DEF D
  <2>2. \A n : n \in ToSet(old) <=> n \in K \cup R
    BY <1>6 DEF K, R
  <2>3. s = [n \in Nodes |-> CASE n \in ToSet(old) -> 0
                               [] n \in ToSet(q) \ ToSet(D) -> clock[t]
                               [] OTHER -> stamp[n]]
    BY <1>4, <2>1, <2>2
  <2>4. QED
    BY <1>2, <2>3
<1>16. Recycles(t, more, K, R, s)
  <2>1. K \cap R = {} /\ K \cup R \subseteq ToSet(dirty[t])
    BY <1>4, <1>6 DEF K, R, D
  <2>2. /\ ToSet(dirty'[t]) = (ToSet(dirty[t]) \ (K \cup R)) \cup ToSet(more)
        /\ ToSet(clean'[t]) = ToSet(clean[t]) \cup K
    BY <1>8, <1>9, <1>12 DEF D, C
  <2>3. \E j \in 0..Len(dirty[t]) : \A i \in 1..Len(dirty'[t]) :
          \/ j+i <= Len(dirty[t]) /\ dirty'[t][i] = dirty[t][j+i]
          \/ i = Len(dirty'[t]) /\ dirty'[t][i] \in ToSet(more)
    BY <1>12, <1>14 DEF D
  <2>4. QED
    BY <1>2, <1>10, <1>12, <1>13, <1>15, <2>1, <2>2, <2>3 DEF Recycles
<1>17. QED
  BY <1>16

\* cleanup(), called by clean() or by dereg(): a node that is older than min is
\* one that no thread has in trypop().
LEMMA CleanupKeeps ==
  ASSUME Inv, NEW t \in Workers, CleanupInClean(t) \/ CleanupInDereg(t)
  PROVE  Inv'
<1> USE Threads, StackTestAssumption DEF linkVars, regVars, stackVars
<1>1. /\ Types /\ TypeOK /\ HarnessTypeOK(Points) /\ StackTypeOK
      /\ PlaceInv /\ GuardInv /\ HandInv /\ ChainInv /\ OrderInv /\ RegInv
  BY DEF Inv, Types, TypeOK
<1> DEFINE n == node[t]
<1>2. PICK more, to :
        /\ \/ n # NULL /\ more = <<n>> /\ to = "restamp"
           \/ n = NULL /\ more = << >> /\ to = "deregstamp"
        /\ pc[t] = "scanned" /\ pc' = [pc EXCEPT ![t] = to] /\ Running
        /\ node' = [node EXCEPT ![t] = NULL] /\ UNCHANGED countVars
        /\ Cleanup(t, more)
  <2>1. CASE CleanupInClean(t)
    BY <2>1 DEF CleanupInClean, MustWait, Goto
  <2>2. CASE CleanupInDereg(t)
    BY <1>1, <2>2 DEF CleanupInDereg, StackStep, Goto, HarnessTypeOK
  <2>3. QED
    BY <2>1, <2>2
<1>3. pc[Main] = "join" /\ MainInv'
  BY <1>2, MainWaits, MainStillWaits
<1>4. /\ pc \in [Actors -> Points] /\ Workers \subseteq Actors
      /\ node \in [Actors -> Nodes \cup {NULL}] /\ n \in Nodes \cup {NULL}
      /\ stamp \in [Nodes -> Nat] /\ clock \in [Workers -> Nat]
      /\ drawn \in [Workers -> Nat] /\ seen \in [Workers -> Nat]
  BY <1>1 DEF HarnessTypeOK, TypeOK
<1>5. /\ pc'[t] = to /\ to \in {"restamp", "deregstamp"}
      /\ \A a \in Actors \ {t} : pc'[a] = pc[a]
      /\ \A a \in Actors : node'[a] = IF a = t THEN NULL ELSE node[a]
  BY <1>2, <1>4
<1>6. /\ more \in Seq(Nodes) /\ Len(more) <= 1
      /\ \A x : x \in ToSet(more) <=> x = n /\ n # NULL
  <2>1. CASE n # NULL /\ more = <<n>>
    <3>1. n \in Nodes
      BY <1>4, <2>1
    <3> HIDE DEF n
    <3>2. <<n>> \in Seq(Nodes) /\ Len(<<n>>) = 1 /\ \A x : x \in ToSet(<<n>>) <=> x = n
      BY <3>1 DEF ToSet
    <3>3. QED
      BY <2>1, <3>2
  <2>2. CASE n = NULL /\ more = << >>
    <3>1. << >> \in Seq(Nodes) /\ Len(<< >>) = 0 /\ \A x : x \notin ToSet(<< >>)
      BY DEF ToSet
    <3> HIDE DEF n
    <3>2. QED
      BY <2>2, <3>1
  <2>3. QED
    BY <1>2, <2>1, <2>2
<1>7. \A x \in ToSet(more) :
        /\ x \in Nodes /\ x \notin ToSet(contents) /\ x \notin free
        /\ \A a \in Actors \ {t} : node[a] # x
        /\ \A u \in Workers : x \notin ToSet(dirty[u]) /\ x \notin ToSet(clean[u])
  BY <1>1, <1>4, <1>6 DEF PlaceInv, Placed
<1>8. ToSet(more) \cap ToSet(dirty[t]) = {}
  BY <1>7
<1>9. PICK K, R, s : Recycles(t, more, K, R, s)
  BY <1>1, <1>2, <1>6, <1>8, CleanupIs
<1>10. /\ K \cap R = {} /\ K \cup R \subseteq ToSet(dirty[t])
       /\ \A x \in K \cup R : stamp[x] < seen[t]
       /\ dirty' \in [Workers -> Seq(Nodes)] /\ clean' \in [Workers -> Seq(Nodes)]
       /\ \A u \in Workers : /\ Inj(dirty'[u]) /\ Len(dirty'[u]) <= ListSize
                             /\ Inj(clean'[u]) /\ Len(clean'[u]) <= ListSize
       /\ \A u \in Workers \ {t} : dirty'[u] = dirty[u] /\ clean'[u] = clean[u]
       /\ ToSet(dirty'[t]) = (ToSet(dirty[t]) \ (K \cup R)) \cup ToSet(more)
       /\ ToSet(clean'[t]) = ToSet(clean[t]) \cup K
       /\ free' = free \cup R
       /\ s = [x \in Nodes |-> IF x \in K \cup R THEN 0
                               ELSE IF x \in ToSet(more) THEN clock[t] ELSE stamp[x]]
       /\ GetClock(t, s)
       /\ UNCHANGED <<head, next, contents, regVars, clocks, at>>
  BY <1>9 DEF Recycles
<1>11. dirty[t] \in Seq(Nodes) /\ ToSet(dirty[t]) \subseteq Nodes
  BY <1>1, InSet DEF Types
<1>12. /\ s \in [Nodes -> Nat]
       /\ \A x \in Nodes \ (K \cup R) : x \notin ToSet(more) => s[x] = stamp[x]
       /\ \A x \in ToSet(more) : s[x] = clock[t]
  <2>1. \A x \in ToSet(more) : x \notin K \cup R
    BY <1>7, <1>10
  <2>2. QED
    BY <1>4, <1>7, <1>10, <2>1
<1> HIDE DEF n
<1>13. PICK r, m : Renumbers(t, s, r, m)
  BY <1>4, <1>10, <1>12, ClockDrawn
<1>14. Types'
  <2>1. HarnessTypeOK(Points)'
    BY <1>1, <1>2, <1>5, PointsAre DEF HarnessTypeOK, countVars
  <2>2. free' \in SUBSET Nodes
    BY <1>1, <1>10, <1>11 DEF StackTypeOK, LinkTypeOK
  <2>3. StackTypeOK'
    BY <1>1, <1>10, <2>2 DEF StackTypeOK, LinkTypeOK
  <2>4. /\ clock' \in [Workers -> Nat] /\ drawn' \in [Workers -> Nat]
        /\ seen' \in [Workers -> Nat] /\ stamp' \in [Nodes -> Nat]
    BY <1>1, <1>12, <1>13, OrderStays
  <2>5. QED
    BY <1>1, <1>10, <2>1, <2>3, <2>4 DEF Types, TypeOK
<1>15. HandInv'
  BY <1>1, <1>4, <1>5 DEF HandInv, PushPoints, HandPoints
<1>16. ListInv' /\ RegInv'
  BY <1>1, <1>2, <1>4, <1>5, <1>10 DEF Inv, ListInv, RegInv, OutPoints
<1>17. PlaceInv'
  <2>1. ASSUME NEW x \in Nodes
        PROVE  \E k \in Kinds, w \in Actors : Placed(x, k, w)'
    <3>1. PICK k \in Kinds, w \in Actors : Placed(x, k, w)
      BY <1>1 DEF PlaceInv
    <3>2. CASE x \in ToSet(more)
      <4>a. \A a \in Actors : node'[a] # x
        BY <1>5, <1>7, <3>2
      <4>b. x \notin K /\ x \notin R
        BY <1>7, <1>10, <3>2
      <4>1. /\ x \notin ToSet(contents') /\ x \notin free' /\ x \notin K /\ x \notin R
            /\ \A a \in Actors : node'[a] # x
        BY <1>7, <1>10, <3>2, <4>a, <4>b
      <4>2. \A u \in Workers : /\ x \in ToSet(dirty'[u]) <=> u = t
                               /\ x \notin ToSet(clean'[u])
        BY <1>7, <1>10, <3>2, <4>1
      <4>3. Placed(x, "dirty", t)'
        BY <4>1, <4>2 DEF Placed
      <4>4. QED
        BY <4>3 DEF Kinds
    <3>3. CASE x \in K
      <4>1. k = "dirty" /\ w = t
        BY <1>10, <3>1, <3>3 DEF Placed
      <4>2. /\ x \notin ToSet(contents') /\ x \notin free'
            /\ \A a \in Actors : node'[a] # x
        BY <1>5, <1>10, <3>1, <3>3, <4>1 DEF Placed
      <4>3. \A u \in Workers : /\ x \notin ToSet(dirty'[u])
                               /\ x \in ToSet(clean'[u]) <=> u = t
        BY <1>7, <1>10, <3>1, <3>3, <4>1 DEF Placed
      <4>4. Placed(x, "clean", t)'
        BY <4>2, <4>3 DEF Placed
      <4>5. QED
        BY <4>4 DEF Kinds
    <3>4. CASE x \in R
      <4>1. k = "dirty" /\ w = t
        BY <1>10, <3>1, <3>4 DEF Placed
      <4>2. x \in free' /\ x \notin ToSet(contents')
        BY <1>5, <1>10, <3>1, <3>4, <4>1 DEF Placed
      <4>3. \A a \in Actors : node'[a] # x
        BY <1>5, <3>1, <4>1 DEF Placed
      <4>4. x \notin ToSet(more) /\ x \notin K
        BY <1>7, <1>10, <3>1, <3>4, <4>1
      <4>5. \A u \in Workers : /\ x \notin ToSet(dirty'[u])
                               /\ x \notin ToSet(clean'[u])
        BY <1>10, <3>1, <3>4, <4>1, <4>4 DEF Placed
      <4>6. Placed(x, "free", t)'
        BY <4>2, <4>3, <4>5 DEF Placed
      <4>7. QED
        BY <4>6 DEF Kinds
    <3>5. CASE x \notin ToSet(more) /\ x \notin K /\ x \notin R
      <4>1. x # n
        BY <1>6, <3>5
      <4>2. \A u \in Workers : /\ x \in ToSet(dirty'[u]) <=> x \in ToSet(dirty[u])
                               /\ x \in ToSet(clean'[u]) <=> x \in ToSet(clean[u])
        BY <1>10, <3>5
      <4>3. \A a \in Actors : node'[a] = x <=> node[a] = x
        BY <1>5, <4>1 DEF n
      <4>4. Placed(x, k, w)'
        BY <1>10, <3>1, <3>5, <4>2, <4>3 DEF Placed
      <4>5. QED
        BY <4>4
    <3>6. QED
      BY <3>2, <3>3, <3>4, <3>5
  <2>2. QED
    BY <1>1, <1>10, <2>1 DEF PlaceInv
<1>18. ChainInv'
  <2>1. UNCHANGED <<head, next, contents, cur, nxt>>
    BY <1>10
  <2>2. \A a \in Actors : pc'[a] \in {"pushcas", "popcas"} =>
          pc'[a] = pc[a] /\ node'[a] = node[a]
    BY <1>5
  <2>3. QED
    BY <1>1, <2>1, <2>2 DEF ChainInv
<1>19. OrderInv'
  <2> SUFFICES ASSUME NEW u \in Workers
               PROVE  /\ \A i, j \in 1..Len(dirty'[u]) :
                           i < j => stamp'[dirty'[u][i]] < stamp'[dirty'[u][j]]
                      /\ pc'[u] = "stamp" =>
                           \A x \in ToSet(dirty'[u]) : stamp'[x] < drawn'[u]
                      /\ pc'[u] \in {"scan", "take", "scanned"} /\ node'[u] # NULL =>
                           \A x \in ToSet(dirty'[u]) : stamp'[x] < clock'[u]
    BY DEF OrderInv
  <2>1. CASE u = t
    <3>1. PICK k \in 0..Len(dirty[t]) : \A i \in 1..Len(dirty'[t]) :
            \/ k+i <= Len(dirty[t]) /\ dirty'[t][i] = dirty[t][k+i]
            \/ i = Len(dirty'[t]) /\ dirty'[t][i] \in ToSet(more)
      BY <1>9 DEF Recycles
    <3>2. ASSUME NEW i \in 1..Len(dirty'[t]), NEW j \in 1..Len(dirty'[t]), i < j
          PROVE  stamp'[dirty'[t][i]] < stamp'[dirty'[t][j]]
      <4> DEFINE x == dirty'[t][i]
                 y == dirty'[t][j]
      <4>1. dirty'[t] \in Seq(Nodes) /\ Len(dirty'[t]) \in Nat /\ Len(dirty[t]) \in Nat
        BY <1>10, <1>11
      <4>2. /\ k+i <= Len(dirty[t]) /\ x = dirty[t][k+i] /\ k+i \in 1..Len(dirty[t])
            /\ x \in Nodes /\ y \in Nodes
        BY <3>1, <3>2, <4>1
      <4>3. x \in ToSet(dirty[t]) /\ x \in ToSet(dirty'[t])
        BY <1>11, <4>1, <4>2, InSet
      <4>4. s[x] = stamp[x]
        BY <1>7, <1>10, <1>12, <4>2, <4>3
      <4>5. s[x] < s[y]
        <5>1. CASE y \in ToSet(more)
          <6>1. stamp[x] < clock[t]
            BY <1>1, <1>2, <1>6, <4>3, <5>1 DEF OrderInv, n
          <6>2. QED
            BY <1>12, <4>4, <5>1, <6>1
        <5>2. CASE y \notin ToSet(more)
          <6>1. k+j <= Len(dirty[t]) /\ y = dirty[t][k+j] /\ k+j \in 1..Len(dirty[t])
                /\ k+i < k+j
            BY <3>1, <3>2, <4>1, <5>2
          <6>2. y \in ToSet(dirty'[t])
            BY <4>1, InSet
          <6>3. s[y] = stamp[y]
            BY <1>10, <1>12, <4>2, <5>2, <6>2
          <6>4. stamp[x] < stamp[y]
            BY <1>1, <4>2, <6>1 DEF OrderInv
          <6>5. QED
            BY <4>4, <6>3, <6>4
        <5>3. QED
          BY <5>1, <5>2
      <4> HIDE DEF x, y
      <4>6. stamp'[x] < stamp'[y]
        BY <1>1, <1>12, <1>13, <4>2, <4>5, OrderStays
      <4>7. QED
        BY <4>6 DEF x, y
    <3>3. QED
      BY <1>5, <2>1, <3>2
  <2>2. CASE u # t
    <3>1. /\ dirty'[u] = dirty[u] /\ pc'[u] = pc[u] /\ node'[u] = node[u]
          /\ dirty[u] \in Seq(Nodes)
      BY <1>1, <1>4, <1>5, <1>10, <2>2 DEF Types
    <3>2. /\ \A i \in 1..Len(dirty[u]) : dirty[u][i] \in ToSet(dirty[u])
          /\ ToSet(dirty[u]) \subseteq Nodes
      BY <3>1, InSet
    <3>3. \A x \in ToSet(dirty[u]) : s[x] = stamp[x]
      <4> SUFFICES ASSUME NEW x \in ToSet(dirty[u]) PROVE s[x] = stamp[x]
        OBVIOUS
      <4>1. x \in Nodes /\ x \notin ToSet(more)
        BY <1>7, <3>2
      <4>2. x \notin ToSet(dirty[t])
        BY <1>1, <2>2, <4>1 DEF PlaceInv, Placed
      <4>3. QED
        BY <1>10, <1>12, <4>1, <4>2
    <3>4. \A i, j \in 1..Len(dirty[u]) :
            i < j => stamp'[dirty[u][i]] < stamp'[dirty[u][j]]
      <4>1. \A i, j \in 1..Len(dirty[u]) : i < j => s[dirty[u][i]] < s[dirty[u][j]]
        BY <1>1, <3>2, <3>3 DEF OrderInv
      <4>2. QED
        BY <1>1, <1>12, <1>13, <3>2, <4>1, OrderStays
    <3>5. pc[u] = "stamp" => \A x \in ToSet(dirty[u]) : stamp'[x] < drawn'[u]
      <4>1. pc[u] = "stamp" => \A x \in ToSet(dirty[u]) : s[x] < drawn[u]
        BY <1>1, <3>3 DEF OrderInv
      <4>2. QED
        BY <1>1, <1>12, <1>13, <2>2, <3>2, <4>1, OrderStays
    <3>6. pc[u] \in {"scan", "take", "scanned"} /\ node[u] # NULL =>
            \A x \in ToSet(dirty[u]) : stamp'[x] < clock'[u]
      <4>1. pc[u] \in {"scan", "take", "scanned"} /\ node[u] # NULL =>
              \A x \in ToSet(dirty[u]) : s[x] < clock[u]
        BY <1>1, <3>3 DEF OrderInv
      <4>2. QED
        BY <1>1, <1>12, <1>13, <3>2, <4>1, OrderStays
    <3>7. QED
      BY <3>1, <3>4, <3>5, <3>6
  <2>3. QED
    BY <2>1, <2>2
<1>20. GuardInv'
  <2> SUFFICES ASSUME NEW b \in Workers, pc'[b] \in TryPoints
               PROVE  /\ cur'[b] \in Nodes /\ cur'[b] \notin free'
                      /\ \A u \in Workers : Guarded(b, u, cur[b])'
    BY DEF GuardInv
  <2>1. b # t /\ pc[b] \in TryPoints /\ cur'[b] = cur[b]
    BY <1>4, <1>5, <1>10 DEF TryPoints
  <2>2. PICK x \in Nodes : x = cur[b] /\ x \notin free
                          /\ \A u \in Workers : Guarded(b, u, x)
    BY <1>1, <2>1 DEF GuardInv
  <2>3. x \notin K \cup R
    <3> SUFFICES ASSUME x \in K \cup R PROVE FALSE
      OBVIOUS
    <3>1. x \in ToSet(dirty[t]) /\ stamp[x] < seen[t]
      BY <1>10
    <3>2. clock[b] < stamp[x] /\ seen[t] <= clock[b]
      BY <1>2, <2>2, <3>1 DEF Guarded, Seen
    <3>3. clock[b] \in Nat /\ stamp[x] \in Nat /\ seen[t] \in Nat
      BY <1>4
    <3>4. QED
      BY <3>1, <3>2, <3>3
  <2>4. ASSUME NEW u \in Workers
        PROVE  Guarded(b, u, x)'
    <3>1. CASE u = t
      <4>1. /\ x \notin ToSet(clean'[t]) /\ node'[t] # x
            /\ pc'[t] \notin {"scan", "take", "scanned"}
        BY <1>5, <1>10, <2>2, <2>3 DEF Guarded
      <4>2. ASSUME x \in ToSet(dirty'[t])
            PROVE  clock'[b] < stamp'[x]
        <5>1. clock[b] < s[x]
          <6>1. CASE x \in ToSet(more)
            <7>1. clock[b] < clock[t]
              BY <1>2, <1>6, <2>2, <6>1 DEF Guarded, n
            <7>2. QED
              BY <1>12, <6>1, <7>1
          <6>2. CASE x \notin ToSet(more)
            <7>1. s[x] = stamp[x] /\ x \in ToSet(dirty[t])
              BY <1>10, <1>12, <2>3, <4>2, <6>2
            <7>2. QED
              BY <2>2, <7>1 DEF Guarded
          <6>3. QED
            BY <6>1, <6>2
        <5>2. QED
          BY <1>1, <1>12, <1>13, <5>1, OrderStays
      <4>3. QED
        BY <3>1, <4>1, <4>2 DEF Guarded, Seen
    <3>2. CASE u # t /\ x \in ToSet(more)
      <4>1. node'[u] # x /\ x \notin ToSet(dirty'[u]) /\ x \notin ToSet(clean'[u])
        BY <1>5, <1>7, <1>10, <3>2
      <4>2. QED
        BY <4>1 DEF Guarded
    <3>3. CASE u # t /\ x \notin ToSet(more)
      <4>1. s[x] = stamp[x]
        BY <1>12, <2>3, <3>3
      <4>2. /\ pc'[u] = pc[u] /\ node'[u] = node[u] /\ dirty'[u] = dirty[u]
            /\ clean'[u] = clean[u] /\ clocks' = clocks /\ at' = at
        BY <1>4, <1>5, <1>10, <3>3
      <4>3. u \in Workers \ {t} /\ Guarded(b, u, x)
        BY <2>2, <3>3
      <4>4. QED
        BY <1>1, <1>12, <1>13, <4>1, <4>2, <4>3, GuardRenumbered
    <3>4. QED
      BY <3>1, <3>2, <3>3
  <2>5. QED
    BY <1>10, <2>1, <2>2, <2>3, <2>4
<1>21. QED
  BY <1>3, <1>14, <1>15, <1>16, <1>17, <1>18, <1>19, <1>20 DEF Inv

-----------------------------------------------------------------------------
(* The end of a worker: dereg() *)

\* The worker's loop is over; what it does next depends on its dirty list.
LEMMA DeregisterKeeps ==
  ASSUME Inv, NEW t \in Workers, Deregister(t)
  PROVE  Inv'
<1> USE Threads, StackTestAssumption DEF linkVars, regVars, stackVars, clockVars, listVars
<1>1. /\ Types /\ TypeOK /\ HarnessTypeOK(Points) /\ StackTypeOK
      /\ PlaceInv /\ GuardInv /\ HandInv /\ ChainInv /\ OrderInv /\ RegInv
  BY DEF Inv, Types, TypeOK
<1>2. PICK to \in {"unregister", "scan"} :
        /\ pc[t] = "total" /\ pc' = [pc EXCEPT ![t] = to] /\ Running
        /\ to = IF dirty[t] = << >> THEN "unregister" ELSE "scan"
        /\ totalpushcount' = totalpushcount + pushcount[t]
        /\ totalpopcount' = totalpopcount + popcount[t]
        /\ UNCHANGED <<node, timeup, pushcount, popcount, mypopcount, stackVars,
                       clockVars, listVars>>
  BY DEF Deregister, AddTotals, DeregTest, Goto
<1>3. pc[Main] = "join" /\ MainInv'
  BY <1>2, MainWaits, MainStillWaits
<1>4. pc \in [Actors -> Points] /\ Workers \subseteq Actors /\ clocks \in Seq(Workers)
  BY <1>1 DEF HarnessTypeOK, TypeOK
<1>5. Types'
  <2>1. HarnessTypeOK(Points)'
    BY <1>1, <1>2, PointsAre DEF HarnessTypeOK
  <2>2. StackTypeOK'
    BY <1>1, <1>2 DEF StackTypeOK, LinkTypeOK
  <2>3. QED
    BY <1>1, <1>2, <2>1, <2>2, ListTypesStay
<1>6. node[t] = NULL
  BY <1>1, <1>2 DEF HandInv, PushPoints, HandPoints
<1>7. HandInv'
  BY <1>1, <1>2, <1>4, <1>6 DEF HandInv, PushPoints, HandPoints
<1>8. ListInv'
  BY <1>2, <1>4 DEF Inv, ListInv, OutPoints
<1>9. RegInv'
  <2>1. t \in ToSet(clocks) /\ at[t] = 1
    BY <1>1, <1>2 DEF RegInv, OutPoints
  <2>2. 1 \in 1..Len(clocks)
    BY <1>4, <2>1, InSet
  <2>3. QED
    BY <1>1, <1>2, <1>4, <2>1, <2>2 DEF RegInv, OutPoints
<1>10. PlaceInv' /\ ChainInv' /\ OrderInv'
  BY <1>1, <1>2, <1>4, <1>6 DEF PlaceInv, Placed, ChainInv, OrderInv
<1>11. GuardInv'
  <2> SUFFICES ASSUME NEW b \in Workers, pc'[b] \in TryPoints
               PROVE  /\ cur'[b] \in Nodes /\ cur'[b] \notin free'
                      /\ \A u \in Workers : Guarded(b, u, cur[b])'
    BY DEF GuardInv
  <2>1. b # t /\ pc[b] \in TryPoints /\ cur'[b] = cur[b]
    BY <1>2, <1>4 DEF TryPoints
  <2>2. PICK n \in Nodes : n = cur[b] /\ n \notin free
                          /\ \A u \in Workers : Guarded(b, u, n)
    BY <1>1, <2>1 DEF GuardInv
  <2>3. ASSUME NEW u \in Workers
        PROVE  Guarded(b, u, n)'
    <3>1. CASE u = t
      <4>1. PICK i \in 1..Len(clocks) : clocks[i] = b
        BY <2>1, Registered
      <4>2. pc'[t] = to /\ at[t] = 1
        BY <1>1, <1>2, <1>4 DEF RegInv
      <4>3. Seen(t, b)'
        BY <1>2, <4>1, <4>2 DEF Seen
      <4>4. QED
        BY <1>2, <1>6, <2>2, <3>1, <4>3 DEF Guarded
    <3>2. CASE u # t
      BY <1>2, <1>4, <2>2, <3>2 DEF Guarded, Seen
    <3>3. QED
      BY <3>1, <3>2
  <2>4. QED
    BY <1>2, <2>1, <2>2, <2>3
<1>12. QED
  BY <1>3, <1>5, <1>7, <1>8, <1>9, <1>10, <1>11 DEF Inv

\* The thread's clock is no longer in the way of the others, and its clean list
\* is deleted.
LEMMA UnregisterKeeps ==
  ASSUME Inv, NEW t \in Workers, Unregister(t)
  PROVE  Inv'
<1> USE Threads, StackTestAssumption DEF linkVars, regVars, stackVars
<1>1. /\ Types /\ TypeOK /\ HarnessTypeOK(Points) /\ StackTypeOK
      /\ PlaceInv /\ GuardInv /\ HandInv /\ ChainInv /\ OrderInv /\ RegInv /\ ListInv
  BY DEF Inv, Types, TypeOK
<1>2. /\ pc[t] = "unregister" /\ pc' = [pc EXCEPT ![t] = "done"] /\ Running
      /\ \A u \in Workers : pc[u] \notin {"scan", "take"}
      /\ free' = free \cup ToSet(clean[t])
      /\ clean' = [clean EXCEPT ![t] = << >>] /\ clock' = [clock EXCEPT ![t] = 0]
      /\ UNCHANGED <<node, countVars, head, next, contents, regVars, drawn, seen,
                     stamp, at, dirty>>
  BY DEF Unregister, StackStep, Goto, Unlocked, ScanPoints
<1>3. pc[Main] = "join" /\ MainInv'
  BY <1>2, MainWaits, MainStillWaits
<1>4. /\ pc \in [Actors -> Points] /\ Workers \subseteq Actors
      /\ clocks \in Seq(Workers) /\ clock \in [Workers -> Nat]
      /\ clean \in [Workers -> Seq(Nodes)]
  BY <1>1 DEF HarnessTypeOK, TypeOK, Types
<1>5. /\ clocks' \in Seq(Workers) /\ Inj(clocks')
      /\ ToSet(clocks') = ToSet(clocks) \ {t}
  <2>1. DOMAIN clocks = 1..Len(clocks) /\ Inj(clocks)
    BY <1>1, <1>4, InSet DEF RegInv
  <2>2. PICK i \in 1..Len(clocks) : clocks[i] = t /\ clocks' = RemoveAt(clocks, i)
    BY <2>1 DEF Unregister
  <2>3. QED
    BY <1>4, <2>1, <2>2, RemoveSet
<1>6. /\ clean' \in [Workers -> Seq(Nodes)]
      /\ \A u \in Workers : clean'[u] = IF u = t THEN << >> ELSE clean[u]
      /\ clock' \in [Workers -> Nat]
      /\ \A u \in Workers \ {t} : clock'[u] = clock[u]
      /\ pc'[t] = "done" /\ \A a \in Actors \ {t} : pc'[a] = pc[a]
  BY <1>2, <1>4
<1>7. ToSet(<< >>) = {} /\ Inj(<< >>) /\ Len(<< >>) = 0
  BY DEF ToSet, Inj
<1>8. \A u \in Workers :
        /\ Inj(clean'[u]) /\ Len(clean'[u]) <= ListSize
        /\ ToSet(clean'[u]) = IF u = t THEN {} ELSE ToSet(clean[u])
  <2>1. \A u \in Workers : Inj(clean[u]) /\ Len(clean[u]) <= ListSize
    BY <1>1 DEF PlaceInv, TypeOK
  <2>2. 0 <= ListSize
    BY GarbageCollectorAssumption
  <2>3. QED
    BY <1>6, <1>7, <2>1, <2>2
<1>9. ToSet(clean[t]) \subseteq Nodes
  BY <1>4, InSet
<1>10. Types'
  <2>1. HarnessTypeOK(Points)'
    BY <1>1, <1>2, PointsAre DEF HarnessTypeOK, countVars
  <2>2. StackTypeOK'
    BY <1>1, <1>2, <1>9 DEF StackTypeOK, LinkTypeOK
  <2>3. QED
    BY <1>1, <1>2, <1>5, <1>6, <1>8, <2>1, <2>2 DEF Types, TypeOK
<1>11. HandInv'
  BY <1>1, <1>2, <1>6 DEF HandInv, PushPoints, HandPoints
<1>12. ListInv'
  BY <1>1, <1>2, <1>6 DEF ListInv, OutPoints
<1>13. RegInv'
  BY <1>1, <1>2, <1>5, <1>6 DEF RegInv, OutPoints
<1>14. PlaceInv'
  <2>1. ASSUME NEW x \in Nodes
        PROVE  \E k \in Kinds, w \in Actors : Placed(x, k, w)'
    <3>1. PICK k \in Kinds, w \in Actors : Placed(x, k, w)
      BY <1>1 DEF PlaceInv
    <3>2. CASE x \in ToSet(clean[t])
      <4>1. k = "clean" /\ w = t
        BY <3>1, <3>2 DEF Placed
      <4>2. \A u \in Workers : x \notin ToSet(clean'[u])
        BY <1>8, <3>1, <4>1 DEF Placed
      <4>3. Placed(x, "free", t)'
        BY <1>2, <3>1, <3>2, <4>1, <4>2 DEF Placed
      <4>4. QED
        BY <4>3 DEF Kinds
    <3>3. CASE x \notin ToSet(clean[t])
      <4>1. \A u \in Workers : x \in ToSet(clean'[u]) <=> x \in ToSet(clean[u])
        BY <1>8, <3>3
      <4>2. Placed(x, k, w)'
        BY <1>2, <3>1, <3>3, <4>1 DEF Placed
      <4>3. QED
        BY <4>2
    <3>4. QED
      BY <3>2, <3>3
  <2>2. QED
    BY <1>1, <1>2, <1>8, <2>1 DEF PlaceInv
<1>15. ChainInv'
  BY <1>1, <1>2, <1>6 DEF ChainInv
<1>16. OrderInv'
  BY <1>1, <1>2, <1>6 DEF OrderInv
<1>17. GuardInv'
  <2> SUFFICES ASSUME NEW b \in Workers, pc'[b] \in TryPoints
               PROVE  /\ cur'[b] \in Nodes /\ cur'[b] \notin free'
                      /\ \A u \in Workers : Guarded(b, u, cur[b])'
    BY DEF GuardInv
  <2>1. b # t /\ pc[b] \in TryPoints /\ cur'[b] = cur[b]
    BY <1>2, <1>6 DEF TryPoints
  <2>2. PICK n \in Nodes : n = cur[b] /\ n \notin free
                          /\ \A u \in Workers : Guarded(b, u, n)
    BY <1>1, <2>1 DEF GuardInv
  <2>3. n \notin ToSet(clean[t])
    BY <2>2 DEF Guarded
  <2>4. ASSUME NEW u \in Workers
        PROVE  Guarded(b, u, n)'
    <3>1. n \notin ToSet(clean'[u])
      BY <1>8, <2>2 DEF Guarded
    <3>2. CASE u = t
      <4>1. node[t] = NULL /\ dirty[t] = << >>
        BY <1>1, <1>2 DEF HandInv, ListInv, PushPoints, HandPoints
      <4>2. QED
        BY <1>2, <1>7, <3>1, <3>2, <4>1 DEF Guarded
    <3>3. CASE u # t
      <4>1. pc[u] \notin {"scan", "take"} /\ pc'[u] = pc[u] /\ clock'[u] = clock[u] /\ clock'[b] = clock[b]
        BY <1>2, <1>6, <2>1, <3>3
      <4>2. QED
        BY <1>2, <2>2, <3>1, <4>1 DEF Guarded, Seen
    <3>4. QED
      BY <3>2, <3>3
  <2>5. QED
    BY <1>2, <2>1, <2>2, <2>3, <2>4
<1>18. QED
  BY <1>3, <1>10, <1>11, <1>12, <1>13, <1>14, <1>15, <1>16, <1>17 DEF Inv

\* The process ends with a thread in clean(); main stops where it is.
LEMMA DirtyListFullKeeps ==
  ASSUME Inv, NEW t \in Workers, DirtyListFull(t)
  PROVE  Inv'
<1> USE Threads, StackTestAssumption DEF linkVars, regVars, stackVars, clockVars, listVars
<1>1. /\ Types /\ TypeOK /\ HarnessTypeOK(Points) /\ StackTypeOK
      /\ PlaceInv /\ GuardInv /\ HandInv /\ ChainInv /\ OrderInv /\ RegInv /\ ListInv
  BY DEF Inv, Types, TypeOK
<1>2. /\ pc[Main] = "join" /\ pc' = [pc EXCEPT ![Main] = "aborted"]
      /\ UNCHANGED <<node, countVars, stackVars, clockVars, listVars>>
  BY DEF DirtyListFull, Goto
<1>3. pc \in [Actors -> Points] /\ \A u \in Workers : u \in Actors \ {Main}
  BY <1>1 DEF HarnessTypeOK
<1>4. pc'[Main] = "aborted" /\ \A u \in Workers : pc'[u] = pc[u]
  BY <1>2, <1>3
<1>5. Types'
  <2>1. HarnessTypeOK(Points)'
    BY <1>1, <1>2, PointsAre DEF HarnessTypeOK, countVars
  <2>2. StackTypeOK'
    BY <1>1, <1>2 DEF StackTypeOK, LinkTypeOK
  <2>3. QED
    BY <1>1, <1>2, <2>1, <2>2, ListTypesStay
<1>6. MainInv'
  BY <1>4 DEF MainInv, MainPoints, TryPoints
<1>7. HandInv'
  BY <1>1, <1>2, <1>3, <1>4 DEF HandInv, PushPoints, HandPoints
<1>8. ListInv' /\ RegInv' /\ PlaceInv' /\ OrderInv' /\ GuardInv'
  BY <1>1, <1>2, <1>4 DEF ListInv, RegInv, PlaceInv, Placed, OrderInv, GuardInv, Guarded,
                          Seen
<1>9. ChainInv'
  BY <1>1, <1>2, <1>3, <1>4 DEF ChainInv
<1>10. QED
  BY <1>5, <1>6, <1>7, <1>8, <1>9 DEF Inv

-----------------------------------------------------------------------------
(* main() *)

\* main waits for the workers; when it has popped nothing, it prints.
LEMMA MainStepKeeps ==
  ASSUME Inv, MainStep, UNCHANGED <<stackVars, clockVars, listVars>>
  PROVE  Inv'
<1> USE Threads, StackTestAssumption DEF linkVars, regVars, stackVars, clockVars, listVars
<1>1. /\ Types /\ TypeOK /\ HarnessTypeOK(Points) /\ StackTypeOK
      /\ PlaceInv /\ HandInv /\ ChainInv /\ OrderInv /\ RegInv /\ ListInv /\ MainInv
  BY DEF Inv, Types, TypeOK
<1>2. PICK to \in {"pop", "exit"} :
        /\ pc' = [pc EXCEPT ![Main] = to] /\ pc[Main] \in {"join", "popped"}
        /\ \/ to = "pop" /\ pc[Main] = "join" /\ \A t \in Workers : pc[t] = "done"
           \/ to = "exit" /\ pc[Main] = "popped" /\ node[Main] = NULL
        /\ UNCHANGED <<node, countVars>>
  BY DEF MainStep, Join, PrintTotals, StackStep, Goto
<1>3. pc \in [Actors -> Points] /\ \A u \in Workers : u \in Actors \ {Main}
  BY <1>1 DEF HarnessTypeOK
<1>4. /\ pc'[Main] = to /\ \A u \in Workers : pc'[u] = pc[u]
      /\ \A u \in Workers : pc[u] = "done"
  BY <1>1, <1>2, <1>3 DEF MainInv
<1>5. Types'
  <2>1. HarnessTypeOK(Points)'
    BY <1>1, <1>2, PointsAre DEF HarnessTypeOK, countVars
  <2>2. StackTypeOK'
    BY <1>1, <1>2 DEF StackTypeOK, LinkTypeOK
  <2>3. QED
    BY <1>1, <1>2, <2>1, <2>2, ListTypesStay
<1>6. MainInv'
  BY <1>1, <1>2, <1>4 DEF MainInv, MainPoints, TryPoints
<1>7. HandInv'
  <2>1. node[Main] = NULL
    BY <1>1, <1>2 DEF HandInv, PushPoints, HandPoints
  <2>2. QED
    BY <1>1, <1>2, <1>3, <1>4, <2>1 DEF HandInv, PushPoints, HandPoints
<1>8. ListInv' /\ RegInv' /\ PlaceInv' /\ OrderInv'
  BY <1>1, <1>2, <1>4 DEF ListInv, RegInv, PlaceInv, Placed, OrderInv
<1>9. ChainInv'
  BY <1>1, <1>2, <1>3, <1>4 DEF ChainInv
<1>10. GuardInv'
  BY <1>4 DEF GuardInv, TryPoints
<1>11. QED
  BY <1>5, <1>6, <1>7, <1>8, <1>9, <1>10 DEF Inv

\* main deletes what it pops.
LEMMA DeleteLeftoverKeeps ==
  ASSUME Inv, DeleteLeftover, UNCHANGED <<regVars, clockVars, listVars>>
  PROVE  Inv'
<1> USE Threads, StackTestAssumption DEF linkVars, regVars, stackVars, clockVars, listVars
<1>1. /\ Types /\ TypeOK /\ HarnessTypeOK(Points) /\ StackTypeOK
      /\ PlaceInv /\ HandInv /\ ChainInv /\ OrderInv /\ RegInv /\ ListInv /\ MainInv
  BY DEF Inv, Types, TypeOK
<1> DEFINE n == node[Main]
<1>2. /\ pc' = [pc EXCEPT ![Main] = "pop"] /\ pc[Main] = "popped"
      /\ n # NULL /\ node' = [node EXCEPT ![Main] = NULL]
      /\ free' = free \cup {n} /\ mypopcount' = mypopcount + 1
      /\ UNCHANGED <<timeup, pushcount, popcount, totalpushcount, totalpopcount,
                     head, next, contents>>
  BY DEF DeleteLeftover, CountLeftover, Goto
<1>3. /\ pc \in [Actors -> Points] /\ \A u \in Workers : u \in Actors \ {Main}
      /\ node \in [Actors -> Nodes \cup {NULL}] /\ n \in Nodes
  BY <1>1, <1>2 DEF HarnessTypeOK
<1>4. /\ pc'[Main] = "pop" /\ \A u \in Workers : pc'[u] = pc[u] /\ pc[u] = "done"
      /\ \A a \in Actors : node'[a] = IF a = Main THEN NULL ELSE node[a]
  BY <1>1, <1>2, <1>3 DEF MainInv
<1>5. /\ n \notin ToSet(contents) /\ \A a \in Actors \ {Main} : node[a] # n
      /\ \A u \in Workers : n \notin ToSet(dirty[u]) /\ n \notin ToSet(clean[u])
  BY <1>1, <1>3 DEF PlaceInv, Placed
<1>6. Types'
  <2>1. HarnessTypeOK(Points)'
    BY <1>1, <1>2, PointsAre DEF HarnessTypeOK
  <2>2. StackTypeOK'
    BY <1>1, <1>2, <1>3 DEF StackTypeOK, LinkTypeOK
  <2>3. QED
    BY <1>1, <1>2, <2>1, <2>2, ListTypesStay
<1> HIDE DEF n
<1>7. MainInv'
  BY <1>4 DEF MainInv, MainPoints, TryPoints
<1>8. HandInv'
  BY <1>1, <1>3, <1>4 DEF HandInv, PushPoints, HandPoints
<1>9. ListInv' /\ RegInv' /\ OrderInv'
  BY <1>1, <1>2, <1>4 DEF ListInv, RegInv, OrderInv
<1>10. PlaceInv'
  <2>1. ASSUME NEW x \in Nodes
        PROVE  \E k \in Kinds, w \in Actors : Placed(x, k, w)'
    <3>1. PICK k \in Kinds, w \in Actors : Placed(x, k, w)
      BY <1>1 DEF PlaceInv
    <3>2. CASE x = n
      <4>1. Placed(x, "free", Main)'
        BY <1>2, <1>3, <1>4, <1>5, <3>2 DEF Placed
      <4>2. QED
        BY <4>1 DEF Kinds
    <3>3. CASE x # n
      <4>1. Placed(x, k, w)'
        BY <1>2, <1>3, <1>4, <3>1, <3>3 DEF Placed, n
      <4>2. QED
        BY <4>1
    <3>4. QED
      BY <3>2, <3>3
  <2>2. QED
    BY <1>1, <1>2, <2>1 DEF PlaceInv
<1>11. ChainInv'
  BY <1>1, <1>2, <1>3, <1>4 DEF ChainInv
<1>12. GuardInv'
  BY <1>4 DEF GuardInv, TryPoints
<1>13. QED
  BY <1>6, <1>7, <1>8, <1>9, <1>10, <1>11, <1>12 DEF Inv

\* main pops through the same code as the workers; nobody disturbs it.
LEMMA MainPopKeeps ==
  ASSUME Inv, Pop(Main), UNCHANGED <<clockVars, listVars>>
  PROVE  Inv'
<1> USE Threads, StackTestAssumption DEF StackStep, Goto, TryPoints
<1>1. /\ Types /\ TypeOK /\ HarnessTypeOK(Points) /\ StackTypeOK /\ MainInv /\ ChainInv
      /\ HandInv
  BY DEF Inv, Types, TypeOK
<1>2. PICK to \in {"popped", "pop", "popread", "popnext", "popcas"} :
        /\ pc' = [pc EXCEPT ![Main] = to]
        /\ pc[Main] \in {"pop", "popread", "popnext", "popcas"}
        /\ to = "popped" => \/ head = NULL /\ contents' = contents
                            \/ node'[Main] = head /\ head # NULL
        /\ to = "popnext" => head # NULL /\ cur'[Main] = head /\ head' = head
        /\ to = "popcas" => pc[Main] = "popnext" /\ cur' = cur /\ head' = head
  <2>1. CASE PopEmpty(Main)
    BY <2>1 DEF PopEmpty, PopReturns, stackVars
  <2>2. CASE PopTry(Main) \/ PopFail(Main)
    BY <2>2 DEF PopTry, PopFail
  <2>3. CASE PopRead(Main)
    BY <1>1, <2>3 DEF PopRead, StackTypeOK, linkVars
  <2>4. CASE PopNext(Main)
    BY <1>1, <2>4 DEF PopNext, linkVars
  <2>5. CASE PopSwap(Main)
    <3>1. cur[Main] = head /\ head # NULL
      BY <1>1, <2>5 DEF PopSwap, PopReturns, MainInv
    <3>2. QED
      BY <1>1, <2>5, <3>1 DEF PopSwap, PopReturns, HarnessTypeOK
  <2>6. QED
    BY <2>1, <2>2, <2>3, <2>4, <2>5 DEF Pop
<1>3. pc'[Main] = to /\ \A u \in Workers : pc'[u] = pc[u] /\ pc[u] = "done"
  BY <1>1, <1>2 DEF MainInv, HarnessTypeOK
<1>4. head = NULL => contents = << >>
  BY <1>1, HeadIs
<1>5. MainInv'
  <2>1. to = "popped" /\ node'[Main] = NULL => contents' = << >>
    BY <1>2, <1>4
  <2>2. to \in {"popnext", "popcas"} => cur'[Main] = head' /\ head' # NULL
    BY <1>1, <1>2 DEF MainInv
  <2>3. QED
    BY <1>2, <1>3, <2>1, <2>2 DEF MainInv, MainPoints
<1>6. CASE QuietPop(Main)
  <2>1. Types' /\ \E p : Quiet(Main, p)
    BY <1>6, QuietPopIs
  <2>2. QED
    BY <1>5, <2>1, QuietKeeps DEF Inv
<1>7. CASE PopSwap(Main)
  BY <1>5, <1>7, PopSwapKeeps DEF Inv
<1>8. QED
  BY <1>6, <1>7 DEF Pop, QuietPop

-----------------------------------------------------------------------------
(* The invariant is one *)

\* Every step of a worker keeps the invariant, ...
LEMMA WorkerKeeps ==
  ASSUME N <= 2, Inv, NEW t \in Workers, Worker(t)
  PROVE  Inv'
<1>1. CASE QuietStep(t) \/ (QuietPop(t) /\ t \in Actors)
  <2>1. PICK to : Types' /\ Running /\ Quiet(t, to)
    BY <1>1, QuietIs, QuietPopIs
  <2>2. pc[t] # "done" /\ pc' = [pc EXCEPT ![t] = to]
    BY <2>1 DEF Quiet, QuietPoints, OpPoints
  <2>3. MainInv'
    BY <2>1, <2>2, MainWaits, MainStillWaits
  <2>4. QED
    BY <2>1, <2>3, Threads, QuietKeeps DEF Inv
<1>2. CASE PopSwap(t) /\ UNCHANGED <<clockVars, listVars>>
  <2>1. Running /\ pc[t] = "popcas" /\ pc' = [pc EXCEPT ![t] = "popped"]
    BY <1>2 DEF PopSwap, PopReturns, Goto
  <2>2. MainInv'
    BY <2>1, MainWaits, MainStillWaits
  <2>3. QED
    BY <1>2, <2>2, Threads, PopSwapKeeps DEF Inv
<1>3. CASE Push(t) /\ UNCHANGED <<clockVars, listVars>>
  BY <1>1, <1>3, PushLinkKeeps, PushSwapKeeps DEF Push, QuietStep
<1>4. CASE Pop(t) /\ UNCHANGED <<clockVars, listVars>>
  BY <1>1, <1>2, <1>4, Threads DEF Pop, QuietPop
<1>5. CASE \/ /\ BeginPop(t) \/ CountPush(t) \/ Again(t) \/ Leave(t)
              /\ UNCHANGED <<stackVars, clockVars, listVars>>
           \/ NothingPopped(t)
  BY <1>1, <1>5 DEF QuietStep
<1>6. CASE Reuse(t) \/ Allocate(t)
  BY <1>6, AllocKeeps
<1>7. CASE Collect(t) \/ LockForWriting(t)
  BY <1>7, DrawKeeps, StoreKeeps, ScanKeeps, DeleteAtOnceKeeps, KeepDirtyKeeps,
     CleanupKeeps, DeregisterKeeps, UnregisterKeeps DEF Collect, LockForWriting
<1>8. CASE DirtyListFull(t)
  BY <1>8, DirtyListFullKeeps
<1>9. QED
  BY <1>3, <1>4, <1>5, <1>6, <1>7, <1>8 DEF Worker

\* ... and so does every step of the program.
LEMMA InvStep == N <= 2 /\ Inv /\ [Next]_vars => Inv'
<1> SUFFICES ASSUME N <= 2, Inv, [Next]_vars PROVE Inv'
  OBVIOUS
<1>1. CASE UNCHANGED <<pc, node, pushcount, popcount, totalpushcount, totalpopcount,
                       mypopcount, stackVars, clockVars, listVars>> /\ timeup' \in BOOLEAN
  <2> USE <1>1 DEF stackVars, clockVars, listVars
  <2>1. Types'
    BY DEF Inv, Types, TypeOK, HarnessTypeOK, StackTypeOK, LinkTypeOK
  <2>2. MainInv' /\ HandInv' /\ ListInv' /\ RegInv' /\ PlaceInv' /\ ChainInv'
    BY DEF Inv, MainInv, HandInv, ListInv, RegInv, PlaceInv, Placed, ChainInv
  <2>3. GuardInv' /\ OrderInv'
    BY DEF Inv, GuardInv, Guarded, Seen, OrderInv
  <2>4. QED
    BY <2>1, <2>2, <2>3 DEF Inv
<1>2. CASE UNCHANGED vars
  <2>1. timeup \in BOOLEAN
    BY DEF Inv, Types, TypeOK, HarnessTypeOK
  <2>2. QED
    BY <1>1, <1>2, <2>1 DEF vars, harnessVars
<1>3. CASE TimeUp /\ UNCHANGED <<stackVars, clockVars, listVars>>
  BY <1>1, <1>3 DEF TimeUp
<1>4. CASE MainThread
  BY <1>4, MainStepKeeps, DeleteLeftoverKeeps, MainPopKeeps DEF MainThread
<1>5. CASE \E t \in Workers : Worker(t)
  BY <1>5, WorkerKeeps
<1>6. QED
  BY <1>2, <1>3, <1>4, <1>5 DEF Next

\* With at most two threads the invariant holds, however many nodes and pushes
\* there are.
THEOREM Invariance == ASSUME N <= 2 PROVE Spec => []Inv
<1>1. QED
  BY InvInit, InvStep, PTL DEF Spec

\* The types of the collector's data, with at most two threads: no list grows
\* beyond its capacity.
THEOREM TypeCorrect == ASSUME N <= 2 PROVE Spec => []TypeOK
<1>1. Inv => TypeOK
  BY DEF Inv, Types
<1>2. QED
  BY <1>1, Invariance, PTL

\* No A-B-A with at most two threads: when the swap of trypop() succeeds, what it read as the successor
\* of the top of the stack still is.
THEOREM NoReuse == ASSUME N <= 2 PROVE Spec => []NoABA
<1>1. Inv => NoABA
  BY DEF Inv, ChainInv, NoABA
<1>2. QED
  BY <1>1, Invariance, PTL

\* With at most two threads the dirty lists are in the order of the clocks, so
\* that cleanup() may stop at the first node that is too young.
THEOREM Sorted == ASSUME N <= 2 PROVE Spec => []DirtySorted
<1>1. Inv => DirtySorted
  <2> SUFFICES ASSUME Inv, NEW t \in Workers
               PROVE  \A i, j \in DOMAIN dirty[t] :
                        i < j => stamp[dirty[t][i]] < stamp[dirty[t][j]]
    BY DEF DirtySorted
  <2>1. DOMAIN dirty[t] = 1..Len(dirty[t])
    BY InSet DEF Inv, Types
  <2>2. QED
    BY <2>1 DEF Inv, OrderInv
<1>2. QED
  BY <1>1, Invariance, PTL

\* What the clocks are for, and fulfil for two threads: while one has a node in
\* trypop(), the node is not deleted, not ready to be used again and not on its
\* way back.
THEOREM Protection == ASSUME N <= 2 PROVE Spec => []Protected
<1>1. Inv => Protected
  <2> SUFFICES ASSUME Inv, NEW a \in Actors, pc[a] \in {"popnext", "popcas"}
               PROVE  /\ cur[a] \notin free
                      /\ \A t \in Workers : cur[a] \notin ToSet(clean[t])
                      /\ \A t \in Workers : cur[a] = node[t] =>
                           pc[t] \notin {"push", "pushlink", "pushcas", "backoff",
                                         "widen"}
    BY DEF Protected
  <2>1. CASE a = Main
    <3>1. cur[a] \in Nodes /\ cur[a] \in ToSet(contents)
      BY <2>1, HeadIs DEF Inv, MainInv, TryPoints
    <3>2. QED
      BY <3>1, Threads, OnStack DEF Inv
  <2>2. CASE a # Main
    BY <2>2, Threads DEF Inv, GuardInv, Guarded, TryPoints, HandPoints
  <2>3. QED
    BY <2>1, <2>2
<1>2. QED
  BY <1>1, Invariance, PTL

\* When main returns, after at most two workers, every node has been deleted:
\* the stack is empty, the workers' lists are, and nobody has a node in hand.
THEOREM NoLeaks == ASSUME N <= 2 PROVE Spec => []NoLeak
<1>1. Inv => NoLeak
  <2> SUFFICES ASSUME Inv, pc[Main] = "exit" PROVE free = Nodes
    BY DEF NoLeak
  <2>1. /\ \A t \in Workers : pc[t] = "done"
        /\ node[Main] = NULL /\ contents = << >>
    BY DEF Inv, MainInv
  <2>2. \A t \in Workers : dirty[t] = << >> /\ clean[t] = << >>
    BY <2>1 DEF Inv, ListInv, OutPoints
  <2>3. \A a \in Actors : node[a] = NULL
    BY <2>1, Threads DEF Inv, HandInv, PushPoints, HandPoints
  <2>4. ToSet(<< >>) = {}
    BY DEF ToSet
  <2>5. ASSUME NEW n \in Nodes
        PROVE  n \in free
    <3>1. PICK k \in Kinds, w \in Actors : Placed(n, k, w)
      BY DEF Inv, PlaceInv
    <3>2. k # "stack"
      BY <2>1, <2>4, <3>1 DEF Placed
    <3>3. k # "hand"
      BY <2>3, <3>1, StackTestAssumption DEF Placed
    <3>4. k \notin {"dirty", "clean"}
      <4> SUFFICES ASSUME k \in {"dirty", "clean"} PROVE FALSE
        OBVIOUS
      <4>1. w \in Workers /\ (n \in ToSet(dirty[w]) \/ n \in ToSet(clean[w]))
        BY <3>1 DEF Placed
      <4>2. QED
        BY <2>2, <2>4, <4>1
    <3>5. QED
      BY <3>1, <3>2, <3>3, <3>4 DEF Placed, Kinds
  <2>6. free \subseteq Nodes
    BY DEF Inv, Types, TypeOK, StackTypeOK, LinkTypeOK
  <2>7. QED
    BY <2>5, <2>6
<1>2. QED
  BY <1>1, Invariance, PTL

\* In a sequence without repetitions a node is at one place or at none.
LEMMA OnePlace ==
  ASSUME NEW s \in Seq(Nodes), Inj(s), NEW n
  PROVE  /\ n \notin ToSet(s) => In(n, s) = {}
         /\ n \in ToSet(s) => \E i : In(n, s) = {i}
<1>1. /\ DOMAIN s = 1..Len(s)
      /\ n \in ToSet(s) <=> \E i \in 1..Len(s) : s[i] = n
  BY InSet
<1>2. CASE n \notin ToSet(s)
  BY <1>1, <1>2 DEF In
<1>3. CASE n \in ToSet(s)
  <2>1. PICK i \in 1..Len(s) : s[i] = n
    BY <1>1, <1>3
  <2>2. \A j \in 1..Len(s) : s[j] = n => j = i
    BY <2>1 DEF Inj
  <2>3. In(n, s) = {i}
    BY <1>1, <2>1, <2>2 DEF In
  <2>4. QED
    BY <1>3, <2>3
<1>4. QED
  BY <1>2, <1>3

\* With at most two threads every node is in one place: none is lost, and none
\* is deleted or handed out twice.
THEOREM Conserved == ASSUME N <= 2 PROVE Spec => []NodesConserved
<1>1. Inv => NodesConserved
  <2> SUFFICES ASSUME Inv, NEW n \in Nodes
               PROVE  Cardinality(Places(n)) = 1
    BY DEF NodesConserved
  <2> DEFINE S == {<<"stack", 0, i>> : i \in In(n, contents)}
             H == {<<"hand", a, 0>> : a \in {b \in Actors : node[b] = n}}
             D == UNION {{<<"dirty", t, i>> : i \in In(n, dirty[t])} : t \in Workers}
             C == UNION {{<<"clean", t, i>> : i \in In(n, clean[t])} : t \in Workers}
             F == IF n \in free THEN {<<"free", 0, 0>>} ELSE {}
  <2>1. PICK k \in Kinds, w \in Actors : Placed(n, k, w)
    BY DEF Inv, PlaceInv
  <2>2. /\ contents \in Seq(Nodes) /\ Inj(contents)
        /\ \A t \in Workers : /\ dirty[t] \in Seq(Nodes) /\ Inj(dirty[t])
                              /\ clean[t] \in Seq(Nodes) /\ Inj(clean[t])
    BY DEF Inv, Types, TypeOK, StackTypeOK, LinkTypeOK, PlaceInv
  <2>3. IF k = "stack" THEN \E i : In(n, contents) = {i} ELSE In(n, contents) = {}
    BY <2>1, <2>2, OnePlace DEF Placed
  <2>4. {b \in Actors : node[b] = n} = IF k = "hand" THEN {w} ELSE {}
    BY <2>1 DEF Placed
  <2>5. \A t \in Workers : IF k = "dirty" /\ w = t THEN \E i : In(n, dirty[t]) = {i}
                                                   ELSE In(n, dirty[t]) = {}
    BY <2>1, <2>2, OnePlace DEF Placed
  <2>6. \A t \in Workers : IF k = "clean" /\ w = t THEN \E i : In(n, clean[t]) = {i}
                                                   ELSE In(n, clean[t]) = {}
    BY <2>1, <2>2, OnePlace DEF Placed
  <2>7. IF k = "stack" THEN \E p : S = {p} ELSE S = {}
    <3>1. CASE k = "stack"
      <4>1. PICK i : In(n, contents) = {i}
        BY <2>3, <3>1
      <4>2. S = {<<"stack", 0, i>>}
        BY <4>1
      <4>3. QED
        BY <3>1, <4>2
    <3>2. CASE k # "stack"
      BY <2>3, <3>2
    <3>3. QED
      BY <3>1, <3>2
  <2>8. IF k = "hand" THEN \E p : H = {p} ELSE H = {}
    <3>1. CASE k = "hand"
      <4>1. H = {<<"hand", w, 0>>}
        BY <2>4, <3>1
      <4>2. QED
        BY <3>1, <4>1
    <3>2. CASE k # "hand"
      BY <2>4, <3>2
    <3>3. QED
      BY <3>1, <3>2
  <2>9. IF k = "dirty" THEN \E p : D = {p} ELSE D = {}
    <3>1. CASE k = "dirty"
      <4>1. w \in Workers
        BY <2>1, <3>1 DEF Placed
      <4>2. PICK i : In(n, dirty[w]) = {i}
        BY <2>5, <3>1, <4>1
      <4>3. \A x : x \in D <=> x = <<"dirty", w, i>>
        BY <2>5, <3>1, <4>1, <4>2
      <4>4. D = {<<"dirty", w, i>>}
        BY <4>3
      <4>5. QED
        BY <3>1, <4>4
    <3>2. CASE k # "dirty"
      BY <2>5, <3>2
    <3>3. QED
      BY <3>1, <3>2
  <2>10. IF k = "clean" THEN \E p : C = {p} ELSE C = {}
    <3>1. CASE k = "clean"
      <4>1. w \in Workers
        BY <2>1, <3>1 DEF Placed
      <4>2. PICK i : In(n, clean[w]) = {i}
        BY <2>6, <3>1, <4>1
      <4>3. \A x : x \in C <=> x = <<"clean", w, i>>
        BY <2>6, <3>1, <4>1, <4>2
      <4>4. C = {<<"clean", w, i>>}
        BY <4>3
      <4>5. QED
        BY <3>1, <4>4
    <3>2. CASE k # "clean"
      BY <2>6, <3>2
    <3>3. QED
      BY <3>1, <3>2
  <2>11. IF k = "free" THEN \E p : F = {p} ELSE F = {}
    BY <2>1 DEF Placed
  <2>12. Places(n) = S \cup H \cup D \cup C \cup F
    BY DEF Places
  <2> HIDE DEF S, H, D, C, F
  <2>13. \E p : Places(n) = {p}
    BY <2>7, <2>8, <2>9, <2>10, <2>11, <2>12 DEF Kinds
  <2>14. QED
    BY <2>13, FS_Singleton
<1>2. QED
  BY <1>1, Invariance, PTL

-----------------------------------------------------------------------------
(* The stack with the collector is a stack *)

\* Where the abstract stack's program is when an actor is at p with n in node,
\* and what it has in node.
AbsPoint(p, n) ==
  CASE p = "register" -> "start"
    [] p \in CleanPoints \cup ScanPoints ->
         IF n # NULL \/ p = "restamp" THEN "test" ELSE "done"
    [] p \in DeregPoints -> "done"
    [] p = "aborted" -> "join"
    [] OTHER -> OpPoint(p)
AbsHeld(p, n) == IF p \in CleanPoints \cup ScanPoints THEN NULL ELSE n

AbsPC == [a \in Actors |-> AbsPoint(pc[a], node[a])]
AbsNode == [a \in Actors |-> AbsHeld(pc[a], node[a])]

\* Actor a goes to the point to, with m in node.
Moves(a, to, m) ==
  /\ pc' = [pc EXCEPT ![a] = to]
  /\ node' = [node EXCEPT ![a] = m] \/ (node' = node /\ m = node[a])

LEMMA AbsMoves ==
  ASSUME Inv, NEW a \in Actors, NEW to, NEW m, Moves(a, to, m)
  PROVE  /\ AbsPC' = [AbsPC EXCEPT ![a] = AbsPoint(to, m)]
         /\ AbsNode' = [AbsNode EXCEPT ![a] = AbsHeld(to, m)]
         /\ AbsPC[a] = AbsPoint(pc[a], node[a])
         /\ AbsNode[a] = AbsHeld(pc[a], node[a])
<1>1. /\ pc'[a] = to /\ node'[a] = m
      /\ \A b \in Actors \ {a} : pc'[b] = pc[b] /\ node'[b] = node[b]
  BY DEF Inv, Types, TypeOK, HarnessTypeOK, Moves
<1>2. /\ AbsPC'[a] = AbsPoint(to, m) /\ AbsNode'[a] = AbsHeld(to, m)
      /\ \A b \in Actors \ {a} : AbsPC'[b] = AbsPC[b] /\ AbsNode'[b] = AbsNode[b]
      /\ AbsPC = [b \in Actors |-> AbsPC[b]] /\ AbsPC' = [b \in Actors |-> AbsPC'[b]]
      /\ AbsNode = [b \in Actors |-> AbsNode[b]]
      /\ AbsNode' = [b \in Actors |-> AbsNode'[b]]
      /\ AbsPC[a] = AbsPoint(pc[a], node[a]) /\ AbsNode[a] = AbsHeld(pc[a], node[a])
  BY <1>1 DEF AbsPC, AbsNode
<1>3. QED
  BY <1>2

\* Going on, as the abstract stack's program does it.
LEMMA StackGoto ==
  ASSUME Inv, NEW a \in Actors, NEW from, NEW to
  PROVE  /\ Stack!Running <=> pc[Main] # "exit"
         /\ Stack!Goto(a, from, to) <=>
              /\ pc[Main] # "exit"
              /\ AbsPC[a] = from /\ AbsPC' = [AbsPC EXCEPT ![a] = to]
<1>1. /\ Stack!Goto(a, from, to) <=>
           Stack!Running /\ AbsPC[a] = from /\ AbsPC' = [AbsPC EXCEPT ![a] = to]
      /\ Stack!Running <=> AbsPC[Main] \notin {"exit", "aborted"}
  BY Threads DEF Stack!Goto, Stack!Running, Stack!Main, AbsPC, AbsPoint, Main
<1>2. AbsPC[Main] = AbsPoint(pc[Main], node[Main])
  BY Threads DEF AbsPC
<1>3. AbsPC[Main] \notin {"exit", "aborted"} <=> pc[Main] # "exit"
  BY <1>2 DEF AbsPoint, OpPoint, CleanPoints, DeregPoints, ScanPoints, Inv, MainInv, MainPoints
<1>4. QED
  BY <1>1, <1>3

\* Its steps in terms of AbsPC and AbsNode.
LEMMA StackNodes ==
  ASSUME NEW a, NEW from, NEW to, NEW n
  PROVE  /\ Stack!StackStep(a, from, to) <=>
              Stack!Goto(a, from, to) /\ AbsNode' = AbsNode /\ UNCHANGED countVars
         /\ Stack!PushReturns(a, from) <=>
              /\ Stack!Goto(a, from, "pushed")
              /\ AbsNode' = [AbsNode EXCEPT ![a] = NULL] /\ UNCHANGED countVars
         /\ Stack!PopReturns(a, from, n) <=>
              /\ Stack!Goto(a, from, "popped")
              /\ AbsNode' = [AbsNode EXCEPT ![a] = n] /\ UNCHANGED countVars
  BY DEF Stack!StackStep, Stack!PushReturns, Stack!PopReturns, Stack!countVars,
         countVars, AbsNode, AbsHeld

\* The abstract stack does not see such a step.
Unseen(a, to, m) ==
  /\ Moves(a, to, m)
  /\ UNCHANGED <<countVars, contents>>
  /\ AbsPoint(to, m) = AbsPoint(pc[a], node[a])
  /\ AbsHeld(to, m) = AbsHeld(pc[a], node[a])

LEMMA HiddenStep ==
  ASSUME Inv, NEW a \in Actors, NEW to, NEW m, Unseen(a, to, m)
  PROVE  UNCHANGED Stack!vars
<1>1. AbsPC' = AbsPC /\ AbsNode' = AbsNode
  <2>1. /\ AbsPC' = [AbsPC EXCEPT ![a] = AbsPoint(to, m)]
        /\ AbsNode' = [AbsNode EXCEPT ![a] = AbsHeld(to, m)]
        /\ AbsPC[a] = AbsPoint(to, m) /\ AbsNode[a] = AbsHeld(to, m)
    BY AbsMoves DEF Unseen
  <2>2. QED
    BY <2>1 DEF AbsPC, AbsNode
<1>2. QED
  BY <1>1 DEF Unseen, Stack!vars, Stack!harnessVars, countVars, AbsPC, AbsNode, AbsPoint, AbsHeld

\* A step of the program that the abstract stack's program takes as well.
LEMMA AbsGoes ==
  ASSUME Inv, NEW a \in Actors, NEW to, NEW m, pc[Main] # "exit", Moves(a, to, m)
  PROVE  /\ Stack!Goto(a, AbsPoint(pc[a], node[a]), AbsPoint(to, m))
         /\ AbsNode[a] = AbsHeld(pc[a], node[a])
         /\ AbsNode' = [AbsNode EXCEPT ![a] = AbsHeld(to, m)]
<1>1. /\ AbsPC' = [AbsPC EXCEPT ![a] = AbsPoint(to, m)]
      /\ AbsNode' = [AbsNode EXCEPT ![a] = AbsHeld(to, m)]
      /\ AbsPC[a] = AbsPoint(pc[a], node[a])
      /\ AbsNode[a] = AbsHeld(pc[a], node[a])
  BY AbsMoves
<1>2. QED
  BY <1>1, StackGoto

\* The points of the harness are those of the abstract stack's program.
LEMMA WorkIs ==
  ASSUME NEW p \in WorkPoints, NEW n
  PROVE  AbsPoint(p, n) = p /\ AbsHeld(p, n) = n
  BY DEF AbsPoint, AbsHeld, CleanPoints, DeregPoints, ScanPoints, WorkPoints, OpPoint

\* Steps between points of the harness: with a new node in hand, ...
LEMMA GoesWith ==
  ASSUME Inv, NEW a \in Actors, NEW from \in WorkPoints, NEW to \in WorkPoints,
         Goto(a, from, to), NEW m, Moves(a, to, m)
  PROVE  /\ Stack!Goto(a, from, to)
         /\ AbsNode[a] = node[a]
         /\ AbsNode' = [AbsNode EXCEPT ![a] = m]
<1>1. pc[Main] # "exit" /\ pc[a] = from
  BY DEF Goto, Running
<1>2. /\ Stack!Goto(a, AbsPoint(pc[a], node[a]), AbsPoint(to, m))
      /\ AbsNode[a] = AbsHeld(pc[a], node[a])
      /\ AbsNode' = [AbsNode EXCEPT ![a] = AbsHeld(to, m)]
  BY <1>1, AbsGoes
<1>3. /\ AbsPoint(from, node[a]) = from /\ AbsHeld(from, node[a]) = node[a]
      /\ AbsPoint(to, m) = to /\ AbsHeld(to, m) = m
  BY WorkIs
<1>4. QED
  BY <1>1, <1>2, <1>3

\* ... or with the same one.
LEMMA GoesOn ==
  ASSUME Inv, NEW a \in Actors, NEW from \in WorkPoints, NEW to \in WorkPoints,
         Goto(a, from, to), node' = node
  PROVE  /\ Stack!Goto(a, from, to)
         /\ AbsNode[a] = node[a]
         /\ AbsNode' = AbsNode
<1>1. /\ Stack!Goto(a, from, to) /\ AbsNode[a] = node[a]
      /\ AbsNode' = [AbsNode EXCEPT ![a] = node[a]]
  <2>1. Moves(a, to, node[a])
    BY DEF Moves, Goto
  <2>2. QED
    BY <2>1, GoesWith
<1>2. QED
  BY <1>1 DEF AbsNode

LEMMA WorkPointsAre ==
  {"start", "loop", "push", "pushed", "pop", "popped", "test", "total", "done",
   "join", "exit"} = WorkPoints
  BY DEF WorkPoints

\* worker(): the same step of the abstract stack's worker.
LEMMA HarnessIsStack ==
  ASSUME Inv, NEW t \in Workers,
         BeginPop(t) \/ CountPush(t) \/ Again(t) \/ Leave(t) \/ CountPop(t)
         \/ AddTotals(t, "done"),
         contents' = contents
  PROVE  Stack!Next
<1> USE Threads, WorkPointsAre DEF Stack!Workers, Workers
<1>1. CASE BeginPop(t)
  <2>1. Goto(t, "loop", "pop") /\ node' = node /\ UNCHANGED countVars
    BY <1>1 DEF BeginPop, StackStep
  <2>2. Stack!Goto(t, "loop", "pop") /\ AbsNode' = AbsNode
    BY <2>1, GoesOn
  <2>3. Stack!BeginPop(t)
    BY <2>1, <2>2, StackNodes DEF Stack!BeginPop
  <2>4. QED
    BY <2>3 DEF Stack!WorkerStep, Stack!Worker, Stack!Next
<1>2. CASE CountPush(t)
  <2>1. Goto(t, "pushed", "test") /\ node' = node
    BY <1>2 DEF CountPush
  <2>2. Stack!Goto(t, "pushed", "test") /\ AbsNode' = AbsNode
    BY <2>1, GoesOn
  <2>3. Stack!CountPush(t)
    BY <1>2, <2>2 DEF CountPush, Stack!CountPush, AbsNode, AbsHeld
  <2>4. QED
    BY <2>3 DEF Stack!WorkerStep, Stack!Worker, Stack!Next
<1>3. CASE Again(t) \/ Leave(t)
  <2>1. PICK to \in {"loop", "total"} :
          /\ Goto(t, "test", to) /\ node' = node /\ UNCHANGED countVars
          /\ IF to = "loop" THEN ~timeup ELSE timeup
    BY <1>3 DEF Again, Leave, StackStep
  <2>2. Stack!Goto(t, "test", to) /\ AbsNode' = AbsNode
    BY <2>1, GoesOn
  <2>3. Stack!Again(t) \/ Stack!Leave(t)
    BY <2>1, <2>2, StackNodes DEF Stack!Again, Stack!Leave
  <2>4. QED
    BY <2>3 DEF Stack!WorkerStep, Stack!Worker, Stack!Next
<1>4. CASE CountPop(t)
  <2>1. Goto(t, "popped", "test") /\ Moves(t, "test", NULL)
    BY <1>4 DEF CountPop, Moves, Goto
  <2>2. /\ Stack!Goto(t, "popped", "test") /\ AbsNode[t] = node[t]
        /\ AbsNode' = [AbsNode EXCEPT ![t] = NULL]
    BY <2>1, GoesWith
  <2>3. Stack!CountPop(t)
    BY <1>4, <2>2 DEF CountPop, Stack!CountPop, AbsNode, AbsHeld
  <2>4. QED
    BY <2>3 DEF Stack!WorkerStep, Stack!Worker, Stack!Next
<1>5. CASE AddTotals(t, "done")
  <2>1. Goto(t, "total", "done") /\ node' = node
    BY <1>5 DEF AddTotals
  <2>2. Stack!Goto(t, "total", "done") /\ AbsNode' = AbsNode
    BY <2>1, GoesOn
  <2>3. Stack!AddTotals(t, "done")
    BY <1>5, <2>2 DEF AddTotals, Stack!AddTotals, AbsNode, AbsHeld
  <2>4. QED
    BY <2>3 DEF Stack!Worker, Stack!Next
<1>6. QED
  BY <1>1, <1>2, <1>3, <1>4, <1>5

\* main(), and the time that passes.
LEMMA MainIsStack ==
  ASSUME Inv, Join \/ PrintTotals \/ CountLeftover \/ TimeUp, contents' = contents
  PROVE  Stack!Next
<1> USE Threads, WorkPointsAre
<1>m. Stack!Main = Main /\ Stack!Workers = Workers
  BY DEF Stack!Workers, Workers, Stack!Main, Main
<1>1. CASE Join
  <2>1. \A t \in Workers : AbsPC[t] = "done"
    <3> SUFFICES ASSUME NEW t \in Workers PROVE AbsPC[t] = "done"
      OBVIOUS
    <3>1. AbsPC[t] = AbsPoint("done", node[t])
      BY <1>1 DEF Join, AbsPC
    <3>2. QED
      BY <3>1, WorkIs
  <2>2. Goto(Main, "join", "pop") /\ node' = node /\ UNCHANGED countVars
    BY <1>1 DEF Join, StackStep
  <2>3. Stack!Goto(Main, "join", "pop") /\ AbsNode' = AbsNode
    BY <2>2, GoesOn
  <2>4. Stack!StackStep(Main, "join", "pop")
    BY <2>2, <2>3, StackNodes
  <2>5. Stack!Join
    BY <1>m, <2>1, <2>4 DEF Stack!Join, AbsPC, AbsPoint
  <2>6. QED
    BY <1>m, <2>5 DEF Stack!MainStep, Stack!MainThread, Stack!Next
<1>2. CASE PrintTotals
  <2>1. /\ Goto(Main, "popped", "exit") /\ node' = node /\ UNCHANGED countVars
        /\ node[Main] = NULL
    BY <1>2 DEF PrintTotals, StackStep
  <2>2. /\ Stack!Goto(Main, "popped", "exit") /\ AbsNode' = AbsNode
        /\ AbsNode[Main] = NULL
    BY <2>1, GoesOn
  <2>3. Stack!StackStep(Main, "popped", "exit")
    BY <2>1, <2>2, StackNodes
  <2>4. Stack!PrintTotals
    BY <1>m, <2>2, <2>3 DEF Stack!PrintTotals, AbsNode, AbsHeld
  <2>5. QED
    BY <1>m, <2>4 DEF Stack!MainStep, Stack!MainThread, Stack!Next
<1>3. CASE CountLeftover
  <2>1. Goto(Main, "popped", "pop") /\ Moves(Main, "pop", NULL)
    BY <1>3 DEF CountLeftover, Moves, Goto
  <2>2. /\ Stack!Goto(Main, "popped", "pop") /\ AbsNode[Main] = node[Main]
        /\ AbsNode' = [AbsNode EXCEPT ![Main] = NULL]
    BY <2>1, GoesWith
  <2>3. Stack!CountLeftover
    BY <1>m, <1>3, <2>2 DEF CountLeftover, Stack!CountLeftover, AbsNode, AbsHeld
  <2>4. QED
    BY <2>3 DEF Stack!MainThread, Stack!Next
<1>4. CASE TimeUp
  <2>1. Stack!Running
    BY <1>4, StackGoto DEF TimeUp, Running
  <2>2. AbsPC' = AbsPC /\ AbsNode' = AbsNode
    BY <1>4 DEF TimeUp, AbsPC, AbsNode
  <2>3. Stack!TimeUp
    BY <1>4, <2>1, <2>2
    DEF TimeUp, Stack!TimeUp, AbsPC, AbsNode, AbsPoint, AbsHeld
  <2>4. QED
    BY <2>3 DEF Stack!Next
<1>5. QED
  BY <1>1, <1>2, <1>3, <1>4


\* alloc(): the node is neither on the stack nor in anybody's hands.
LEMMA AllocIsStack ==
  ASSUME Inv, NEW t \in Workers, Reuse(t) \/ Allocate(t)
  PROVE  Stack!Next
<1> USE Threads, WorkPointsAre DEF Stack!Workers, Workers
<1>1. PICK n \in Nodes : /\ BeginPush(t, n) /\ contents' = contents
                         /\ n \in free \/ n \in ToSet(clean[t])
  <2>1. CASE Reuse(t)
    <3>1. clean[t] \in Seq(Nodes) /\ clean[t] # << >>
      BY <2>1 DEF Inv, Types, Reuse
    <3>2. Head(clean[t]) \in ToSet(clean[t]) /\ ToSet(clean[t]) \subseteq Nodes
      BY <3>1, TailSet, InSet
    <3>3. QED
      BY <2>1, <3>2 DEF Reuse
  <2>2. CASE Allocate(t)
    BY <2>2 DEF Allocate, New
  <2>3. QED
    BY <2>1, <2>2
<1>2. n \notin ToSet(contents) /\ \A a \in Actors : node[a] # n
  <2>1. PICK k \in Kinds, w \in Actors : Placed(n, k, w)
    BY DEF Inv, PlaceInv
  <2>2. k \in {"free", "clean"}
    BY <1>1, <2>1 DEF Placed
  <2>3. QED
    BY <2>1, <2>2 DEF Placed
<1>3. n \notin Stack!OnStack /\ \A a \in Actors : AbsNode[a] # n
  BY <1>2, StackTestAssumption DEF Stack!OnStack, ToSet, AbsNode, AbsHeld
<1>4. Goto(t, "loop", "push") /\ Moves(t, "push", n)
  BY <1>1 DEF BeginPush, Goto, Moves
<1>5. /\ Stack!Goto(t, "loop", "push")
      /\ AbsNode' = [AbsNode EXCEPT ![t] = n]
  BY <1>4, GoesWith
<1>6. Stack!BeginPush(t, n)
  BY <1>1, <1>5
  DEF BeginPush, Stack!BeginPush, AbsNode, AbsHeld, countVars, Stack!countVars
<1>7. Stack!Allocate(t)
  BY <1>1, <1>3, <1>6
  DEF Stack!Allocate, AbsNode, AbsHeld, Stack!Actors, Actors
<1>8. QED
  BY <1>7 DEF Stack!Worker, Stack!Next

\* The compare-and-swap of push(), where it succeeds.
LEMMA PushIsStack ==
  ASSUME Inv, NEW t \in Workers, PushSwap(t)
  PROVE  Stack!Next
<1> USE Threads DEF Stack!Workers, Workers
<1>1. /\ pc[t] = "pushcas" /\ pc[Main] # "exit" /\ Moves(t, "pushed", NULL)
      /\ contents' = <<node[t]>> \o contents /\ UNCHANGED countVars
  BY DEF PushSwap, PushReturns, Goto, Running, Moves
<1>2. /\ Stack!Goto(t, AbsPoint("pushcas", node[t]), AbsPoint("pushed", NULL))
      /\ AbsNode[t] = AbsHeld("pushcas", node[t])
      /\ AbsNode' = [AbsNode EXCEPT ![t] = AbsHeld("pushed", NULL)]
  BY <1>1, AbsGoes
<1>3. /\ AbsPoint("pushcas", node[t]) = "push" /\ AbsPoint("pushed", NULL) = "pushed"
      /\ AbsHeld("pushcas", node[t]) = node[t] /\ AbsHeld("pushed", NULL) = NULL
  BY DEF AbsPoint, AbsHeld, OpPoint, CleanPoints, DeregPoints, ScanPoints
<1>4. Stack!PushReturns(t, "push") /\ contents' = <<AbsNode[t]>> \o contents
  BY <1>1, <1>2, <1>3, StackNodes
<1>5. Stack!Push(t)
  BY <1>4 DEF Stack!Push, AbsNode, AbsHeld
<1>6. QED
  BY <1>5 DEF Stack!Worker, Stack!Next

\* The compare-and-swap of pop(), where it succeeds, and the look at the stack
\* that finds it empty.
LEMMA PopIsStack ==
  ASSUME Inv, NEW a \in Actors, PopEmpty(a) \/ PopSwap(a)
  PROVE  Stack!Next
<1> USE Threads
<1>1. /\ contents \in Seq(Nodes) /\ (head = NULL <=> contents = << >>)
      /\ head # NULL => head = contents[1]
  BY HeadIs DEF Inv, Types, TypeOK, StackTypeOK, LinkTypeOK
<1>2. \A n : /\ AbsPoint("pop", n) = "pop" /\ AbsPoint("popcas", n) = "pop"
             /\ AbsPoint("popped", n) = "popped" /\ AbsHeld("popped", n) = n
  BY DEF AbsPoint, AbsHeld, OpPoint, CleanPoints, DeregPoints, ScanPoints
<1>3. ASSUME PopEmpty(a) PROVE Stack!Pop(a)
  <2>1. /\ pc[a] = "pop" /\ pc[Main] # "exit" /\ Moves(a, "popped", NULL)
        /\ UNCHANGED countVars
    BY <1>3 DEF PopEmpty, PopReturns, Goto, Running, Moves
  <2>5. contents = << >> /\ contents' = contents
    BY <1>1, <1>3 DEF PopEmpty, stackVars
  <2>2. /\ Stack!Goto(a, AbsPoint("pop", node[a]), AbsPoint("popped", NULL))
        /\ AbsNode' = [AbsNode EXCEPT ![a] = AbsHeld("popped", NULL)]
    BY <2>1, AbsGoes
  <2>3. Stack!PopReturns(a, "pop", NULL)
    BY <1>2, <2>1, <2>2
    DEF Stack!PopReturns, Stack!countVars, countVars, AbsNode, AbsHeld
  <2>4. QED
    BY <2>3, <2>5 DEF Stack!Pop
<1>4. ASSUME PopSwap(a) PROVE Stack!Pop(a)
  <2>1. PICK m : /\ pc[a] = "popcas" /\ pc[Main] # "exit" /\ Moves(a, "popped", m)
                 /\ contents' = SubSeq(contents, 2, Len(contents))
                 /\ UNCHANGED countVars
                 /\ cur[a] = m /\ head = m
    BY <1>4 DEF PopSwap, PopReturns, Goto, Running, Moves
  <2>2. cur[a] # NULL
    BY <2>1, StackTestAssumption DEF Inv, MainInv, GuardInv, TryPoints
  <2>3. contents # << >> /\ Head(contents) = head /\ contents' = Tail(contents)
    BY <1>1, <2>1, <2>2, TailSet
  <2>4. /\ Stack!Goto(a, AbsPoint("popcas", node[a]), AbsPoint("popped", m))
        /\ AbsNode' = [AbsNode EXCEPT ![a] = AbsHeld("popped", m)]
    BY <2>1, AbsGoes
  <2>a. /\ AbsPoint("popcas", node[a]) = "pop" /\ AbsPoint("popped", m) = "popped"
        /\ AbsHeld("popped", m) = m /\ Head(contents) = m
    BY <2>1, <2>3 DEF AbsPoint, AbsHeld, OpPoint, CleanPoints, DeregPoints, ScanPoints
  <2>5. Stack!PopReturns(a, "pop", Head(contents))
    <3>1. Stack!Goto(a, "pop", "popped") /\ AbsNode' = [AbsNode EXCEPT ![a] = m]
      BY <2>1, <2>4, <2>a
    <3>2. UNCHANGED countVars /\ Head(contents) = m
      BY <2>1, <2>a
    <3>3. QED
      BY <3>1, <3>2
      DEF Stack!PopReturns, Stack!countVars, countVars, AbsNode, AbsHeld
  <2>6. QED
    BY <2>3, <2>5 DEF Stack!Pop
<1>5. Stack!Pop(a)
  BY <1>3, <1>4
<1>6. QED
  BY <1>5
  DEF Stack!Worker, Stack!MainThread, Stack!Next, Stack!Workers, Workers,
      Stack!Main, Main

\* The collector: a worker that has registered starts, and it has counted its
\* pop or added its totals before it looks at the clocks.
LEMMA CollectIsStack ==
  ASSUME Inv, NEW t \in Workers, Register(t) \/ BeginClean(t) \/ Deregister(t)
  PROVE  Stack!Next
<1> USE Threads DEF Stack!Workers, Workers
<1>1. CASE Register(t)
  <2>1. PICK m : /\ pc[t] = "register" /\ pc[Main] # "exit" /\ Moves(t, "loop", m)
                 /\ m = node[t] /\ UNCHANGED <<countVars, contents>>
    BY <1>1 DEF Register, StoreClock, StackStep, Goto, Running, Moves, stackVars
  <2>2. /\ Stack!Goto(t, AbsPoint("register", node[t]), AbsPoint("loop", m))
        /\ AbsNode[t] = AbsHeld("register", node[t])
        /\ AbsNode' = [AbsNode EXCEPT ![t] = AbsHeld("loop", m)]
    BY <2>1, AbsGoes
  <2>3. /\ AbsPoint("register", node[t]) = "start" /\ AbsPoint("loop", m) = "loop"
        /\ AbsHeld("register", node[t]) = AbsHeld("loop", m)
    BY <2>1 DEF AbsPoint, AbsHeld, OpPoint, CleanPoints, DeregPoints, ScanPoints
  <2>4. AbsNode' = AbsNode
    BY <2>2, <2>3 DEF AbsNode
  <2>5. Stack!StackStep(t, "start", "loop")
    BY <2>1, <2>2, <2>3, <2>4, StackNodes
  <2>6. QED
    BY <2>1, <2>5 DEF Stack!Start, Stack!Worker, Stack!Next
<1>2. CASE BeginClean(t)
  <2>1. PICK m : /\ pc[t] = "popped" /\ pc[Main] # "exit" /\ Moves(t, "stamp", m)
                 /\ contents' = contents /\ m = node[t] /\ m # NULL
    BY <1>2 DEF BeginClean, Goto, Running, Moves, stackVars
  <2>2. /\ Stack!Goto(t, AbsPoint("popped", node[t]), AbsPoint("stamp", m))
        /\ AbsNode[t] = AbsHeld("popped", node[t])
        /\ AbsNode' = [AbsNode EXCEPT ![t] = AbsHeld("stamp", m)]
    BY <2>1, AbsGoes
  <2>3. /\ AbsPoint("popped", node[t]) = "popped" /\ AbsPoint("stamp", m) = "test"
        /\ AbsHeld("popped", node[t]) = node[t] /\ AbsHeld("stamp", m) = NULL
    BY <2>1 DEF AbsPoint, AbsHeld, OpPoint, CleanPoints, DeregPoints, ScanPoints
  <2>4. /\ Stack!Goto(t, "popped", "test") /\ AbsNode[t] # NULL
        /\ AbsNode' = [AbsNode EXCEPT ![t] = NULL]
    BY <2>1, <2>2, <2>3
  <2>5. Stack!CountPop(t)
    BY <1>2, <2>4 DEF BeginClean, Stack!CountPop, AbsNode, AbsHeld
  <2>6. QED
    BY <2>1, <2>5 DEF Stack!WorkerStep, Stack!Worker, Stack!Next
<1>3. CASE Deregister(t)
  <2>1. PICK to \in {"scan", "unregister"} :
          /\ pc[t] = "total" /\ pc[Main] # "exit" /\ node' = node
          /\ pc' = [pc EXCEPT ![t] = to] /\ contents' = contents
    BY <1>3 DEF Deregister, DeregTest, AddTotals, Goto, Running, stackVars
  <2>2. node[t] = NULL /\ Moves(t, to, NULL)
    BY <2>1 DEF Inv, HandInv, PushPoints, HandPoints, Moves
  <2>3. /\ Stack!Goto(t, AbsPoint("total", node[t]), AbsPoint(to, NULL))
        /\ AbsNode[t] = AbsHeld("total", node[t])
        /\ AbsNode' = [AbsNode EXCEPT ![t] = AbsHeld(to, NULL)]
    BY <2>1, <2>2, AbsGoes
  <2>4. /\ AbsPoint("total", NULL) = "total" /\ AbsPoint(to, NULL) = "done"
        /\ AbsHeld("total", NULL) = NULL /\ AbsHeld(to, NULL) = NULL
    BY <2>1 DEF AbsPoint, AbsHeld, OpPoint, CleanPoints, DeregPoints, ScanPoints
  <2>5. Stack!Goto(t, "total", "done") /\ AbsNode' = AbsNode
    BY <2>1, <2>2, <2>3, <2>4 DEF AbsNode
  <2>6. Stack!AddTotals(t, "done")
    BY <1>3, <2>5 DEF Deregister, AddTotals, Stack!AddTotals, AbsNode, AbsHeld
  <2>7. QED
    BY <2>1, <2>6 DEF Stack!Worker, Stack!Next
<1>4. QED
  BY <1>1, <1>2, <1>3

-----------------------------------------------------------------------------
(* The steps the abstract stack does not see *)

\* Inside push() and pop(), but for the steps that return.
LEMMA OpHidden ==
  ASSUME Inv, NEW a \in Actors,
         \/ PushRead(a) \/ PushLink(a) \/ PushFail(a) \/ LoadLimit(a)
         \/ StoreLimit(a) \/ PopTry(a) \/ PopRead(a) \/ PopNext(a) \/ PopFail(a)
  PROVE  UNCHANGED Stack!vars
<1>1. PICK from \in {"push", "pop"} \cup OpPoints,
           to \in {"push", "pop"} \cup OpPoints :
        /\ StackStep(a, from, to) /\ contents' = contents
        /\ OpPoint(from) = OpPoint(to)
  BY DEF PushRead, PushLink, PushFail, LoadLimit, StoreLimit, PopTry, PopRead,
         PopNext, PopFail, stackVars, linkVars, OpPoints, OpPoint
<1>2. PICK m : m = node[a] /\ Moves(a, to, m) /\ pc[a] = from /\ UNCHANGED countVars
  BY <1>1 DEF StackStep, Goto, Moves, countVars
<1>3. /\ AbsPoint(from, m) = OpPoint(from) /\ AbsPoint(to, m) = OpPoint(to)
      /\ AbsHeld(from, m) = m /\ AbsHeld(to, m) = m
  BY DEF AbsPoint, AbsHeld, OpPoints, CleanPoints, DeregPoints, ScanPoints
<1>4. Unseen(a, to, m)
  BY <1>1, <1>2, <1>3 DEF Unseen
<1>5. QED
  BY <1>4, HiddenStep

\* Inside clean() and dereg().
LEMMA CollectHidden ==
  ASSUME Inv, NEW t \in Workers,
         \/ RegisterDraw(t) \/ ScanCompare(t) \/ ScanTake(t) \/ DeleteAtOnce(t) \/ KeepDirty(t)
         \/ CleanupInClean(t) \/ CleanupInDereg(t) \/ Unregister(t)
         \/ StoreClock(t, "stamp", "scan") \/ StoreClock(t, "restamp", "test")
         \/ StoreClock(t, "deregstamp", DeregTest(t))
  PROVE  UNCHANGED Stack!vars
<1> USE Threads
<1>1. node[t] # NULL => pc[t] \in PushPoints \cup HandPoints
  BY DEF Inv, HandInv
<1>2. pc[t] = "stamp" => node[t] # NULL
  BY DEF Inv, HandInv
<1> DEFINE Off(from, to, m) ==
             /\ pc[t] = from /\ Moves(t, to, m) /\ UNCHANGED <<countVars, contents>>
<1>3. ASSUME NEW from, NEW to, NEW m, Off(from, to, m),
             AbsPoint(to, m) = AbsPoint(from, node[t]),
             AbsHeld(to, m) = AbsHeld(from, node[t])
      PROVE  UNCHANGED Stack!vars
  <2>1. Unseen(t, to, m)
    BY <1>3 DEF Unseen
  <2>2. QED
    BY <2>1, HiddenStep
<1>4. CASE RegisterDraw(t)
  <2>1. PICK m : m = node[t] /\ Off("start", "register", m)
    BY <1>4 DEF RegisterDraw, StackStep, Goto, Moves, stackVars
  <2>2. /\ AbsPoint("register", m) = AbsPoint("start", m)
        /\ AbsHeld("register", m) = AbsHeld("start", m)
    BY DEF AbsPoint, AbsHeld, OpPoint, CleanPoints, DeregPoints, ScanPoints
  <2>3. QED
    BY <1>3, <2>1, <2>2
<1>5. CASE ScanCompare(t) \/ ScanTake(t)
  <2> DEFINE m == node[t]
  <2>1. PICK from \in ScanPoints, to \in {"scan", "take", "scanned"} : Off(from, to, m)
    BY <1>5 DEF ScanCompare, ScanTake, ScanPast, ScanPoints, StackStep, Goto, Moves,
                stackVars
  <2>2. /\ AbsPoint(to, m) = AbsPoint(from, m) /\ AbsHeld(to, m) = AbsHeld(from, m)
    BY <2>1 DEF AbsPoint, AbsHeld, OpPoint, CleanPoints, DeregPoints, ScanPoints
  <2>3. QED
    BY <1>3, <2>1, <2>2
<1>6. CASE DeleteAtOnce(t) \/ KeepDirty(t) \/ CleanupInClean(t)
  <2>1. PICK to \in {"test", "restamp"} : node[t] # NULL /\ Off("scanned", to, NULL)
    BY <1>6
    DEF DeleteAtOnce, KeepDirty, CleanupInClean, MustWait, Cleanup, Recycle, Goto,
        Moves, stackVars
  <2>2. /\ AbsPoint(to, NULL) = AbsPoint("scanned", node[t])
        /\ AbsHeld(to, NULL) = AbsHeld("scanned", node[t])
    BY <2>1 DEF AbsPoint, AbsHeld, OpPoint, CleanPoints, DeregPoints, ScanPoints
  <2>3. QED
    BY <1>3, <2>1, <2>2
<1>7. CASE CleanupInDereg(t)
  <2>1. PICK m : m = node[t] /\ m = NULL /\ Off("scanned", "deregstamp", m)
    BY <1>7 DEF CleanupInDereg, Cleanup, Recycle, StackStep, Goto, Moves
  <2>2. /\ AbsPoint("deregstamp", m) = AbsPoint("scanned", m)
        /\ AbsHeld("deregstamp", m) = AbsHeld("scanned", m)
    BY <2>1 DEF AbsPoint, AbsHeld, CleanPoints, DeregPoints, ScanPoints
  <2>3. QED
    BY <1>3, <2>1, <2>2
<1>8. CASE Unregister(t)
  <2>1. PICK m : m = node[t] /\ Off("unregister", "done", m)
    BY <1>8 DEF Unregister, StackStep, Goto, Moves
  <2>2. /\ AbsPoint("done", m) = AbsPoint("unregister", m)
        /\ AbsHeld("done", m) = AbsHeld("unregister", m)
    BY DEF AbsPoint, AbsHeld, OpPoint, CleanPoints, DeregPoints, ScanPoints
  <2>3. QED
    BY <1>3, <2>1, <2>2
<1>9. CASE StoreClock(t, "stamp", "scan")
  <2>1. PICK m : m = node[t] /\ m # NULL /\ Off("stamp", "scan", m)
    BY <1>2, <1>9 DEF StoreClock, StackStep, Goto, Moves, stackVars
  <2>2. /\ AbsPoint("scan", m) = AbsPoint("stamp", m)
        /\ AbsHeld("scan", m) = AbsHeld("stamp", m)
    BY <2>1 DEF AbsPoint, AbsHeld, OpPoint, CleanPoints, DeregPoints, ScanPoints
  <2>3. QED
    BY <1>3, <2>1, <2>2
<1>10. CASE StoreClock(t, "restamp", "test")
  <2>1. PICK m : m = node[t] /\ m = NULL /\ Off("restamp", "test", m)
    BY <1>1, <1>10
    DEF StoreClock, StackStep, Goto, Moves, stackVars, PushPoints, HandPoints
  <2>2. /\ AbsPoint("test", m) = AbsPoint("restamp", m)
        /\ AbsHeld("test", m) = AbsHeld("restamp", m)
    BY <2>1 DEF AbsPoint, AbsHeld, OpPoint, CleanPoints, DeregPoints, ScanPoints
  <2>3. QED
    BY <1>3, <2>1, <2>2
<1>11. CASE StoreClock(t, "deregstamp", DeregTest(t))
  <2>1. PICK to \in {"scan", "unregister"} : node[t] = NULL /\ Off("deregstamp", to, NULL)
    BY <1>1, <1>11
    DEF StoreClock, StackStep, Goto, Moves, stackVars, PushPoints, HandPoints, DeregTest
  <2>2. /\ AbsPoint(to, NULL) = AbsPoint("deregstamp", node[t])
        /\ AbsHeld(to, NULL) = AbsHeld("deregstamp", node[t])
    BY <2>1 DEF AbsPoint, AbsHeld, CleanPoints, DeregPoints, ScanPoints
  <2>3. QED
    BY <1>3, <2>1, <2>2
<1>12. QED
  BY <1>4, <1>5, <1>6, <1>7, <1>8, <1>9, <1>10, <1>11

\* A process that _exit() ends is one that waits for its threads for ever.
LEMMA AbortHidden ==
  ASSUME Inv, NEW t \in Workers, DirtyListFull(t)
  PROVE  UNCHANGED Stack!vars
<1>1. PICK m : /\ m = node[Main] /\ Moves(Main, "aborted", m) /\ pc[Main] = "join"
               /\ UNCHANGED <<countVars, contents>>
  BY DEF DirtyListFull, Goto, Moves, stackVars, countVars
<1>2. /\ AbsPoint("aborted", m) = AbsPoint("join", m)
      /\ AbsHeld("aborted", m) = AbsHeld("join", m)
  BY DEF AbsPoint, AbsHeld, OpPoint, CleanPoints, DeregPoints, ScanPoints
<1>3. Unseen(Main, "aborted", m)
  BY <1>1, <1>2 DEF Unseen
<1>4. QED
  BY <1>3, HiddenStep, Threads

\* The abstract stack begins where the program begins.
LEMMA StackInitially == Init => Stack!Init
<1> SUFFICES ASSUME Init PROVE Stack!Init
  OBVIOUS
<1>1. /\ \A a \in Actors : AbsPC[a] = AbsPoint(pc[a], NULL)
                           /\ AbsNode[a] = AbsHeld(pc[a], NULL)
      /\ AbsPC = [a \in Actors |-> AbsPC[a]] /\ AbsNode = [a \in Actors |-> AbsNode[a]]
  BY DEF Init, HarnessInit, AbsPC, AbsNode
<1>2. \A p \in {"join", "start"} : AbsPoint(p, NULL) = p /\ AbsHeld(p, NULL) = NULL
  BY DEF AbsPoint, AbsHeld, OpPoint, CleanPoints, DeregPoints, ScanPoints
<1>3. /\ AbsPC = [a \in Actors |-> IF a = Main THEN "join" ELSE "start"]
      /\ AbsNode = [a \in Actors |-> NULL]
  BY <1>1, <1>2 DEF Init, HarnessInit
<1>4. QED
  BY <1>3
  DEF Init, HarnessInit, StackInit, LinkInit, Stack!Init, Stack!HarnessInit,
      Stack!Actors, Actors, Stack!Workers, Workers, Stack!Main, Main, AbsPC, AbsNode,
      AbsPoint, AbsHeld

\* ImplementsStack: the lock-free stack with its garbage collector is a stack,
\* for two threads.
\* Each push() and pop() acts at one moment of the call on one last-in-first-out
\* sequence of nodes, although nodes are deleted and used again while other
\* threads may still be reading them.
THEOREM Refinement == ASSUME N <= 2 PROVE Spec => ImplementsStack
<1>1. Inv /\ [Next]_vars => [Stack!Next]_(Stack!vars)
  <2> SUFFICES ASSUME Inv, [Next]_vars
               PROVE  [Stack!Next]_(Stack!vars)
    OBVIOUS
  <2> USE Threads
  <2>1. CASE UNCHANGED vars
    BY <2>1
    DEF vars, harnessVars, stackVars, Stack!vars, Stack!harnessVars, AbsPC, AbsNode
  <2>2. CASE MainThread
    <3>1. CASE MainStep /\ UNCHANGED stackVars
      BY <3>1, MainIsStack DEF MainStep, stackVars
    <3>2. CASE DeleteLeftover
      BY <3>2, MainIsStack DEF DeleteLeftover
    <3>3. CASE Pop(Main)
      BY <3>3, PopIsStack, OpHidden DEF Pop
    <3>4. QED
      BY <2>2, <3>1, <3>2, <3>3 DEF MainThread
  <2>3. ASSUME NEW t \in Workers, Worker(t)
        PROVE  [Stack!Next]_(Stack!vars)
    <3>1. CASE (BeginPop(t) \/ CountPush(t) \/ Again(t) \/ Leave(t))
               /\ UNCHANGED stackVars
      BY <3>1, HarnessIsStack DEF stackVars
    <3>2. CASE Push(t)
      BY <3>2, PushIsStack, OpHidden DEF Push
    <3>3. CASE Pop(t)
      BY <3>3, PopIsStack, OpHidden DEF Pop
    <3>4. CASE Reuse(t) \/ Allocate(t)
      BY <3>4, AllocIsStack
    <3>5. CASE NothingPopped(t)
      BY <3>5, HarnessIsStack DEF NothingPopped, stackVars
    <3>6. CASE Collect(t)
      BY <3>6, CollectIsStack, CollectHidden DEF Collect
    <3>7. CASE DirtyListFull(t)
      BY <3>7, AbortHidden
    <3>8. CASE LockForWriting(t)
      BY <3>8, CollectIsStack, CollectHidden DEF LockForWriting
    <3>9. QED
      BY <2>3, <3>1, <3>2, <3>3, <3>4, <3>5, <3>6, <3>7, <3>8 DEF Worker
  <2>4. CASE TimeUp /\ UNCHANGED stackVars
    BY <2>4, MainIsStack DEF stackVars
  <2>5. QED
    BY <2>1, <2>2, <2>3, <2>4 DEF Next
<1>2. QED
  BY <1>1, StackInitially, Invariance, PTL DEF Spec, ImplementsStack, Stack!Spec

-----------------------------------------------------------------------------
(* What main prints, from what the abstract stack promises *)

SP == INSTANCE LifoStack_proofs WITH
        pc <- [a \in Actors |->
                 CASE pc[a] = "register" -> "start"
                   [] pc[a] \in CleanPoints \cup ScanPoints ->
                        IF node[a] # NULL \/ pc[a] = "restamp"
                        THEN "test" ELSE "done"
                   [] pc[a] \in DeregPoints -> "done"
                   [] pc[a] = "aborted" -> "join"
                   [] OTHER -> OpPoint(pc[a])],
        node <- [a \in Actors |->
                   IF pc[a] \in CleanPoints \cup ScanPoints
                   THEN NULL ELSE node[a]]

\* LifoStack with its proofs is LifoStack.
LEMMA SameStack == Stack!Spec => SP!Spec
<1>1. Stack!Init => SP!Init
  BY DEF Stack!Init, SP!Init, Stack!HarnessInit, SP!HarnessInit,
         Stack!Actors, SP!Actors, Stack!Workers, SP!Workers, Stack!Main, SP!Main
<1>2. [Stack!Next]_(Stack!vars) => [SP!Next]_(SP!vars)
  BY DEF Stack!Next, SP!Next, Stack!vars, SP!vars, Stack!harnessVars,
         SP!harnessVars, Stack!countVars, SP!countVars, Stack!Actors, SP!Actors,
         Stack!Workers, SP!Workers, Stack!Main, SP!Main, Stack!Running, SP!Running,
         Stack!Goto, SP!Goto, Stack!StackStep, SP!StackStep, Stack!PushReturns,
         SP!PushReturns, Stack!PopReturns, SP!PopReturns, Stack!TimeUp, SP!TimeUp,
         Stack!Start, SP!Start, Stack!BeginPush, SP!BeginPush, Stack!BeginPop,
         SP!BeginPop, Stack!CountPush, SP!CountPush, Stack!CountPop, SP!CountPop,
         Stack!Again, SP!Again, Stack!Leave, SP!Leave, Stack!AddTotals,
         SP!AddTotals, Stack!WorkerStep, SP!WorkerStep, Stack!Join, SP!Join,
         Stack!CountLeftover, SP!CountLeftover, Stack!PrintTotals, SP!PrintTotals,
         Stack!MainStep, SP!MainStep, Stack!Exited, SP!Exited, Stack!OnStack,
         SP!OnStack, Stack!Allocate, SP!Allocate, Stack!Push, SP!Push, Stack!Pop,
         SP!Pop, Stack!Worker, SP!Worker, Stack!MainThread, SP!MainThread
<1>3. QED
  BY <1>1, <1>2, PTL DEF Stack!Spec, SP!Spec

\* Balanced of StackTest, for testtwo built with USE_GC and run with at most two
\* threads: when main prints, every
\* node that was pushed has been popped, by a worker or by main, once.
THEOREM Balance == ASSUME N <= 2 PROVE Spec => []Balanced
<1>1. SP!Spec => []SP!Balanced
  BY SP!Balance, StackTestAssumption DEF SP!StackTestAssumption
<1>2. Inv /\ SP!Balanced => Balanced
  <2> SUFFICES ASSUME Inv, SP!Balanced, pc[Main] = "exit"
               PROVE  totalpushcount = totalpopcount + mypopcount
    BY DEF Balanced
  <2>1. AbsPC[Main] = "exit"
    BY Threads DEF AbsPC, AbsPoint, OpPoint, CleanPoints, DeregPoints, ScanPoints
  <2>2. QED
    BY <2>1 DEF SP!Balanced, SP!Main, Main, AbsPC, AbsPoint
<1>3. QED
  BY <1>1, <1>2, Refinement, SameStack, Invariance, PTL DEF ImplementsStack
=============================================================================
