------------------------- MODULE ThreadedBoardProofs -------------------------
(* Theorems about ThreadedBoard, for any set of clients, any size of the     *)
(* board and any number of requests.                                         *)
EXTENDS ThreadedBoard, FiniteSetTheorems, SequenceTheorems, WellFoundedInduction, TLAPS

-----------------------------------------------------------------------------
(* The selected elements of a sequence, by their least counterexample.      *)

\* What Selected computes on the way.
Step(f, s, S, n) == IF n = 0 THEN << >>
                    ELSE IF s[n] \in S THEN Append(f[n - 1], s[n]) ELSE f[n - 1]
Selecting(f, s, S) == f = [n \in 0..Len(s) |-> Step(f, s, S, n)]

\* Selected is the last value of the one function that computes it.
LEMMA SelectedIs ==
  ASSUME NEW s, NEW S
  PROVE  Selected(s, S) = (CHOOSE f : Selecting(f, s, S))[Len(s)]
BY DEF Selected, Selecting, Step

\* A set of numbers has a least one.
LEMMA Least ==
  ASSUME NEW T \in SUBSET Nat, T # {}
  PROVE  \E x \in T : \A y \in T : x <= y
<1>1. PICK x \in T : \A y \in T : <<y, x>> \notin OpToRel(<, Nat)
  BY NatLessThanWellFounded, WFMin
<1>2. \A y \in T : ~(y < x)
  BY <1>1 DEF OpToRel
<1>3. x \in Nat /\ \A y \in T : y \in Nat
  OBVIOUS
<1>4. QED BY <1>2, <1>3

\* There is such a function: the shortest sequence without one is longer by one
\* element than a sequence with one.
LEMMA SelectingExists ==
  ASSUME NEW T, NEW s \in Seq(T), NEW S
  PROVE  \E f : Selecting(f, s, S)
<1> DEFINE L == Len(s)
           Upto(n, g) == g = [k \in 0..n |-> Step(g, s, S, k)]
           Bad == {n \in 0..L : ~ \E g : Upto(n, g)}
<1>1. L \in Nat
  BY LenProperties
<1>2. SUFFICES Bad = {}
  BY <1>1 DEF Selecting
<1>3. SUFFICES ASSUME Bad # {} PROVE FALSE
  OBVIOUS
<1> HIDE DEF L
<1>4. Bad \in SUBSET Nat
  BY <1>1
<1>5. PICK n \in Bad : \A y \in Bad : n <= y
  BY <1>3, <1>4, Least
<1>6. n \in 0..L /\ ~ \E g : Upto(n, g)
  BY <1>5
<1>7. n # 0
  <2>1. Upto(0, [k \in 0..0 |-> << >>])
    BY DEF Step
  <2>2. QED BY <1>6, <2>1
<1>8. n - 1 \in 0..L /\ ~(n <= n - 1)
  BY <1>1, <1>6, <1>7
<1>9. PICK g : Upto(n - 1, g)
  BY <1>5, <1>8
<1> DEFINE h == [k \in 0..n |-> IF k = n THEN Step(g, s, S, n) ELSE g[k]]
<1>10. \A k \in 0..n : Step(h, s, S, k) = h[k]
  <2> SUFFICES ASSUME NEW k \in 0..n PROVE Step(h, s, S, k) = h[k]
    OBVIOUS
  <2>1. k # 0 => k - 1 \in 0..n /\ k - 1 # n /\ h[k - 1] = g[k - 1]
    BY <1>6
  <2>2. Step(h, s, S, k) = Step(g, s, S, k)
    BY <2>1 DEF Step
  <2>3. CASE k = n
    BY <2>2, <2>3
  <2>4. CASE k # n
    <3>1. k \in 0..(n - 1) /\ h[k] = g[k]
      BY <1>6, <2>4
    <3> HIDE DEF h
    <3>2. g[k] = Step(g, s, S, k)
      BY <1>9, <3>1
    <3>3. QED BY <2>2, <3>1, <3>2
  <2>5. QED BY <2>3, <2>4
<1>11. Upto(n, h)
  <2>1. h = [k \in 0..n |-> h[k]]
    OBVIOUS
  <2> HIDE DEF h
  <2>2. QED BY <1>10, <2>1
<1>12. QED BY <1>6, <1>11

\* Two computations that look at the same elements agree.
LEMMA SelectingAgree ==
  ASSUME NEW s, NEW t, NEW S, NEW f, NEW g, Selecting(f, s, S), Selecting(g, t, S),
         NEW l \in Nat, Len(s) \in Nat, Len(t) \in Nat, l <= Len(s), l <= Len(t),
         \A n \in 1..l : s[n] = t[n]
  PROVE  f[l] = g[l]
<1> DEFINE Bad == {n \in 0..l : f[n] # g[n]}
<1>1. SUFFICES ASSUME Bad # {} PROVE FALSE
  OBVIOUS
<1>2. PICK n \in Bad : \A y \in Bad : n <= y
  <2>1. Bad \in SUBSET Nat
    OBVIOUS
  <2> HIDE DEF Bad
  <2>2. QED BY <1>1, <2>1, Least
<1>3. n \in 0..l /\ f[n] # g[n] /\ n \in 0..Len(s) /\ n \in 0..Len(t)
  BY <1>2
<1>4. f[n] = Step(f, s, S, n) /\ g[n] = Step(g, t, S, n)
  BY <1>3 DEF Selecting
<1>5. n # 0
  BY <1>3, <1>4 DEF Step
<1>6. n \in 1..l /\ n - 1 \in 0..l /\ ~(n <= n - 1)
  BY <1>3, <1>5
<1>7. f[n - 1] = g[n - 1]
  BY <1>2, <1>6
<1>8. s[n] = t[n]
  BY <1>6
<1>9. QED BY <1>3, <1>4, <1>5, <1>7, <1>8 DEF Step

\* Nothing is selected from nothing.
LEMMA SelectedEmpty ==
  ASSUME NEW S
  PROVE  Selected(<< >>, S) = << >>
<1> DEFINE f == CHOOSE f : Selecting(f, << >>, S)
<1>1. << >> \in Seq({}) /\ Len(<< >>) = 0
  BY EmptySeq
<1>2. Selecting(f, << >>, S)
  BY <1>1, SelectingExists
<1>3. Selected(<< >>, S) = f[0]
  BY <1>1, SelectedIs
<1> HIDE DEF f
<1>4. f[0] = << >>
  BY <1>1, <1>2 DEF Selecting, Step
<1>5. QED BY <1>3, <1>4

\* A further element is selected or passed.
LEMMA SelectedAppend ==
  ASSUME NEW T, NEW s \in Seq(T), NEW e \in T, NEW S
  PROVE  Selected(Append(s, e), S) = IF e \in S THEN Append(Selected(s, S), e) ELSE Selected(s, S)
<1> DEFINE t == Append(s, e)
           f == CHOOSE f : Selecting(f, s, S)
           g == CHOOSE g : Selecting(g, t, S)
<1>1. /\ t \in Seq(T) /\ Len(t) = Len(s) + 1 /\ Len(s) \in Nat
      /\ \A n \in 1..Len(s) : t[n] = s[n]
      /\ t[Len(s) + 1] = e
  BY AppendProperties, LenProperties
<1> HIDE DEF t
<1>2. Selecting(f, s, S) /\ Selecting(g, t, S)
  BY <1>1, SelectingExists
<1>3. Selected(s, S) = f[Len(s)] /\ Selected(t, S) = g[Len(t)]
  BY SelectedIs
<1> HIDE DEF f, g
<1>4. f[Len(s)] = g[Len(s)]
  BY <1>1, <1>2, SelectingAgree
<1>5. g[Len(t)] = Step(g, t, S, Len(t))
  BY <1>1, <1>2 DEF Selecting
<1>6. Len(t) # 0 /\ Len(t) - 1 = Len(s) /\ t[Len(t)] = e
  BY <1>1
<1>7. g[Len(t)] = IF e \in S THEN Append(f[Len(s)], e) ELSE f[Len(s)]
  BY <1>4, <1>5, <1>6 DEF Step
<1>8. QED BY <1>3, <1>7 DEF t

\* Induction over sequences, for a set instead of a predicate.
LEMMA SeqInduction ==
  ASSUME NEW T, NEW A, << >> \in A, \A s \in Seq(T), e \in T : s \in A => Append(s, e) \in A
  PROVE  Seq(T) \subseteq A
<1> DEFINE Bad == {Len(s) : s \in Seq(T) \ A}
<1>1. Bad \in SUBSET Nat
  BY LenProperties
<1>2. SUFFICES ASSUME Bad # {} PROVE FALSE
  OBVIOUS
<1> HIDE DEF Bad
<1>3. PICK n \in Bad : \A y \in Bad : n <= y
  BY <1>1, <1>2, Least
<1>4. PICK s \in Seq(T) : s \notin A /\ n = Len(s)
  BY DEF Bad
<1>5. s # << >>
  BY <1>4
<1>6. PICK t \in Seq(T), e \in T : s = Append(t, e)
  BY <1>5, SequenceEmptyOrAppend
<1>7. Len(s) = Len(t) + 1 /\ Len(t) \in Nat
  BY <1>6, AppendProperties, LenProperties
<1>8. t \notin A
  BY <1>4, <1>6
<1>9. Len(t) \in Bad
  BY <1>8 DEF Bad
<1>10. QED BY <1>3, <1>4, <1>7, <1>9

\* What is selected is a sequence of the same messages, and no longer.
LEMMA SelectedType ==
  ASSUME NEW T, NEW s \in Seq(T), NEW S
  PROVE  Selected(s, S) \in Seq(T) /\ Len(Selected(s, S)) <= Len(s)
<1> DEFINE A == {t \in Seq(T) : Selected(t, S) \in Seq(T) /\ Len(Selected(t, S)) <= Len(t)}
<1>1. << >> \in A
  <2>1. Selected(<< >>, S) = << >>
    BY SelectedEmpty
  <2>2. << >> \in Seq(T) /\ Len(<< >>) <= Len(<< >>)
    BY EmptySeq
  <2> DEFINE empty == << >>
  <2> HIDE DEF empty
  <2>3. empty \in A
    BY <2>1, <2>2 DEF empty
  <2>4. QED BY <2>3 DEF empty
<1>2. ASSUME NEW t \in Seq(T), NEW e \in T, t \in A
      PROVE  Append(t, e) \in A
  <2>1. /\ Append(t, e) \in Seq(T) /\ Len(Append(t, e)) = Len(t) + 1 /\ Len(t) \in Nat
    BY AppendProperties, LenProperties
  <2>2. Selected(t, S) \in Seq(T) /\ Len(Selected(t, S)) <= Len(t) /\ Len(Selected(t, S)) \in Nat
    BY <1>2, LenProperties
  <2>3. /\ Append(Selected(t, S), e) \in Seq(T)
        /\ Len(Append(Selected(t, S), e)) = Len(Selected(t, S)) + 1
    BY <2>2, AppendProperties
  <2>4. Selected(Append(t, e), S) \in {Append(Selected(t, S), e), Selected(t, S)}
    BY SelectedAppend
  <2>5. Selected(Append(t, e), S) \in Seq(T) /\ Len(Selected(Append(t, e), S)) <= Len(t) + 1
    BY <2>2, <2>3, <2>4
  <2>6. QED BY <2>1, <2>5
<1> HIDE DEF A
<1>3. Seq(T) \subseteq A
  BY <1>1, <1>2, SeqInduction
<1>4. QED BY <1>3 DEF A

\* Two parts of a sequence may be selected from one after the other.
LEMMA SelectedConcat ==
  ASSUME NEW T, NEW s \in Seq(T), NEW t \in Seq(T), NEW S
  PROVE  Selected(s \o t, S) = Selected(s, S) \o Selected(t, S)
<1> DEFINE A == {u \in Seq(T) : Selected(s \o u, S) = Selected(s, S) \o Selected(u, S)}
<1>1. << >> \in A
  <2>1. s \o << >> = s /\ Selected(s, S) \o << >> = Selected(s, S)
    BY ConcatEmptySeq, SelectedType
  <2>2. QED BY <2>1, SelectedEmpty, EmptySeq
<1>2. ASSUME NEW u \in Seq(T), NEW e \in T, u \in A
      PROVE  Append(u, e) \in A
  <2>1. Append(u, e) \in Seq(T) /\ s \o u \in Seq(T) /\ <<e>> \in Seq(T)
    BY AppendProperties, ConcatProperties
  <2>2. s \o Append(u, e) = Append(s \o u, e)
    <3>1. Append(u, e) = u \o <<e>> /\ Append(s \o u, e) = (s \o u) \o <<e>>
      BY <2>1, AppendIsConcat
    <3>2. QED BY <2>1, <3>1, ConcatAssociative
  <2> DEFINE p == Selected(s, S)
             q == Selected(u, S)
  <2>3. p \in Seq(T) /\ q \in Seq(T) /\ Selected(s \o u, S) = p \o q
    BY <1>2, SelectedType
  <2>4. /\ Selected(Append(u, e), S) = IF e \in S THEN Append(q, e) ELSE q
        /\ Selected(Append(s \o u, e), S) = IF e \in S THEN Append(p \o q, e) ELSE p \o q
    BY <2>1, <2>3, SelectedAppend
  <2> HIDE DEF p, q
  <2>5. p \o Append(q, e) = Append(p \o q, e)
    <3>1. p \o q \in Seq(T)
      BY <2>3, ConcatProperties
    <3>2. Append(q, e) = q \o <<e>> /\ Append(p \o q, e) = (p \o q) \o <<e>>
      BY <2>3, <3>1, AppendIsConcat
    <3>3. QED BY <2>1, <2>3, <3>2, ConcatAssociative
  <2>6. Selected(s \o Append(u, e), S) = p \o Selected(Append(u, e), S)
    BY <2>2, <2>4, <2>5
  <2>7. QED BY <2>1, <2>6 DEF p
<1> HIDE DEF A
<1>3. Seq(T) \subseteq A
  BY <1>1, <1>2, SeqInduction
<1>4. QED BY <1>3 DEF A

\* Nothing is left out of what lies in the set.
LEMMA SelectedAll ==
  ASSUME NEW T, NEW s \in Seq(T), NEW S, \A n \in 1..Len(s) : s[n] \in S
  PROVE  Selected(s, S) = s
<1> DEFINE A == {u \in Seq(T) : (\A n \in 1..Len(u) : u[n] \in S) => Selected(u, S) = u}
<1>1. << >> \in A
  <2>1. Selected(<< >>, S) = << >>
    BY SelectedEmpty
  <2>2. QED BY <2>1, EmptySeq
<1>2. ASSUME NEW u \in Seq(T), NEW e \in T, u \in A
      PROVE  Append(u, e) \in A
  <2>1. Append(u, e) \in Seq(T)
    BY AppendProperties
  <2>2. ASSUME \A n \in 1..Len(Append(u, e)) : Append(u, e)[n] \in S
        PROVE  Selected(Append(u, e), S) = Append(u, e)
    <3>1. /\ Len(Append(u, e)) = Len(u) + 1 /\ Append(u, e)[Len(u) + 1] = e
          /\ \A n \in 1..Len(u) : Append(u, e)[n] = u[n]
          /\ Len(u) \in Nat
      BY AppendProperties, LenProperties
    <3>2. e \in S /\ \A n \in 1..Len(u) : u[n] \in S
      <4>1. Len(u) + 1 \in 1..Len(Append(u, e)) /\ \A n \in 1..Len(u) : n \in 1..Len(Append(u, e))
        BY <3>1
      <4>2. QED BY <2>2, <3>1, <4>1
    <3>3. Selected(u, S) = u
      BY <1>2, <3>2
    <3>4. QED BY <3>2, <3>3, SelectedAppend
  <2>3. QED BY <2>1, <2>2
<1> HIDE DEF A
<1>3. Seq(T) \subseteq A
  BY <1>1, <1>2, SeqInduction
<1>4. QED BY <1>3 DEF A

\* One element is selected or passed.
LEMMA SelectedOne ==
  ASSUME NEW T, NEW x \in T, NEW S
  PROVE  Selected(<<x>>, S) = IF x \in S THEN <<x>> ELSE << >>
<1>1. << >> \in Seq(T) /\ Append(<< >>, x) = <<x>>
  BY EmptySeq
<1>2. Selected(Append(<< >>, x), S)
        = IF x \in S THEN Append(Selected(<< >>, S), x) ELSE Selected(<< >>, S)
  BY <1>1, SelectedAppend
<1>3. Selected(<< >>, S) = << >>
  BY SelectedEmpty
<1>4. QED BY <1>1, <1>2, <1>3

\* The same for the first element.
LEMMA SelectedFirst ==
  ASSUME NEW T, NEW x \in T, NEW t \in Seq(T), NEW S
  PROVE  Selected(<<x>> \o t, S) = IF x \in S THEN <<x>> \o Selected(t, S) ELSE Selected(t, S)
<1>1. <<x>> \in Seq(T)
  OBVIOUS
<1>2. Selected(<<x>> \o t, S) = Selected(<<x>>, S) \o Selected(t, S)
  <2> DEFINE one == <<x>>
  <2>1. one \in Seq(T)
    OBVIOUS
  <2> HIDE DEF one
  <2>2. Selected(one \o t, S) = Selected(one, S) \o Selected(t, S)
    BY <2>1, SelectedConcat
  <2>3. QED BY <2>2 DEF one
<1>3. << >> \o Selected(t, S) = Selected(t, S)
  BY SelectedType, ConcatEmptySeq
<1>4. QED BY <1>2, <1>3, SelectedOne

\* An element that is not selected may as well be missing.
LEMMA SelectedWithout ==
  ASSUME NEW T, NEW s \in Seq(T), NEW x \in T, NEW t \in Seq(T), NEW S, x \notin S
  PROVE  Selected(s \o (<<x>> \o t), S) = Selected(s \o t, S)
<1> DEFINE u == <<x>> \o t
<1>1. u \in Seq(T)
  <2>1. <<x>> \in Seq(T)
    OBVIOUS
  <2>2. QED BY <2>1, ConcatProperties
<1>2. Selected(u, S) = Selected(t, S)
  BY SelectedFirst
<1> HIDE DEF u
<1>3. /\ Selected(s \o u, S) = Selected(s, S) \o Selected(u, S)
      /\ Selected(s \o t, S) = Selected(s, S) \o Selected(t, S)
  BY <1>1, SelectedConcat
<1>4. Selected(s \o u, S) = Selected(s \o t, S)
  BY <1>2, <1>3
<1>5. QED BY <1>4 DEF u

\* A board is what stands before an entry, the entry and the rest.
LEMMA Entry ==
  ASSUME NEW T, NEW b, NEW n \in Nat, NEW x \in 1..n, \A s \in 1..n : b[s] \in T
  PROVE  /\ SubSeq(b, 1, n) \in Seq(T) /\ Len(SubSeq(b, 1, n)) = n
         /\ SubSeq(b, 1, x - 1) \in Seq(T) /\ SubSeq(b, x + 1, n) \in Seq(T)
         /\ SubSeq(b, x, n) = <<b[x]>> \o SubSeq(b, x + 1, n)
         /\ SubSeq(b, 1, n) = SubSeq(b, 1, x - 1) \o (<<b[x]>> \o SubSeq(b, x + 1, n))
<1> DEFINE whole == SubSeq(b, 1, n)
           rest  == SubSeq(b, x, n)
           pre   == SubSeq(b, 1, x - 1)
           post  == SubSeq(b, x + 1, n)
           tail  == <<b[x]>> \o post
<1>1. whole \in Seq(T) /\ Len(whole) = n /\ \A s \in 1..n : whole[s] = b[s]
  BY SubSeqProperties
<1>2. rest \in Seq(T) /\ Len(rest) = n - x + 1 /\ \A s \in 1..(n - x + 1) : rest[s] = b[x + s - 1]
  BY SubSeqProperties
<1>3. pre \in Seq(T) /\ Len(pre) = x - 1 /\ \A s \in 1..(x - 1) : pre[s] = b[s]
  <2>1. Len(pre) = (IF 1 <= x - 1 THEN x - 1 - 1 + 1 ELSE 0) /\ pre \in Seq(T)
        /\ \A s \in 1..(x - 1 - 1 + 1) : pre[s] = b[1 + s - 1]
    BY SubSeqProperties
  <2>2. QED BY <2>1
<1>4. post \in Seq(T) /\ Len(post) = n - x /\ \A s \in 1..(n - x) : post[s] = b[x + s]
  <2>1. Len(post) = (IF x + 1 <= n THEN n - (x + 1) + 1 ELSE 0) /\ post \in Seq(T)
        /\ \A s \in 1..(n - (x + 1) + 1) : post[s] = b[x + 1 + s - 1]
    BY SubSeqProperties
  <2>2. QED BY <2>1
<1>5. <<b[x]>> \in Seq(T) /\ Len(<<b[x]>>) = 1 /\ <<b[x]>>[1] = b[x]
  OBVIOUS
<1> HIDE DEF whole, rest, pre, post
<1>6. /\ tail \in Seq(T) /\ Len(tail) = n - x + 1
      /\ \A s \in 1..(n - x + 1) : tail[s] = b[x + s - 1]
  <2> DEFINE one == <<b[x]>>
  <2>1. one \in Seq(T) /\ Len(one) = 1 /\ one[1] = b[x]
    BY <1>5
  <2> HIDE DEF one
  <2>5. /\ one \o post \in Seq(T) /\ Len(one \o post) = Len(one) + Len(post)
        /\ \A s \in 1..(Len(one) + Len(post)) :
             (one \o post)[s] = IF s <= Len(one) THEN one[s] ELSE post[s - Len(one)]
    BY <1>4, <2>1, ConcatProperties
  <2>6. Len(one) + Len(post) = n - x + 1
    BY <1>4, <2>1
  <2>2. /\ one \o post \in Seq(T) /\ Len(one \o post) = n - x + 1
        /\ \A s \in 1..(n - x + 1) : (one \o post)[s] = IF s <= 1 THEN one[s] ELSE post[s - 1]
    BY <2>1, <2>5, <2>6
  <2>3. ASSUME NEW s \in 1..(n - x + 1) PROVE (one \o post)[s] = b[x + s - 1]
    <3>1. CASE s = 1
      BY <2>1, <2>2, <3>1
    <3>2. CASE s # 1
      <4>1. s - 1 \in 1..(n - x) /\ x + (s - 1) = x + s - 1
        BY <3>2
      <4>2. QED BY <1>4, <2>2, <3>2, <4>1
    <3>3. QED BY <3>1, <3>2
  <2>4. tail = one \o post
    BY DEF one
  <2> HIDE DEF tail
  <2>7. QED BY <2>2, <2>3, <2>4
<1> HIDE DEF tail
<1>7. rest = tail
  BY <1>2, <1>6, SeqEqual
<1>8. whole = pre \o tail
  <2>5. /\ pre \o tail \in Seq(T) /\ Len(pre \o tail) = Len(pre) + Len(tail)
        /\ \A s \in 1..(Len(pre) + Len(tail)) :
             (pre \o tail)[s] = IF s <= Len(pre) THEN pre[s] ELSE tail[s - Len(pre)]
    BY <1>3, <1>6, ConcatProperties
  <2>2. Len(pre) + Len(tail) = n
    BY <1>3, <1>6
  <2>1. /\ pre \o tail \in Seq(T) /\ Len(pre \o tail) = n
        /\ \A s \in 1..n : (pre \o tail)[s] = IF s <= x - 1 THEN pre[s] ELSE tail[s - (x - 1)]
    BY <1>3, <2>2, <2>5
  <2>3. ASSUME NEW s \in 1..n PROVE (pre \o tail)[s] = whole[s]
    <3>1. CASE s <= x - 1
      BY <1>1, <1>3, <2>1, <3>1
    <3>2. CASE ~(s <= x - 1)
      <4>1. s - (x - 1) \in 1..(n - x + 1) /\ x + (s - (x - 1)) - 1 = s
        BY <3>2
      <4>2. (pre \o tail)[s] = tail[s - (x - 1)]
        BY <2>1, <3>2
      <4>3. QED BY <1>1, <1>6, <4>1, <4>2
    <3>3. QED BY <3>1, <3>2
  <2>4. QED BY <1>1, <2>1, <2>2, <2>3, SeqEqual
<1>9. QED BY <1>1, <1>3, <1>4, <1>7, <1>8 DEF whole, rest, pre, post, tail

\* What moves down by one over an entry is the board without the entry.
LEMMA Moved ==
  ASSUME NEW T, NEW b, NEW n \in Nat, NEW x \in 1..n, \A s \in 1..n : b[s] \in T,
         NEW e, \A s \in 1..(n - 1) : e[s] = IF s >= x THEN b[s + 1] ELSE b[s]
  PROVE  /\ SubSeq(e, x, n - 1) = SubSeq(b, x + 1, n)
         /\ SubSeq(e, 1, n - 1) = SubSeq(b, 1, x - 1) \o SubSeq(b, x + 1, n)
<1> DEFINE whole == SubSeq(e, 1, n - 1)
           rest  == SubSeq(e, x, n - 1)
           pre   == SubSeq(b, 1, x - 1)
           post  == SubSeq(b, x + 1, n)
<1>0. \A s \in 1..(n - 1) : e[s] \in T
  <2> TAKE s \in 1..(n - 1)
  <2>1. s \in 1..n /\ s + 1 \in 1..n
    OBVIOUS
  <2>2. QED BY <2>1
<1>1. whole \in Seq(T) /\ Len(whole) = n - 1 /\ \A s \in 1..(n - 1) : whole[s] = e[s]
  <2>1. Len(whole) = (IF 1 <= n - 1 THEN n - 1 - 1 + 1 ELSE 0) /\ whole \in Seq(T)
        /\ \A s \in 1..(n - 1 - 1 + 1) : whole[s] = e[1 + s - 1]
    BY <1>0, SubSeqProperties
  <2>2. QED BY <2>1
<1>2. rest \in Seq(T) /\ Len(rest) = n - x /\ \A s \in 1..(n - x) : rest[s] = e[x + s - 1]
  <2>1. Len(rest) = (IF x <= n - 1 THEN n - 1 - x + 1 ELSE 0) /\ rest \in Seq(T)
        /\ \A s \in 1..(n - 1 - x + 1) : rest[s] = e[x + s - 1]
    BY <1>0, SubSeqProperties
  <2>2. QED BY <2>1
<1>3. pre \in Seq(T) /\ Len(pre) = x - 1 /\ \A s \in 1..(x - 1) : pre[s] = b[s]
  <2>1. Len(pre) = (IF 1 <= x - 1 THEN x - 1 - 1 + 1 ELSE 0) /\ pre \in Seq(T)
        /\ \A s \in 1..(x - 1 - 1 + 1) : pre[s] = b[1 + s - 1]
    BY SubSeqProperties
  <2>2. QED BY <2>1
<1>4. post \in Seq(T) /\ Len(post) = n - x /\ \A s \in 1..(n - x) : post[s] = b[x + s]
  <2>1. Len(post) = (IF x + 1 <= n THEN n - (x + 1) + 1 ELSE 0) /\ post \in Seq(T)
        /\ \A s \in 1..(n - (x + 1) + 1) : post[s] = b[x + 1 + s - 1]
    BY SubSeqProperties
  <2>2. QED BY <2>1
<1> HIDE DEF whole, rest, pre, post
<1>5. rest = post
  <2>1. ASSUME NEW s \in 1..(n - x) PROVE rest[s] = post[s]
    <3>1. x + s - 1 \in 1..(n - 1) /\ x + s - 1 >= x /\ x + s - 1 + 1 = x + s
      OBVIOUS
    <3>2. e[x + s - 1] = b[x + s]
      BY <3>1
    <3>3. QED BY <1>2, <1>4, <3>2
  <2>2. QED BY <1>2, <1>4, <2>1, SeqEqual
<1>6. whole = pre \o post
  <2>1. /\ pre \o post \in Seq(T) /\ Len(pre \o post) = Len(pre) + Len(post)
        /\ \A s \in 1..(Len(pre) + Len(post)) :
             (pre \o post)[s] = IF s <= Len(pre) THEN pre[s] ELSE post[s - Len(pre)]
    <3>1. pre \in Seq(T) /\ post \in Seq(T)
      BY <1>3, <1>4
    <3>2. QED BY ONLY <3>1, ConcatProperties
  <2>2. Len(pre) + Len(post) = n - 1
    BY <1>3, <1>4
  <2>3. /\ pre \o post \in Seq(T) /\ Len(pre \o post) = n - 1
        /\ \A s \in 1..(n - 1) : (pre \o post)[s] = IF s <= x - 1 THEN pre[s] ELSE post[s - (x - 1)]
    BY <1>3, <2>1, <2>2
  <2>4. ASSUME NEW s \in 1..(n - 1) PROVE (pre \o post)[s] = whole[s]
    <3>1. CASE s <= x - 1
      <4>1. ~(s >= x) /\ s \in 1..(x - 1)
        BY <3>1
      <4>2. QED BY <1>1, <1>3, <2>3, <3>1, <4>1
    <3>2. CASE ~(s <= x - 1)
      <4>1. s >= x /\ s - (x - 1) \in 1..(n - x) /\ x + (s - (x - 1)) = s + 1
        BY <3>2
      <4>2. (pre \o post)[s] = post[s - (x - 1)]
        BY <2>3, <3>2
      <4>3. QED BY <1>1, <1>4, <4>1, <4>2
    <3>3. QED BY <3>1, <3>2
  <2>5. QED BY <1>1, <2>3, <2>4, SeqEqual
<1>7. QED BY <1>5, <1>6 DEF whole, rest, pre, post

-----------------------------------------------------------------------------
(* Connections and the end of the server.                                   *)

USE BoardAssumption, NoneIsNoCommand

Stages == {"none", "recv", "got", "locked", "ack", "count", "reply", "ended"}

\* What connections, requests and clients may be.
WiresOK ==
  /\ up \in BOOLEAN /\ tpc \in [Clients -> Stages]
  /\ buf \in [Clients -> Command \cup {None}]
  /\ request \in [Clients -> Command \cup {None}]
  /\ net \in [Clients -> {"open", "fin", "rst", "dead"}]
  /\ cst \in [Clients -> {"off", "menu", "await", "left", "gone"}]
  /\ sent \in [Clients -> 0..MaxCommands] /\ posted \in [Messages -> Nat]
  /\ DOMAIN answer = Clients
  /\ \A c \in Clients : tpc[c] \in {"got", "locked", "ack", "count"} => buf[c] \in Command

NobodyGone == \A c \in Clients : cst[c] # "gone"

\* Where a thread may be while its client is at s: a client asks again only
\* after its answer, so its querSair is the last thing its thread is told.
Quiet(s, t, r, n, a, b) ==
  \/ s = "off" /\ n = "open" /\ r = None /\ a = None /\ t = "none"
  \/ s = "menu" /\ n = "open" /\ r = None /\ a = None /\ t \in {"none", "recv", "count"}
  \/ s = "await" /\ n = "open" /\ r # None /\ r.op # "querSair" /\ a = None
       /\ t \in {"none", "recv", "count"}
  \/ s = "await" /\ n = "open" /\ r = None /\ a = None /\ b.op # "querSair"
       /\ t \in {"got", "locked", "ack", "reply"}
  \/ s = "await" /\ n = "open" /\ r = None /\ t \in {"recv", "count"}
  \/ s = "left" /\ n = "fin" /\ r # None /\ r.op = "querSair" /\ t \in {"none", "recv", "count"}
  \/ s = "left" /\ n = "fin" /\ r = None /\ b.op = "querSair" /\ t = "got"
  \/ s = "left" /\ n = "fin" /\ r = None /\ t = "ended"

QuietAt(c) == Quiet(cst[c], tpc[c], request[c], net[c], answer[c], buf[c])

Undisturbed == up /\ NobodyGone => \A c \in Clients : QuietAt(c)

\* Descriptors are only ever taken.
FewAccepted == IsFiniteSet(Accepted) /\ Cardinality(Accepted) <= MaxFd

DeathInv == WiresOK /\ Undisturbed /\ FewAccepted /\ DiesOnlyOfHangup

-----------------------------------------------------------------------------
LEMMA Commands ==
  ASSUME NEW r \in Command
  PROVE  /\ r # None /\ r.op \in {"cadastrar", "apagar", "ler", "querSair", "junk"}
         /\ r.op = "cadastrar" => r.arg \in Messages
         /\ r.op = "apagar" => r.arg \in Names
  BY DEF Command

\* The step of one client or thread: the state of the others stays.
Alone(c) == \A d \in Clients \ {c} :
  /\ cst'[d] = cst[d] /\ tpc'[d] = tpc[d] /\ request'[d] = request[d]
  /\ net'[d] = net[d] /\ answer'[d] = answer[d] /\ buf'[d] = buf[d]

\* Such a step keeps what the proof needs if the one client is quiet after it.
LEMMA OneStep ==
  ASSUME DeathInv, NEW c \in Clients, WiresOK', up, up' \in BOOLEAN, Alone(c),
         cst[c] = "gone" => cst'[c] = "gone",
         tpc[c] = "none" <=> tpc'[c] = "none",
         QuietAt(c) /\ NobodyGone' => up' /\ QuietAt(c)'
  PROVE  DeathInv'
<1>1. NobodyGone' => NobodyGone
  BY DEF NobodyGone, Alone
<1>2. NobodyGone => QuietAt(c)
  BY DEF DeathInv, Undisturbed
<1>3. ASSUME NobodyGone' PROVE up' /\ \A d \in Clients : QuietAt(d)'
  <2>1. NobodyGone
    BY <1>1, <1>3
  <2>2. up' /\ QuietAt(c)'
    BY <1>2, <1>3, <2>1
  <2>3. ASSUME NEW d \in Clients, d # c PROVE QuietAt(d)'
    BY <2>1, <2>3 DEF DeathInv, Undisturbed, QuietAt, Alone
  <2>4. QED BY <2>2, <2>3
<1>4. Undisturbed'
  BY <1>3 DEF Undisturbed
<1>5. Accepted' = Accepted
  BY DEF Accepted, Alone
<1>6. FewAccepted'
  BY <1>5 DEF DeathInv, FewAccepted
<1>7. DiesOnlyOfHangup'
  BY <1>3 DEF DiesOnlyOfHangup, NobodyGone
<1>8. QED BY <1>4, <1>6, <1>7 DEF DeathInv

\* A step after the server's end.
LEMMA AfterEnd ==
  ASSUME DeathInv, WiresOK', ~up, ~up', tpc' = tpc,
         \A c \in Clients : cst[c] = "gone" => cst'[c] = "gone"
  PROVE  DeathInv'
<1>1. Undisturbed'
  BY DEF Undisturbed
<1>2. Accepted' = Accepted
  BY DEF Accepted
<1>3. FewAccepted' /\ DiesOnlyOfHangup'
  BY <1>2 DEF DeathInv, FewAccepted, DiesOnlyOfHangup
<1>4. QED BY <1>1, <1>3 DEF DeathInv

LEMMA ClientWires ==
  ASSUME WiresOK, NEW c \in Clients, Client(c)
  PROVE  WiresOK'
<1>1. UNCHANGED <<up, tpc, buf>>
  BY DEF Client, Connect, ReadAnswer, ServerLost, Leave, Die, Request, threads
<1>2. cst' \in [Clients -> {"off", "menu", "await", "left", "gone"}]
  BY DEF WiresOK, Client, Connect, ReadAnswer, ServerLost, Leave, Die, Request
<1>3. /\ net' \in [Clients -> {"open", "fin", "rst", "dead"}]
      /\ DOMAIN answer' = Clients
  BY DEF WiresOK, Client, Connect, ReadAnswer, ServerLost, Leave, Die, Request, wires
<1>4. /\ request' \in [Clients -> Command \cup {None}]
      /\ sent' \in [Clients -> 0..MaxCommands] /\ posted' \in [Messages -> Nat]
  <2>1. CASE \E r \in Command : Request(c, r)
    <3>1. PICK r \in Command : Request(c, r)
      BY <2>1
    <3>2. /\ request' = [request EXCEPT ![c] = r] /\ sent[c] < MaxCommands
          /\ sent' = [sent EXCEPT ![c] = sent[c] + 1]
          /\ \/ posted' = posted
             \/ r.op = "cadastrar" /\ posted' = [posted EXCEPT ![r.arg] = posted[r.arg] + 1]
      BY <3>1 DEF Request
    <3>3. posted' \in [Messages -> Nat]
      BY <3>2, Commands DEF WiresOK
    <3>4. sent' \in [Clients -> 0..MaxCommands]
      BY <3>2 DEF WiresOK
    <3>5. QED BY <3>2, <3>3, <3>4 DEF WiresOK
  <2>2. CASE Leave(c)
    <3>1. [op |-> "querSair", arg |-> None] \in Command
      BY DEF Command
    <3>2. request' = [request EXCEPT ![c] = [op |-> "querSair", arg |-> None]] /\ UNCHANGED <<sent, posted>>
      BY <2>2 DEF Leave
    <3>3. QED BY <3>1, <3>2 DEF WiresOK
  <2>3. CASE Connect(c) \/ ReadAnswer(c) \/ ServerLost(c) \/ Die(c)
    <3>1. UNCHANGED <<request, sent, posted>>
      BY <2>3 DEF Connect, ReadAnswer, ServerLost, Die, wires
    <3>2. QED BY <3>1 DEF WiresOK
  <2>4. QED BY <2>1, <2>2, <2>3 DEF Client
<1>5. QED BY <1>1, <1>2, <1>3, <1>4 DEF WiresOK

LEMMA ClientDeath ==
  ASSUME DeathInv, NEW c \in Clients, Client(c)
  PROVE  DeathInv'
<1>1. WiresOK /\ WiresOK'
  BY ClientWires DEF DeathInv
<1>2. UNCHANGED <<up, tpc, buf>> /\ up \in BOOLEAN
  BY <1>1 DEF Client, Connect, ReadAnswer, ServerLost, Leave, Die, Request, threads, WiresOK
<1>3. cst[c] # "gone" /\ \A d \in Clients \ {c} : cst'[d] = cst[d]
  BY <1>1 DEF Client, Connect, ReadAnswer, ServerLost, Leave, Die, Request, WiresOK
<1>4. CASE ~up
  BY <1>1, <1>2, <1>3, <1>4, AfterEnd
<1>5. CASE up
  <2>1. Alone(c)
    BY <1>1, <1>2 DEF Alone, Client, Connect, ReadAnswer, ServerLost, Leave, Die, Request, wires, WiresOK
  <2>2. QuietAt(c) /\ NobodyGone' => QuietAt(c)'
    <3> SUFFICES ASSUME QuietAt(c), NobodyGone' PROVE QuietAt(c)'
      OBVIOUS
    <3>1. CASE Connect(c)
      BY <1>1, <1>2, <3>1 DEF Connect, wires, WiresOK, QuietAt, Quiet
    <3>2. CASE ReadAnswer(c)
      BY <1>1, <1>2, <3>2 DEF ReadAnswer, wires, WiresOK, QuietAt, Quiet
    <3>3. CASE ServerLost(c)
      BY <1>5, <3>3 DEF ServerLost
    <3>4. CASE Leave(c)
      <4>1. [op |-> "querSair", arg |-> None] # None
        BY DEF Command
      <4>2. /\ cst[c] = "menu" /\ cst'[c] = "left" /\ net'[c] = "fin" /\ answer'[c] = answer[c]
            /\ request'[c] = [op |-> "querSair", arg |-> None]
        BY <1>1, <3>4 DEF Leave, WiresOK
      <4>3. tpc[c] \in {"none", "recv", "count"}
        BY <4>2 DEF QuietAt, Quiet
      <4>4. request'[c] # None /\ request'[c].op = "querSair"
        BY <4>1, <4>2
      <4>5. QED BY <1>2, <4>2, <4>3, <4>4 DEF QuietAt, Quiet
    <3>5. CASE Die(c)
      <4>1. cst'[c] = "gone"
        BY <1>1, <3>5 DEF Die, WiresOK
      <4>2. QED BY <4>1 DEF NobodyGone
    <3>6. CASE \E r \in Command : Request(c, r)
      <4>1. PICK r \in Command : Request(c, r)
        BY <3>6
      <4>2. r # None /\ r.op # "querSair"
        BY <4>1, Commands DEF Request
      <4>3. /\ cst[c] = "menu" /\ cst'[c] = "await" /\ net'[c] = net[c] /\ answer'[c] = answer[c]
            /\ request'[c] = r
        BY <1>1, <4>1 DEF Request, WiresOK
      <4>4. QED BY <1>2, <4>2, <4>3 DEF QuietAt, Quiet
    <3>7. QED BY <3>1, <3>2, <3>3, <3>4, <3>5, <3>6 DEF Client
  <2>3. QED BY <1>1, <1>2, <1>3, <1>5, <2>1, <2>2, OneStep
<1>6. QED BY <1>2, <1>4, <1>5

LEMMA SendWires ==
  ASSUME WiresOK, NEW c \in Clients, NEW a, Send(c, a)
  PROVE  /\ net' \in [Clients -> {"open", "fin", "rst", "dead"}] /\ DOMAIN answer' = Clients
         /\ up' \in BOOLEAN /\ up' = (net[c] # "dead") /\ request' = request
         /\ net[c] = "open" => net'[c] = "open"
         /\ \A d \in Clients \ {c} : net'[d] = net[d] /\ answer'[d] = answer[d]
  BY DEF WiresOK, Send

LEMMA ThreadWires ==
  ASSUME WiresOK, NEW c \in Clients, Thread(c)
  PROVE  WiresOK'
<1>1. UNCHANGED <<cst, sent, posted>>
  BY DEF Thread, Receive, ReceiveEnd, ReceiveError, Quit, Unknown, Lock, PostFull, PostStore,
         PostAck, PostCount, DeleteMatch, DeletePass, DeleteEnd, Read, Reply, Unlock, clients
<1>2. CASE PostAck(c) \/ Reply(c)
  <2>1. /\ Send(c, out[c]) /\ buf' = buf /\ tpc[c] \in {"ack", "reply"}
        /\ tpc' \in {[tpc EXCEPT ![c] = "count"], [tpc EXCEPT ![c] = "recv"]}
        /\ (tpc' = [tpc EXCEPT ![c] = "count"] \/ tpc[c] = "reply")
    BY <1>2 DEF PostAck, Reply, At, Goto
  <2>2. tpc' \in [Clients -> Stages]
    BY <2>1 DEF WiresOK, Stages
  <2>3. \A d \in Clients : tpc'[d] \in {"got", "locked", "ack", "count"} => buf'[d] \in Command
    BY <1>2 DEF PostAck, Reply, At, Goto, WiresOK
  <2>4. QED BY <1>1, <2>1, <2>2, <2>3, SendWires DEF WiresOK
<1>3. CASE Receive(c)
  <2>1. /\ request[c] \in Command /\ buf' = [buf EXCEPT ![c] = request[c]]
        /\ request' = [request EXCEPT ![c] = None] /\ tpc' = [tpc EXCEPT ![c] = "got"]
        /\ UNCHANGED <<up, net, answer>>
    BY <1>3 DEF Receive, Goto, WiresOK
  <2>2. tpc' \in [Clients -> Stages]
    BY <2>1 DEF WiresOK, Stages
  <2>3. buf' \in [Clients -> Command \cup {None}] /\ request' \in [Clients -> Command \cup {None}]
    BY <2>1 DEF WiresOK
  <2>4. \A d \in Clients : tpc'[d] \in {"got", "locked", "ack", "count"} => buf'[d] \in Command
    BY <2>1 DEF WiresOK
  <2>5. QED BY <1>1, <2>1, <2>2, <2>3, <2>4 DEF WiresOK
<1>4. CASE ReceiveEnd(c)
  <2>1. PICK r \in Command : buf' = [buf EXCEPT ![c] = r]
    BY <1>4 DEF ReceiveEnd, Free, WiresOK
  <2>2. tpc' = [tpc EXCEPT ![c] = "got"] /\ UNCHANGED <<up, request, net, answer>>
    BY <1>4 DEF ReceiveEnd, Goto, wires
  <2>3. tpc' \in [Clients -> Stages]
    BY <2>2 DEF WiresOK, Stages
  <2>4. buf' \in [Clients -> Command \cup {None}]
    BY <2>1 DEF WiresOK
  <2>5. \A d \in Clients : tpc'[d] \in {"got", "locked", "ack", "count"} => buf'[d] \in Command
    BY <2>1, <2>2 DEF WiresOK
  <2>6. QED BY <1>1, <2>2, <2>3, <2>4, <2>5 DEF WiresOK
<1>5. CASE ReceiveError(c)
  <2>1. net' = [net EXCEPT ![c] = "dead"] /\ UNCHANGED <<up, tpc, buf, request, answer>>
    BY <1>5 DEF ReceiveError, threads
  <2>2. QED BY <1>1, <2>1 DEF WiresOK
<1>6. CASE Quit(c) \/ Unknown(c) \/ Lock(c) \/ PostFull(c) \/ PostStore(c) \/ PostCount(c)
            \/ DeleteMatch(c) \/ DeletePass(c) \/ DeleteEnd(c) \/ Read(c)
  <2>1. UNCHANGED <<up, buf, request, net, answer>>
    BY <1>6 DEF Quit, Unknown, Lock, PostFull, PostStore, PostCount, DeleteMatch, DeletePass,
            DeleteEnd, Read, Unlock, wires
  <2>2. /\ tpc[c] \in {"got", "locked", "count"}
        /\ \/ tpc' = tpc
           \/ tpc' = [tpc EXCEPT ![c] = "ended"] \/ tpc' = [tpc EXCEPT ![c] = "reply"]
           \/ tpc' = [tpc EXCEPT ![c] = "locked"] \/ tpc' = [tpc EXCEPT ![c] = "ack"]
           \/ tpc' = [tpc EXCEPT ![c] = "recv"]
    BY <1>6 DEF Quit, Unknown, Lock, PostFull, PostStore, PostCount, DeleteMatch, DeletePass,
            DeleteEnd, Read, Unlock, Locked, At, Goto
  <2>3. tpc' \in [Clients -> Stages]
    BY <2>2 DEF WiresOK, Stages
  <2>4. \A d \in Clients : tpc'[d] \in {"got", "locked", "ack", "count"} => buf[d] \in Command
    BY <2>2 DEF WiresOK
  <2>5. QED BY <1>1, <2>1, <2>3, <2>4 DEF WiresOK
<1>7. QED BY <1>2, <1>3, <1>4, <1>5, <1>6 DEF Thread

LEMMA ThreadDeath ==
  ASSUME DeathInv, NEW c \in Clients, Thread(c)
  PROVE  DeathInv'
<1>1. WiresOK /\ WiresOK' /\ up' \in BOOLEAN
  BY ThreadWires DEF DeathInv, WiresOK
<1>2. up /\ tpc[c] # "none" /\ cst' = cst
  BY DEF Thread, Receive, ReceiveEnd, ReceiveError, Quit, Unknown, Lock, PostFull, PostStore,
         PostAck, PostCount, DeleteMatch, DeletePass, DeleteEnd, Read, Reply, Unlock, Locked, At,
         clients
<1>3. CASE PostAck(c) \/ Reply(c)
  <2>1. /\ Send(c, out[c]) /\ buf' = buf /\ tpc[c] \in {"ack", "reply"}
        /\ \/ tpc' = [tpc EXCEPT ![c] = "count"]
           \/ tpc' = [tpc EXCEPT ![c] = "recv"]
    BY <1>3 DEF PostAck, Reply, At, Goto
  <2>2. tpc'[c] \in {"count", "recv"} /\ \A d \in Clients \ {c} : tpc'[d] = tpc[d]
    BY <1>1, <2>1 DEF WiresOK
  <2>3. Alone(c)
    BY <1>1, <1>2, <2>1, <2>2, SendWires DEF Alone
  <2>4. QuietAt(c) => up' /\ QuietAt(c)'
    <3> SUFFICES ASSUME QuietAt(c) PROVE up' /\ QuietAt(c)'
      OBVIOUS
    <3>1. cst[c] = "await" /\ net[c] = "open" /\ request[c] = None
      BY <2>1 DEF QuietAt, Quiet
    <3>2. up' /\ net'[c] = "open" /\ request' = request
      BY <1>1, <2>1, <3>1, SendWires
    <3>3. QED BY <1>2, <2>2, <3>1, <3>2 DEF QuietAt, Quiet
  <2>5. QED BY <1>1, <1>2, <2>2, <2>3, <2>4, OneStep
<1>4. CASE Receive(c)
  <2>1. /\ tpc[c] = "recv" /\ request[c] # None /\ buf' = [buf EXCEPT ![c] = request[c]]
        /\ request' = [request EXCEPT ![c] = None] /\ tpc' = [tpc EXCEPT ![c] = "got"]
        /\ UNCHANGED <<up, net, answer>>
    BY <1>4 DEF Receive, Goto, At
  <2>2. buf'[c] = request[c] /\ request'[c] = None /\ tpc'[c] = "got"
    BY <1>1, <2>1 DEF WiresOK
  <2>3. Alone(c)
    BY <1>1, <1>2, <2>1 DEF Alone, WiresOK
  <2>4. QuietAt(c) => QuietAt(c)'
    BY <1>2, <2>1, <2>2 DEF QuietAt, Quiet
  <2>5. QED BY <1>1, <1>2, <2>1, <2>2, <2>3, <2>4, OneStep
<1>5. CASE ReceiveEnd(c) \/ ReceiveError(c)
  <2>1. /\ tpc[c] = "recv" /\ request[c] = None /\ net[c] \in {"fin", "dead", "rst"}
        /\ up' = up
    BY <1>5 DEF ReceiveEnd, ReceiveError, At
  <2>2. ~QuietAt(c)
    BY <2>1 DEF QuietAt, Quiet
  <2>3. Alone(c) /\ tpc'[c] # "none"
    <3>1. CASE ReceiveEnd(c)
      <4>1. PICK r : buf' = [buf EXCEPT ![c] = r]
        BY <3>1 DEF ReceiveEnd
      <4>2. tpc' = [tpc EXCEPT ![c] = "got"] /\ UNCHANGED <<request, net, answer>>
        BY <3>1 DEF ReceiveEnd, Goto, wires
      <4>3. QED BY <1>1, <1>2, <4>1, <4>2 DEF Alone, WiresOK
    <3>2. CASE ReceiveError(c)
      BY <1>1, <1>2, <3>2 DEF ReceiveError, threads, Alone, WiresOK
    <3>3. QED BY <1>5, <3>1, <3>2
  <2>4. QED BY <1>1, <1>2, <2>2, <2>3, OneStep
<1>6. CASE Quit(c) \/ Unknown(c) \/ Lock(c) \/ PostFull(c) \/ PostStore(c) \/ PostCount(c)
            \/ DeleteMatch(c) \/ DeletePass(c) \/ DeleteEnd(c) \/ Read(c)
  <2>1. UNCHANGED <<up, buf, request, net, answer>>
    BY <1>6 DEF Quit, Unknown, Lock, PostFull, PostStore, PostCount, DeleteMatch, DeletePass,
            DeleteEnd, Read, Unlock, wires
  <2>2. \/ /\ tpc[c] = "got" /\ buf[c].op = "querSair" /\ tpc' = [tpc EXCEPT ![c] = "ended"]
        \/ /\ tpc[c] = "got" /\ buf[c].op # "querSair" /\ tpc' = [tpc EXCEPT ![c] = "reply"]
        \/ /\ tpc[c] = "got" /\ buf[c].op # "querSair" /\ tpc' = [tpc EXCEPT ![c] = "locked"]
        \/ /\ tpc[c] = "locked" /\ tpc' = [tpc EXCEPT ![c] = "reply"]
        \/ /\ tpc[c] = "locked" /\ tpc' = [tpc EXCEPT ![c] = "ack"]
        \/ /\ tpc[c] = "locked" /\ tpc' = tpc
        \/ /\ tpc[c] = "count" /\ tpc' = [tpc EXCEPT ![c] = "recv"]
    BY <1>6 DEF Quit, Unknown, Lock, PostFull, PostStore, PostCount, DeleteMatch, DeletePass,
            DeleteEnd, Read, Unlock, Locked, At, Goto
  <2>3. \/ tpc[c] = "got" /\ buf[c].op = "querSair" /\ tpc'[c] = "ended"
        \/ tpc[c] = "got" /\ buf[c].op # "querSair" /\ tpc'[c] \in {"reply", "locked"}
        \/ tpc[c] = "locked" /\ tpc'[c] \in {"reply", "ack", "locked"}
        \/ tpc[c] = "count" /\ tpc'[c] = "recv"
    BY <1>1, <2>2 DEF WiresOK
  <2>4. Alone(c)
    BY <1>1, <1>2, <2>1, <2>2 DEF Alone, WiresOK
  <2>5. QuietAt(c) => QuietAt(c)'
    BY <1>2, <2>1, <2>3 DEF QuietAt, Quiet
  <2>6. tpc'[c] # "none"
    BY <2>3
  <2>7. QED BY <1>1, <1>2, <2>1, <2>4, <2>5, <2>6, OneStep
<1>7. QED BY <1>3, <1>4, <1>5, <1>6 DEF Thread

LEMMA AcceptDeath ==
  ASSUME DeathInv, NEW c \in Clients, Accept(c)
  PROVE  DeathInv'
<1>1. /\ up /\ up' = up /\ cst[c] # "off" /\ tpc[c] = "none" /\ Cardinality(Accepted) < MaxFd
      /\ tpc' = [tpc EXCEPT ![c] = "recv"]
      /\ UNCHANGED <<buf, request, net, answer, cst, sent, posted>>
  BY DEF Accept, Waiting, wires, clients
<1>2. WiresOK'
  <2>1. tpc' \in [Clients -> Stages]
    BY <1>1 DEF DeathInv, WiresOK, Stages
  <2>2. QED BY <1>1, <2>1 DEF DeathInv, WiresOK
<1>3. tpc'[c] = "recv" /\ \A d \in Clients \ {c} : tpc'[d] = tpc[d]
  BY <1>1 DEF DeathInv, WiresOK
<1>4. Undisturbed'
  <2> SUFFICES ASSUME NobodyGone, NEW d \in Clients PROVE QuietAt(d)'
    BY <1>1 DEF Undisturbed, NobodyGone
  <2>1. QuietAt(d)
    BY <1>1 DEF DeathInv, Undisturbed
  <2>2. CASE d = c
    BY <1>1, <1>3, <2>1, <2>2 DEF QuietAt, Quiet
  <2>3. CASE d # c
    BY <1>1, <1>3, <2>1, <2>3 DEF QuietAt
  <2>4. QED BY <2>2, <2>3
<1>5. FewAccepted'
  <2>1. Accepted' = Accepted \cup {c} /\ c \notin Accepted
    BY <1>1, <1>3 DEF Accepted
  <2>2. IsFiniteSet(Accepted') /\ Cardinality(Accepted') = Cardinality(Accepted) + 1
    BY <2>1, FS_AddElement DEF DeathInv, FewAccepted
  <2>3. Cardinality(Accepted) \in Nat
    BY FS_CardinalityType DEF DeathInv, FewAccepted
  <2>4. Cardinality(Accepted') <= MaxFd
    BY <1>1, <2>2, <2>3
  <2>5. QED BY <2>2, <2>4 DEF FewAccepted
<1>6. DiesOnlyOfHangup'
  BY <1>1 DEF DiesOnlyOfHangup
<1>7. QED BY <1>2, <1>4, <1>5, <1>6 DEF DeathInv

LEMMA AcceptFailsDeath ==
  ASSUME DeathInv, AcceptFails
  PROVE  DeathInv'
<1>1. /\ Cardinality(Accepted) >= MaxFd /\ ~up' /\ up' \in BOOLEAN
      /\ UNCHANGED <<tpc, buf, request, net, answer, cst, sent, posted>>
  BY DEF AcceptFails, threads, wires, clients
<1>2. WiresOK'
  BY <1>1 DEF DeathInv, WiresOK
<1>3. Undisturbed'
  BY <1>1 DEF Undisturbed
<1>4. Accepted' = Accepted
  BY <1>1 DEF Accepted
<1>5. Cardinality(Accepted) = MaxFd
  <2>1. Cardinality(Accepted) \in Nat
    BY FS_CardinalityType DEF DeathInv, FewAccepted
  <2>2. QED BY <1>1, <2>1 DEF DeathInv, FewAccepted
<1>6. FewAccepted' /\ DiesOnlyOfHangup'
  BY <1>4, <1>5 DEF DeathInv, FewAccepted, DiesOnlyOfHangup
<1>7. QED BY <1>2, <1>3, <1>6 DEF DeathInv

LEMMA DeathInit == Init => DeathInv
<1> SUFFICES ASSUME Init PROVE DeathInv
  OBVIOUS
<1>1. WiresOK
  BY DEF Init, WiresOK, Stages
<1>2. Undisturbed
  BY DEF Init, Undisturbed, QuietAt, Quiet
<1>3. Accepted = {}
  BY DEF Init, Accepted
<1>4. IsFiniteSet({}) /\ Cardinality({}) = 0
  BY FS_EmptySet
<1>5. FewAccepted
  BY <1>3, <1>4 DEF FewAccepted
<1>6. DiesOnlyOfHangup
  BY DEF Init, DiesOnlyOfHangup
<1>7. QED BY <1>1, <1>2, <1>5, <1>6 DEF DeathInv

LEMMA DeathNext ==
  ASSUME DeathInv, [Next]_vars
  PROVE  DeathInv'
<1>1. CASE UNCHANGED vars
  <2>1. UNCHANGED <<up, tpc, buf, request, net, answer, cst, sent, posted>>
    BY <1>1 DEF vars, threads, wires, clients
  <2>2. WiresOK' /\ Undisturbed'
    BY <2>1 DEF DeathInv, WiresOK, Undisturbed, NobodyGone, QuietAt
  <2>3. FewAccepted' /\ DiesOnlyOfHangup'
    BY <2>1 DEF DeathInv, FewAccepted, DiesOnlyOfHangup, Accepted
  <2>4. QED BY <2>2, <2>3 DEF DeathInv
<1>2. QED BY <1>1, ClientDeath, ThreadDeath, AcceptDeath, AcceptFailsDeath DEF Next

\* As long as every client leaves through the menu the server ends only when
\* its descriptors are used up: no thread sends to a client that has left.
THEOREM DeathNeedsHangup == Spec => []DiesOnlyOfHangup
<1>1. DeathInv => DiesOnlyOfHangup
  BY DEF DeathInv
<1>2. QED BY <1>1, DeathInit, DeathNext, PTL DEF Spec

-----------------------------------------------------------------------------
(* The mutex and the board.                                                 *)

Answers == {a \in [kind : {"ack", "vazio", "erro", "invalido"}, list : Seq(Messages)] :
              Len(a.list) <= MaxMsgs}

MemoryTypes ==
  /\ lock \in Clients \cup {None} /\ count \in 0..MaxMsgs
  /\ db \in [Slots -> Messages \cup {None}]
  /\ out \in [Clients -> Answers] /\ i \in [Clients -> 1..(MaxMsgs + 1)]

\* Who is between lock and unlock holds the mutex, and nobody else.
Mutex == \A c \in Clients : tpc[c] \in {"locked", "ack", "count"} <=> lock = c

\* The board is filled up to the counter, and one entry further while a message
\* is confirmed that is not counted yet.
Filled ==
  /\ \A s \in Slots : s <= count => db[s] \in Messages
  /\ \A c \in Clients : tpc[c] \in {"ack", "count"} =>
       count < MaxMsgs /\ db[count + 1] \in Messages

\* What a deletion has put into its answer it has taken from the board.
Fits == \A c \in Clients : tpc[c] = "locked" => Len(out[c].list) + count <= MaxMsgs

MutexInv == WiresOK /\ MemoryTypes /\ Mutex /\ Filled /\ Fits

LEMMA PlainAnswers ==
  ASSUME NEW k \in {"ack", "vazio", "erro", "invalido"}
  PROVE  Answer(k) \in Answers /\ Answer(k).list = << >> /\ Len(Answer(k).list) = 0
<1>1. << >> \in Seq(Messages) /\ Len(<< >>) = 0
  OBVIOUS
<1>2. QED BY <1>1 DEF Answer, Answers

LEMMA Listings ==
  ASSUME NEW ms \in Seq(Messages), Len(ms) <= MaxMsgs
  PROVE  Listing(ms) \in Answers /\ Listing(ms).list = ms
BY DEF Listing, Answers

\* A step that leaves the memory alone, and its thread outside the lock or
\* where it was.
LEMMA OutsideLock ==
  ASSUME MutexInv, WiresOK', NEW c \in Clients,
         UNCHANGED <<lock, db, count, i>>,
         \A d \in Clients \ {c} : tpc'[d] = tpc[d],
         tpc[c] \notin {"locked", "ack", "count"}, tpc'[c] \notin {"locked", "ack", "count"},
         out' = out \/ \E a \in Answers : out' = [out EXCEPT ![c] = a]
  PROVE  MutexInv'
<1>1. out' \in [Clients -> Answers] /\ \A d \in Clients \ {c} : out'[d] = out[d]
  BY DEF MutexInv, MemoryTypes
<1>2. MemoryTypes'
  BY <1>1 DEF MutexInv, MemoryTypes
<1>3. Mutex'
  BY DEF MutexInv, Mutex
<1>4. Filled'
  BY DEF MutexInv, Filled
<1>5. Fits'
  BY <1>1 DEF MutexInv, Fits
<1>6. QED BY <1>2, <1>3, <1>4, <1>5 DEF MutexInv

\* A step that changes neither the memory nor where a thread is.
LEMMA MemoryKept ==
  ASSUME MutexInv, WiresOK', UNCHANGED <<lock, db, count, tpc, out, i>>
  PROVE  MutexInv'
BY DEF MutexInv, MemoryTypes, Mutex, Filled, Fits

LEMMA ReleaseMutex ==
  ASSUME MutexInv, WiresOK', NEW c \in Clients, NEW a \in Answers, tpc[c] = "locked",
         Unlock(c, a), UNCHANGED <<db, count, i>>
  PROVE  MutexInv'
<1>1. lock = c /\ lock' = None /\ c # None /\ \A d \in Clients : d # None
  BY DEF MutexInv, Mutex, Unlock
<1>2. tpc' = [tpc EXCEPT ![c] = "reply"] /\ out' = [out EXCEPT ![c] = a]
  BY DEF Unlock, Goto
<1>3. tpc'[c] = "reply" /\ \A d \in Clients \ {c} : tpc'[d] = tpc[d] /\ out'[d] = out[d]
  BY <1>2 DEF MutexInv, WiresOK, MemoryTypes
<1>4. MemoryTypes'
  BY <1>1, <1>2 DEF MutexInv, MemoryTypes
<1>5. Mutex' /\ Filled' /\ Fits'
  BY <1>1, <1>3 DEF MutexInv, Mutex, Filled, Fits
<1>6. QED BY <1>4, <1>5 DEF MutexInv

LEMMA TakeMutex ==
  ASSUME MutexInv, WiresOK', NEW c \in Clients, Lock(c)
  PROVE  MutexInv'
<1>1. /\ lock = None /\ lock' = c /\ i' = [i EXCEPT ![c] = 1] /\ UNCHANGED <<db, count>>
      /\ out' = [out EXCEPT ![c] = Answer("vazio")] /\ tpc' = [tpc EXCEPT ![c] = "locked"]
  BY DEF Lock, Goto
<1>2. Answer("vazio") \in Answers /\ Len(Answer("vazio").list) = 0
  BY PlainAnswers
<1>3. /\ tpc'[c] = "locked" /\ out'[c] = Answer("vazio")
      /\ \A d \in Clients \ {c} : tpc'[d] = tpc[d] /\ out'[d] = out[d]
  BY <1>1 DEF MutexInv, WiresOK, MemoryTypes
<1>4. \A d \in Clients : tpc[d] \notin {"locked", "ack", "count"}
  BY <1>1 DEF MutexInv, Mutex
<1>5. MemoryTypes'
  BY <1>1, <1>2 DEF MutexInv, MemoryTypes
<1>6. Mutex' /\ Filled'
  BY <1>1, <1>3, <1>4 DEF MutexInv, Mutex, Filled
<1>7. Fits'
  BY <1>1, <1>2, <1>3, <1>4 DEF MutexInv, Fits, MemoryTypes
<1>8. QED BY <1>5, <1>6, <1>7 DEF MutexInv

LEMMA StoreMessage ==
  ASSUME MutexInv, WiresOK', NEW c \in Clients, PostStore(c)
  PROVE  MutexInv'
<1>1. /\ tpc[c] = "locked" /\ count < MaxMsgs /\ db' = [db EXCEPT ![count + 1] = buf[c].arg]
      /\ out' = [out EXCEPT ![c] = Answer("ack")] /\ tpc' = [tpc EXCEPT ![c] = "ack"]
      /\ UNCHANGED <<lock, count, i>> /\ buf[c].op = "cadastrar"
  BY DEF PostStore, Locked, At, Goto
<1>2. buf[c].arg \in Messages
  <2>1. buf[c] \in Command
    BY <1>1 DEF MutexInv, WiresOK
  <2>2. QED BY <1>1, <2>1, Commands
<1>3. Answer("ack") \in Answers
  BY PlainAnswers
<1>4. count + 1 \in Slots
  BY <1>1 DEF MutexInv, MemoryTypes, Slots
<1>5. /\ tpc'[c] = "ack" /\ \A d \in Clients \ {c} : tpc'[d] = tpc[d] /\ out'[d] = out[d]
  BY <1>1 DEF MutexInv, WiresOK, MemoryTypes
<1>6. /\ db'[count + 1] \in Messages
      /\ \A s \in Slots : s <= count => db'[s] = db[s]
  BY <1>1, <1>2, <1>4 DEF MutexInv, MemoryTypes
<1>7. MemoryTypes'
  BY <1>1, <1>2, <1>3 DEF MutexInv, MemoryTypes
<1>8. Mutex' /\ Fits'
  BY <1>1, <1>5 DEF MutexInv, Mutex, Fits
<1>9. Filled'
  BY <1>1, <1>6 DEF MutexInv, Filled
<1>10. QED BY <1>7, <1>8, <1>9 DEF MutexInv

LEMMA CountMessage ==
  ASSUME MutexInv, WiresOK', NEW c \in Clients, PostCount(c)
  PROVE  MutexInv'
<1>1. /\ tpc[c] = "count" /\ count' = count + 1 /\ lock' = None
      /\ tpc' = [tpc EXCEPT ![c] = "recv"] /\ UNCHANGED <<db, out, i>>
  BY DEF PostCount, At, Goto
<1>2. count < MaxMsgs /\ db[count + 1] \in Messages /\ lock = c
  BY <1>1 DEF MutexInv, Filled, Mutex
<1>3. /\ tpc'[c] = "recv" /\ \A d \in Clients \ {c} : tpc'[d] = tpc[d]
  BY <1>1 DEF MutexInv, WiresOK
<1>4. \A d \in Clients : tpc'[d] \notin {"locked", "ack", "count"}
  BY <1>2, <1>3 DEF MutexInv, Mutex
<1>5. MemoryTypes'
  BY <1>1, <1>2 DEF MutexInv, MemoryTypes
<1>6. Mutex' /\ Fits'
  BY <1>1, <1>4 DEF Mutex, Fits
<1>7. Filled'
  BY <1>1, <1>2, <1>4 DEF MutexInv, Filled, MemoryTypes, Slots
<1>8. QED BY <1>5, <1>6, <1>7 DEF MutexInv

LEMMA DeleteMessage ==
  ASSUME MutexInv, WiresOK', NEW c \in Clients, DeleteMatch(c)
  PROVE  MutexInv'
<1> DEFINE m == db[i[c]]
           a == Listing(Append(out[c].list, m))
<1>1. /\ tpc[c] = "locked" /\ i[c] <= count /\ count' = count - 1
      /\ db' = [s \in Slots |-> IF s >= i[c] /\ s < count THEN db[s + 1] ELSE db[s]]
      /\ UNCHANGED <<lock, tpc, i>>
  BY DEF DeleteMatch, Locked, At, Matches
<1>2. out' = [out EXCEPT ![c] = a]
  BY DEF DeleteMatch
<1>3. i[c] \in Slots /\ m \in Messages
  BY <1>1 DEF MutexInv, MemoryTypes, Filled, Slots
<1>4. out[c].list \in Seq(Messages) /\ Len(out[c].list) + count <= MaxMsgs /\ out[c] \in Answers
  BY <1>1 DEF MutexInv, MemoryTypes, Fits, Answers
<1>5. /\ Append(out[c].list, m) \in Seq(Messages)
      /\ Len(Append(out[c].list, m)) = Len(out[c].list) + 1
  BY <1>3, <1>4
<1>6. a \in Answers /\ Len(a.list) = Len(out[c].list) + 1
  <2>1. Len(Append(out[c].list, m)) <= MaxMsgs
    BY <1>1, <1>3, <1>4, <1>5 DEF MutexInv, MemoryTypes, Slots
  <2>2. QED BY <1>5, <2>1, Listings
<1>7. count \in 1..MaxMsgs /\ count' \in 0..MaxMsgs
  BY <1>1, <1>3 DEF MutexInv, MemoryTypes, Slots
<1>8. db' \in [Slots -> Messages \cup {None}]
  BY <1>1, <1>7 DEF MutexInv, MemoryTypes, Slots
<1>9. out' \in [Clients -> Answers] /\ out'[c] = a /\ \A d \in Clients \ {c} : out'[d] = out[d]
  BY <1>2, <1>6 DEF MutexInv, MemoryTypes
<1>10. MemoryTypes'
  BY <1>1, <1>7, <1>8, <1>9 DEF MutexInv, MemoryTypes
<1>11. Mutex'
  BY <1>1 DEF MutexInv, Mutex
<1>12. \A d \in Clients \ {c} : tpc[d] \notin {"locked", "ack", "count"}
  BY <1>1 DEF MutexInv, Mutex
<1>13. Filled'
  <2>1. ASSUME NEW s \in Slots, s <= count' PROVE db'[s] \in Messages
    BY <1>1, <1>7, <2>1 DEF MutexInv, Filled, Slots
  <2>2. QED BY <1>1, <1>12, <2>1 DEF Filled
<1>14. Fits'
  BY <1>1, <1>4, <1>6, <1>7, <1>9, <1>12 DEF Fits
<1>15. QED BY <1>10, <1>11, <1>13, <1>14 DEF MutexInv

LEMMA MutexThread ==
  ASSUME MutexInv, NEW c \in Clients, Thread(c)
  PROVE  MutexInv'
<1>1. WiresOK /\ WiresOK'
  BY ThreadWires DEF MutexInv
<1>2. CASE Lock(c) \/ PostStore(c) \/ PostCount(c) \/ DeleteMatch(c)
  BY <1>1, <1>2, TakeMutex, StoreMessage, CountMessage, DeleteMessage
<1>3. CASE PostFull(c) \/ DeleteEnd(c) \/ Read(c)
  <2>1. PICK a : Unlock(c, a) /\ a \in Answers
    <3>1. CASE PostFull(c)
      BY <3>1, PlainAnswers DEF PostFull
    <3>2. CASE DeleteEnd(c)
      BY <3>2 DEF DeleteEnd, MutexInv, MemoryTypes
    <3>3. CASE Read(c)
      <4>1. /\ SubSeq(db, 1, count) \in Seq(Messages)
            /\ Len(SubSeq(db, 1, count)) <= MaxMsgs
        <5>1. count \in Nat /\ \A s \in 1..count : db[s] \in Messages
          BY DEF MutexInv, MemoryTypes, Filled, Slots
        <5>2. SubSeq(db, 1, count) = [s \in 1..count |-> db[s]]
          <6>1. SubSeq(db, 1, count) = [s \in 1..(1 + count - 1) |-> db[s + 1 - 1]]
            BY <5>1 DEF MutexInv
          <6>2. QED BY <5>1, <6>1
        <5>3. QED BY <5>1, <5>2 DEF MutexInv, MemoryTypes
      <4>2. QED BY <3>3, <4>1, Listings DEF Read
    <3>4. QED BY <1>3, <3>1, <3>2, <3>3
  <2>2. tpc[c] = "locked" /\ UNCHANGED <<db, count, i>>
    BY <1>3 DEF PostFull, DeleteEnd, Read, Locked, At
  <2>3. QED BY <1>1, <2>1, <2>2, ReleaseMutex
<1>4. CASE Receive(c) \/ ReceiveEnd(c) \/ Quit(c) \/ Unknown(c) \/ Reply(c)
  <2>1. /\ UNCHANGED <<lock, db, count, i>> /\ tpc[c] \in {"recv", "got", "reply"}
        /\ \/ tpc' = [tpc EXCEPT ![c] = "got"] \/ tpc' = [tpc EXCEPT ![c] = "ended"]
           \/ tpc' = [tpc EXCEPT ![c] = "reply"] \/ tpc' = [tpc EXCEPT ![c] = "recv"]
        /\ out' = out \/ out' = [out EXCEPT ![c] = Answer("invalido")]
    BY <1>4 DEF Receive, ReceiveEnd, Quit, Unknown, Reply, At, Goto, memory
  <2>2. tpc'[c] \in {"got", "ended", "reply", "recv"} /\ \A d \in Clients \ {c} : tpc'[d] = tpc[d]
    BY <1>1, <2>1 DEF WiresOK
  <2>3. Answer("invalido") \in Answers
    BY PlainAnswers
  <2>4. out' = out \/ \E a \in Answers : out' = [out EXCEPT ![c] = a]
    BY <2>1, <2>3
  <2>5. QED BY <1>1, <2>1, <2>2, <2>4, OutsideLock
<1>5. CASE ReceiveError(c)
  <2>1. UNCHANGED <<lock, db, count, tpc, out, i>>
    BY <1>5 DEF ReceiveError, memory, threads
  <2>2. QED BY <1>1, <2>1, MemoryKept
<1>6. CASE PostAck(c)
  <2>1. /\ tpc[c] = "ack" /\ tpc' = [tpc EXCEPT ![c] = "count"]
        /\ UNCHANGED <<lock, db, count, out, i>>
    BY <1>6 DEF PostAck, At, Goto, memory
  <2>2. tpc'[c] = "count" /\ \A d \in Clients \ {c} : tpc'[d] = tpc[d]
    BY <1>1, <2>1 DEF WiresOK
  <2>3. MemoryTypes' /\ Mutex' /\ Filled' /\ Fits'
    BY <2>1, <2>2 DEF MutexInv, MemoryTypes, Mutex, Filled, Fits
  <2>4. QED BY <1>1, <2>3 DEF MutexInv
<1>7. CASE DeletePass(c)
  <2>1. /\ i[c] <= count /\ i' = [i EXCEPT ![c] = i[c] + 1] /\ UNCHANGED <<lock, db, count, tpc, out>>
    BY <1>7 DEF DeletePass, memory
  <2>2. i' \in [Clients -> 1..(MaxMsgs + 1)]
    <3>1. i[c] + 1 \in 1..(MaxMsgs + 1)
      BY <2>1 DEF MutexInv, MemoryTypes
    <3>2. QED BY <2>1, <3>1 DEF MutexInv, MemoryTypes
  <2>3. MemoryTypes' /\ Mutex' /\ Filled' /\ Fits'
    BY <2>1, <2>2 DEF MutexInv, MemoryTypes, Mutex, Filled, Fits
  <2>4. QED BY <1>1, <2>3 DEF MutexInv
<1>8. QED BY <1>2, <1>3, <1>4, <1>5, <1>6, <1>7 DEF Thread

LEMMA MutexNext ==
  ASSUME MutexInv, [Next]_vars
  PROVE  MutexInv'
<1>1. CASE \E c \in Clients : Thread(c)
  BY <1>1, MutexThread
<1>2. CASE \E c \in Clients : Accept(c)
  <2>1. PICK c \in Clients : Accept(c)
    BY <1>2
  <2>2. /\ tpc[c] = "none" /\ tpc' = [tpc EXCEPT ![c] = "recv"]
        /\ UNCHANGED <<lock, db, count, out, i, up, buf, request, net, answer, cst, sent, posted>>
    BY <2>1 DEF Accept, Waiting, memory, wires, clients
  <2>3. tpc' \in [Clients -> Stages] /\ tpc'[c] = "recv" /\ \A d \in Clients \ {c} : tpc'[d] = tpc[d]
    BY <2>2 DEF MutexInv, WiresOK, Stages
  <2>4. WiresOK'
    BY <2>2, <2>3 DEF MutexInv, WiresOK
  <2>5. QED BY <2>2, <2>3, <2>4, OutsideLock
<1>3. CASE AcceptFails \/ UNCHANGED vars \/ \E c \in Clients : Client(c)
  <2>1. UNCHANGED <<lock, db, count, tpc, out, i>>
    BY <1>3 DEF AcceptFails, vars, Client, Connect, ReadAnswer, ServerLost, Leave, Die, Request,
            memory, threads
  <2>2. WiresOK'
    <3>1. CASE \E c \in Clients : Client(c)
      BY <3>1, ClientWires DEF MutexInv
    <3>2. CASE AcceptFails \/ UNCHANGED vars
      <4>1. up' \in BOOLEAN /\ UNCHANGED <<tpc, buf, request, net, answer, cst, sent, posted>>
        BY <3>2 DEF AcceptFails, vars, threads, wires, clients, MutexInv, WiresOK
      <4>2. QED BY <4>1 DEF MutexInv, WiresOK
    <3>3. QED BY <1>3, <3>1, <3>2
  <2>3. QED BY <2>1, <2>2, MemoryKept
<1>4. QED BY <1>1, <1>2, <1>3 DEF Next

LEMMA MutexInit == Init => MutexInv
<1> SUFFICES ASSUME Init PROVE MutexInv
  OBVIOUS
<1>1. WiresOK
  BY DEF Init, WiresOK, Stages
<1>2. Answer("vazio") \in Answers
  BY PlainAnswers
<1>3. MemoryTypes
  BY <1>2 DEF Init, MemoryTypes
<1>4. Mutex /\ Filled /\ Fits
  BY DEF Init, Mutex, Filled, Fits, Slots
<1>5. QED BY <1>1, <1>3, <1>4 DEF MutexInv

LEMMA MutexTypes == MutexInv => TypeOK
<1> SUFFICES ASSUME MutexInv PROVE TypeOK
  OBVIOUS
<1>1. \A c \in Clients :
        /\ out[c].kind \in {"ack", "vazio", "erro", "invalido"}
        /\ out[c].list \in Seq(Messages) /\ Len(out[c].list) <= MaxMsgs
  BY DEF MutexInv, MemoryTypes, Answers
<1>2. QED BY <1>1 DEF MutexInv, MemoryTypes, WiresOK, Stages, TypeOK

\* No index of trata_cliente leaves the board and no answer outgrows sendbuf,
\* because the mutex is held from the first look at the counter to the last.
THEOREM BoardInBounds == Spec => []TypeOK
<1>1. QED BY MutexInit, MutexNext, MutexTypes, PTL DEF Spec

\* Two threads are never between lock and unlock at once.
THEOREM OneInside ==
  Spec => [](\A c, d \in Clients :
               {tpc[c], tpc[d]} \subseteq {"locked", "ack", "count"} => c = d)
<1>1. MutexInv => \A c, d \in Clients :
        {tpc[c], tpc[d]} \subseteq {"locked", "ack", "count"} => c = d
  BY DEF MutexInv, Mutex
<1>2. QED BY <1>1, MutexInit, MutexNext, PTL DEF Spec

-----------------------------------------------------------------------------
(* How often a message is stored.                                           *)

\* The length of what is stored.
Shown == IF \E c \in Clients : tpc[c] \in {"ack", "count"} THEN count + 1 ELSE count

Places(m) == {s \in 1..Shown : db[s] = m}

\* The request r is to post m.
Posts(r, m) == r # None /\ r.op = "cadastrar" /\ r.arg = m

\* A request to post m is under way or taken up and not yet served.
Asks(c, m) == Posts(request[c], m) \/ (tpc[c] \in {"got", "locked"} /\ Posts(buf[c], m))
Pending(m) == {c \in Clients : Asks(c, m)}

\* Every place and every request of m goes back to a sending of its own.
Covered(m) ==
  /\ IsFiniteSet(Pending(m))
  /\ Cardinality(Places(m)) + Cardinality(Pending(m)) <= posted[m]

AllCovered == NobodyGone => \A m \in Messages : Covered(m)

StoreInv == DeathInv /\ MutexInv /\ AllCovered

LEMMA PlacesFinite ==
  ASSUME MutexInv, NEW m
  PROVE  IsFiniteSet(Places(m)) /\ Cardinality(Places(m)) \in Nat /\ Shown \in Nat
<1>1. count \in Nat
  BY DEF MutexInv, MemoryTypes
<1>2. Shown \in Nat
  BY <1>1 DEF Shown
<1>3. IsFiniteSet(1..Shown)
  BY <1>2, FS_Interval
<1>4. Places(m) \in SUBSET (1..Shown)
  BY DEF Places
<1>5. IsFiniteSet(Places(m))
  BY <1>3, <1>4, FS_Subset
<1>6. QED BY <1>2, <1>5, FS_CardinalityType

\* A step that adds neither a place nor a request.
LEMMA NoMore ==
  ASSUME MutexInv, NEW m, Covered(m), posted'[m] = posted[m], posted[m] \in Nat,
         Places(m)' \subseteq Places(m), Pending(m)' \subseteq Pending(m)
  PROVE  Covered(m)'
<1> DEFINE a == Places(m)
           b == Places(m)'
           p == Pending(m)
           q == Pending(m)'
<1>1. IsFiniteSet(a) /\ Cardinality(a) \in Nat /\ IsFiniteSet(p)
  BY PlacesFinite DEF Covered
<1>2. IsFiniteSet(b) /\ Cardinality(b) <= Cardinality(a)
  BY <1>1, FS_Subset
<1>3. IsFiniteSet(q) /\ Cardinality(q) <= Cardinality(p)
  BY <1>1, FS_Subset
<1>4. Cardinality(b) \in Nat /\ Cardinality(p) \in Nat /\ Cardinality(q) \in Nat
  BY <1>1, <1>2, <1>3, FS_CardinalityType
<1>5. Cardinality(a) + Cardinality(p) <= posted[m]
  BY DEF Covered
<1> HIDE DEF a, b, p, q
<1>6. Cardinality(b) + Cardinality(q) <= posted[m]
  BY <1>1, <1>2, <1>3, <1>4, <1>5
<1>7. QED BY <1>3, <1>6 DEF Covered, b, q

LEMMA SamePlaces ==
  ASSUME UNCHANGED <<db, count>>,
         \A d \in Clients : tpc'[d] \in {"ack", "count"} <=> tpc[d] \in {"ack", "count"},
         NEW m
  PROVE  Places(m)' = Places(m)
<1>1. Shown' = Shown
  BY DEF Shown
<1>2. QED BY <1>1 DEF Places

LEMMA NoRequest ==
  ASSUME NEW c \in Clients, NEW m,
         \A d \in Clients \ {c} : tpc'[d] = tpc[d] /\ request'[d] = request[d] /\ buf'[d] = buf[d],
         Asks(c, m)' => Asks(c, m)
  PROVE  Pending(m)' \subseteq Pending(m)
BY DEF Pending, Asks

\* A client sends: the request is one more, and so is the sending.
LEMMA RequestCovered ==
  ASSUME StoreInv, NEW c \in Clients, NEW r \in Command, Request(c, r), NEW m \in Messages,
         Covered(m), NobodyGone
  PROVE  Covered(m)'
<1>1. /\ up /\ cst[c] = "menu" /\ request' = [request EXCEPT ![c] = r]
      /\ posted' = (IF r.op = "cadastrar" THEN [posted EXCEPT ![r.arg] = posted[r.arg] + 1] ELSE posted)
      /\ UNCHANGED <<db, count, tpc, buf>>
  BY DEF Request, memory, threads
<1>2. WiresOK /\ MutexInv
  BY DEF StoreInv, DeathInv
<1>3. request[c] = None /\ tpc[c] \notin {"got", "locked"}
  BY <1>1 DEF StoreInv, DeathInv, Undisturbed, QuietAt, Quiet
<1>4. request'[c] = r /\ \A d \in Clients \ {c} : request'[d] = request[d]
  BY <1>1, <1>2 DEF WiresOK
<1>5. Places(m)' = Places(m)
  BY <1>1, SamePlaces
<1>6. CASE ~Posts(r, m)
  <2>1. Pending(m)' \subseteq Pending(m)
    BY <1>1, <1>3, <1>4, <1>6 DEF Pending, Asks
  <2>2. posted'[m] = posted[m] /\ posted[m] \in Nat
    <3>1. r # None /\ (r.op = "cadastrar" => r.arg \in Messages)
      BY Commands
    <3>2. r.op = "cadastrar" => r.arg # m
      BY <1>6, <3>1 DEF Posts
    <3>3. QED BY <1>1, <1>2, <3>2 DEF WiresOK
  <2>3. QED BY <1>2, <1>5, <2>1, <2>2, NoMore
<1>7. CASE Posts(r, m)
  <2>1. c \notin Pending(m) /\ Pending(m)' = Pending(m) \cup {c}
    BY <1>1, <1>3, <1>4, <1>7 DEF Pending, Asks, Posts
  <2>2. IsFiniteSet(Pending(m)') /\ Cardinality(Pending(m)') = Cardinality(Pending(m)) + 1
    BY <2>1, FS_AddElement DEF Covered
  <2>3. posted'[m] = posted[m] + 1 /\ posted[m] \in Nat
    BY <1>1, <1>2, <1>7 DEF WiresOK, Posts
  <2>4. Cardinality(Places(m)) \in Nat /\ Cardinality(Pending(m)) \in Nat
    BY <1>2, PlacesFinite, FS_CardinalityType DEF Covered
  <2>5. Cardinality(Places(m)) + Cardinality(Pending(m)) <= posted[m]
    BY DEF Covered
  <2>6. Cardinality(Places(m)') + Cardinality(Pending(m)') <= posted'[m]
    BY <1>5, <2>2, <2>3, <2>4, <2>5
  <2>7. QED BY <2>2, <2>6 DEF Covered
<1>8. QED BY <1>6, <1>7

\* A message is stored: its request becomes its place.
LEMMA StoreCovered ==
  ASSUME StoreInv, NEW c \in Clients, PostStore(c), NEW m \in Messages, Covered(m), QuietAt(c)
  PROVE  Covered(m)'
<1>1. /\ tpc[c] = "locked" /\ count < MaxMsgs /\ db' = [db EXCEPT ![count + 1] = buf[c].arg]
      /\ tpc' = [tpc EXCEPT ![c] = "ack"] /\ buf[c].op = "cadastrar"
      /\ UNCHANGED <<count, buf, request, posted>>
  BY DEF PostStore, Locked, At, Goto, wires, clients
<1>2. WiresOK /\ MutexInv /\ count \in Nat /\ posted[m] \in Nat /\ buf[c] \in Command
  <2>1. WiresOK /\ MutexInv
    BY DEF StoreInv, DeathInv
  <2>2. QED BY <1>1, <2>1 DEF WiresOK, MutexInv, MemoryTypes
<1>3. tpc'[c] = "ack" /\ \A d \in Clients \ {c} : tpc'[d] = tpc[d]
  BY <1>1, <1>2 DEF WiresOK
<1>4. Shown = count /\ Shown' = count + 1
  <2>1. \A d \in Clients \ {c} : tpc[d] \notin {"ack", "count"}
    BY <1>1, <1>2 DEF MutexInv, Mutex
  <2>2. QED BY <1>1, <1>3, <2>1 DEF Shown
<1>5. /\ db'[count + 1] = buf[c].arg
      /\ \A s \in 1..count : db'[s] = db[s]
  <2>1. count + 1 \in Slots /\ \A s \in 1..count : s \in Slots /\ s # count + 1
    BY <1>1, <1>2 DEF Slots
  <2>2. QED BY <1>1, <1>2, <2>1 DEF MutexInv, MemoryTypes
<1>6. request[c] = None
  BY <1>1 DEF QuietAt, Quiet
<1>7. CASE buf[c].arg # m
  <2>1. Places(m)' \subseteq Places(m)
    <3>1. ASSUME NEW s \in Places(m)' PROVE s \in Places(m)
      <4>1. s \in 1..(count + 1) /\ db'[s] = m
        BY <1>4 DEF Places
      <4>2. s # count + 1
        BY <1>5, <1>7, <4>1
      <4>3. s \in 1..count
        BY <1>2, <4>1, <4>2
      <4>4. QED BY <1>4, <1>5, <4>1, <4>3 DEF Places
    <3>2. QED BY <3>1
  <2>2. Pending(m)' \subseteq Pending(m)
    BY <1>1, <1>3 DEF Pending, Asks
  <2>3. QED BY <1>1, <1>2, <2>1, <2>2, NoMore
<1>8. CASE buf[c].arg = m
  <2>1. Places(m)' = Places(m) \cup {count + 1} /\ count + 1 \notin Places(m)
    <3>1. ASSUME NEW s PROVE s \in Places(m)' <=> s \in Places(m) \/ s = count + 1
      <4>1. s \in 1..(count + 1) <=> s \in 1..count \/ s = count + 1
        BY <1>2
      <4>2. s \in Places(m)' <=> s \in 1..(count + 1) /\ db'[s] = m
        BY <1>4 DEF Places
      <4>3. s \in Places(m) <=> s \in 1..count /\ db[s] = m
        BY <1>4 DEF Places
      <4>4. QED BY <1>5, <1>8, <4>1, <4>2, <4>3
    <3>2. count + 1 \notin Places(m)
      BY <1>2, <1>4 DEF Places
    <3>3. QED BY <3>1, <3>2
  <2>2. Pending(m)' = Pending(m) \ {c} /\ c \in Pending(m)
    <3>1. Posts(buf[c], m)
      BY <1>1, <1>2, <1>8, Commands DEF Posts
    <3>2. ~Asks(c, m)'
      BY <1>1, <1>3, <1>6 DEF Asks, Posts
    <3>3. QED BY <1>1, <1>3, <3>1, <3>2 DEF Pending, Asks
  <2>3. Cardinality(Places(m)') = Cardinality(Places(m)) + 1 /\ Cardinality(Places(m)) \in Nat
    BY <1>2, <2>1, PlacesFinite, FS_AddElement
  <2>4. /\ IsFiniteSet(Pending(m)') /\ Cardinality(Pending(m)') = Cardinality(Pending(m)) - 1
        /\ Cardinality(Pending(m)) \in Nat
    BY <2>2, FS_RemoveElement, FS_CardinalityType DEF Covered
  <2>5. Cardinality(Places(m)) + Cardinality(Pending(m)) <= posted[m]
    BY DEF Covered
  <2>6. Cardinality(Places(m)') + Cardinality(Pending(m)') <= posted'[m]
    BY <1>1, <1>2, <2>3, <2>4, <2>5
  <2>7. QED BY <2>4, <2>6 DEF Covered
<1>9. QED BY <1>7, <1>8

\* A message is deleted: the later ones move down, each from a place of its own.
LEMMA DeleteCovered ==
  ASSUME StoreInv, NEW c \in Clients, DeleteMatch(c), NEW m \in Messages, Covered(m)
  PROVE  Covered(m)'
<1>1. /\ tpc[c] = "locked" /\ i[c] <= count /\ count' = count - 1
      /\ db' = [s \in Slots |-> IF s >= i[c] /\ s < count THEN db[s + 1] ELSE db[s]]
      /\ UNCHANGED <<tpc, buf, request, posted>>
  BY DEF DeleteMatch, Locked, At, Matches, wires, clients
<1>2. MutexInv /\ i[c] \in Nat \ {0} /\ count \in 1..MaxMsgs /\ posted[m] \in Nat
  <2>1. WiresOK /\ MutexInv
    BY DEF StoreInv, DeathInv
  <2>2. QED BY <1>1, <2>1 DEF WiresOK, MutexInv, MemoryTypes
<1>3. Shown = count /\ Shown' = count - 1
  <2>1. \A d \in Clients : tpc[d] \notin {"ack", "count"}
    BY <1>1, <1>2 DEF MutexInv, Mutex
  <2>2. QED BY <1>1, <2>1 DEF Shown
<1> DEFINE from(s) == IF s >= i[c] THEN s + 1 ELSE s
           f == [s \in Places(m)' |-> from(s)]
<1>4. ASSUME NEW s \in Places(m)' PROVE s \in Nat /\ from(s) \in Places(m)
  <2>1. s \in 1..(count - 1) /\ db'[s] = m
    BY <1>3 DEF Places
  <2>2. s \in Slots /\ s < count /\ from(s) \in 1..count
    BY <1>2, <2>1 DEF Slots
  <2>3. db'[s] = db[from(s)]
    BY <1>1, <2>2
  <2>4. QED BY <1>3, <2>1, <2>2, <2>3 DEF Places
<1>5. ASSUME NEW s \in Places(m)', NEW t \in Places(m)', from(s) = from(t) PROVE s = t
  <2>1. s \in Nat /\ t \in Nat
    BY <1>4
  <2>2. QED BY <1>2, <1>5, <2>1
<1> HIDE DEF from
<1>6. f \in Injection(Places(m)', Places(m))
  <2>1. f \in [Places(m)' -> Places(m)] /\ DOMAIN f = Places(m)'
    BY <1>4
  <2>2. \A s, t \in Places(m)' : f[s] = f[t] => s = t
    BY <1>5
  <2>3. QED BY <2>1, <2>2 DEF Injection, IsInjective
<1>7. /\ Cardinality(Places(m)') <= Cardinality(Places(m)) /\ IsFiniteSet(Places(m)')
      /\ Cardinality(Places(m)) \in Nat
  BY <1>2, <1>6, PlacesFinite, FS_Injection
<1>8. Pending(m)' = Pending(m)
  BY <1>1 DEF Pending, Asks
<1>9. Cardinality(Places(m)') + Cardinality(Pending(m)') <= posted'[m]
  <2>1. Cardinality(Places(m)') \in Nat /\ Cardinality(Pending(m)) \in Nat
    BY <1>7, FS_CardinalityType DEF Covered
  <2>2. Cardinality(Places(m)) + Cardinality(Pending(m)) <= posted[m]
    BY DEF Covered
  <2>3. QED BY <1>1, <1>2, <1>7, <1>8, <2>1, <2>2
<1>10. QED BY <1>8, <1>9 DEF Covered

LEMMA ThreadCovered ==
  ASSUME StoreInv, NEW c \in Clients, Thread(c)
  PROVE  AllCovered'
<1>1. up /\ UNCHANGED <<cst, posted>>
  BY DEF Thread, Receive, ReceiveEnd, ReceiveError, Quit, Unknown, Lock, PostFull, PostStore,
         PostAck, PostCount, DeleteMatch, DeletePass, DeleteEnd, Read, Reply, Unlock, Locked, At,
         clients
<1> SUFFICES ASSUME NobodyGone, NEW m \in Messages PROVE Covered(m)'
  BY <1>1 DEF AllCovered, NobodyGone
<1>2. Covered(m) /\ QuietAt(c) /\ WiresOK /\ MutexInv /\ posted[m] \in Nat
  BY <1>1 DEF StoreInv, AllCovered, DeathInv, Undisturbed, WiresOK
<1>3. CASE PostStore(c)
  BY <1>2, <1>3, StoreCovered
<1>4. CASE DeleteMatch(c)
  BY <1>2, <1>4, DeleteCovered
<1>5. CASE PostCount(c)
  <2>1. /\ tpc[c] = "count" /\ count' = count + 1 /\ tpc' = [tpc EXCEPT ![c] = "recv"]
        /\ UNCHANGED <<db, buf, request>>
    BY <1>5 DEF PostCount, At, Goto, wires
  <2>2. tpc'[c] = "recv" /\ \A d \in Clients \ {c} : tpc'[d] = tpc[d]
    BY <1>2, <2>1 DEF WiresOK
  <2>3. \A d \in Clients : tpc'[d] \notin {"ack", "count"}
    BY <1>2, <2>1, <2>2 DEF MutexInv, Mutex
  <2>4. Shown = count + 1 /\ Shown' = count + 1
    BY <2>1, <2>3 DEF Shown
  <2>5. Places(m)' = Places(m)
    BY <2>1, <2>4 DEF Places
  <2>6. Pending(m)' \subseteq Pending(m)
    BY <2>1, <2>2, NoRequest DEF Asks
  <2>7. QED BY <1>1, <1>2, <2>5, <2>6, NoMore
<1>6. CASE PostAck(c)
  <2>1. /\ tpc[c] = "ack" /\ tpc' = [tpc EXCEPT ![c] = "count"] /\ UNCHANGED <<db, count, buf>>
        /\ request' = request
    BY <1>6 DEF PostAck, At, Goto, memory, Send
  <2>2. tpc'[c] = "count" /\ \A d \in Clients \ {c} : tpc'[d] = tpc[d]
    BY <1>2, <2>1 DEF WiresOK
  <2>3. Places(m)' = Places(m)
    BY <2>1, <2>2, SamePlaces
  <2>4. Pending(m)' \subseteq Pending(m)
    BY <2>1, <2>2, NoRequest DEF Asks
  <2>5. QED BY <1>1, <1>2, <2>3, <2>4, NoMore
<1>7. CASE Receive(c)
  <2>1. /\ tpc[c] = "recv" /\ request[c] # None /\ buf' = [buf EXCEPT ![c] = request[c]]
        /\ request' = [request EXCEPT ![c] = None] /\ tpc' = [tpc EXCEPT ![c] = "got"]
        /\ UNCHANGED <<db, count>>
    BY <1>7 DEF Receive, Goto, At, memory
  <2>2. /\ buf'[c] = request[c] /\ request'[c] = None /\ tpc'[c] = "got"
        /\ \A d \in Clients \ {c} : tpc'[d] = tpc[d] /\ request'[d] = request[d] /\ buf'[d] = buf[d]
    BY <1>2, <2>1 DEF WiresOK
  <2>3. Places(m)' = Places(m)
    BY <2>1, <2>2, SamePlaces
  <2>4. Asks(c, m)' => Asks(c, m)
    BY <2>2 DEF Asks, Posts
  <2>5. Pending(m)' \subseteq Pending(m)
    BY <2>2, <2>4, NoRequest
  <2>6. QED BY <1>1, <1>2, <2>3, <2>5, NoMore
<1>8. CASE ReceiveEnd(c) \/ ReceiveError(c)
  <2>1. tpc[c] = "recv" /\ request[c] = None /\ net[c] \in {"fin", "dead", "rst"}
    BY <1>8 DEF ReceiveEnd, ReceiveError, At
  <2>2. ~QuietAt(c)
    BY <2>1 DEF QuietAt, Quiet
  <2>3. QED BY <1>2, <2>2
<1>9. CASE Quit(c) \/ Unknown(c) \/ Lock(c) \/ PostFull(c) \/ DeletePass(c) \/ DeleteEnd(c)
            \/ Read(c) \/ Reply(c)
  <2>1. /\ UNCHANGED <<db, count, buf, request>> /\ tpc[c] \in {"got", "locked", "reply"}
        /\ \/ tpc' = tpc
           \/ tpc' = [tpc EXCEPT ![c] = "ended"] \/ tpc' = [tpc EXCEPT ![c] = "reply"]
           \/ tpc' = [tpc EXCEPT ![c] = "locked"] /\ tpc[c] = "got"
           \/ tpc' = [tpc EXCEPT ![c] = "recv"]
    BY <1>9 DEF Quit, Unknown, Lock, PostFull, DeletePass, DeleteEnd, Read, Reply, Unlock, Locked,
            At, Goto, memory, wires, Send
  <2>2. /\ tpc'[c] \in {"got", "locked", "ended", "reply", "recv"}
        /\ tpc'[c] \in {"got", "locked"} => tpc[c] \in {"got", "locked"}
        /\ \A d \in Clients \ {c} : tpc'[d] = tpc[d]
    BY <1>2, <2>1 DEF WiresOK
  <2>3. Places(m)' = Places(m)
    BY <2>1, <2>2, SamePlaces
  <2>4. Pending(m)' \subseteq Pending(m)
    BY <2>1, <2>2, NoRequest DEF Asks
  <2>5. QED BY <1>1, <1>2, <2>3, <2>4, NoMore
<1>10. QED BY <1>3, <1>4, <1>5, <1>6, <1>7, <1>8, <1>9 DEF Thread

\* A step that leaves the server's memory alone and takes up no request.
LEMMA AsideCovered ==
  ASSUME StoreInv, UNCHANGED <<db, count, buf, posted>>, NobodyGone' => NobodyGone,
         \A d \in Clients : tpc'[d] \in {"got", "locked", "ack", "count"} => tpc'[d] = tpc[d],
         \A d \in Clients : tpc[d] \in {"ack", "count"} => tpc'[d] = tpc[d],
         \A d \in Clients, m \in Messages : Posts(request'[d], m) => request'[d] = request[d]
  PROVE  AllCovered'
<1> SUFFICES ASSUME NobodyGone, NEW m \in Messages PROVE Covered(m)'
  BY DEF AllCovered
<1>1. Covered(m) /\ MutexInv /\ posted[m] \in Nat
  BY DEF StoreInv, AllCovered, DeathInv, WiresOK
<1>2. Places(m)' = Places(m)
  BY SamePlaces
<1>3. Pending(m)' \subseteq Pending(m)
  BY DEF Pending, Asks
<1>4. QED BY <1>1, <1>2, <1>3, NoMore

LEMMA ClientCovered ==
  ASSUME StoreInv, NEW c \in Clients, Client(c)
  PROVE  AllCovered'
<1>1. WiresOK
  BY DEF StoreInv, DeathInv
<1>2. NobodyGone' => NobodyGone
  <2>1. cst[c] # "gone" /\ \A d \in Clients \ {c} : cst'[d] = cst[d]
    BY <1>1 DEF Client, Connect, ReadAnswer, ServerLost, Leave, Die, Request, WiresOK
  <2>2. QED BY <2>1 DEF NobodyGone
<1>3. UNCHANGED <<db, count, tpc, buf>>
  BY DEF Client, Connect, ReadAnswer, ServerLost, Leave, Die, Request, memory, threads
<1>4. CASE Connect(c) \/ ReadAnswer(c) \/ ServerLost(c) \/ Leave(c) \/ Die(c)
  <2>1. posted' = posted
    BY <1>4 DEF Connect, ReadAnswer, ServerLost, Leave, Die
  <2>2. request' = request \/ request' = [request EXCEPT ![c] = [op |-> "querSair", arg |-> None]]
    BY <1>4 DEF Connect, ReadAnswer, ServerLost, Leave, Die, wires
  <2>3. \A d \in Clients, m \in Messages : Posts(request'[d], m) => request'[d] = request[d]
    BY <1>1, <2>2 DEF WiresOK, Posts
  <2>4. QED BY <1>2, <1>3, <2>1, <2>3, AsideCovered
<1>5. CASE \E r \in Command : Request(c, r)
  <2> SUFFICES ASSUME NobodyGone, NEW m \in Messages PROVE Covered(m)'
    BY <1>2 DEF AllCovered
  <2>1. QED BY <1>5, RequestCovered DEF StoreInv, AllCovered
<1>6. QED BY <1>4, <1>5 DEF Client

LEMMA CoveredNext ==
  ASSUME StoreInv, [Next]_vars
  PROVE  AllCovered'
<1>1. CASE \E c \in Clients : Thread(c)
  BY <1>1, ThreadCovered
<1>2. CASE \E c \in Clients : Client(c)
  BY <1>2, ClientCovered
<1>3. CASE \E c \in Clients : Accept(c)
  <2>1. PICK c \in Clients : Accept(c)
    BY <1>3
  <2>2. /\ tpc[c] = "none" /\ tpc' = [tpc EXCEPT ![c] = "recv"]
        /\ UNCHANGED <<db, count, buf, request, posted, cst>>
    BY <2>1 DEF Accept, Waiting, memory, wires, clients
  <2>3. tpc'[c] = "recv" /\ \A d \in Clients \ {c} : tpc'[d] = tpc[d]
    BY <2>2 DEF StoreInv, DeathInv, WiresOK
  <2>4. NobodyGone' => NobodyGone
    BY <2>2 DEF NobodyGone
  <2>5. QED BY <2>2, <2>3, <2>4, AsideCovered
<1>4. CASE AcceptFails \/ UNCHANGED vars
  <2>1. UNCHANGED <<db, count, tpc, buf, request, posted, cst>>
    BY <1>4 DEF AcceptFails, vars, memory, threads, wires, clients
  <2>2. NobodyGone' => NobodyGone
    BY <2>1 DEF NobodyGone
  <2>3. QED BY <2>1, <2>2, AsideCovered
<1>5. QED BY <1>1, <1>2, <1>3, <1>4 DEF Next

LEMMA CoveredInit == Init => AllCovered
<1> SUFFICES ASSUME Init, NEW m \in Messages PROVE Covered(m)
  BY DEF AllCovered
<1>1. Shown = 0
  BY DEF Init, Shown
<1>2. Places(m) = {} /\ Pending(m) = {}
  BY <1>1 DEF Init, Places, Pending, Asks, Posts
<1>3. IsFiniteSet({}) /\ Cardinality({}) = 0 /\ posted[m] = 0
  BY FS_EmptySet DEF Init
<1>4. QED BY <1>2, <1>3 DEF Covered

LEMMA StoredPlaces ==
  ASSUME MutexInv, NEW m
  PROVE  {s \in DOMAIN Stored : Stored[s] = m} = Places(m)
<1>1. Shown \in 0..MaxMsgs
  BY DEF MutexInv, MemoryTypes, Filled, Shown
<1>2. Stored = SubSeq(db, 1, Shown)
  BY DEF Stored, Shown
<1>3. db \in Seq(Messages \cup {None}) /\ Len(db) = MaxMsgs
  BY DEF MutexInv, MemoryTypes, Slots
<1>4. DOMAIN Stored = 1..Shown /\ \A s \in 1..Shown : Stored[s] = db[s]
  BY <1>1, <1>2, <1>3
<1>5. QED BY <1>4 DEF Places

\* As long as no client hangs up, no message is stored more often than it was
\* sent, however posting and deleting alternate: each place and each request
\* that is not served goes back to a sending of its own.
THEOREM DuplicateNeedsHangup == Spec => []DuplicateOnlyAfterHangup
<1>1. Init => StoreInv
  BY DeathInit, MutexInit, CoveredInit DEF StoreInv
<1>2. StoreInv /\ [Next]_vars => StoreInv'
  BY DeathNext, MutexNext, CoveredNext DEF StoreInv
<1>3. StoreInv => DuplicateOnlyAfterHangup
  <2> SUFFICES ASSUME StoreInv, NobodyGone, NEW m \in Messages
               PROVE  Cardinality({s \in DOMAIN Stored : Stored[s] = m}) <= posted[m]
    BY MutexTypes DEF DuplicateOnlyAfterHangup, NobodyGone, StoreInv
  <2>1. MutexInv /\ Covered(m) /\ posted[m] \in Nat
    BY DEF StoreInv, AllCovered, DeathInv, WiresOK
  <2>2. Cardinality(Places(m)) \in Nat /\ Cardinality(Pending(m)) \in Nat
    BY <2>1, PlacesFinite, FS_CardinalityType DEF Covered
  <2>3. Cardinality(Places(m)) <= posted[m]
    BY <2>1, <2>2 DEF Covered
  <2>4. QED BY <2>1, <2>3, StoredPlaces
<1>4. QED BY <1>1, <1>2, <1>3, PTL DEF Spec

-----------------------------------------------------------------------------
(* The board the clients see.                                               *)

Theirs(n) == {m \in Messages : NameOf[m] = n}
Others(n) == {m \in Messages : NameOf[m] # n}

\* What a deletion has passed is of others, and what it has found is in its
\* answer.
Swept(c) ==
  tpc[c] = "locked" =>
    /\ i[c] <= count + 1
    /\ buf[c].op # "apagar" => i[c] = 1 /\ out[c].list = << >>
    /\ buf[c].op = "apagar" =>
         /\ \A s \in 1..(i[c] - 1) : NameOf[db[s]] # buf[c].arg
         /\ out[c] = Listing(out[c].list)

Sweep == \A c \in Clients : Swept(c)

BoardInv == MutexInv /\ Sweep /\ answer = [c \in Clients |-> answer[c]]

\* What is found and what is still to be found.
Found(c) == Listing(out[c].list \o Selected(SubSeq(db, i[c], count), Theirs(buf[c].arg)))

\* What the clients see of the thread of c, and of the board.
ViewOf(c) ==
  /\ tpc[c] = "got" => Asked(c) = buf[c] /\ Outcome(c) = None
  /\ tpc[c] \in {"none", "recv", "count", "ended"} => Asked(c) = None /\ Outcome(c) = None
  /\ tpc[c] \in {"reply", "ack"} => Asked(c) = None /\ Outcome(c) = out[c]
  /\ tpc[c] = "locked" /\ ~Deleting(c) => Asked(c) = buf[c] /\ Outcome(c) = None
  /\ Deleting(c) => tpc[c] = "locked" /\ Asked(c) = None /\ Outcome(c) = Found(c)

BoardView ==
  /\ \A c \in Clients : Deleting(c) => Board = Selected(SubSeq(db, 1, count), Others(buf[c].arg))
  /\ \A c \in Clients : tpc[c] \in {"ack", "count"} => Board = SubSeq(db, 1, count + 1)
  /\ (\A c \in Clients : ~Deleting(c) /\ tpc[c] \notin {"ack", "count"}) => Board = SubSeq(db, 1, count)

\* What the clients see, spelled out for each place where a thread may be.
LEMMA Views == MutexInv => BoardView /\ \A c \in Clients : ViewOf(c)
<1> SUFFICES ASSUME MutexInv PROVE BoardView /\ \A c \in Clients : ViewOf(c)
  OBVIOUS
<1>1. ASSUME NEW c \in Clients PROVE ViewOf(c)
  BY DEF ViewOf, Asked, Outcome, Deleting, Found, Theirs
<1>6. \A c, d \in Clients : {tpc[c], tpc[d]} \subseteq {"locked", "ack", "count"} => c = d
  BY DEF MutexInv, Mutex
<1>2. ASSUME NEW c \in Clients, Deleting(c)
      PROVE  Board = Selected(SubSeq(db, 1, count), Others(buf[c].arg))
  <2>1. \A d \in Clients : tpc[d] \notin {"ack", "count"} /\ (Deleting(d) => d = c)
    BY <1>6, <1>2 DEF Deleting
  <2>2. Stored = SubSeq(db, 1, count)
    BY <2>1 DEF Stored
  <2>3. (CHOOSE d \in Clients : Deleting(d)) = c
    BY <1>2, <2>1
  <2>4. QED BY <1>2, <2>2, <2>3 DEF Board, Others
<1>3. ASSUME NEW c \in Clients, tpc[c] \in {"ack", "count"}
      PROVE  Board = SubSeq(db, 1, count + 1)
  <2>1. \A d \in Clients : ~Deleting(d)
    BY <1>6, <1>3 DEF Deleting
  <2>2. QED BY <1>3, <2>1 DEF Board, Stored
<1>4. ASSUME \A c \in Clients : ~Deleting(c) /\ tpc[c] \notin {"ack", "count"}
      PROVE  Board = SubSeq(db, 1, count)
  BY <1>4 DEF Board, Stored
<1>5. QED BY <1>1, <1>2, <1>3, <1>4 DEF BoardView

\* The same after a step.
LEMMA ViewsNext == MutexInv' => (BoardView /\ \A c \in Clients : ViewOf(c))'
BY Views, PTL

-----------------------------------------------------------------------------
(* The actions of the abstract board.                                       *)

AllElse(c) == \A d \in Clients \ {c} : Asked(d)' = Asked(d) /\ Outcome(d)' = Outcome(d)

Abstract == MB!Next \/ UNCHANGED MB!vars

\* The clients see nothing of the step.
LEMMA AsStutter ==
  ASSUME NEW c \in Clients, AllElse(c), Asked(c)' = Asked(c), Outcome(c)' = Outcome(c),
         Board' = Board, answer' = answer
  PROVE  Abstract
<1>1. /\ [d \in Clients |-> Asked(d)]' = [d \in Clients |-> Asked(d)]
      /\ [d \in Clients |-> Outcome(d)]' = [d \in Clients |-> Outcome(d)]
  BY DEF AllElse
<1>2. QED BY <1>1 DEF Abstract, MB!vars

\* The step is seen as the arrival of a request.
LEMMA AsAsk ==
  ASSUME NEW c \in Clients, AllElse(c), NEW r \in Command,
         Asked(c) = None, Outcome(c) = None, Asked(c)' = r, Outcome(c)' = None,
         Board' = Board, answer' = answer
  PROVE  Abstract
<1>1. /\ [d \in Clients |-> Asked(d)]' = [[d \in Clients |-> Asked(d)] EXCEPT ![c] = r]
      /\ [d \in Clients |-> Outcome(d)]' = [d \in Clients |-> Outcome(d)]
      /\ [d \in Clients |-> Asked(d)][c] = None /\ [d \in Clients |-> Outcome(d)][c] = None
  <2>1. \A d \in Clients : Outcome(d)' = Outcome(d)
    BY DEF AllElse
  <2>2. [d \in Clients |-> Outcome(d)]' = [d \in Clients |-> Outcome(d)]
    BY <2>1
  <2>3. [d \in Clients |-> Asked(d)]' = [[d \in Clients |-> Asked(d)] EXCEPT ![c] = r]
    <3>1. \A d \in Clients : Asked(d)' = IF d = c THEN r ELSE Asked(d)
      BY DEF AllElse
    <3>2. [d \in Clients |-> Asked(d)]' = [d \in Clients |-> IF d = c THEN r ELSE Asked(d)]
      BY <3>1
    <3>3. QED BY <3>2
  <2>4. QED BY <2>2, <2>3
<1>2. MB!Ask(c, r)
  BY <1>1 DEF MB!Ask
<1>3. MB!Command(Messages, Names) = Command
  BY DEF MB!Command, Command
<1>4. QED BY <1>2, <1>3 DEF Abstract, MB!Next

\* The step is seen as an answer on its way, or the loss of one.
LEMMA AsGive ==
  ASSUME NEW c \in Clients, AllElse(c), NEW a, Asked(c)' = Asked(c),
         Outcome(c) = a, Outcome(c)' = None, Board' = Board,
         answer = [d \in Clients |-> answer[d]],
         answer' = answer \/ answer' = [answer EXCEPT ![c] = a]
  PROVE  Abstract
<1>1. /\ [d \in Clients |-> Asked(d)]' = [d \in Clients |-> Asked(d)]
      /\ [d \in Clients |-> Outcome(d)]' = [[d \in Clients |-> Outcome(d)] EXCEPT ![c] = None]
      /\ [d \in Clients |-> Outcome(d)][c] = a
  <2>1. \A d \in Clients : Asked(d)' = Asked(d)
    BY DEF AllElse
  <2>2. [d \in Clients |-> Asked(d)]' = [d \in Clients |-> Asked(d)]
    BY <2>1
  <2>3. [d \in Clients |-> Outcome(d)]' = [[d \in Clients |-> Outcome(d)] EXCEPT ![c] = None]
    <3>1. \A d \in Clients : Outcome(d)' = IF d = c THEN None ELSE Outcome(d)
      BY DEF AllElse
    <3>2. [d \in Clients |-> Outcome(d)]' = [d \in Clients |-> IF d = c THEN None ELSE Outcome(d)]
      BY <3>1
    <3>3. QED BY <3>2
  <2>4. QED BY <2>2, <2>3
<1>2. CASE a # None
  <2>1. MB!Give(c)
    BY <1>1, <1>2 DEF MB!Give
  <2>2. QED BY <2>1 DEF Abstract, MB!Next
<1>3. CASE a = None
  <2>1. [d \in Clients |-> Outcome(d)]' = [d \in Clients |-> Outcome(d)]
    BY <1>1, <1>3
  <2>2. CASE answer' = answer
    BY <1>1, <2>1, <2>2 DEF Abstract, MB!vars
  <2>3. CASE answer' # answer
    <3>1. answer' = [answer EXCEPT ![c] = None] /\ answer[c] # None
      BY <1>3, <2>3
    <3>2. MB!Take(c)
      BY <1>1, <2>1, <3>1 DEF MB!Take
    <3>3. QED BY <3>2 DEF Abstract, MB!Next
  <2>4. QED BY <2>2, <2>3
<1>4. QED BY <1>2, <1>3

\* The step is seen as the reading of an answer, or not at all.
LEMMA AsTake ==
  ASSUME NEW c \in Clients, \A d \in Clients : Asked(d)' = Asked(d) /\ Outcome(d)' = Outcome(d),
         Board' = Board, answer = [d \in Clients |-> answer[d]],
         answer' = answer \/ answer' = [answer EXCEPT ![c] = None]
  PROVE  Abstract
<1>1. /\ [d \in Clients |-> Asked(d)]' = [d \in Clients |-> Asked(d)]
      /\ [d \in Clients |-> Outcome(d)]' = [d \in Clients |-> Outcome(d)]
  OBVIOUS
<1>2. CASE answer' = answer
  BY <1>1, <1>2 DEF Abstract, MB!vars
<1>3. CASE answer' # answer
  <2>1. answer' = [answer EXCEPT ![c] = None] /\ answer[c] # None
    BY <1>3
  <2>2. MB!Take(c)
    BY <1>1, <2>1 DEF MB!Take
  <2>3. QED BY <2>2 DEF Abstract, MB!Next
<1>4. QED BY <1>2, <1>3

\* A request is served, with answer a.
Settled(c, a) ==
  /\ [d \in Clients |-> Asked(d)][c] # None
  /\ [d \in Clients |-> Asked(d)][c] = Asked(c)
  /\ [d \in Clients |-> Asked(d)]' = [[d \in Clients |-> Asked(d)] EXCEPT ![c] = None]
  /\ [d \in Clients |-> Outcome(d)]' = [[d \in Clients |-> Outcome(d)] EXCEPT ![c] = a]
  /\ answer' = answer

\* A request becomes its answer, and nothing else is seen.
LEMMA AsSettle ==
  ASSUME NEW c \in Clients, AllElse(c), NEW a, NEW r \in Command,
         Asked(c) = r, Asked(c)' = None, Outcome(c)' = a, answer' = answer
  PROVE  Settled(c, a)
<1>1. r # None
  BY Commands
<1>2. [d \in Clients |-> Asked(d)]' = [[d \in Clients |-> Asked(d)] EXCEPT ![c] = None]
  <2>1. \A d \in Clients : Asked(d)' = IF d = c THEN None ELSE Asked(d)
    BY DEF AllElse
  <2>2. [d \in Clients |-> Asked(d)]' = [d \in Clients |-> IF d = c THEN None ELSE Asked(d)]
    BY <2>1
  <2>3. QED BY <2>2
<1>3. [d \in Clients |-> Outcome(d)]' = [[d \in Clients |-> Outcome(d)] EXCEPT ![c] = a]
  <2>1. \A d \in Clients : Outcome(d)' = IF d = c THEN a ELSE Outcome(d)
    BY DEF AllElse
  <2>2. [d \in Clients |-> Outcome(d)]' = [d \in Clients |-> IF d = c THEN a ELSE Outcome(d)]
    BY <2>1
  <2>3. QED BY <2>2
<1>4. QED BY <1>1, <1>2, <1>3 DEF Settled

-----------------------------------------------------------------------------
(* The steps.                                                               *)

Inside == {"locked", "ack", "count"}

Same(d) == tpc'[d] = tpc[d] /\ buf'[d] = buf[d] /\ out'[d] = out[d] /\ i'[d] = i[d]

\* A thread that stands still is seen as before, if it does not hold the mutex or
\* the board stays.
LEMMA ViewKept ==
  ASSUME MutexInv, MutexInv', NEW d \in Clients, Same(d),
         tpc[d] # "locked" \/ UNCHANGED <<db, count>>
  PROVE  /\ Asked(d)' = Asked(d) /\ Outcome(d)' = Outcome(d) /\ (Deleting(d)' <=> Deleting(d))
         /\ Swept(d) => Swept(d)'
<1>1. Deleting(d)' <=> Deleting(d)
  BY DEF Deleting, Same
<1>2. ViewOf(d) /\ ViewOf(d)'
  BY Views, ViewsNext
<1>3. Found(d)' = Found(d) \/ tpc[d] # "locked"
  BY DEF Found, Same
<1>4. tpc[d] \in Stages
  BY DEF MutexInv, WiresOK
<1>5. CASE Deleting(d)
  BY <1>1, <1>2, <1>3, <1>5 DEF ViewOf, Deleting, Swept, Same
<1>6. CASE ~Deleting(d)
  <2>1. Swept(d) => Swept(d)'
    BY DEF Swept, Same
  <2>2. QED BY <1>1, <1>2, <1>4, <1>6, <2>1 DEF ViewOf, Same, Stages
<1>7. QED BY <1>5, <1>6

\* Only one thread is inside, and what it does there decides on the board.
LEMMA BoardKept ==
  ASSUME MutexInv, MutexInv', UNCHANGED <<db, count>>,
         \A d \in Clients : Same(d) \/ (tpc[d] \notin Inside /\ tpc'[d] \notin Inside)
  PROVE  Board' = Board
<1>1. BoardView /\ BoardView'
  BY Views, ViewsNext
<1>2. CASE \E c \in Clients : Deleting(c)
  <2>1. PICK c \in Clients : Deleting(c)
    BY <1>2
  <2>2. Same(c) /\ Deleting(c)'
    BY <2>1 DEF Deleting, Inside, Same
  <2>3. Others(buf[c].arg)' = Others(buf[c].arg)
    BY <2>2 DEF Others, Same
  <2>4. Board = Selected(SubSeq(db, 1, count), Others(buf[c].arg))
    BY <1>1, <2>1 DEF BoardView
  <2>5. Board' = Selected(SubSeq(db, 1, count), Others(buf[c].arg))'
    BY <1>1, <2>2 DEF BoardView
  <2>6. QED BY <2>3, <2>4, <2>5
<1>3. CASE \E c \in Clients : tpc[c] \in {"ack", "count"}
  BY <1>1, <1>3 DEF BoardView, Inside, Same
<1>4. CASE \A c \in Clients : ~Deleting(c) /\ tpc[c] \notin {"ack", "count"}
  <2>1. \A c \in Clients : ~Deleting(c)' /\ tpc'[c] \notin {"ack", "count"}
    BY <1>4 DEF Deleting, Inside, Same
  <2>2. QED BY <1>1, <1>4, <2>1 DEF BoardView
<1>5. QED BY <1>2, <1>3, <1>4

\* A thread outside the mutex neither changes the board nor what is seen of others.
LEMMA Aside ==
  ASSUME BoardInv, MutexInv', NEW c \in Clients, \A d \in Clients \ {c} : Same(d),
         UNCHANGED <<db, count>>, tpc[c] \notin Inside, tpc'[c] \notin Inside
  PROVE  AllElse(c) /\ Board' = Board /\ Sweep'
<1>1. Board' = Board
  BY BoardKept DEF BoardInv
<1>2. \A d \in Clients \ {c} : Asked(d)' = Asked(d) /\ Outcome(d)' = Outcome(d) /\ Swept(d)'
  BY ViewKept DEF BoardInv, Sweep
<1>3. Swept(c)'
  BY DEF Swept, Inside
<1>4. QED BY <1>1, <1>2, <1>3 DEF AllElse, Sweep

\* The steps of a client are at most seen as the reading of an answer.
LEMMA ClientStep ==
  ASSUME BoardInv, MutexInv', NEW c \in Clients, Client(c) \/ AcceptFails \/ UNCHANGED vars
  PROVE  BoardInv' /\ Abstract
<1>1. UNCHANGED <<db, count, tpc, buf, out, i>>
  BY DEF AcceptFails, vars, Client, Connect, ReadAnswer, ServerLost, Leave, Die, Request, memory, threads
<1>2. \A d \in Clients : Same(d)
  BY <1>1 DEF Same
<1>3. Board' = Board
  BY <1>1, <1>2, BoardKept DEF BoardInv
<1>4. \A d \in Clients : Asked(d)' = Asked(d) /\ Outcome(d)' = Outcome(d) /\ Swept(d)'
  BY <1>1, <1>2, ViewKept DEF BoardInv, Sweep
<1>5. answer' = answer \/ answer' = [answer EXCEPT ![c] = None]
  BY DEF AcceptFails, vars, Client, Connect, ReadAnswer, ServerLost, Leave, Die, Request, wires
<1>6. answer' = [d \in Clients |-> answer'[d]]
  BY <1>5 DEF BoardInv
<1>7. Abstract
  BY <1>3, <1>4, <1>5, AsTake DEF BoardInv
<1>8. QED BY <1>4, <1>6, <1>7 DEF BoardInv, Sweep

\* The steps of a thread outside the mutex.
LEMMA OutsideStep ==
  ASSUME BoardInv, MutexInv', NEW c \in Clients,
         Accept(c) \/ Receive(c) \/ ReceiveEnd(c) \/ ReceiveError(c) \/ Quit(c) \/ Unknown(c) \/ Reply(c)
  PROVE  BoardInv' /\ Abstract
<1>1. /\ UNCHANGED <<db, count>> /\ tpc[c] \notin Inside /\ tpc'[c] \notin Inside
      /\ \A d \in Clients \ {c} : Same(d)
  BY DEF Accept, Waiting, Receive, ReceiveEnd, ReceiveError, Quit, Unknown, Reply, At, Goto, memory, threads,
         Inside, Same, BoardInv, MutexInv, WiresOK, MemoryTypes
<1>2. AllElse(c) /\ Board' = Board /\ Sweep'
  BY <1>1, Aside
<1>3. ViewOf(c) /\ ViewOf(c)'
  BY Views, ViewsNext DEF BoardInv
<1>4. CASE Accept(c) \/ ReceiveError(c)
  <2>1. tpc[c] \in {"none", "recv"} /\ tpc'[c] = "recv" /\ UNCHANGED answer
    BY <1>4 DEF Accept, Waiting, ReceiveError, At, threads, wires, BoardInv, MutexInv, WiresOK
  <2>2. Asked(c) = None /\ Outcome(c) = None /\ Asked(c)' = None /\ Outcome(c)' = None
    BY <1>3, <2>1 DEF ViewOf
  <2>3. Abstract
    BY <1>2, <2>1, <2>2, AsStutter
  <2>4. QED BY <1>2, <2>1, <2>3 DEF BoardInv
<1>5. CASE Receive(c) \/ ReceiveEnd(c)
  <2>1. tpc[c] = "recv" /\ tpc'[c] = "got" /\ UNCHANGED answer
    BY <1>5 DEF Receive, ReceiveEnd, At, Goto, wires, BoardInv, MutexInv, WiresOK
  <2>2. buf'[c] \in Command
    BY <2>1 DEF MutexInv, WiresOK
  <2>3. PICK r \in Command : r = buf'[c]
    BY <2>2
  <2>4. Asked(c) = None /\ Outcome(c) = None /\ Asked(c)' = r /\ Outcome(c)' = None
    BY <1>3, <2>1, <2>3 DEF ViewOf
  <2>5. Abstract
    BY <1>2, <2>1, <2>4, AsAsk
  <2>6. QED BY <1>2, <2>1, <2>5 DEF BoardInv
<1>6. CASE Quit(c)
  <2>1. tpc[c] = "got" /\ tpc'[c] = "ended" /\ UNCHANGED answer /\ buf[c].op = "querSair"
    BY <1>6 DEF Quit, At, Goto, wires, BoardInv, MutexInv, WiresOK
  <2>2. PICK r \in Command : r = buf[c]
    BY <2>1 DEF BoardInv, MutexInv, WiresOK
  <2>3. Asked(c) = r /\ Asked(c)' = None /\ Outcome(c)' = None
    BY <1>3, <2>1, <2>2 DEF ViewOf
  <2>4. Settled(c, None)
    BY <1>2, <2>1, <2>3, AsSettle
  <2>5. MB!Quit(c)
    BY <1>2, <2>1, <2>2, <2>3, <2>4 DEF Settled, MB!Quit, MB!Settle
  <2>6. Abstract
    BY <2>4, <2>5 DEF Settled, Abstract, MB!Next
  <2>7. QED BY <1>2, <2>1, <2>6 DEF BoardInv
<1>7. CASE Unknown(c)
  <2>1. /\ tpc[c] = "got" /\ tpc'[c] = "reply" /\ UNCHANGED answer /\ buf[c].op = "junk"
        /\ out'[c] = Answer("invalido")
    BY <1>7 DEF Unknown, At, Goto, wires, BoardInv, MutexInv, WiresOK, MemoryTypes
  <2>2. PICK r \in Command : r = buf[c]
    BY <2>1 DEF BoardInv, MutexInv, WiresOK
  <2>3. Asked(c) = r /\ Asked(c)' = None /\ Outcome(c)' = MB!Answer("invalido")
    BY <1>3, <2>1, <2>2 DEF ViewOf, MB!Answer, Answer
  <2>4. Settled(c, MB!Answer("invalido"))
    BY <1>2, <2>1, <2>3, AsSettle
  <2>5. MB!Refuse(c)
    BY <1>2, <2>1, <2>2, <2>3, <2>4 DEF Settled, MB!Refuse, MB!Settle
  <2>6. Abstract
    BY <2>4, <2>5 DEF Settled, Abstract, MB!Next
  <2>7. QED BY <1>2, <2>1, <2>6 DEF BoardInv
<1>8. CASE Reply(c)
  <2>1. tpc[c] = "reply" /\ tpc'[c] = "recv"
    BY <1>8 DEF Reply, At, Goto, BoardInv, MutexInv, WiresOK
  <2>2. PICK a : a = out[c]
    OBVIOUS
  <2>3. answer' = answer \/ answer' = [answer EXCEPT ![c] = a]
    BY <1>8, <2>2 DEF Reply, Send
  <2>4. Asked(c) = None /\ Asked(c)' = None /\ Outcome(c) = a /\ Outcome(c)' = None
    BY <1>3, <2>1, <2>2 DEF ViewOf
  <2>5. answer' = [d \in Clients |-> answer'[d]]
    BY <2>3 DEF BoardInv
  <2>6. Abstract
    BY <1>2, <2>3, <2>4, AsGive DEF BoardInv
  <2>7. QED BY <1>2, <2>5, <2>6 DEF BoardInv
<1>9. QED BY <1>4, <1>5, <1>6, <1>7, <1>8

-----------------------------------------------------------------------------
(* The steps between lock and unlock.                                       *)

\* While a thread holds the mutex, comes by it or lets go of it, no other thread
\* is inside.
LEMMA Apart ==
  ASSUME BoardInv, MutexInv', NEW c \in Clients, \A d \in Clients \ {c} : Same(d),
         tpc[c] \in Inside \/ tpc'[c] \in Inside
  PROVE  /\ AllElse(c)
         /\ \A d \in Clients \ {c} : /\ tpc[d] \notin Inside /\ tpc'[d] \notin Inside
                                     /\ ~Deleting(d) /\ ~Deleting(d)' /\ Swept(d)'
<1>1. \A d \in Clients \ {c} : tpc[d] \notin Inside /\ tpc'[d] \notin Inside
  BY DEF BoardInv, MutexInv, Mutex, Inside, Same
<1>2. \A d \in Clients \ {c} : ~Deleting(d) /\ ~Deleting(d)'
  BY <1>1 DEF Deleting, Inside
<1>3. AllElse(c)
  BY <1>1, ViewKept DEF BoardInv, Inside, AllElse
<1>4. \A d \in Clients \ {c} : Swept(d)'
  BY <1>1 DEF Swept, Inside
<1>5. QED BY <1>1, <1>2, <1>3, <1>4

\* The counted entries of the board are messages.
LEMMA AtRest ==
  ASSUME MutexInv
  PROVE  /\ count \in Nat /\ \A s \in 1..count : s \in Slots /\ db[s] \in Messages
         /\ SubSeq(db, 1, count) \in Seq(Messages) /\ Len(SubSeq(db, 1, count)) = count
<1>1. count \in Nat /\ \A s \in 1..count : s \in Slots /\ db[s] \in Messages
  BY DEF MutexInv, MemoryTypes, Filled, Slots
<1>2. QED BY <1>1, SubSeqProperties

\* The mutex is taken unseen.
LEMMA LockStep ==
  ASSUME BoardInv, MutexInv', NEW c \in Clients, Lock(c)
  PROVE  BoardInv' /\ Abstract
<1>1. /\ tpc[c] = "got" /\ tpc'[c] = "locked" /\ i'[c] = 1 /\ out'[c] = Answer("vazio")
      /\ UNCHANGED <<db, count, buf, answer>> /\ \A d \in Clients \ {c} : Same(d)
  BY DEF Lock, At, Goto, wires, Same, BoardInv, MutexInv, WiresOK, MemoryTypes
<1>2. /\ AllElse(c)
      /\ \A d \in Clients \ {c} : tpc[d] \notin Inside /\ tpc'[d] \notin Inside
           /\ ~Deleting(d) /\ ~Deleting(d)' /\ Swept(d)'
  BY <1>1, Apart DEF Inside
<1>3. out'[c].list = << >> /\ out'[c] = Listing(out'[c].list)
  BY <1>1 DEF Answer, Listing
<1>4. ~Deleting(c) /\ ~Deleting(c)'
  BY <1>1, <1>3 DEF Deleting
<1>5. Board' = Board
  <2>1. BoardView /\ BoardView'
    BY Views, ViewsNext DEF BoardInv
  <2>2. Board = SubSeq(db, 1, count)
    BY <1>1, <1>2, <1>4, <2>1 DEF BoardView, Inside
  <2>3. Board' = SubSeq(db', 1, count')
    BY <1>1, <1>2, <1>4, <2>1 DEF BoardView, Inside
  <2>4. QED BY <1>1, <2>2, <2>3
<1>6. Swept(c)'
  <2>1. count' \in Nat
    BY AtRest, <1>1 DEF BoardInv
  <2>2. QED BY <1>1, <1>3, <2>1 DEF Swept
<1>7. Asked(c)' = Asked(c) /\ Outcome(c)' = Outcome(c)
  <2>1. ViewOf(c) /\ ViewOf(c)'
    BY Views, ViewsNext DEF BoardInv
  <2>2. QED BY <1>1, <1>4, <2>1 DEF ViewOf
<1>8. Abstract
  BY <1>1, <1>2, <1>5, <1>7, AsStutter
<1>9. QED BY <1>1, <1>2, <1>6, <1>8 DEF BoardInv, Sweep

\* A refused message and a list that is read are served under the mutex.
LEMMA FullStep ==
  ASSUME BoardInv, MutexInv', NEW c \in Clients, PostFull(c) \/ Read(c)
  PROVE  BoardInv' /\ Abstract
<1> DEFINE D == SubSeq(db, 1, count)
<1>1. PICK r \in Command : r = buf[c]
  BY DEF PostFull, Read, Locked, At, BoardInv, MutexInv, WiresOK
<1>2. /\ tpc[c] = "locked" /\ tpc'[c] = "reply" /\ UNCHANGED <<db, count, answer>>
      /\ \A d \in Clients \ {c} : Same(d)
  BY DEF PostFull, Read, Locked, At, Goto, Unlock, wires, Same, BoardInv, MutexInv, WiresOK, MemoryTypes
<1>3. PICK a : /\ out'[c] = a
               /\ \/ a = MB!Answer("erro") /\ r.op = "cadastrar" /\ count >= MaxMsgs
                  \/ a = MB!Listing(D) /\ r.op = "ler"
  <2>1. out \in [Clients -> Answers]
    BY DEF BoardInv, MutexInv, MemoryTypes
  <2>2. CASE PostFull(c)
    BY <1>1, <2>1, <2>2 DEF PostFull, Unlock, Locked, Answer, MB!Answer
  <2>3. CASE Read(c)
    <3>1. out'[c] = Listing(D) /\ r.op = "ler"
      BY <1>1, <2>1, <2>3 DEF Read, Unlock, Locked
    <3>2. Listing(D) = MB!Listing(D)
      BY Zenon DEF Listing, MB!Listing
    <3>3. QED BY <3>1, <3>2
  <2>4. QED BY <2>2, <2>3
<1>4. /\ AllElse(c)
      /\ \A d \in Clients \ {c} : tpc[d] \notin Inside /\ tpc'[d] \notin Inside
           /\ ~Deleting(d) /\ ~Deleting(d)' /\ Swept(d)'
  BY <1>2, Apart DEF Inside
<1>5. ~Deleting(c) /\ ~Deleting(c)' /\ Swept(c)'
  <2>1. i[c] = 1 /\ out[c].list = << >>
    BY <1>1, <1>2, <1>3 DEF BoardInv, Sweep, Swept
  <2>2. QED BY <1>1, <1>2, <2>1 DEF Deleting, Swept
<1>6. Board = D /\ Board' = D
  <2>1. BoardView /\ BoardView'
    BY Views, ViewsNext DEF BoardInv
  <2>2. Board = SubSeq(db, 1, count)
    BY <1>2, <1>4, <1>5, <2>1 DEF BoardView, Inside
  <2>3. Board' = SubSeq(db', 1, count')
    BY <1>2, <1>4, <1>5, <2>1 DEF BoardView, Inside
  <2>4. QED BY <1>2, <2>2, <2>3
<1>7. Asked(c) = r /\ Asked(c)' = None /\ Outcome(c)' = a
  <2>1. ViewOf(c) /\ ViewOf(c)'
    BY Views, ViewsNext DEF BoardInv
  <2>2. QED BY <1>1, <1>2, <1>3, <1>5, <2>1 DEF ViewOf
<1>8. Settled(c, a)
  BY <1>2, <1>4, <1>7, AsSettle
<1>9. Len(D) = count /\ count \in Nat
  BY AtRest DEF BoardInv
<1> HIDE DEF D
<1>10. MB!Post(c) \/ MB!Read(c)
  <2>1. CASE a = MB!Answer("erro") /\ r.op = "cadastrar" /\ count >= MaxMsgs
    <3>1. ~(Len(Board) < MaxMsgs)
      BY <1>6, <1>9, <2>1
    <3>2. MB!Post(c)
      BY <1>6, <1>7, <1>8, <2>1, <3>1 DEF Settled, MB!Post, MB!Settle
    <3>3. QED BY <3>2
  <2>2. CASE a = MB!Listing(D) /\ r.op = "ler"
    BY <1>6, <1>7, <1>8, <2>2 DEF Settled, MB!Read, MB!Settle
  <2>3. QED BY <1>3, <2>1, <2>2
<1>11. Abstract
  BY <1>8, <1>10 DEF Settled, Abstract, MB!Next
<1>12. QED BY <1>2, <1>4, <1>5, <1>11 DEF BoardInv, Sweep

\* A message is on the board when it is stored.
LEMMA StoreStep ==
  ASSUME BoardInv, MutexInv', NEW c \in Clients, PostStore(c)
  PROVE  BoardInv' /\ Abstract
<1> DEFINE D == SubSeq(db, 1, count)
           E == SubSeq(db', 1, count + 1)
<1>1. PICK r \in Command : r = buf[c]
  BY DEF PostStore, Locked, At, BoardInv, MutexInv, WiresOK
<1>2. r.op = "cadastrar" /\ r.arg \in Messages /\ count < MaxMsgs
  BY <1>1, Commands DEF PostStore, Locked
<1>3. PICK m \in Messages : m = r.arg
  BY <1>2
<1>4. count \in Nat /\ (\A s \in 1..count : s \in Slots /\ db[s] \in Messages) /\ D \in Seq(Messages) /\ Len(D) = count
  BY AtRest DEF BoardInv
<1>5. /\ tpc[c] = "locked" /\ tpc'[c] = "ack" /\ UNCHANGED <<count, answer>>
      /\ out'[c] = MB!Answer("ack") /\ db' = [db EXCEPT ![count + 1] = m]
      /\ \A d \in Clients \ {c} : Same(d)
  BY <1>1, <1>3 DEF PostStore, Locked, At, Goto, wires, Same, BoardInv, MutexInv, WiresOK, MemoryTypes,
                    Answer, MB!Answer
<1>6. /\ AllElse(c)
      /\ \A d \in Clients \ {c} : tpc[d] \notin Inside /\ tpc'[d] \notin Inside
           /\ ~Deleting(d) /\ ~Deleting(d)' /\ Swept(d)'
  BY <1>5, Apart DEF Inside
<1>7. ~Deleting(c) /\ ~Deleting(c)' /\ Swept(c)'
  <2>1. i[c] = 1 /\ out[c].list = << >>
    BY <1>1, <1>2, <1>5 DEF BoardInv, Sweep, Swept
  <2>2. QED BY <1>1, <1>2, <1>5, <2>1 DEF Deleting, Swept
<1>8. Board = D /\ Board' = E
  <2>1. BoardView /\ BoardView'
    BY Views, ViewsNext DEF BoardInv
  <2>2. Board = SubSeq(db, 1, count)
    BY <1>5, <1>6, <1>7, <2>1 DEF BoardView, Inside
  <2>3. Board' = SubSeq(db', 1, count' + 1)
    BY <1>5, <2>1 DEF BoardView
  <2>4. QED BY <1>5, <2>2, <2>3
<1>9. E = Append(D, m)
  <2>1. \A s \in 1..count : db'[s] = db[s]
    BY <1>4, <1>5 DEF BoardInv, MutexInv, MemoryTypes
  <2>2. db'[count + 1] = m
    BY <1>2, <1>4, <1>5 DEF BoardInv, MutexInv, MemoryTypes, Slots
  <2>3. \A s \in 1..(count + 1) : db'[s] \in Messages
    BY <1>4, <2>1, <2>2
  <2>4. E \in Seq(Messages) /\ Len(E) = count + 1 /\ \A s \in 1..(count + 1) : E[s] = db'[s]
    <3>1. /\ SubSeq(db', 1, count + 1) \in Seq(Messages)
          /\ Len(SubSeq(db', 1, count + 1)) = IF 1 <= count + 1 THEN count + 1 - 1 + 1 ELSE 0
          /\ \A s \in 1..(count + 1 - 1 + 1) : SubSeq(db', 1, count + 1)[s] = db'[1 + s - 1]
      BY <1>4, <2>3, SubSeqProperties
    <3>2. QED BY <1>4, <3>1
  <2>5. \A s \in 1..count : D[s] = db[s]
    BY <1>4, SubSeqProperties
  <2> HIDE DEF D, E
  <2>6. /\ Append(D, m) \in Seq(Messages) /\ Len(Append(D, m)) = count + 1
        /\ \A s \in 1..count : Append(D, m)[s] = D[s]
        /\ Append(D, m)[count + 1] = m
    BY <1>4, AppendProperties
  <2>7. \A s \in 1..(count + 1) : E[s] = Append(D, m)[s]
    BY <1>4, <2>1, <2>2, <2>4, <2>5, <2>6
  <2>8. QED BY <2>4, <2>6, <2>7, SeqEqual
<1>10. Asked(c) = r /\ Asked(c)' = None /\ Outcome(c)' = MB!Answer("ack")
  <2>1. ViewOf(c) /\ ViewOf(c)'
    BY Views, ViewsNext DEF BoardInv
  <2>2. QED BY <1>1, <1>5, <1>7, <2>1 DEF ViewOf
<1>11. Settled(c, MB!Answer("ack"))
  BY <1>5, <1>6, <1>10, AsSettle
<1>12. MB!Post(c)
  <2>1. Len(Board) < MaxMsgs
    BY <1>2, <1>4, <1>8
  <2>2. Board' = Append(Board, r.arg)
    BY <1>3, <1>8, <1>9
  <2>3. QED BY <1>2, <1>10, <1>11, <2>1, <2>2 DEF Settled, MB!Post, MB!Settle
<1>13. Abstract
  BY <1>11, <1>12 DEF Settled, Abstract, MB!Next
<1>14. QED BY <1>5, <1>6, <1>7, <1>13 DEF BoardInv, Sweep

\* The confirmation is given; that the message is counted later is not seen.
LEMMA AckStep ==
  ASSUME BoardInv, MutexInv', NEW c \in Clients, PostAck(c) \/ PostCount(c)
  PROVE  BoardInv' /\ Abstract
<1>1. /\ tpc[c] \in {"ack", "count"} /\ db' = db /\ \A d \in Clients \ {c} : Same(d)
      /\ out'[c] = out[c]
  BY DEF PostAck, PostCount, At, Goto, memory, Same, BoardInv, MutexInv, WiresOK
<1>2. /\ AllElse(c)
      /\ \A d \in Clients \ {c} : tpc[d] \notin Inside /\ tpc'[d] \notin Inside
           /\ ~Deleting(d) /\ ~Deleting(d)' /\ Swept(d)'
  BY <1>1, Apart DEF Inside
<1>3. BoardView /\ BoardView' /\ ViewOf(c) /\ ViewOf(c)'
  BY Views, ViewsNext DEF BoardInv
<1>4. Board = SubSeq(db, 1, count + 1)
  BY <1>1, <1>3 DEF BoardView
<1>5. CASE PostAck(c)
  <2>1. tpc[c] = "ack" /\ tpc'[c] = "count" /\ UNCHANGED count
    BY <1>5 DEF PostAck, At, Goto, memory, BoardInv, MutexInv, WiresOK
  <2>2. PICK a : a = out[c]
    OBVIOUS
  <2>3. answer' = answer \/ answer' = [answer EXCEPT ![c] = a]
    BY <1>5, <2>2 DEF PostAck, Send
  <2>4. Asked(c) = None /\ Asked(c)' = None /\ Outcome(c) = a /\ Outcome(c)' = None
    BY <1>3, <2>1, <2>2 DEF ViewOf
  <2>5. Board' = Board
    <3>1. Board' = SubSeq(db', 1, count' + 1)
      BY <1>3, <2>1 DEF BoardView
    <3>2. QED BY <1>1, <1>4, <2>1, <3>1
  <2>6. Abstract
    BY <1>2, <2>3, <2>4, <2>5, AsGive DEF BoardInv
  <2>7. answer' = [d \in Clients |-> answer'[d]]
    BY <2>3 DEF BoardInv
  <2>8. Swept(c)'
    BY <2>1 DEF Swept
  <2>9. QED BY <1>2, <2>6, <2>7, <2>8 DEF BoardInv, Sweep
<1>6. CASE PostCount(c)
  <2>1. tpc[c] = "count" /\ tpc'[c] = "recv" /\ count' = count + 1 /\ UNCHANGED answer
    BY <1>6 DEF PostCount, At, Goto, wires, BoardInv, MutexInv, WiresOK
  <2>2. Asked(c) = None /\ Asked(c)' = None /\ Outcome(c) = None /\ Outcome(c)' = None
    BY <1>3, <2>1 DEF ViewOf
  <2>3. Board' = Board
    <3>1. \A d \in Clients : ~Deleting(d)' /\ tpc'[d] \notin {"ack", "count"}
      BY <1>2, <2>1 DEF Inside, Deleting
    <3>2. Board' = SubSeq(db', 1, count')
      BY <1>3, <3>1 DEF BoardView
    <3>3. QED BY <1>1, <1>4, <2>1, <3>2
  <2>4. Abstract
    BY <1>2, <2>1, <2>2, <2>3, AsStutter
  <2>5. Swept(c)'
    BY <2>1 DEF Swept
  <2>6. QED BY <1>2, <2>1, <2>4, <2>5 DEF BoardInv, Sweep
<1>7. QED BY <1>5, <1>6

\* A step of a deletion: the board is without the messages already, or they go
\* now and the request is served.
LEMMA Sweeping ==
  ASSUME BoardInv, MutexInv', NEW c \in Clients, tpc[c] = "locked", buf[c].op = "apagar",
         \A d \in Clients \ {c} : Same(d), AllElse(c), answer' = answer,
         Asked(c)' = None, Outcome(c)' = Found(c),
         Board' = Selected(SubSeq(db, 1, count), Others(buf[c].arg))
  PROVE  Abstract
<1> DEFINE D == SubSeq(db, 1, count)
<1>1. BoardView /\ ViewOf(c)
  BY Views DEF BoardInv
<1>2. CASE Deleting(c)
  <2>1. Asked(c) = None /\ Outcome(c) = Found(c)
    BY <1>1, <1>2 DEF ViewOf
  <2>2. Board' = Board
    BY <1>1, <1>2 DEF BoardView
  <2>3. QED BY <2>1, <2>2, AsStutter
<1>3. CASE ~Deleting(c)
  <2>1. PICK r \in Command : r = buf[c]
    BY DEF BoardInv, MutexInv, WiresOK
  <2>2. PICK a : a = Found(c)
    OBVIOUS
  <2>3. Asked(c) = r /\ Asked(c)' = None /\ Outcome(c)' = a
    BY <1>1, <1>3, <2>1, <2>2 DEF ViewOf
  <2>4. Settled(c, a)
    BY <2>3, AsSettle
  <2>5. i[c] = 1 /\ out[c].list = << >>
    <3>1. i[c] \in 1..(MaxMsgs + 1) /\ ~(i[c] > 1)
      BY <1>3 DEF Deleting, BoardInv, MutexInv, MemoryTypes
    <3>2. QED BY <1>3, <3>1 DEF Deleting
  <2>6. Board = D
    <3>1. \A d \in Clients : ~Deleting(d) /\ tpc[d] \notin {"ack", "count"}
      BY <1>3 DEF BoardInv, MutexInv, Mutex, Deleting
    <3>2. QED BY <1>1, <3>1 DEF BoardView
  <2>7. D \in Seq(Messages)
    BY AtRest DEF BoardInv
  <2>8. a = MB!Listing(MB!Of(r.arg, Board))
    <3>1. MB!Of(r.arg, Board) = Selected(D, Theirs(r.arg))
      BY <2>6 DEF MB!Of, MB!Selected, Selected, Theirs
    <3>2. Found(c) = Listing(<< >> \o Selected(D, Theirs(r.arg)))
      BY <2>1, <2>5 DEF Found
    <3>3. << >> \o Selected(D, Theirs(r.arg)) = Selected(D, Theirs(r.arg))
      BY <2>7, SelectedType, ConcatEmptySeq
    <3>4. PICK l : l = Selected(D, Theirs(r.arg))
      OBVIOUS
    <3>5. Listing(l) = MB!Listing(l)
      BY Zenon DEF Listing, MB!Listing
    <3>6. a = Listing(l)
      BY <2>2, <3>2, <3>3, <3>4
    <3>7. QED BY <3>1, <3>4, <3>5, <3>6
  <2>9. Board' = MB!NotOf(r.arg, Board)
    BY <2>1, <2>6 DEF MB!NotOf, MB!Selected, Selected, Others
  <2>10. r.op = "apagar"
    BY <2>1
  <2>11. MB!Delete(c)
    BY <2>3, <2>4, <2>8, <2>9, <2>10 DEF Settled, MB!Delete, MB!Settle
  <2>12. QED BY <2>4, <2>11 DEF Settled, Abstract, MB!Next
<1>4. QED BY <1>2, <1>3

\* Where the loop of a deletion stands.
LEMMA AtEntry ==
  ASSUME BoardInv, NEW c \in Clients, tpc[c] = "locked", i[c] <= count
  PROVE  /\ count \in Nat /\ i[c] \in 1..count /\ db[i[c]] \in Messages
         /\ \A s \in 1..count : db[s] \in Messages
         /\ out[c].list \in Seq(Messages)
<1>1. count \in Nat /\ \A s \in 1..count : db[s] \in Messages
  BY AtRest DEF BoardInv
<1>2. i[c] \in 1..count
  BY <1>1 DEF BoardInv, MutexInv, MemoryTypes
<1>3. out[c].list \in Seq(Messages)
  BY DEF BoardInv, MutexInv, MemoryTypes, Answers
<1>4. QED BY <1>1, <1>2, <1>3

\* A message of another name is passed.
LEMMA PassStep ==
  ASSUME BoardInv, MutexInv', NEW c \in Clients, DeletePass(c)
  PROVE  BoardInv' /\ Abstract
<1> DEFINE u == buf[c].arg
           x == i[c]
           l == out[c].list
           m == db[x]
           post == SubSeq(db, x + 1, count)
<1>1. /\ tpc[c] = "locked" /\ buf[c].op = "apagar" /\ x <= count /\ NameOf[m] # u
      /\ UNCHANGED <<db, count, tpc, buf, out, answer>> /\ i'[c] = x + 1
      /\ \A d \in Clients \ {c} : Same(d)
  BY DEF DeletePass, Locked, At, Matches, memory, wires, Same, BoardInv, MutexInv, MemoryTypes
<1>2. /\ count \in Nat /\ x \in 1..count /\ m \in Messages /\ l \in Seq(Messages)
      /\ \A s \in 1..count : db[s] \in Messages
  BY <1>1, AtEntry
<1>3. /\ AllElse(c) /\ \A d \in Clients \ {c} : Swept(d)'
  BY <1>1, Apart DEF Inside
<1>4. Deleting(c)'
  <2>1. i'[c] > 1
    BY <1>1, <1>2
  <2>2. QED BY <1>1, <2>1 DEF Deleting
<1>5. BoardView' /\ ViewOf(c)'
  BY ViewsNext DEF BoardInv
<1>6. Board' = Selected(SubSeq(db, 1, count), Others(u))
  <2>1. Board' = Selected(SubSeq(db', 1, count'), Others(buf[c].arg)')
    BY <1>4, <1>5 DEF BoardView
  <2>2. Others(buf[c].arg)' = Others(u)
    BY <1>1 DEF Others
  <2>3. QED BY <1>1, <2>1, <2>2
<1>7. Asked(c)' = None /\ Outcome(c)' = Found(c)'
  BY <1>4, <1>5 DEF ViewOf
<1>8. Found(c)' = Found(c)
  <2>1. SubSeq(db, x, count) = <<m>> \o post /\ post \in Seq(Messages)
    <3> HIDE DEF x
    <3>1. QED BY ONLY <1>2, Entry
  <2>2. m \notin Theirs(u)
    BY <1>1 DEF Theirs
  <2>3. Selected(SubSeq(db, x, count), Theirs(u)) = Selected(post, Theirs(u))
    <3> DEFINE S == Theirs(u)
    <3> HIDE DEF m, post, S
    <3>1. Selected(<<m>> \o post, S) = Selected(post, S)
      BY <1>2, <2>1, <2>2, SelectedFirst DEF S
    <3>2. QED BY <2>1, <3>1 DEF S
  <2>4. Found(c) = Listing(l \o Selected(post, Theirs(u)))
    BY <2>3 DEF Found
  <2>5. Theirs(buf[c].arg)' = Theirs(u)
    BY <1>1 DEF Theirs
  <2>6. Found(c)' = Listing(l \o Selected(post, Theirs(u)))
    BY <1>1, <2>5 DEF Found, Listing
  <2>7. QED BY <2>4, <2>6
<1>9. Abstract
  BY <1>1, <1>3, <1>6, <1>7, <1>8, Sweeping
<1>10. Swept(c)'
  <2>1. Swept(c)
    BY DEF BoardInv, Sweep
  <2>2. \A s \in 1..(x - 1) : NameOf[db[s]] # u
    BY <1>1, <2>1 DEF Swept
  <2>3. \A s \in 1..(i'[c] - 1) : NameOf[db'[s]] # buf'[c].arg
    <3> TAKE s \in 1..(i'[c] - 1)
    <3>1. s = x \/ s \in 1..(x - 1)
      BY <1>1, <1>2
    <3>2. QED BY <1>1, <2>2, <3>1
  <2>4. i'[c] <= count' + 1
    BY <1>1, <1>2
  <2>5. out[c] = Listing(l)
    BY <1>1, <2>1 DEF Swept
  <2>6. QED BY <1>1, <2>3, <2>4, <2>5 DEF Swept, Listing
<1>11. QED BY <1>1, <1>3, <1>9, <1>10 DEF BoardInv, Sweep

\* A message is taken from the board and put into the answer.
LEMMA MatchStep ==
  ASSUME BoardInv, MutexInv', NEW c \in Clients, DeleteMatch(c)
  PROVE  BoardInv' /\ Abstract
<1> DEFINE u == buf[c].arg
           x == i[c]
           l == out[c].list
           m == db[x]
           pre  == SubSeq(db, 1, x - 1)
           post == SubSeq(db, x + 1, count)
<1>1. /\ tpc[c] = "locked" /\ buf[c].op = "apagar" /\ x <= count /\ NameOf[m] = u
      /\ UNCHANGED <<tpc, buf, i, answer>> /\ count' = count - 1
      /\ out'[c] = Listing(Append(l, m))
      /\ db' = [s \in Slots |-> IF s >= x /\ s < count THEN db[s + 1] ELSE db[s]]
      /\ \A d \in Clients \ {c} : Same(d)
  BY DEF DeleteMatch, Locked, At, Matches, wires, Same, BoardInv, MutexInv, MemoryTypes
<1>2. /\ count \in Nat /\ x \in 1..count /\ m \in Messages /\ l \in Seq(Messages)
      /\ \A s \in 1..count : db[s] \in Messages
  BY <1>1, AtEntry
<1>3. /\ AllElse(c) /\ \A d \in Clients \ {c} : Swept(d)'
  BY <1>1, Apart DEF Inside
<1>4. \A s \in 1..(count - 1) : db'[s] = IF s >= x THEN db[s + 1] ELSE db[s]
  <2> TAKE s \in 1..(count - 1)
  <2>1. s \in Slots /\ s < count
    BY <1>2 DEF BoardInv, MutexInv, MemoryTypes, Slots
  <2>2. QED BY <1>1, <2>1
<1>5. out'[c].list = Append(l, m) /\ out'[c].list # << >> /\ out'[c] = Listing(out'[c].list)
  <2>1. Append(l, m) # << >>
    BY <1>2
  <2>2. out'[c].list = Append(l, m)
    BY <1>1 DEF Listing
  <2>3. QED BY <1>1, <2>1, <2>2
<1>6. Deleting(c)'
  BY <1>1, <1>5 DEF Deleting
<1>7. BoardView' /\ ViewOf(c)'
  BY ViewsNext DEF BoardInv
<1>8. /\ SubSeq(db, x, count) = <<m>> \o post
      /\ SubSeq(db, 1, count) = pre \o (<<m>> \o post)
      /\ pre \in Seq(Messages) /\ post \in Seq(Messages)
  <2> HIDE DEF x
  <2>1. QED BY ONLY <1>2, Entry
<1>9. /\ SubSeq(db', x, count - 1) = post
      /\ SubSeq(db', 1, count - 1) = pre \o post
  <2> HIDE DEF x
  <2>1. QED BY ONLY <1>2, <1>4, Moved
<1>10. Board' = Selected(SubSeq(db, 1, count), Others(u))
  <2>1. Board' = Selected(SubSeq(db', 1, count'), Others(buf[c].arg)')
    BY <1>6, <1>7 DEF BoardView
  <2>2. Others(buf[c].arg)' = Others(u)
    BY <1>1 DEF Others
  <2>3. Board' = Selected(pre \o post, Others(u))
    BY <1>1, <1>9, <2>1, <2>2
  <2>4. m \notin Others(u)
    BY <1>1 DEF Others
  <2>5. Selected(pre \o (<<m>> \o post), Others(u)) = Selected(pre \o post, Others(u))
    <3> DEFINE S == Others(u)
    <3>1. m \notin S
      BY <2>4
    <3> HIDE DEF m, pre, post, S
    <3>2. Selected(pre \o (<<m>> \o post), S) = Selected(pre \o post, S)
      BY <1>2, <1>8, <3>1, SelectedWithout
    <3>3. QED BY <3>2 DEF S
  <2>6. QED BY <1>8, <2>3, <2>5
<1>11. Asked(c)' = None /\ Outcome(c)' = Found(c)'
  BY <1>6, <1>7 DEF ViewOf
<1>12. Found(c)' = Found(c)
  <2> DEFINE S == Theirs(u)
             p == Selected(post, S)
  <2>1. Theirs(buf[c].arg)' = S
    BY <1>1 DEF Theirs
  <2>2. Found(c)' = Listing(Append(l, m) \o p)
    <3>1. Found(c)' = Listing(out'[c].list \o Selected(SubSeq(db', i'[c], count'), Theirs(buf[c].arg)'))
      BY DEF Found, Listing
    <3>2. SubSeq(db', i'[c], count') = post
      BY <1>1, <1>9
    <3>3. QED BY <1>5, <2>1, <3>1, <3>2
  <2>3. m \in S
    BY <1>1, <1>2 DEF Theirs
  <2>4. Selected(SubSeq(db, x, count), S) = <<m>> \o p
    <3>1. m \in Messages /\ post \in Seq(Messages)
      BY <1>2, <1>8
    <3> HIDE DEF m, post, S
    <3>2. Selected(<<m>> \o post, S) = IF m \in S THEN <<m>> \o Selected(post, S) ELSE Selected(post, S)
      BY ONLY <3>1, SelectedFirst
    <3>3. QED BY <1>8, <2>3, <3>2
  <2>5. Found(c) = Listing(l \o (<<m>> \o p))
    BY <2>4 DEF Found
  <2>6. p \in Seq(Messages)
    BY <1>8, SelectedType
  <2>7. Append(l, m) \o p = l \o (<<m>> \o p)
    <3> DEFINE one == <<m>>
    <3>1. one \in Seq(Messages)
      BY <1>2
    <3>2. Append(l, m) = l \o one
      BY <1>2, AppendIsConcat
    <3> HIDE DEF l, m, p, one
    <3>3. (l \o one) \o p = l \o (one \o p)
      BY <1>2, <2>6, <3>1, ConcatAssociative
    <3>4. QED BY <3>2, <3>3 DEF one
  <2>8. QED BY <2>2, <2>5, <2>7
<1>13. Abstract
  BY <1>1, <1>3, <1>10, <1>11, <1>12, Sweeping
<1>14. Swept(c)'
  <2>1. \A s \in 1..(x - 1) : NameOf[db[s]] # u
    BY <1>1 DEF BoardInv, Sweep, Swept
  <2>2. \A s \in 1..(i'[c] - 1) : NameOf[db'[s]] # buf'[c].arg
    <3> TAKE s \in 1..(i'[c] - 1)
    <3>1. s \in 1..(x - 1) /\ s \in 1..(count - 1) /\ ~(s >= x)
      BY <1>1, <1>2
    <3>2. db'[s] = db[s]
      BY <1>4, <3>1
    <3>3. QED BY <1>1, <2>1, <3>1, <3>2
  <2>3. i'[c] <= count' + 1
    BY <1>1, <1>2
  <2>4. QED BY <1>1, <1>5, <2>2, <2>3 DEF Swept, Listing
<1>15. QED BY <1>1, <1>3, <1>13, <1>14 DEF BoardInv, Sweep

\* The loop of a deletion ends.
LEMMA EndStep ==
  ASSUME BoardInv, MutexInv', NEW c \in Clients, DeleteEnd(c)
  PROVE  BoardInv' /\ Abstract
<1> DEFINE u == buf[c].arg
           l == out[c].list
           D == SubSeq(db, 1, count)
<1>1. /\ tpc[c] = "locked" /\ tpc'[c] = "reply" /\ buf[c].op = "apagar" /\ i[c] > count
      /\ UNCHANGED <<db, count, answer>> /\ out'[c] = out[c]
      /\ \A d \in Clients \ {c} : Same(d)
  BY DEF DeleteEnd, Locked, At, Goto, Unlock, wires, Same, BoardInv, MutexInv, WiresOK, MemoryTypes
<1>2. /\ AllElse(c)
      /\ \A d \in Clients \ {c} : tpc[d] \notin Inside /\ tpc'[d] \notin Inside
           /\ ~Deleting(d) /\ ~Deleting(d)' /\ Swept(d)'
  BY <1>1, Apart DEF Inside
<1>3. count \in Nat /\ (\A s \in 1..count : db[s] \in Messages) /\ D \in Seq(Messages) /\ Len(D) = count
  BY AtRest DEF BoardInv
<1>4. /\ i[c] = count + 1 /\ out[c] = Listing(l)
      /\ \A s \in 1..count : NameOf[db[s]] # u
  <2>1. Swept(c) /\ i[c] \in Int
    BY DEF BoardInv, Sweep, MutexInv, MemoryTypes
  <2>2. i[c] = count + 1
    BY <1>1, <1>3, <2>1 DEF Swept
  <2>3. i[c] - 1 = count
    BY <1>3, <2>2
  <2>4. \A s \in 1..(i[c] - 1) : NameOf[db[s]] # u
    BY <1>1, <2>1 DEF Swept
  <2>5. \A s \in 1..count : NameOf[db[s]] # u
    BY <2>3, <2>4
  <2>6. out[c] = Listing(l)
    BY <1>1, <2>1 DEF Swept
  <2>7. QED BY <2>2, <2>5, <2>6
<1>5. BoardView' /\ ViewOf(c)'
  BY ViewsNext DEF BoardInv
<1>6. Board' = Selected(D, Others(u))
  <2>1. \A d \in Clients : ~Deleting(d)' /\ tpc'[d] \notin {"ack", "count"}
    BY <1>1, <1>2 DEF Inside, Deleting
  <2>2. Board' = SubSeq(db', 1, count')
    BY <1>5, <2>1 DEF BoardView
  <2>3. \A s \in 1..count : D[s] \in Others(u)
    <3>1. \A s \in 1..count : D[s] = db[s]
      BY <1>3, SubSeqProperties
    <3>2. QED BY <1>3, <1>4, <3>1 DEF Others
  <2>4. Selected(D, Others(u)) = D
    <3> DEFINE S == Others(u)
    <3> HIDE DEF D, S
    <3>1. Selected(D, S) = D
      BY <1>3, <2>3, SelectedAll DEF S
    <3>2. QED BY <3>1 DEF S
  <2>5. QED BY <1>1, <2>2, <2>4
<1>7. Asked(c)' = None /\ Outcome(c)' = out[c]
  BY <1>1, <1>5 DEF ViewOf
<1>8. Found(c) = out[c]
  <2>1. SubSeq(db, i[c], count) = << >>
    BY <1>3, <1>4, SubSeqEmpty
  <2>2. Selected(SubSeq(db, i[c], count), Theirs(u)) = << >>
    BY <2>1, SelectedEmpty
  <2>3. l \in Seq(Messages)
    BY DEF BoardInv, MutexInv, MemoryTypes, Answers
  <2>4. l \o << >> = l
    BY <2>3, ConcatEmptySeq
  <2>5. QED BY <1>4, <2>2, <2>4 DEF Found
<1>9. Abstract
  BY <1>1, <1>2, <1>6, <1>7, <1>8, Sweeping
<1>10. Swept(c)'
  BY <1>1 DEF Swept
<1>11. QED BY <1>1, <1>2, <1>9, <1>10 DEF BoardInv, Sweep

\* The board is empty and nothing is asked.
LEMMA BoardStart == Init => BoardInv /\ MB!Init
<1> SUFFICES ASSUME Init PROVE BoardInv /\ MB!Init
  OBVIOUS
<1>1. MutexInv
  BY MutexInit
<1>2. /\ \A c \in Clients : tpc[c] = "none"
      /\ answer = [c \in Clients |-> None] /\ count = 0
  BY DEF Init
<1>3. BoardInv
  BY <1>1, <1>2 DEF BoardInv, Sweep, Swept
<1>4. BoardView /\ \A c \in Clients : ViewOf(c)
  BY <1>1, Views
<1>5. \A c \in Clients : Asked(c) = None /\ Outcome(c) = None
  BY <1>2, <1>4 DEF ViewOf
<1>6. Board = << >>
  <2>1. \A c \in Clients : ~Deleting(c) /\ tpc[c] \notin {"ack", "count"}
    BY <1>2 DEF Deleting
  <2>2. Board = SubSeq(db, 1, 0)
    BY <1>2, <1>4, <2>1 DEF BoardView
  <2>3. QED BY <2>2, SubSeqEmpty
<1>7. MB!Init
  BY <1>2, <1>5, <1>6 DEF MB!Init
<1>8. QED BY <1>3, <1>7

\* Every step keeps the invariant and is a step of the abstract board, or unseen.
LEMMA BoardNext ==
  ASSUME BoardInv, [Next]_vars
  PROVE  BoardInv' /\ Abstract
<1>1. MutexInv'
  BY MutexNext DEF BoardInv
<1>2. CASE \E c \in Clients : Client(c)
  BY <1>1, <1>2, ClientStep
<1>3. CASE \E c \in Clients : Accept(c)
  BY <1>1, <1>3, OutsideStep
<1>4. CASE \E c \in Clients : Thread(c)
  <2>1. PICK c \in Clients : Thread(c)
    BY <1>4
  <2>2. CASE Receive(c) \/ ReceiveEnd(c) \/ ReceiveError(c) \/ Quit(c) \/ Unknown(c) \/ Reply(c)
    BY <1>1, <2>2, OutsideStep
  <2>3. CASE Lock(c) \/ PostFull(c) \/ Read(c) \/ PostStore(c) \/ PostAck(c) \/ PostCount(c)
    BY <1>1, <2>3, LockStep, FullStep, StoreStep, AckStep
  <2>4. CASE DeleteMatch(c) \/ DeletePass(c) \/ DeleteEnd(c)
    BY <1>1, <2>4, MatchStep, PassStep, EndStep
  <2>5. QED BY <2>1, <2>2, <2>3, <2>4 DEF Thread
<1>5. CASE UNCHANGED vars \/ AcceptFails
  <2>1. UNCHANGED <<db, count, tpc, buf, out, i, answer>>
    BY <1>5 DEF vars, AcceptFails, memory, threads, wires
  <2>2. \A d \in Clients : Same(d)
    BY <2>1 DEF Same
  <2>3. Board' = Board
    BY <1>1, <2>1, <2>2, BoardKept DEF BoardInv
  <2>4. \A d \in Clients : Asked(d)' = Asked(d) /\ Outcome(d)' = Outcome(d) /\ Swept(d)'
    BY <1>1, <2>1, <2>2, ViewKept DEF BoardInv, Sweep
  <2>5. /\ [d \in Clients |-> Asked(d)]' = [d \in Clients |-> Asked(d)]
        /\ [d \in Clients |-> Outcome(d)]' = [d \in Clients |-> Outcome(d)]
    BY <2>4
  <2>6. Abstract
    BY <2>1, <2>3, <2>5 DEF Abstract, MB!vars
  <2>7. QED BY <1>1, <2>1, <2>4, <2>6 DEF BoardInv, Sweep
<1>6. QED BY <1>2, <1>3, <1>4, <1>5 DEF Next

\* Whatever the threads of the server do, its clients see a board that serves
\* every request at one instant: a deletion at once, with all its messages in the
\* answer, and a message no sooner confirmed than stored.
THEOREM ThreadsAreABoard == Spec => ImplementsBoard
<1>1. BoardInv /\ [Next]_vars => BoardInv' /\ [MB!Next]_(MB!vars)
  BY BoardNext DEF Abstract
<1>2. QED BY <1>1, BoardStart, PTL DEF Spec, ImplementsBoard, MB!Spec
=============================================================================
