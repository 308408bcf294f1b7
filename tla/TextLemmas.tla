------------------------------ MODULE TextLemmas ------------------------------
(***************************************************************************)
(* Facts about texts: induction over them, and what the recursive          *)
(* definitions of UrlText compute for every text.                          *)
(*                                                                         *)
(* Induction is stated of sets: a set that has the first element, and with *)
(* an element the next, has them all.                                      *)
(***************************************************************************)
EXTENDS UrlText, FiniteSetTheorems, SequenceTheorems, TLAPS

-----------------------------------------------------------------------------
(***************************************************************************)
(* Induction.                                                              *)
(***************************************************************************)

LEMMA LeastNat ==
  ASSUME NEW T \in SUBSET Nat, T # {}
  PROVE  \E x \in T : \A y \in T : x <= y
<1> DEFINE U == {0..n : n \in T}
           R == StrictSubsetOrdering(Nat)
<1>1. U \subseteq FiniteSubsetsOf(Nat) /\ U # {}
  <2>1. \A n \in T : IsFiniteSet(0..n) /\ 0..n \in SUBSET Nat
    BY FS_Interval
  <2> QED
    BY <2>1 DEF FiniteSubsetsOf
<1>2. \E x \in U : \A y \in U : ~ (<<y, x>> \in R)
  <2> HIDE DEF U, R
  <2>1. IsWellFoundedOn(R, FiniteSubsetsOf(Nat))
    BY FS_StrictSubsetOrderingWellFounded DEF R
  <2> QED
    BY <1>1, <2>1, WFMin
<1>3. PICK n \in T : \A m \in T : ~ (<<0..m, 0..n>> \in R)
  BY <1>2
<1>4. ASSUME NEW m \in T, m < n PROVE FALSE
  <2>1. 0..m \subseteq 0..n /\ n \in 0..n /\ n \notin 0..m
    BY <1>4
  <2>2. <<0..m, 0..n>> \in (SUBSET Nat) \X (SUBSET Nat)
    OBVIOUS
  <2> QED
    BY <2>1, <2>2, <1>3 DEF StrictSubsetOrdering
<1> QED
  BY <1>4

LEMMA NatInd ==
  ASSUME NEW G, 0 \in G, \A n \in Nat : n \in G => n + 1 \in G
  PROVE  Nat \subseteq G
<1> SUFFICES ASSUME Nat \ G # {} PROVE FALSE
  OBVIOUS
<1>1. PICK x \in Nat \ G : \A y \in Nat \ G : x <= y
  BY LeastNat
<1>2. x - 1 \in Nat /\ x - 1 \in G
  BY <1>1
<1> QED
  BY <1>1, <1>2

\* A sequence grows at its start, or at its end.
LEMMA ConsInd ==
  ASSUME NEW S, NEW G, <<>> \in G,
         \A t \in Seq(S), c \in S : t \in G => Cons(c, t) \in G
  PROVE  Seq(S) \subseteq G
<1> DEFINE L == {n \in Nat : \A t \in Seq(S) : Len(t) = n => t \in G}
<1>1. 0 \in L
  BY EmptySeq
<1>2. ASSUME NEW n \in Nat, n \in L PROVE n + 1 \in L
  <2> SUFFICES ASSUME NEW t \in Seq(S), Len(t) = n + 1 PROVE t \in G
    OBVIOUS
  <2>1. t # <<>> /\ Head(t) \in S /\ Tail(t) \in Seq(S) /\ Len(Tail(t)) = n
    BY EmptySeq, HeadTailProperties
  <2>2. Tail(t) \in G
    BY <2>1, <1>2
  <2>3. t = Cons(Head(t), Tail(t))
    BY <2>1 DEF Cons
  <2> QED
    BY <2>1, <2>2, <2>3
<1>3. Nat \subseteq L
  <2> HIDE DEF L
  <2> QED
    BY <1>1, <1>2, NatInd
<1>4. \A t \in Seq(S) : Len(t) \in Nat
  OBVIOUS
<1> QED
  BY <1>3, <1>4

LEMMA AppendInd ==
  ASSUME NEW S, NEW G, <<>> \in G,
         \A t \in Seq(S), c \in S : t \in G => Append(t, c) \in G
  PROVE  Seq(S) \subseteq G
<1> DEFINE L == {n \in Nat : \A t \in Seq(S) : Len(t) = n => t \in G}
<1>1. 0 \in L
  BY EmptySeq
<1>2. ASSUME NEW n \in Nat, n \in L PROVE n + 1 \in L
  <2> SUFFICES ASSUME NEW t \in Seq(S), Len(t) = n + 1 PROVE t \in G
    OBVIOUS
  <2>1. PICK s \in Seq(S), c \in S : t = Append(s, c)
    BY SequenceEmptyOrAppend, EmptySeq
  <2>2. Len(s) = n
    BY <2>1
  <2> QED
    BY <2>1, <2>2, <1>2
<1>3. Nat \subseteq L
  <2> HIDE DEF L
  <2> QED
    BY <1>1, <1>2, NatInd
<1>4. \A t \in Seq(S) : Len(t) \in Nat
  OBVIOUS
<1> QED
  BY <1>3, <1>4

-----------------------------------------------------------------------------
(***************************************************************************)
(* Recursion: functions that are defined by their values at other          *)
(* arguments exist, upwards and downwards.                                 *)
(***************************************************************************)

\* Steps from one element of a set to another.
StepsIn(V, Step, from, to) == \A k \in from..to : \A v \in V : Step[k][v] \in V

Climbs(f, lo, n, base, Step, V) ==
  f \in [lo..n -> V] /\ f[lo] = base /\ \A k \in (lo + 1)..n : f[k] = Step[k][f[k - 1]]

LEMMA UpRec ==
  ASSUME NEW lo \in Nat, NEW n \in Nat, lo <= n, NEW V, NEW base \in V, NEW Step,
         StepsIn(V, Step, lo + 1, n)
  PROVE  \E f : Climbs(f, lo, n, base, Step, V)
<1> DEFINE Up(f, m) == /\ f \in [lo..(lo + m) -> V] /\ f[lo] = base
                       /\ \A k \in (lo + 1)..(lo + m) : f[k] = Step[k][f[k - 1]]
           D == {m \in Nat : lo + m <= n => \E f : Up(f, m)}
<1>1. 0 \in D
  <2> DEFINE f == [k \in lo..(lo + 0) |-> base]
  <2>1. Up(f, 0)
    OBVIOUS
  <2> QED
    BY <2>1
<1>2. ASSUME NEW m \in Nat, m \in D PROVE m + 1 \in D
  <2> SUFFICES ASSUME lo + (m + 1) <= n PROVE \E f : Up(f, m + 1)
    OBVIOUS
  <2>1. PICK f : Up(f, m)
    BY <1>2
  <2> DEFINE top == lo + (m + 1)
             g == [k \in lo..top |-> IF k = top THEN Step[top][f[top - 1]] ELSE f[k]]
  <2>2. top - 1 \in lo..(lo + m) /\ top \in (lo + 1)..n
    OBVIOUS
  <2>3. f[top - 1] \in V /\ \A k \in lo..(lo + m) : f[k] \in V
    BY <2>1, <2>2
  <2>4. Step[top][f[top - 1]] \in V
    BY <2>2, <2>3 DEF StepsIn
  <2>5. \A k \in lo..top : g[k] \in V
    BY <2>3, <2>4
  <2>6. g \in [lo..top -> V]
    BY <2>5
  <2>7. g[lo] = base
    BY <2>1
  <2>8. ASSUME NEW k \in (lo + 1)..top PROVE g[k] = Step[k][g[k - 1]]
    <3>1. k - 1 \in lo..top /\ k - 1 # top /\ g[k - 1] = f[k - 1]
      OBVIOUS
    <3>2. CASE k = top
      BY <3>1, <3>2
    <3>3. CASE k # top
      <4>1. k \in (lo + 1)..(lo + m) /\ g[k] = f[k]
        BY <3>3
      <4> QED
        BY <2>1, <3>1, <4>1
    <3> QED
      BY <3>2, <3>3
  <2> HIDE DEF g
  <2>9. Up(g, m + 1)
    BY <2>6, <2>7, <2>8
  <2> QED
    BY <2>9
<1>3. n - lo \in D
  <2> HIDE DEF D
  <2>1. Nat \subseteq D
    BY <1>1, <1>2, NatInd
  <2> QED
    BY <2>1
<1>4. lo + (n - lo) = n
  OBVIOUS
<1> QED
  BY <1>3, <1>4 DEF Climbs

JumpsIn(V, n, base, jump, Step) ==
  \A i \in 1..(n + 1) :
    \/ jump[i] = 0 /\ base[i] \in V
    \/ jump[i] \in (i + 1)..(n + 1) /\ \A v \in V : Step[i][v] \in V

Descends(f, V, n, base, jump, Step) ==
  /\ f \in [1..(n + 1) -> V]
  /\ \A i \in 1..(n + 1) :
       f[i] = IF jump[i] = 0 THEN base[i] ELSE Step[i][f[jump[i]]]

LEMMA DownRec ==
  ASSUME NEW n \in Nat, NEW V, NEW base, NEW jump, NEW Step,
         JumpsIn(V, n, base, jump, Step)
  PROVE  \E f : Descends(f, V, n, base, jump, Step)
<1> USE DEF JumpsIn
<1> DEFINE At(f, i) == IF jump[i] = 0 THEN base[i] ELSE Step[i][f[jump[i]]]
           Down(f, m) == /\ f \in [m..(n + 1) -> V]
                         /\ \A i \in m..(n + 1) : f[i] = At(f, i)
           D == {m \in Nat : m <= n => \E f : Down(f, n + 1 - m)}
<1>1. 0 \in D
  <2> DEFINE f == [i \in (n + 1 - 0)..(n + 1) |-> base[i]]
  <2>1. jump[n + 1] = 0 /\ base[n + 1] \in V
    OBVIOUS
  <2>2. Down(f, n + 1 - 0)
    BY <2>1
  <2> QED
    BY <2>2
<1>2. ASSUME NEW m \in Nat, m \in D PROVE m + 1 \in D
  <2> SUFFICES ASSUME m + 1 <= n PROVE \E f : Down(f, n + 1 - (m + 1))
    OBVIOUS
  <2>1. PICK f : Down(f, n + 1 - m)
    BY <1>2
  <2> DEFINE low == n + 1 - (m + 1)
             g == [i \in low..(n + 1) |-> IF i = low THEN At(f, i) ELSE f[i]]
  <2>2. low \in 1..(n + 1) /\ low + 1 = n + 1 - m
    OBVIOUS
  <2>3. \A i \in (low + 1)..(n + 1) : f[i] \in V /\ f[i] = At(f, i)
    BY <2>1, <2>2
  <2>4. At(f, low) \in V
    BY <2>2, <2>3
  <2>5. g \in [low..(n + 1) -> V]
    BY <2>2, <2>3, <2>4
  <2>6. ASSUME NEW i \in low..(n + 1) PROVE g[i] = At(g, i)
    <3>1. i \in 1..(n + 1)
      BY <2>2
    <3>2. jump[i] # 0 => jump[i] \in (low + 1)..(n + 1)
      BY <2>2, <3>1
    <3>3. jump[i] # 0 => g[jump[i]] = f[jump[i]]
      BY <2>2, <3>2
    <3>4. g[i] = At(f, i)
      BY <2>2, <2>3
    <3> HIDE DEF g
    <3>5. At(g, i) = At(f, i)
      BY <3>3, Zenon
    <3> QED
      BY <3>4, <3>5
  <2> HIDE DEF g, At
  <2>7. Down(g, low)
    BY <2>5, <2>6
  <2> QED
    BY <2>7
<1>3. \E f : Down(f, 1)
  <2>1. Nat \subseteq D
    <3> HIDE DEF D
    <3> QED
      BY <1>1, <1>2, NatInd
  <2>2. n \in D
    <3> HIDE DEF D
    <3> QED
      BY <2>1
  <2>3. n + 1 - n = 1
    OBVIOUS
  <2> QED
    BY <2>2, <2>3
<1> QED
  BY <1>3 DEF Descends

-----------------------------------------------------------------------------
(***************************************************************************)
(* Split, from the front: what a first byte does to the parts of the rest. *)
(***************************************************************************)

\* What a byte makes of the parts of the text behind it.
WithFirst(c, separators, ends, parts) ==
  IF c \in separators THEN parts
  ELSE IF ends THEN <<<<c>>>> \o parts
  ELSE <<<<c>> \o Head(parts)>> \o Tail(parts)

\* The parts of a text, from the end to the start, as Split computes them.
PartsAt(parts, text, separators, i) ==
  IF i > Len(text) THEN <<>>
  ELSE WithFirst(text[i], separators,
               i = Len(text) \/ text[i + 1] \in separators, parts)

Parts(f, text, separators) ==
  f = [i \in 1..(Len(text) + 1) |-> PartsAt(f[i + 1], text, separators, i)]

LEMMA PartsUnique ==
  ASSUME NEW S, NEW text \in Seq(S), NEW separators, NEW f, NEW g,
         Parts(f, text, separators), Parts(g, text, separators)
  PROVE  f[1] = g[1]
<1> DEFINE n == Len(text) + 1
           D == {k \in Nat : k < n => f[n - k] = g[n - k]}
<1>1. n \in Nat \ {0}
  OBVIOUS
<1>2. /\ \A i \in 1..n : f[i] = PartsAt(f[i + 1], text, separators, i)
      /\ \A i \in 1..n : g[i] = PartsAt(g[i + 1], text, separators, i)
  BY DEF Parts
<1>3. 0 \in D
  <2>1. n > Len(text) /\ n \in 1..n /\ n - 0 = n
    OBVIOUS
  <2>2. f[n] = <<>> /\ g[n] = <<>>
    <3> HIDE DEF n
    <3> QED
      BY <2>1, <1>2 DEF PartsAt
  <2> QED
    BY <2>1, <2>2
<1>4. ASSUME NEW k \in Nat, k \in D PROVE k + 1 \in D
  <2> SUFFICES ASSUME k + 1 < n PROVE f[n - (k + 1)] = g[n - (k + 1)]
    OBVIOUS
  <2> DEFINE i == n - (k + 1)
  <2>1. i \in 1..n /\ i + 1 = n - k /\ k < n
    BY <1>1
  <2>2. f[i + 1] = g[i + 1]
    BY <2>1, <1>4
  <2> HIDE DEF i, n
  <2>3. f[i] = g[i]
    BY <2>1, <2>2, <1>2 DEF PartsAt
  <2> QED
    BY <2>3 DEF i
<1>5. n - 1 \in D
  <2> HIDE DEF D, n
  <2>1. Nat \subseteq D
    BY <1>3, <1>4, NatInd
  <2> QED
    BY <2>1, <1>1
<1>6. n - 1 < n /\ n - (n - 1) = 1
  BY <1>1
<1> QED
  BY <1>5, <1>6

\* The parts of a longer text, from those of the text behind its first byte.
LongerParts(f, text, separators) ==
  [i \in 1..(Len(text) + 1) |->
     IF i = 1 THEN PartsAt(f[1], text, separators, 1) ELSE f[i - 1]]

LEMMA PartsLonger ==
  ASSUME NEW S, NEW t \in Seq(S), NEW c \in S, NEW separators, NEW f,
         Parts(f, t, separators)
  PROVE  Parts(LongerParts(f, Cons(c, t), separators), Cons(c, t), separators)
<1> DEFINE text == Cons(c, t)
           g == LongerParts(f, text, separators)
<1>1. /\ Len(text) = Len(t) + 1 /\ text[1] = c
      /\ Len(text) \in Nat /\ Len(t) \in Nat
      /\ \A i \in 2..Len(text) : text[i] = t[i - 1]
  BY DEF Cons
<1>2. \A i \in 1..(Len(t) + 1) : f[i] = PartsAt(f[i + 1], t, separators, i)
  BY DEF Parts
<1> HIDE DEF text
<1>3. /\ DOMAIN g = 1..(Len(text) + 1)
      /\ g[1] = PartsAt(f[1], text, separators, 1)
      /\ \A i \in 2..(Len(text) + 1) : g[i] = f[i - 1]
  BY <1>1 DEF LongerParts
<1>4. g = [i \in 1..(Len(text) + 1) |-> g[i]]
  BY DEF LongerParts
<1> HIDE DEF g
<1>5. ASSUME NEW i \in 1..(Len(text) + 1) PROVE g[i] = PartsAt(g[i + 1], text, separators, i)
  <2>1. CASE i = 1
    <3>1. g[2] = f[1] /\ i + 1 = 2
      BY <2>1, <1>1, <1>3
    <3> QED
      BY <2>1, <3>1, <1>3
  <2>2. CASE i # 1
    <3>1. i - 1 \in 1..(Len(t) + 1) /\ g[i] = f[i - 1]
      BY <2>2, <1>1, <1>3
    <3>2. CASE i > Len(text)
      <4>1. i - 1 > Len(t)
        BY <3>2, <1>1
      <4> QED
        BY <3>1, <3>2, <4>1, <1>2 DEF PartsAt
    <3>3. CASE i <= Len(text)
      <4>1. /\ text[i] = t[i - 1] /\ i - 1 <= Len(t)
            /\ i + 1 \in 2..(Len(text) + 1) /\ g[i + 1] = f[i]
        BY <2>2, <3>3, <1>1, <1>3
      <4>2. i < Len(text) => text[i + 1] = t[i] /\ i - 1 < Len(t)
        BY <2>2, <1>1
      <4>3. (i - 1) + 1 = i /\ (i = Len(text) <=> i - 1 = Len(t))
        BY <1>1
      <4> QED
        BY <3>1, <3>3, <4>1, <4>2, <4>3, <1>2 DEF PartsAt
    <3> QED
      BY <3>2, <3>3, <1>1
  <2> QED
    BY <2>1, <2>2
<1> QED
  BY <1>4, <1>5 DEF Parts, g, text

LEMMA PartsExist ==
  ASSUME NEW S, NEW text \in Seq(S), NEW separators
  PROVE  \E f : Parts(f, text, separators)
<1> DEFINE G == {t \in Seq(S) : \E f : Parts(f, t, separators)}
<1>1. <<>> \in G
  <2>1. Parts([i \in 1..1 |-> <<>>], <<>>, separators)
    BY DEF Parts, PartsAt
  <2> QED
    BY <2>1
<1>2. ASSUME NEW t \in Seq(S), NEW c \in S, t \in G PROVE Cons(c, t) \in G
  <2>1. PICK f : Parts(f, t, separators)
    BY <1>2
  <2>2. Cons(c, t) \in Seq(S)
    BY DEF Cons
  <2> QED
    BY <2>1, <2>2, PartsLonger
<1> HIDE DEF G
<1>3. Seq(S) \subseteq G
  BY <1>1, <1>2, ConsInd
<1> QED
  BY <1>3 DEF G

LEMMA SplitIs ==
  ASSUME NEW S, NEW text \in Seq(S), NEW separators, NEW f, Parts(f, text, separators)
  PROVE  Split(text, separators) = f[1]
<1> DEFINE g == CHOOSE g : Parts(g, text, separators)
<1>1. Parts(g, text, separators)
  OBVIOUS
<1>2. Split(text, separators) = g[1]
  BY DEF Split, Parts, PartsAt, WithFirst
<1> HIDE DEF g
<1> QED
  BY <1>1, <1>2, PartsUnique

LEMMA SplitEmpty ==
  ASSUME NEW separators
  PROVE  Split(<<>>, separators) = <<>>
<1> DEFINE f == [i \in 1..1 |-> <<>>]
<1>1. Parts(f, <<>>, separators)
  BY DEF Parts, PartsAt
<1>2. <<>> \in Seq({}) /\ f[1] = <<>>
  OBVIOUS
<1> HIDE DEF f
<1> QED
  BY <1>1, <1>2, SplitIs

LEMMA SplitCons ==
  ASSUME NEW S, NEW t \in Seq(S), NEW c \in S, NEW separators
  PROVE  Split(Cons(c, t), separators) =
           WithFirst(c, separators, t = <<>> \/ Head(t) \in separators, Split(t, separators))
<1>1. PICK f : Parts(f, t, separators)
  BY PartsExist
<1>2. Split(t, separators) = f[1]
  BY <1>1, SplitIs
<1> DEFINE text == Cons(c, t)
<1>3. /\ text \in Seq(S) /\ 1 <= Len(text) /\ text[1] = c
      /\ (1 = Len(text) \/ text[1 + 1] \in separators)
           = (t = <<>> \/ Head(t) \in separators)
  BY DEF Cons
<1> DEFINE g == LongerParts(f, text, separators)
<1>4. g[1] = PartsAt(f[1], text, separators, 1)
  BY <1>3 DEF LongerParts
<1>5. Parts(g, text, separators)
  BY <1>1, PartsLonger
<1> HIDE DEF g, text
<1>6. Split(text, separators) = g[1]
  BY <1>3, <1>5, SplitIs
<1>7. PartsAt(f[1], text, separators, 1) =
        WithFirst(c, separators, t = <<>> \/ Head(t) \in separators, f[1])
  BY <1>3 DEF PartsAt
<1> QED
  BY <1>2, <1>4, <1>6, <1>7 DEF text

PartsOver(S, separators) == Seq(S \ separators) \ {<<>>}

\* The parts are names, and a text that starts with one has one.
LEMMA SplitType ==
  ASSUME NEW S, NEW text \in Seq(S), NEW separators
  PROVE  /\ Split(text, separators) \in Seq(PartsOver(S, separators))
         /\ text # <<>> /\ Head(text) \notin separators => Split(text, separators) # <<>>
<1> DEFINE G == {t \in Seq(S) :
                   /\ Split(t, separators) \in Seq(PartsOver(S, separators))
                   /\ t # <<>> /\ Head(t) \notin separators => Split(t, separators) # <<>>}
<1>1. <<>> \in G
  <2>1. Split(<<>>, separators) = <<>> /\ <<>> \in Seq(S)
    BY SplitEmpty
  <2>2. <<>> \in Seq(PartsOver(S, separators))
    OBVIOUS
  <2> QED
    BY <2>1, <2>2
<1>2. ASSUME NEW t \in Seq(S), NEW c \in S, t \in G PROVE Cons(c, t) \in G
  <2> DEFINE parts == Split(t, separators)
             ends  == t = <<>> \/ Head(t) \in separators
  <2>1. /\ Cons(c, t) \in Seq(S) /\ Cons(c, t) # <<>> /\ Head(Cons(c, t)) = c
    BY DEF Cons
  <2>2. Split(Cons(c, t), separators) = WithFirst(c, separators, ends, parts)
    BY SplitCons
  <2>3. parts \in Seq(PartsOver(S, separators)) /\ (~ends => parts # <<>>)
    BY <1>2
  <2> HIDE DEF parts, ends
  <2>4. CASE c \in separators
    BY <2>1, <2>2, <2>3, <2>4 DEF WithFirst
  <2>5. CASE c \notin separators /\ ends
    <3>1. <<c>> \in PartsOver(S, separators)
      BY <2>5 DEF PartsOver
    <3>2. <<<<c>>>> \o parts \in Seq(PartsOver(S, separators)) /\ <<<<c>>>> \o parts # <<>>
      BY <3>1, <2>3
    <3> QED
      BY <2>1, <2>2, <2>5, <3>2 DEF WithFirst
  <2>6. CASE c \notin separators /\ ~ends
    <3>1. Head(parts) \in PartsOver(S, separators) /\ Tail(parts) \in Seq(PartsOver(S, separators))
      BY <2>3, <2>6
    <3>2. <<c>> \o Head(parts) \in PartsOver(S, separators)
      BY <3>1, <2>6 DEF PartsOver
    <3>3. /\ <<<<c>> \o Head(parts)>> \o Tail(parts) \in Seq(PartsOver(S, separators))
          /\ <<<<c>> \o Head(parts)>> \o Tail(parts) # <<>>
      BY <3>1, <3>2
    <3> QED
      BY <2>1, <2>2, <2>6, <3>3 DEF WithFirst
  <2> QED
    BY <2>4, <2>5, <2>6
<1>3. Seq(S) \subseteq G
  <2> HIDE DEF G
  <2> QED
    BY <1>1, <1>2, ConsInd
<1>4. text \in G
  BY <1>3
<1> QED
  BY <1>4

\* Texts that meet at a separator are split apart.
LEMMA SplitConcat ==
  ASSUME NEW S, NEW a \in Seq(S), NEW b \in Seq(S), NEW separators,
         \/ a = <<>> \/ a[Len(a)] \in separators
         \/ b = <<>> \/ Head(b) \in separators
  PROVE  Split(a \o b, separators) = Split(a, separators) \o Split(b, separators)
<1> DEFINE Meet(t) == \/ t = <<>> \/ t[Len(t)] \in separators
                      \/ b = <<>> \/ Head(b) \in separators
           P(t) == Split(t, separators)
           G == {t \in Seq(S) : Meet(t) => P(t \o b) = P(t) \o P(b)}
<1>1. <<>> \in G
  <2>1. P(b) \in Seq(PartsOver(S, separators))
    BY SplitType
  <2>2. <<>> \o b = b /\ P(<<>>) = <<>>
    BY SplitEmpty
  <2> QED
    BY <2>1, <2>2
<1>2. ASSUME NEW t \in Seq(S), NEW c \in S, t \in G PROVE Cons(c, t) \in G
  <2>1. Cons(c, t) \in Seq(S)
    BY DEF Cons
  <2> SUFFICES ASSUME Meet(Cons(c, t)) PROVE P(Cons(c, t) \o b) = P(Cons(c, t)) \o P(b)
    BY <2>1
  <2>2. Meet(t)
    <3>1. t # <<>> => Cons(c, t)[Len(Cons(c, t))] = t[Len(t)]
      BY DEF Cons
    <3>2. Cons(c, t) # <<>>
      BY DEF Cons
    <3> QED
      BY <3>1, <3>2
  <2>3. P(t \o b) = P(t) \o P(b)
    BY <1>2, <2>2
  <2>4. Cons(c, t) \o b = Cons(c, t \o b) /\ t \o b \in Seq(S)
    BY DEF Cons
  <2> DEFINE ends == t = <<>> \/ Head(t) \in separators
             endsb == t \o b = <<>> \/ Head(t \o b) \in separators
  <2>5. P(Cons(c, t)) = WithFirst(c, separators, ends, P(t))
    BY SplitCons
  <2>6. P(Cons(c, t \o b)) = WithFirst(c, separators, endsb, P(t \o b))
    <3> DEFINE u == t \o b
    <3>1. u \in Seq(S)
      BY <2>4
    <3> HIDE DEF u
    <3>2. P(Cons(c, u)) = WithFirst(c, separators, u = <<>> \/ Head(u) \in separators, P(u))
      BY <3>1, SplitCons
    <3> QED
      BY <3>2 DEF u
  <2>7. c \notin separators => (ends <=> endsb)
    <3>1. CASE t # <<>>
      BY <3>1
    <3>2. CASE t = <<>>
      <4>1. Cons(c, t)[Len(Cons(c, t))] = c /\ Cons(c, t) # <<>>
        BY <3>2 DEF Cons
      <4>2. c \notin separators => b = <<>> \/ Head(b) \in separators
        BY <4>1
      <4>3. t \o b = b
        BY <3>2
      <4> QED
        BY <4>2, <4>3, <3>2
    <3> QED
      BY <3>1, <3>2
  <2>8. /\ P(t) \in Seq(PartsOver(S, separators)) /\ P(b) \in Seq(PartsOver(S, separators))
        /\ ~ends => P(t) # <<>>
    BY SplitType
  <2> HIDE DEF P, ends, endsb
  <2>9. CASE c \in separators
    BY <2>3, <2>4, <2>5, <2>6, <2>9 DEF WithFirst
  <2>10. CASE c \notin separators /\ ends
    <3>1. (<<<<c>>>> \o P(t)) \o P(b) = <<<<c>>>> \o (P(t) \o P(b))
      <4>1. <<<<c>>>> \in Seq(PartsOver(S, separators))
        BY <2>10 DEF PartsOver
      <4> QED
        BY <4>1, <2>8, ConcatAssociative
    <3> QED
      BY <3>1, <2>3, <2>4, <2>5, <2>6, <2>7, <2>10 DEF WithFirst
  <2>11. CASE c \notin separators /\ ~ends
    <3>1. /\ Head(P(t)) \in PartsOver(S, separators) /\ Tail(P(t)) \in Seq(PartsOver(S, separators))
          /\ Head(P(t) \o P(b)) = Head(P(t)) /\ Tail(P(t) \o P(b)) = Tail(P(t)) \o P(b)
      BY <2>8, <2>11
    <3>2. <<<<c>> \o Head(P(t))>> \in Seq(PartsOver(S, separators))
      BY <3>1, <2>11 DEF PartsOver
    <3>3. (<<<<c>> \o Head(P(t))>> \o Tail(P(t))) \o P(b) = <<<<c>> \o Head(P(t))>> \o (Tail(P(t)) \o P(b))
      <4> DEFINE R == PartsOver(S, separators)
                 x == <<<<c>> \o Head(P(t))>>
                 y == Tail(P(t))
                 z == P(b)
      <4>1. x \in Seq(R) /\ y \in Seq(R) /\ z \in Seq(R)
        BY <3>1, <3>2, <2>8
      <4> HIDE DEF R, x, y, z
      <4>2. ASSUME NEW u \in Seq(R), NEW v \in Seq(R), NEW w \in Seq(R)
            PROVE  (u \o v) \o w = u \o (v \o w)
        BY ConcatAssociative
      <4>3. (x \o y) \o z = x \o (y \o z)
        BY <4>1, <4>2, Zenon
      <4> QED
        BY <4>3 DEF x, y, z
    <3>4. P(Cons(c, t)) = <<<<c>> \o Head(P(t))>> \o Tail(P(t))
      BY <2>5, <2>11 DEF WithFirst
    <3>5. P(Cons(c, t) \o b) = <<<<c>> \o Head(P(t) \o P(b))>> \o Tail(P(t) \o P(b))
      BY <2>3, <2>4, <2>6, <2>7, <2>11 DEF WithFirst
    <3> QED
      BY <3>1, <3>3, <3>4, <3>5
  <2> QED
    BY <2>9, <2>10, <2>11
<1>3. Seq(S) \subseteq G
  <2> HIDE DEF G
  <2> QED
    BY <1>1, <1>2, ConsInd
<1> QED
  BY <1>3

LEMMA SplitName ==
  ASSUME NEW S, NEW separators, NEW name \in PartsOver(S, separators)
  PROVE  Split(name, separators) = <<name>>
<1> DEFINE G == {t \in Seq(S \ separators) : t # <<>> => Split(t, separators) = <<t>>}
<1>1. <<>> \in G
  OBVIOUS
<1>2. ASSUME NEW t \in Seq(S \ separators), NEW c \in S \ separators, t \in G
      PROVE  Cons(c, t) \in G
  <2> DEFINE ends == t = <<>> \/ Head(t) \in separators
  <2>1. Cons(c, t) \in Seq(S \ separators) /\ t \in Seq(S)
    BY SeqMonotonic DEF Cons
  <2>2. Split(Cons(c, t), separators) = WithFirst(c, separators, ends, Split(t, separators))
    BY <2>1, SplitCons
  <2>3. CASE t = <<>>
    BY <2>1, <2>2, <2>3, SplitEmpty DEF WithFirst, Cons
  <2>4. CASE t # <<>>
    <3>1. ~ends /\ Split(t, separators) = <<t>>
      BY <2>4, <1>2
    <3> QED
      BY <3>1, <2>1, <2>2 DEF WithFirst, Cons
  <2> QED
    BY <2>3, <2>4
<1>3. Seq(S \ separators) \subseteq G
  <2> HIDE DEF G
  <2> QED
    BY <1>1, <1>2, ConsInd
<1> QED
  BY <1>3 DEF PartsOver

\* A text that does not end in a separator ends in a name.
LEMMA EndsInName ==
  ASSUME NEW S, NEW text \in Seq(S), NEW separators,
         text # <<>>, text[Len(text)] \notin separators
  PROVE  \E a \in Seq(S), name \in PartsOver(S, separators) :
           text = a \o name /\ (a = <<>> \/ a[Len(a)] \in separators)
<1> DEFINE Ends(t) == \E a \in Seq(S), name \in PartsOver(S, separators) :
                        t = a \o name /\ (a = <<>> \/ a[Len(a)] \in separators)
           G == {t \in Seq(S) : t # <<>> /\ t[Len(t)] \notin separators => Ends(t)}
<1>1. <<>> \in G
  OBVIOUS
<1>2. ASSUME NEW t \in Seq(S), NEW c \in S, t \in G PROVE Append(t, c) \in G
  <2>1. Append(t, c) \in Seq(S) /\ Append(t, c)[Len(Append(t, c))] = c
    OBVIOUS
  <2> SUFFICES ASSUME c \notin separators PROVE Ends(Append(t, c))
    BY <2>1
  <2>2. <<c>> \in PartsOver(S, separators)
    BY DEF PartsOver
  <2>3. CASE t = <<>> \/ t[Len(t)] \in separators
    <3>1. Append(t, c) = t \o <<c>>
      OBVIOUS
    <3> QED
      BY <3>1, <2>2, <2>3
  <2>4. CASE t # <<>> /\ t[Len(t)] \notin separators
    <3>1. PICK a \in Seq(S), name \in PartsOver(S, separators) :
            t = a \o name /\ (a = <<>> \/ a[Len(a)] \in separators)
      BY <1>2, <2>4
    <3>2. Append(name, c) \in PartsOver(S, separators)
      BY DEF PartsOver
    <3>3. name \in Seq(S)
      BY SeqMonotonic DEF PartsOver
    <3>4. Append(t, c) = a \o Append(name, c)
      <4>1. Append(t, c) = (a \o name) \o <<c>> /\ Append(name, c) = name \o <<c>>
        BY <3>1, <3>3, AppendIsConcat
      <4> QED
        BY <4>1, <3>3, ConcatAssociative
    <3> QED
      BY <3>1, <3>2, <3>4
  <2> QED
    BY <2>3, <2>4
<1>3. Seq(S) \subseteq G
  <2> HIDE DEF G
  <2> QED
    BY <1>1, <1>2, AppendInd
<1>4. text \in G
  BY <1>3
<1> QED
  BY <1>4

-----------------------------------------------------------------------------
(***************************************************************************)
(* FlattenSeq, from the end.                                               *)
(***************************************************************************)

Flat(f, ss) ==
  f = [i \in 1..Len(ss) |-> IF i = 1 THEN ss[i] ELSE f[i - 1] \o ss[i]]

LEMMA FlatUnique ==
  ASSUME NEW S, NEW ss \in Seq(Seq(S)), NEW f, NEW g, Flat(f, ss), Flat(g, ss), ss # <<>>
  PROVE  f[Len(ss)] = g[Len(ss)]
<1> DEFINE n == Len(ss)
           D == {k \in Nat : k < n => f[k + 1] = g[k + 1]}
<1>1. n \in Nat \ {0}
  OBVIOUS
<1>2. /\ \A i \in 1..n : f[i] = IF i = 1 THEN ss[i] ELSE f[i - 1] \o ss[i]
      /\ \A i \in 1..n : g[i] = IF i = 1 THEN ss[i] ELSE g[i - 1] \o ss[i]
  BY DEF Flat
<1> HIDE DEF n
<1>3. 0 \in D
  BY <1>1, <1>2
<1>4. ASSUME NEW k \in Nat, k \in D PROVE k + 1 \in D
  <2> SUFFICES ASSUME k + 1 < n PROVE f[(k + 1) + 1] = g[(k + 1) + 1]
    OBVIOUS
  <2>1. f[k + 1] = g[k + 1] /\ k + 2 \in 1..n /\ k + 2 # 1 /\ (k + 2) - 1 = k + 1
    BY <1>1, <1>4
  <2>2. f[k + 2] = f[k + 1] \o ss[k + 2] /\ g[k + 2] = g[k + 1] \o ss[k + 2]
    BY <2>1, <1>2
  <2>3. (k + 1) + 1 = k + 2
    OBVIOUS
  <2> QED
    BY <2>1, <2>2, <2>3
<1>5. n - 1 \in D
  <2> HIDE DEF D
  <2>1. Nat \subseteq D
    BY <1>3, <1>4, NatInd
  <2> QED
    BY <2>1, <1>1
<1>6. n - 1 < n /\ (n - 1) + 1 = n
  BY <1>1
<1> QED
  BY <1>5, <1>6 DEF n

FlatLonger(f, ss, s) ==
  [i \in 1..(Len(ss) + 1) |->
     IF i = Len(ss) + 1 THEN (IF i = 1 THEN s ELSE f[i - 1] \o s) ELSE f[i]]

LEMMA FlatIsLonger ==
  ASSUME NEW S, NEW ss \in Seq(Seq(S)), NEW s \in Seq(S), NEW f, Flat(f, ss)
  PROVE  Flat(FlatLonger(f, ss, s), Append(ss, s))
<1> DEFINE g == FlatLonger(f, ss, s)
           tt == Append(ss, s)
           n == Len(ss)
<1>1. n \in Nat /\ Len(tt) = n + 1 /\ tt[n + 1] = s /\ \A i \in 1..n : tt[i] = ss[i]
  OBVIOUS
<1>2. \A i \in 1..n : f[i] = IF i = 1 THEN ss[i] ELSE f[i - 1] \o ss[i]
  BY DEF Flat
<1>3. /\ \A i \in 1..n : g[i] = f[i]
      /\ g[n + 1] = IF n + 1 = 1 THEN s ELSE f[n + 1 - 1] \o s
  BY <1>1 DEF FlatLonger
<1>4. g = [i \in 1..(n + 1) |-> g[i]]
  BY DEF FlatLonger
<1> HIDE DEF g, n, tt
<1>5. ASSUME NEW i \in 1..(n + 1) PROVE g[i] = IF i = 1 THEN tt[i] ELSE g[i - 1] \o tt[i]
  <2>1. CASE i = n + 1
    <3>1. i # 1 => i - 1 \in 1..n
      BY <1>1
    <3> QED
      BY <2>1, <3>1, <1>1, <1>3
  <2>2. CASE i # n + 1
    <3>1. i \in 1..n /\ (i # 1 => i - 1 \in 1..n)
      BY <2>2, <1>1
    <3> QED
      BY <3>1, <1>1, <1>2, <1>3
  <2> QED
    BY <2>1, <2>2
<1> QED
  BY <1>1, <1>4, <1>5 DEF Flat, g, tt

LEMMA FlatExists ==
  ASSUME NEW S, NEW ss \in Seq(Seq(S))
  PROVE  \E f : Flat(f, ss)
<1> DEFINE T == Seq(S)
           G == {tt \in Seq(T) : \E f : Flat(f, tt)}
<1>1. <<>> \in G
  <2>1. Flat(<<>>, <<>>)
    BY DEF Flat
  <2> QED
    BY <2>1
<1>2. ASSUME NEW tt \in Seq(T), NEW s \in T, tt \in G PROVE Append(tt, s) \in G
  <2>1. PICK f : Flat(f, tt)
    BY <1>2
  <2>2. Append(tt, s) \in Seq(T)
    OBVIOUS
  <2>3. Flat(FlatLonger(f, tt, s), Append(tt, s))
    BY <2>1, FlatIsLonger
  <2> QED
    BY <2>2, <2>3
<1>3. Seq(T) \subseteq G
  <2> HIDE DEF G, T
  <2> QED
    BY <1>1, <1>2, AppendInd
<1> QED
  BY <1>3

LEMMA FlattenIs ==
  ASSUME NEW S, NEW ss \in Seq(Seq(S)), ss # <<>>, NEW f, Flat(f, ss)
  PROVE  FlattenSeq(ss) = f[Len(ss)]
<1> DEFINE g == CHOOSE g : Flat(g, ss)
<1>1. Flat(g, ss)
  OBVIOUS
<1>2. FlattenSeq(ss) = g[Len(ss)]
  BY DEF FlattenSeq, Flat
<1> HIDE DEF g
<1> QED
  BY <1>1, <1>2, FlatUnique

LEMMA FlattenEmpty == FlattenSeq(<<>>) = <<>>
BY DEF FlattenSeq

LEMMA FlattenAppend ==
  ASSUME NEW S, NEW ss \in Seq(Seq(S)), NEW s \in Seq(S)
  PROVE  FlattenSeq(Append(ss, s)) = FlattenSeq(ss) \o s
<1>1. PICK f : Flat(f, ss)
  BY FlatExists
<1> DEFINE g == FlatLonger(f, ss, s)
           tt == Append(ss, s)
<1>2. Flat(g, tt)
  BY <1>1, FlatIsLonger
<1>3. tt \in Seq(Seq(S)) /\ tt # <<>> /\ Len(tt) = Len(ss) + 1
  <2> DEFINE R == Seq(S)
  <2>1. ss \in Seq(R) /\ s \in R
    OBVIOUS
  <2> HIDE DEF R
  <2>2. Append(ss, s) \in Seq(R) /\ Append(ss, s) # <<>> /\ Len(Append(ss, s)) = Len(ss) + 1
    BY <2>1
  <2> QED
    BY <2>2 DEF R
<1>4. g[Len(ss) + 1] = IF ss = <<>> THEN s ELSE f[Len(ss)] \o s
  BY DEF FlatLonger
<1> HIDE DEF g, tt
<1>5. FlattenSeq(tt) = g[Len(ss) + 1]
  BY <1>2, <1>3, FlattenIs
<1>6. CASE ss = <<>>
  BY <1>4, <1>5, <1>6, FlattenEmpty DEF tt
<1>7. CASE ss # <<>>
  BY <1>1, <1>4, <1>5, <1>7, FlattenIs DEF tt
<1> QED
  BY <1>6, <1>7

LEMMA FlattenType ==
  ASSUME NEW S, NEW ss \in Seq(Seq(S))
  PROVE  FlattenSeq(ss) \in Seq(S)
<1> DEFINE T == Seq(S)
           G == {tt \in Seq(T) : FlattenSeq(tt) \in T}
<1>1. <<>> \in G
  <2>1. <<>> \in Seq(T) /\ <<>> \in T
    OBVIOUS
  <2> HIDE DEF T
  <2> QED
    BY <2>1, FlattenEmpty
<1>2. ASSUME NEW tt \in Seq(T), NEW s \in T, tt \in G PROVE Append(tt, s) \in G
  <2>1. FlattenSeq(Append(tt, s)) = FlattenSeq(tt) \o s
    BY FlattenAppend
  <2>2. FlattenSeq(tt) \in Seq(S)
    BY <1>2
  <2>3. FlattenSeq(tt) \o s \in T
    BY <2>2
  <2>4. Append(tt, s) \in Seq(T)
    OBVIOUS
  <2> HIDE DEF T
  <2> QED
    BY <2>1, <2>3, <2>4
<1>3. Seq(T) \subseteq G
  <2> HIDE DEF G, T
  <2> QED
    BY <1>1, <1>2, AppendInd
<1> QED
  BY <1>3

LEMMA FlattenConcat ==
  ASSUME NEW S, NEW a \in Seq(Seq(S)), NEW b \in Seq(Seq(S))
  PROVE  FlattenSeq(a \o b) = FlattenSeq(a) \o FlattenSeq(b)
<1> DEFINE T == Seq(S)
           G == {tt \in Seq(T) : FlattenSeq(a \o tt) = FlattenSeq(a) \o FlattenSeq(tt)}
<1>1. <<>> \in G
  <2>1. FlattenSeq(a) \in Seq(S) /\ a \o <<>> = a
    BY FlattenType
  <2>2. FlattenSeq(a) \o <<>> = FlattenSeq(a)
    BY <2>1
  <2> QED
    BY <2>1, <2>2, FlattenEmpty
<1>2. ASSUME NEW tt \in Seq(T), NEW s \in T, tt \in G PROVE Append(tt, s) \in G
  <2>1. FlattenSeq(Append(tt, s)) = FlattenSeq(tt) \o s
    BY FlattenAppend
  <2>2. a \o tt \in Seq(Seq(S)) /\ a \o Append(tt, s) = Append(a \o tt, s)
    OBVIOUS
  <2>3. FlattenSeq(Append(a \o tt, s)) = FlattenSeq(a \o tt) \o s
    BY <2>2, FlattenAppend
  <2>4. FlattenSeq(a) \in Seq(S) /\ FlattenSeq(tt) \in Seq(S)
    BY FlattenType
  <2>5. (FlattenSeq(a) \o FlattenSeq(tt)) \o s = FlattenSeq(a) \o (FlattenSeq(tt) \o s)
    BY <2>4, ConcatAssociative
  <2>6. Append(tt, s) \in Seq(T)
    OBVIOUS
  <2>7. FlattenSeq(a \o tt) = FlattenSeq(a) \o FlattenSeq(tt)
    BY <1>2
  <2> HIDE DEF T
  <2> QED
    BY <2>1, <2>2, <2>3, <2>5, <2>6, <2>7
<1>3. Seq(T) \subseteq G
  <2> HIDE DEF G, T
  <2> QED
    BY <1>1, <1>2, AppendInd
<1> QED
  BY <1>3

-----------------------------------------------------------------------------
(***************************************************************************)
(* Paths and their components.                                             *)
(***************************************************************************)

Name == PartsOver(Byte, {Slash})

LEMMA NameIsText ==
  /\ Name \subseteq Seq(Byte) \ {<<>>}
  /\ \A name \in Name : Components(name) = <<name>>
<1>1. ASSUME NEW name \in Name PROVE name \in Seq(Byte) /\ name # <<>>
  BY <1>1, SeqMonotonic DEF Name, PartsOver
<1>2. ASSUME NEW name \in Name PROVE Components(name) = <<name>>
  BY <1>2, SplitName DEF Name, Components
<1> QED
  BY <1>1, <1>2

LEMMA ComponentsType ==
  ASSUME NEW text \in Seq(Byte)
  PROVE  Components(text) \in Seq(Name)
BY SplitType DEF Components, Name

LEMMA ComponentsEmpty == Components(<<>>) = <<>>
BY SplitEmpty DEF Components

LEMMA ComponentsSlash == Components(<<Slash>>) = <<>>
<1>1. <<Slash>> = Cons(Slash, <<>>) /\ <<>> \in Seq(Byte) /\ Slash \in Byte
  BY DEF Cons, Slash, Byte
<1>2. Split(Cons(Slash, <<>>), {Slash}) =
        WithFirst(Slash, {Slash}, <<>> = <<>> \/ Head(<<>>) \in {Slash}, Split(<<>>, {Slash}))
  BY <1>1, SplitCons
<1> QED
  BY <1>1, <1>2, SplitEmpty DEF WithFirst, Components

\* What follows a slash, or stands before one, has its components to itself.
LEMMA ComponentsConcat ==
  ASSUME NEW a \in Seq(Byte), NEW b \in Seq(Byte),
         a = <<>> \/ a[Len(a)] = Slash \/ b = <<>> \/ Head(b) = Slash
  PROVE  Components(a \o b) = Components(a) \o Components(b)
<1> DEFINE separators == {Slash}
<1>1. \/ a = <<>> \/ a[Len(a)] \in separators
      \/ b = <<>> \/ Head(b) \in separators
  OBVIOUS
<1> HIDE DEF separators
<1>2. Split(a \o b, separators) = Split(a, separators) \o Split(b, separators)
  BY <1>1, SplitConcat
<1> QED
  BY <1>2 DEF Components, separators

LEMMA ComponentsAddSlash ==
  ASSUME NEW a \in Seq(Byte)
  PROVE  /\ Components(Append(a, Slash)) = Components(a)
         /\ Components(Cons(Slash, a)) = Components(a)
<1>1. <<Slash>> \in Seq(Byte) /\ <<Slash>>[Len(<<Slash>>)] = Slash /\ Head(<<Slash>>) = Slash
  BY DEF Slash, Byte
<1>2. Components(a \o <<Slash>>) = Components(a) \o <<>>
  BY <1>1, ComponentsConcat, ComponentsSlash
<1>3. Components(<<Slash>> \o a) = <<>> \o Components(a)
  BY <1>1, ComponentsConcat, ComponentsSlash
<1>4. Components(a) \in Seq(Name)
  BY ComponentsType
<1>5. Append(a, Slash) = a \o <<Slash>> /\ Cons(Slash, a) = <<Slash>> \o a
  BY <1>1, AppendIsConcat DEF Cons, Slash, Byte
<1> QED
  BY <1>2, <1>3, <1>4, <1>5

LEMMA ComponentsAddName ==
  ASSUME NEW a \in Seq(Byte), NEW name \in Name, a = <<>> \/ a[Len(a)] = Slash
  PROVE  Components(a \o name) = Append(Components(a), name)
<1>1. name \in Seq(Byte) /\ Components(name) = <<name>>
  BY NameIsText
<1>2. Components(a \o name) = Components(a) \o <<name>>
  BY <1>1, ComponentsConcat
<1> QED
  BY <1>2, ComponentsType, AppendIsConcat

LEMMA JoinedEmpty == Joined(<<>>) = <<>>
<1>1. [i \in DOMAIN <<>> |-> <<Slash>> \o <<>>[i]] = <<>>
  OBVIOUS
<1> QED
  BY <1>1, FlattenEmpty DEF Joined

LEMMA JoinedAppend ==
  ASSUME NEW names \in Seq(Name), NEW name \in Name
  PROVE  /\ Joined(names) \in Seq(Byte)
         /\ Joined(Append(names, name)) = Joined(names) \o (<<Slash>> \o name)
<1> DEFINE Pieces(ns) == [i \in DOMAIN ns |-> <<Slash>> \o ns[i]]
<1>1. \A n \in Name : <<Slash>> \o n \in Seq(Byte)
  BY NameIsText DEF Slash, Byte
<1>2. Pieces(names) \in Seq(Seq(Byte))
  <2>1. \A i \in 1..Len(names) : <<Slash>> \o names[i] \in Seq(Byte)
    BY <1>1
  <2>2. Len(names) \in Nat /\ DOMAIN names = 1..Len(names)
    OBVIOUS
  <2> QED
    BY <2>1, <2>2
<1>3. Pieces(Append(names, name)) = Append(Pieces(names), <<Slash>> \o name)
  OBVIOUS
<1>4. <<Slash>> \o name \in Seq(Byte)
  BY <1>1
<1>5. Joined(names) = FlattenSeq(Pieces(names))
  BY DEF Joined
<1>6. Joined(Append(names, name)) = FlattenSeq(Pieces(Append(names, name)))
  BY DEF Joined
<1> HIDE DEF Pieces
<1> QED
  BY <1>2, <1>3, <1>4, <1>5, <1>6, FlattenAppend, FlattenType

\* A text of names, each behind one slash.
OneSlashEach(text) ==
  /\ text # <<>> => text[1] = Slash
  /\ \A i \in 1..(Len(text) - 1) : text[i] = Slash => text[i + 1] # Slash

LEMMA JoinedComponents ==
  ASSUME NEW text \in Seq(Byte), OneSlashEach(text)
  PROVE  text = Joined(Components(text)) \o IF EndsInSlash(text) THEN <<Slash>> ELSE <<>>
<1> DEFINE Rebuilt(t) == Joined(Components(t)) \o IF EndsInSlash(t) THEN <<Slash>> ELSE <<>>
           G == {t \in Seq(Byte) : OneSlashEach(t) => t = Rebuilt(t)}
<1>1. <<>> \in G
  BY ComponentsEmpty, JoinedEmpty DEF EndsInSlash
<1>2. ASSUME NEW t \in Seq(Byte), NEW c \in Byte, t \in G PROVE Append(t, c) \in G
  <2> DEFINE u == Append(t, c)
  <2>1. u \in Seq(Byte) /\ u # <<>> /\ Last(u) = c /\ Len(u) = Len(t) + 1
    BY DEF Last
  <2> SUFFICES ASSUME OneSlashEach(u) PROVE u = Rebuilt(u)
    BY <2>1
  <2>2. OneSlashEach(t)
    <3>1. /\ t # <<>> => t[1] = u[1]
          /\ \A i \in 1..Len(t) : t[i] = u[i]
      OBVIOUS
    <3>2. \A i \in 1..(Len(t) - 1) : i \in 1..(Len(u) - 1) /\ i \in 1..Len(t) /\ i + 1 \in 1..Len(t)
      BY <2>1
    <3> QED
      BY <3>1, <3>2, <2>1 DEF OneSlashEach
  <2>3. t = Rebuilt(t) /\ Components(t) \in Seq(Name) /\ Joined(Components(t)) \in Seq(Byte)
    <3>1. \A names \in Seq(Name) : Joined(names) \in Seq(Byte)
      <4>1. <<1>> \in Name
        BY DEF Name, PartsOver, Byte, Slash
      <4> QED
        BY <4>1, JoinedAppend
    <3> QED
      BY <3>1, <2>2, <1>2, ComponentsType
  <2>4. CASE c = Slash
    <3>1. ~EndsInSlash(t)
      <4>1. t # <<>> => Len(t) \in 1..(Len(u) - 1) /\ u[Len(t)] = t[Len(t)] /\ u[Len(t) + 1] = c
        BY <2>1
      <4> QED
        BY <4>1, <2>4 DEF OneSlashEach, EndsInSlash, Last
    <3>2. Components(u) = Components(t)
      BY <2>4, ComponentsAddSlash
    <3>3. t = Joined(Components(t))
      BY <2>3, <3>1
    <3>4. EndsInSlash(u)
      BY <2>1, <2>4 DEF EndsInSlash
    <3>5. u = t \o <<Slash>>
      BY <2>4
    <3> QED
      BY <3>2, <3>3, <3>4, <3>5
  <2>5. CASE c # Slash
    <3>1. ~EndsInSlash(u)
      BY <2>1, <2>5 DEF EndsInSlash
    <3>2. t # <<>>
      <4>1. t = <<>> => u[1] = c
        OBVIOUS
      <4> QED
        BY <4>1, <2>1, <2>5 DEF OneSlashEach
    <3>3. <<c>> \in Name
      BY <2>5 DEF Name, PartsOver
    <3>4. CASE EndsInSlash(t)
      <4>1. Components(t \o <<c>>) = Append(Components(t), <<c>>)
        BY <3>3, <3>4, ComponentsAddName DEF EndsInSlash, Last
      <4>2. Joined(Append(Components(t), <<c>>)) = Joined(Components(t)) \o (<<Slash>> \o <<c>>)
        BY <2>3, <3>3, JoinedAppend
      <4>3. t = Joined(Components(t)) \o <<Slash>>
        BY <2>3, <3>4
      <4>4. u = t \o <<c>> /\ <<Slash>> \in Seq(Byte) /\ <<c>> \in Seq(Byte)
        BY DEF Slash, Byte
      <4>5. (Joined(Components(t)) \o <<Slash>>) \o <<c>> = Joined(Components(t)) \o (<<Slash>> \o <<c>>)
        BY <2>3, <4>4, ConcatAssociative
      <4>6. u = Joined(Components(u))
        BY <4>1, <4>2, <4>3, <4>4, <4>5
      <4> HIDE DEF u
      <4> QED
        BY <4>6, <3>1, <2>1
    <3>5. CASE ~EndsInSlash(t)
      <4>1. PICK a \in Seq(Byte), name \in Name : t = a \o name /\ (a = <<>> \/ a[Len(a)] = Slash)
        <5> DEFINE separators == {Slash}
        <5>1. t # <<>> /\ t[Len(t)] \notin separators
          BY <3>2, <3>5 DEF EndsInSlash, Last
        <5> HIDE DEF separators
        <5>2. \E a \in Seq(Byte), name \in PartsOver(Byte, separators) :
                t = a \o name /\ (a = <<>> \/ a[Len(a)] \in separators)
          BY <5>1, EndsInName
        <5> QED
          BY <5>2 DEF separators, Name
      <4>2. Append(name, c) \in Name /\ name \in Seq(Byte)
        <5> DEFINE R == Byte \ {Slash}
        <5>1. name \in Seq(R) /\ c \in R
          BY <2>5 DEF Name, PartsOver
        <5> HIDE DEF R
        <5>2. Append(name, c) \in Seq(R) /\ Append(name, c) # <<>>
          BY <5>1, AppendProperties
        <5>3. Append(name, c) \in Name
          BY <5>2 DEF Name, PartsOver, R
        <5> QED
          BY <5>3, NameIsText
      <4> DEFINE more == Append(name, c)
                 before == Joined(Components(a))
      <4>3. u = a \o more
        <5>1. u = (a \o name) \o <<c>> /\ more = name \o <<c>>
          BY <4>1, <4>2, AppendIsConcat
        <5> QED
          BY <5>1, <4>2, ConcatAssociative
      <4>4. Components(t) = Append(Components(a), name)
        BY <4>1, ComponentsAddName
      <4>5. Components(u) = Append(Components(a), more)
        BY <4>1, <4>2, <4>3, ComponentsAddName
      <4>6. /\ before \in Seq(Byte)
            /\ Joined(Components(t)) = before \o (<<Slash>> \o name)
            /\ Joined(Components(u)) = before \o (<<Slash>> \o more)
        BY <4>2, <4>4, <4>5, JoinedAppend, ComponentsType
      <4>7. t = before \o (<<Slash>> \o name)
        <5>1. t = Joined(Components(t))
          BY <2>3, <3>5
        <5> QED
          BY <5>1, <4>6
      <4> HIDE DEF before
      <4>8. u = (before \o (<<Slash>> \o name)) \o <<c>> /\ more = name \o <<c>>
            /\ <<Slash>> \in Seq(Byte) /\ <<c>> \in Seq(Byte)
        BY <4>2, <4>7, AppendIsConcat DEF Slash, Byte
      <4>9. /\ <<Slash>> \o name \in Seq(Byte)
            /\ (<<Slash>> \o name) \o <<c>> = <<Slash>> \o (name \o <<c>>)
        BY <4>2, <4>8, ConcatAssociative
      <4>10. u = before \o (<<Slash>> \o more)
        <5> DEFINE part == <<Slash>> \o name
        <5>1. u = (before \o part) \o <<c>> /\ part \in Seq(Byte)
          BY <4>8, <4>9
        <5>2. part \o <<c>> = <<Slash>> \o more
          BY <4>8, <4>9
        <5> HIDE DEF part
        <5>3. before \in Seq(Byte) /\ part \in Seq(Byte) /\ <<c>> \in Seq(Byte)
          BY <4>6, <4>8, <5>1
        <5>4. (before \o part) \o <<c>> = before \o (part \o <<c>>)
          BY <5>3, ConcatAssociative
        <5> QED
          BY <5>1, <5>2, <5>4
      <4> HIDE DEF u, more
      <4> QED
        BY <4>6, <4>10, <3>1, <2>1
    <3> QED
      BY <3>4, <3>5
  <2> QED
    BY <2>4, <2>5
<1>3. Seq(Byte) \subseteq G
  <2> HIDE DEF G
  <2> QED
    BY <1>1, <1>2, AppendInd
<1>4. text \in G
  BY <1>3
<1> QED
  BY <1>4

-----------------------------------------------------------------------------
(***************************************************************************)
(* Parts of an array.                                                      *)
(***************************************************************************)

PartIn(S, buffer, from, to) == \A i \in from..(to - 1) : buffer[i] \in S

LEMMA BytesType ==
  ASSUME NEW S, NEW buffer, NEW from \in Int, NEW to \in Int, from <= to,
         PartIn(S, buffer, from, to)
  PROVE  /\ Bytes(buffer, from, to) \in Seq(S)
         /\ Len(Bytes(buffer, from, to)) = to - from
         /\ \A i \in 1..(to - from) : Bytes(buffer, from, to)[i] = buffer[from + i - 1]
<1>1. \A i \in 1..(to - from) : from + i - 1 \in from..(to - 1)
  OBVIOUS
<1>2. to - from \in Nat
  OBVIOUS
<1> QED
  BY <1>1, <1>2 DEF Bytes, PartIn

LEMMA BytesEmpty ==
  ASSUME NEW buffer, NEW from \in Int
  PROVE  Bytes(buffer, from, from) = <<>>
BY DEF Bytes

LEMMA BytesSame ==
  ASSUME NEW a, NEW b, NEW from \in Int, NEW to \in Int,
         \A i \in from..(to - 1) : a[i] = b[i]
  PROVE  Bytes(a, from, to) = Bytes(b, from, to)
<1>1. \A i \in 1..(to - from) : from + i - 1 \in from..(to - 1)
  OBVIOUS
<1> QED
  BY <1>1 DEF Bytes

LEMMA BytesConcat ==
  ASSUME NEW S, NEW buffer, NEW from \in Int, NEW mid \in Int, NEW to \in Int,
         from <= mid, mid <= to, PartIn(S, buffer, from, to)
  PROVE  Bytes(buffer, from, to) = Bytes(buffer, from, mid) \o Bytes(buffer, mid, to)
<1> DEFINE whole == Bytes(buffer, from, to)
           a == Bytes(buffer, from, mid)
           b == Bytes(buffer, mid, to)
<1>1. /\ from <= to
      /\ PartIn(S, buffer, from, mid) /\ PartIn(S, buffer, mid, to)
  BY DEF PartIn
<1>2. /\ whole \in Seq(S) /\ Len(whole) = to - from
      /\ \A i \in 1..(to - from) : whole[i] = buffer[from + i - 1]
  BY <1>1, BytesType
<1>3. /\ a \in Seq(S) /\ Len(a) = mid - from
      /\ \A i \in 1..(mid - from) : a[i] = buffer[from + i - 1]
  BY <1>1, BytesType
<1>4. /\ b \in Seq(S) /\ Len(b) = to - mid
      /\ \A i \in 1..(to - mid) : b[i] = buffer[mid + i - 1]
  BY <1>1, BytesType
<1> HIDE DEF whole, a, b
<1>5. a \o b \in Seq(S) /\ Len(a \o b) = to - from
  <2>1. a \in Seq(S) /\ b \in Seq(S) /\ Len(a) = mid - from /\ Len(b) = to - mid
    BY <1>3, <1>4
  <2>2. a \o b \in Seq(S) /\ Len(a \o b) = Len(a) + Len(b)
    BY <2>1
  <2> QED
    BY <2>1, <2>2
<1>6. ASSUME NEW i \in 1..(to - from) PROVE whole[i] = (a \o b)[i]
  <2>1. CASE i <= mid - from
    <3>1. i \in 1..(mid - from)
      BY <2>1
    <3>2. (a \o b)[i] = a[i]
      BY <3>1, <1>3, <1>4
    <3> QED
      BY <3>1, <3>2, <1>2, <1>3
  <2>2. CASE i > mid - from
    <3>1. i - (mid - from) \in 1..(to - mid) /\ mid + (i - (mid - from)) - 1 = from + i - 1
      BY <2>2
    <3>2. (a \o b)[i] = b[i - (mid - from)]
      BY <2>2, <1>3, <1>4
    <3>3. b[i - (mid - from)] = buffer[from + i - 1]
      BY <3>1, <1>4
    <3> QED
      BY <3>2, <3>3, <1>2
  <2>3. i <= mid - from \/ i > mid - from
    OBVIOUS
  <2> QED
    BY <2>1, <2>2, <2>3
<1>7. whole = a \o b
  BY <1>2, <1>5, <1>6, SeqEqual
<1> QED
  BY <1>7 DEF whole, a, b

LEMMA BytesEnds ==
  ASSUME NEW S, NEW buffer, NEW from \in Int, NEW to \in Int, from < to,
         PartIn(S, buffer, from, to)
  PROVE  /\ Bytes(buffer, from, to) = Cons(buffer[from], Bytes(buffer, from + 1, to))
         /\ Bytes(buffer, from, to) = Append(Bytes(buffer, from, to - 1), buffer[to - 1])
<1>1. /\ Bytes(buffer, from, to) = Bytes(buffer, from, from + 1) \o Bytes(buffer, from + 1, to)
      /\ Bytes(buffer, from, to) = Bytes(buffer, from, to - 1) \o Bytes(buffer, to - 1, to)
  <2>1. /\ from + 1 \in Int /\ from <= from + 1 /\ from + 1 <= to
        /\ to - 1 \in Int /\ from <= to - 1 /\ to - 1 <= to
    OBVIOUS
  <2>2. Bytes(buffer, from, to) = Bytes(buffer, from, from + 1) \o Bytes(buffer, from + 1, to)
    BY <2>1, BytesConcat
  <2>3. Bytes(buffer, from, to) = Bytes(buffer, from, to - 1) \o Bytes(buffer, to - 1, to)
    BY <2>1, BytesConcat
  <2> QED
    BY <2>2, <2>3
<1>2. /\ Bytes(buffer, from, from + 1) = <<buffer[from]>>
      /\ Bytes(buffer, to - 1, to) = <<buffer[to - 1]>>
  BY DEF Bytes
<1>3. Bytes(buffer, from, to - 1) \in Seq(S) /\ buffer[to - 1] \in S
  <2>1. PartIn(S, buffer, from, to - 1) /\ buffer[to - 1] \in S
    BY DEF PartIn
  <2> QED
    BY <2>1, BytesType
<1> QED
  BY <1>1, <1>2, <1>3, AppendIsConcat DEF Cons

LEMMA BytesGrow ==
  ASSUME NEW S, NEW buffer, NEW k \in Nat, PartIn(S, buffer, 0, k + 1)
  PROVE  Bytes(buffer, 0, k + 1) = Append(Bytes(buffer, 0, k), buffer[k])
<1> DEFINE to == k + 1
<1>1. 0 \in Int /\ to \in Int /\ 0 < to /\ PartIn(S, buffer, 0, to) /\ to - 1 = k
  OBVIOUS
<1> HIDE DEF to
<1>2. Bytes(buffer, 0, to) = Append(Bytes(buffer, 0, to - 1), buffer[to - 1])
  BY <1>1, BytesEnds
<1> QED
  BY <1>1, <1>2 DEF to

-----------------------------------------------------------------------------
(***************************************************************************)
(* Reading a text while keeping some of it.  A name that is being read     *)
(* belongs to what is still to be read as long as there is more of it.     *)
(***************************************************************************)

Word == Seq(Byte \ {Slash})

InName(unread) == unread # <<>> /\ Head(unread) # Slash

NewName(text) == text = <<>> \/ text[Len(text)] = Slash

\* The name being read is the last one kept, and done ends before it.
Whole(kept, unread, done, toread, name) ==
  /\ done \in Seq(Byte) /\ NewName(done)
  /\ kept = done \o name /\ toread = name \o unread

At(kept, unread, done, toread) ==
  IF InName(unread) THEN \E name \in Word : Whole(kept, unread, done, toread, name)
  ELSE done = kept /\ toread = unread

LEMMA WordIsText ==
  /\ Word \subseteq Seq(Byte)
  /\ \A word \in Word : word # <<>> => word \in Name
  /\ \A word \in Word : \A c \in Byte : c # Slash => Append(word, c) \in Name
<1>1. ASSUME NEW word \in Word PROVE word \in Seq(Byte)
  BY DEF Word
<1>2. ASSUME NEW word \in Word, NEW c \in Byte, c # Slash
      PROVE  Append(word, c) \in Word /\ Append(word, c) # <<>>
  <2> DEFINE S == Byte \ {Slash}
  <2>1. word \in Seq(S) /\ c \in S
    BY <1>2 DEF Word
  <2> HIDE DEF S
  <2>2. Append(word, c) \in Seq(S) /\ Append(word, c) # <<>>
    BY <2>1, AppendProperties
  <2> QED
    BY <2>2 DEF Word, S
<1> QED
  BY <1>1, <1>2 DEF Name, PartsOver, Word

LEMMA ConcatIs ==
  ASSUME NEW S, NEW a \in Seq(S), NEW b \in Seq(S)
  PROVE  /\ a \o b \in Seq(S) /\ Len(a \o b) = Len(a) + Len(b)
         /\ Len(a) \in Nat /\ Len(b) \in Nat
         /\ \A i \in 1..Len(a) : (a \o b)[i] = a[i]
         /\ \A i \in 1..Len(b) : (a \o b)[Len(a) + i] = b[i]
<1>1. ASSUME NEW i \in 1..Len(b) PROVE (a \o b)[Len(a) + i] = b[i]
  <2>1. Len(a) + i \in 1..(Len(a) + Len(b)) /\ Len(a) + i > Len(a)
    OBVIOUS
  <2>2. (a \o b)[Len(a) + i] = b[Len(a) + i - Len(a)]
    BY <2>1
  <2>3. Len(a) + i - Len(a) = i
    OBVIOUS
  <2> QED
    BY <2>2, <2>3
<1> QED
  BY <1>1

\* There is one way to take a text apart like this.
LEMMA LastNameIs ==
  ASSUME NEW d \in Seq(Byte), NEW n \in Word, NEW e \in Seq(Byte), NEW m \in Word,
         NewName(d), NewName(e), d \o n = e \o m
  PROVE  d = e /\ n = m
<1> DEFINE text == d \o n
<1>1. /\ n \in Seq(Byte) /\ m \in Seq(Byte) /\ text \in Seq(Byte)
      /\ Len(d) \in Nat /\ Len(e) \in Nat /\ Len(n) \in Nat /\ Len(m) \in Nat
      /\ Len(text) = Len(d) + Len(n) /\ Len(text) = Len(e) + Len(m)
  BY WordIsText
<1>2. /\ \A i \in 1..Len(d) : text[i] = d[i]
      /\ \A i \in 1..Len(e) : text[i] = e[i]
  BY <1>1
<1>3. /\ \A i \in 1..Len(n) : text[Len(d) + i] = n[i] /\ n[i] # Slash
      /\ \A i \in 1..Len(m) : text[Len(e) + i] = m[i] /\ m[i] # Slash
  <2>1. /\ \A i \in 1..Len(n) : text[Len(d) + i] = n[i]
        /\ \A i \in 1..Len(m) : text[Len(e) + i] = m[i]
    <3>1. \A i \in 1..Len(n) : (d \o n)[Len(d) + i] = n[i]
      BY <1>1, ConcatIs
    <3>2. \A i \in 1..Len(m) : (e \o m)[Len(e) + i] = m[i]
      BY <1>1, ConcatIs
    <3> QED
      BY <3>1, <3>2
  <2>2. /\ \A i \in 1..Len(n) : n[i] # Slash
        /\ \A i \in 1..Len(m) : m[i] # Slash
    BY DEF Word
  <2> QED
    BY <2>1, <2>2
<1> HIDE DEF text
<1>4. Len(d) = Len(e)
  <2>1. ~(Len(d) < Len(e))
    <3> SUFFICES ASSUME Len(d) < Len(e) PROVE FALSE
      OBVIOUS
    <3>1. e # <<>> /\ Len(e) - Len(d) \in 1..Len(n) /\ Len(d) + (Len(e) - Len(d)) = Len(e)
      BY <1>1
    <3>2. e[Len(e)] = Slash /\ text[Len(e)] = Slash
      BY <3>1, <1>1, <1>2 DEF NewName
    <3> QED
      BY <3>1, <3>2, <1>3
  <2>2. ~(Len(e) < Len(d))
    <3> SUFFICES ASSUME Len(e) < Len(d) PROVE FALSE
      OBVIOUS
    <3>1. d # <<>> /\ Len(d) - Len(e) \in 1..Len(m) /\ Len(e) + (Len(d) - Len(e)) = Len(d)
      BY <1>1
    <3>2. d[Len(d)] = Slash /\ text[Len(d)] = Slash
      BY <3>1, <1>1, <1>2 DEF NewName
    <3> QED
      BY <3>1, <3>2, <1>3
  <2> QED
    BY <2>1, <2>2, <1>1
<1>5. d = e
  BY <1>2, <1>4, SeqEqual
<1>6. n = m
  BY <1>1, <1>3, <1>4, SeqEqual
<1> QED
  BY <1>5, <1>6

\* One more byte of a name is kept: nothing happens, or the name ends.
LEMMA KeepByte ==
  ASSUME NEW kept \in Seq(Byte), NEW unread \in Seq(Byte), NEW c \in Byte, c # Slash,
         NEW done, NEW toread, At(kept, Cons(c, unread), done, toread),
         NEW done2, NEW toread2, At(Append(kept, c), unread, done2, toread2)
  PROVE  /\ InName(unread) => done2 = done /\ toread2 = toread
         /\ ~InName(unread) =>
              \E name \in Name :
                /\ done \in Seq(Byte) /\ NewName(done)
                /\ Append(kept, c) = done \o name
                /\ Components(toread) = Cons(name, Components(toread2))
                /\ Components(done2) = Append(Components(done), name)
<1>1. InName(Cons(c, unread))
  BY DEF InName, Cons
<1>2. PICK word \in Word : Whole(kept, Cons(c, unread), done, toread, word)
  BY <1>1 DEF At
<1> DEFINE name == Append(word, c)
           all == Append(kept, c)
<1>3. name \in Name /\ name \in Seq(Byte) /\ word \in Seq(Byte) /\ name \in Word
  BY WordIsText, NameIsText DEF Name, Word, PartsOver
<1>4. all = done \o name /\ toread = name \o unread
  <2>1. done \in Seq(Byte) /\ kept = done \o word /\ toread = word \o Cons(c, unread)
    BY <1>2 DEF Whole
  <2>2. <<c>> \in Seq(Byte)
    OBVIOUS
  <2>3. all = kept \o <<c>> /\ name = word \o <<c>> /\ Cons(c, unread) = <<c>> \o unread
    BY <1>3, AppendIsConcat DEF Cons
  <2>4. /\ (done \o word) \o <<c>> = done \o (word \o <<c>>)
        /\ (word \o <<c>>) \o unread = word \o (<<c>> \o unread)
    BY <2>1, <2>2, <1>3, ConcatAssociative
  <2> QED
    BY <2>1, <2>3, <2>4
<1>5. done \in Seq(Byte) /\ NewName(done)
  BY <1>2 DEF Whole
<1> HIDE DEF name, all
<1>6. CASE InName(unread)
  <2>1. PICK more \in Word : Whole(all, unread, done2, toread2, more)
    BY <1>6 DEF At, all
  <2>2. done2 \in Seq(Byte) /\ NewName(done2) /\ done \o name = done2 \o more
        /\ toread2 = more \o unread
    BY <2>1, <1>4 DEF Whole
  <2>3. done = done2 /\ name = more
    BY <2>2, <1>3, <1>5, LastNameIs
  <2> QED
    BY <1>6, <2>2, <2>3, <1>4
<1>7. CASE ~InName(unread)
  <2>1. done2 = all /\ toread2 = unread
    BY <1>7 DEF At, all
  <2>2. Components(done \o name) = Append(Components(done), name)
    BY <1>3, <1>5, ComponentsAddName DEF NewName
  <2>3. Components(name \o unread) = Components(name) \o Components(unread)
    BY <1>3, <1>7, ComponentsConcat DEF InName
  <2>4. Components(name) = <<name>>
    BY <1>3, NameIsText
  <2> QED
    BY <1>3, <1>4, <1>5, <1>7, <2>1, <2>2, <2>3, <2>4 DEF Cons, all
<1> QED
  BY <1>6, <1>7

\* A slash is kept, or skipped in front of another one.
LEMMA KeepSlashes ==
  ASSUME NEW kept \in Seq(Byte), NEW unread \in Seq(Byte),
         NEW done, NEW toread, At(kept, Cons(Slash, unread), done, toread),
         NEW done2, NEW toread2,
         \/ At(Append(kept, Slash), unread, done2, toread2)
         \/ ~InName(unread) /\ At(kept, unread, done2, toread2)
  PROVE  /\ Components(toread2) = Components(toread)
         /\ Components(done2) = Components(done)
<1>1. ~InName(Cons(Slash, unread))
  BY DEF InName, Cons
<1>2. done = kept /\ toread = Cons(Slash, unread)
  BY <1>1 DEF At
<1>3. Components(toread) = Components(unread) /\ Components(Append(kept, Slash)) = Components(kept)
  BY <1>2, ComponentsAddSlash
<1>4. CASE At(Append(kept, Slash), unread, done2, toread2) /\ InName(unread)
  <2> DEFINE all == Append(kept, Slash)
  <2>1. PICK word \in Word : Whole(all, unread, done2, toread2, word)
    BY <1>4 DEF At
  <2>2. all \in Seq(Byte) /\ NewName(all) /\ all = all \o <<>> /\ <<>> \in Word
    <3>1. Slash \in Byte
      BY DEF Slash, Byte
    <3>2. all \in Seq(Byte) /\ Len(all) = Len(kept) + 1 /\ all[Len(kept) + 1] = Slash
      BY <3>1
    <3> QED
      BY <3>2 DEF NewName, Word
  <2> HIDE DEF all
  <2>3. done2 \in Seq(Byte) /\ NewName(done2) /\ all \o <<>> = done2 \o word
        /\ toread2 = word \o unread
    BY <2>1, <2>2 DEF Whole
  <2>4. all = done2 /\ <<>> = word
    BY <2>2, <2>3, LastNameIs
  <2>5. toread2 = unread
    BY <2>3, <2>4
  <2> QED
    BY <1>2, <1>3, <2>4, <2>5 DEF all
<1>5. CASE At(Append(kept, Slash), unread, done2, toread2) /\ ~InName(unread)
  BY <1>2, <1>3, <1>5 DEF At
<1>6. CASE ~InName(unread) /\ At(kept, unread, done2, toread2)
  BY <1>2, <1>3, <1>6 DEF At
<1> QED
  BY <1>4, <1>5, <1>6

\* A name that is skipped behind its slash is the next component.
LEMMA SkipName ==
  ASSUME NEW kept \in Seq(Byte), NEW unread \in Seq(Byte), NEW name \in Name,
         ~InName(unread),
         NEW done, NEW toread, At(kept, Cons(Slash, name \o unread), done, toread)
  PROVE  done = kept /\ Components(toread) = Cons(name, Components(unread))
<1>1. ~InName(Cons(Slash, name \o unread))
  BY DEF InName, Cons
<1>2. done = kept /\ toread = Cons(Slash, name \o unread)
  BY <1>1 DEF At
<1>3. name \in Seq(Byte) /\ Components(name) = <<name>>
  BY NameIsText
<1>4. name \o unread \in Seq(Byte)
  BY <1>3
<1>5. Components(toread) = Components(name \o unread)
  BY <1>2, <1>4, ComponentsAddSlash
<1>6. Components(name \o unread) = Components(name) \o Components(unread)
  BY <1>3, ComponentsConcat DEF InName
<1> QED
  BY <1>2, <1>3, <1>5, <1>6 DEF Cons

\* Without its last name, a text has all but the last of its components.
LEMMA DropName ==
  ASSUME NEW a \in Seq(Byte), NEW name \in Name
  PROVE  /\ Components(Append(a, Slash) \o name) = Append(Components(a), name)
         /\ Front(Append(Components(a), name)) = Components(a)
<1> DEFINE b == Append(a, Slash)
<1>1. b \in Seq(Byte) /\ b[Len(b)] = Slash
  <2>1. Slash \in Byte
    BY DEF Slash, Byte
  <2> QED
    BY <2>1
<1>2. Components(b) = Components(a)
  BY ComponentsAddSlash
<1> HIDE DEF b
<1>3. Components(b \o name) = Append(Components(b), name)
  BY <1>1, ComponentsAddName
<1> DEFINE names == Components(a)
<1>4. names \in Seq(Name)
  BY ComponentsType
<1> HIDE DEF names
<1>5. Front(Append(names, name)) = names
  BY <1>4 DEF Front
<1> QED
  BY <1>2, <1>3, <1>5 DEF b, names

-----------------------------------------------------------------------------
(***************************************************************************)
(* Names resolved one after the other.                                     *)
(***************************************************************************)

Walks(f, names) ==
  f = [i \in 0..Len(names) |-> IF i = 0 THEN <<>> ELSE Enter(f[i - 1], names[i])]

LEMMA WalkUnique ==
  ASSUME NEW S, NEW names \in Seq(S), NEW f, NEW g, Walks(f, names), Walks(g, names)
  PROVE  f[Len(names)] = g[Len(names)]
<1> DEFINE n == Len(names)
           D == {k \in Nat : k <= n => f[k] = g[k]}
<1>1. n \in Nat
  OBVIOUS
<1>2. /\ \A i \in 0..n : f[i] = IF i = 0 THEN <<>> ELSE Enter(f[i - 1], names[i])
      /\ \A i \in 0..n : g[i] = IF i = 0 THEN <<>> ELSE Enter(g[i - 1], names[i])
  BY DEF Walks
<1> HIDE DEF n
<1>3. 0 \in D
  <2>1. 0 \in 0..n
    BY <1>1
  <2>2. f[0] = <<>> /\ g[0] = <<>>
    BY <1>2, <2>1
  <2> QED
    BY <2>2
<1>4. ASSUME NEW k \in Nat, k \in D PROVE k + 1 \in D
  <2> SUFFICES ASSUME k + 1 <= n PROVE f[k + 1] = g[k + 1]
    OBVIOUS
  <2>1. k + 1 \in 0..n /\ k + 1 # 0 /\ k + 1 - 1 = k /\ f[k] = g[k]
    BY <1>1, <1>4
  <2>2. /\ f[k + 1] = Enter(f[k], names[k + 1])
        /\ g[k + 1] = Enter(g[k], names[k + 1])
    BY <1>2, <2>1
  <2> QED
    BY <2>1, <2>2
<1>5. n \in D
  <2> HIDE DEF D
  <2> QED
    BY <1>1, <1>3, <1>4, NatInd
<1> QED
  BY <1>5, <1>1 DEF n

WalkLonger(f, names, name) ==
  [i \in 0..(Len(names) + 1) |->
     IF i = Len(names) + 1 THEN Enter(f[Len(names)], name) ELSE f[i]]

LEMMA WalkIsLonger ==
  ASSUME NEW S, NEW names \in Seq(S), NEW name \in S, NEW f, Walks(f, names)
  PROVE  Walks(WalkLonger(f, names, name), Append(names, name))
<1> DEFINE g == WalkLonger(f, names, name)
           more == Append(names, name)
           n == Len(names)
<1>1. n \in Nat /\ Len(more) = n + 1 /\ more[n + 1] = name /\ \A i \in 1..n : more[i] = names[i]
  OBVIOUS
<1>2. \A i \in 0..n : f[i] = IF i = 0 THEN <<>> ELSE Enter(f[i - 1], names[i])
  BY DEF Walks
<1>3. /\ \A i \in 0..n : g[i] = f[i]
      /\ g[n + 1] = Enter(f[n], name)
  BY <1>1 DEF WalkLonger
<1>4. g = [i \in 0..(n + 1) |-> g[i]]
  BY DEF WalkLonger
<1> HIDE DEF g, n, more
<1>5. ASSUME NEW i \in 0..(n + 1)
      PROVE  g[i] = IF i = 0 THEN <<>> ELSE Enter(g[i - 1], more[i])
  <2>1. CASE i = n + 1
    <3>1. i # 0 /\ i - 1 = n /\ n \in 0..n
      BY <1>1, <2>1
    <3> QED
      BY <1>1, <1>3, <2>1, <3>1
  <2>2. CASE i # n + 1 /\ i # 0
    <3>1. i \in 0..n /\ i - 1 \in 0..n /\ i \in 1..n
      BY <1>1, <2>2
    <3> QED
      BY <1>1, <1>2, <1>3, <2>2, <3>1
  <2>3. CASE i = 0
    <3>1. 0 \in 0..n
      BY <1>1
    <3> QED
      BY <1>2, <1>3, <2>3, <3>1
  <2> QED
    BY <2>1, <2>2, <2>3
<1>6. [i \in 0..(n + 1) |-> g[i]] =
        [i \in 0..(n + 1) |-> IF i = 0 THEN <<>> ELSE Enter(g[i - 1], more[i])]
  BY <1>5
<1>7. g = [i \in 0..Len(more) |-> IF i = 0 THEN <<>> ELSE Enter(g[i - 1], more[i])]
  <2>1. Len(more) = n + 1
    BY <1>1
  <2> QED
    BY <1>4, <1>6, <2>1
<1> QED
  BY <1>7 DEF Walks, g, more

LEMMA WalkExists ==
  ASSUME NEW S, NEW names \in Seq(S)
  PROVE  \E f : Walks(f, names)
<1> DEFINE G == {ns \in Seq(S) : \E f : Walks(f, ns)}
<1>1. <<>> \in G
  <2> DEFINE f == [i \in 0..0 |-> <<>>]
  <2>1. Walks(f, <<>>)
    BY DEF Walks
  <2> QED
    BY <2>1
<1>2. ASSUME NEW ns \in Seq(S), NEW name \in S, ns \in G PROVE Append(ns, name) \in G
  <2>1. PICK f : Walks(f, ns)
    BY <1>2
  <2>2. Walks(WalkLonger(f, ns, name), Append(ns, name))
    BY <2>1, WalkIsLonger
  <2> QED
    BY <2>2
<1>3. Seq(S) \subseteq G
  <2> HIDE DEF G
  <2> QED
    BY <1>1, <1>2, AppendInd
<1> QED
  BY <1>3

LEMMA ResolvedIs ==
  ASSUME NEW S, NEW names \in Seq(S), NEW f, Walks(f, names)
  PROVE  Resolved(names) = f[Len(names)]
<1> DEFINE g == CHOOSE g : Walks(g, names)
<1>1. Walks(g, names)
  BY WalkExists
<1>2. Resolved(names) = g[Len(names)]
  BY DEF Resolved, Walks
<1> HIDE DEF g
<1> QED
  BY <1>1, <1>2, WalkUnique

LEMMA ResolvedEmpty == Resolved(<<>>) = <<>>
<1> DEFINE f == [i \in 0..0 |-> <<>>]
<1>1. Walks(f, <<>>)
  BY DEF Walks
<1>2. <<>> \in Seq({}) /\ f[Len(<<>>)] = <<>>
  OBVIOUS
<1> HIDE DEF f
<1> QED
  BY <1>1, <1>2, ResolvedIs

LEMMA ResolvedAppend ==
  ASSUME NEW S, NEW names \in Seq(S), NEW name \in S
  PROVE  Resolved(Append(names, name)) = Enter(Resolved(names), name)
<1>1. PICK f : Walks(f, names)
  BY WalkExists
<1> DEFINE g == WalkLonger(f, names, name)
           more == Append(names, name)
<1>2. Walks(g, more)
  BY <1>1, WalkIsLonger
<1>3. more \in Seq(S) /\ Len(more) = Len(names) + 1
  OBVIOUS
<1>4. g[Len(names) + 1] = Enter(f[Len(names)], name)
  BY DEF WalkLonger
<1> HIDE DEF g, more
<1>5. Resolved(more) = g[Len(more)]
  BY <1>2, <1>3, ResolvedIs
<1>6. Resolved(names) = f[Len(names)]
  BY <1>1, ResolvedIs
<1> QED
  BY <1>3, <1>4, <1>5, <1>6 DEF more

\* What leads above the root does not come back.
LEMMA AboveStays ==
  ASSUME NEW S, NEW a \in Seq(S), NEW b \in Seq(S), Resolved(a) = Above
  PROVE  Resolved(a \o b) = Above
<1> DEFINE G == {t \in Seq(S) : Resolved(a \o t) = Above}
<1>1. <<>> \in G
  OBVIOUS
<1>2. ASSUME NEW t \in Seq(S), NEW c \in S, t \in G PROVE Append(t, c) \in G
  <2> DEFINE u == a \o t
  <2>1. u \in Seq(S) /\ a \o Append(t, c) = Append(u, c) /\ Resolved(u) = Above
    BY <1>2
  <2> HIDE DEF u
  <2>2. Resolved(Append(u, c)) = Enter(Resolved(u), c)
    BY <2>1, ResolvedAppend
  <2>3. Enter(Above, c) = Above
    BY DEF Enter
  <2>4. Append(t, c) \in Seq(S)
    OBVIOUS
  <2> QED
    BY <2>1, <2>2, <2>3, <2>4
<1>3. Seq(S) \subseteq G
  <2> HIDE DEF G
  <2> QED
    BY <1>1, <1>2, AppendInd
<1> QED
  BY <1>3

\* A path of components is taken apart into them again.
LEMMA ComponentsJoined ==
  ASSUME NEW names \in Seq(Name)
  PROVE  /\ Joined(names) \in Seq(Byte)
         /\ Components(Joined(names)) = names
<1> DEFINE G == {ns \in Seq(Name) :
                   Joined(ns) \in Seq(Byte) /\ Components(Joined(ns)) = ns}
<1>1. <<>> \in G
  <2>1. <<>> \in Seq(Byte) /\ <<>> \in Seq(Name)
    OBVIOUS
  <2> QED
    BY <2>1, JoinedEmpty, ComponentsEmpty
<1>2. ASSUME NEW ns \in Seq(Name), NEW name \in Name, ns \in G PROVE Append(ns, name) \in G
  <2> DEFINE before == Joined(ns)
             piece == <<Slash>> \o name
  <2>1. before \in Seq(Byte) /\ Components(before) = ns
    BY <1>2
  <2>2. name \in Seq(Byte) /\ Components(name) = <<name>>
    BY NameIsText
  <2>3. piece \in Seq(Byte) /\ Head(piece) = Slash /\ piece = Cons(Slash, name)
    <3>1. Slash \in Byte
      BY DEF Slash, Byte
    <3> QED
      BY <2>2, <3>1 DEF Cons
  <2>4. Components(piece) = <<name>>
    BY <2>2, <2>3, ComponentsAddSlash
  <2>5. Joined(Append(ns, name)) = before \o piece
    BY JoinedAppend
  <2> HIDE DEF before, piece
  <2>6. Components(before \o piece) = Components(before) \o Components(piece)
    BY <2>1, <2>3, ComponentsConcat
  <2>7. ns \o <<name>> = Append(ns, name) /\ Append(ns, name) \in Seq(Name)
    BY AppendIsConcat
  <2>8. before \o piece \in Seq(Byte)
    BY <2>1, <2>3
  <2> QED
    BY <2>1, <2>4, <2>5, <2>6, <2>7, <2>8
<1>3. Seq(Name) \subseteq G
  <2> HIDE DEF G
  <2> QED
    BY <1>1, <1>2, AppendInd
<1>4. names \in G
  BY <1>3
<1> QED
  BY <1>4

\* Names resolved are names, unless they lead above the root.
LEMMA ResolvedType ==
  ASSUME NEW names \in Seq(Name)
  PROVE  Resolved(names) \in Seq(Name) \/ Resolved(names) = Above
<1> DEFINE G == {ns \in Seq(Name) : Resolved(ns) \in Seq(Name) \/ Resolved(ns) = Above}
<1>1. <<>> \in G
  <2>1. <<>> \in Seq(Name)
    OBVIOUS
  <2> QED
    BY <2>1, ResolvedEmpty
<1>2. ASSUME NEW ns \in Seq(Name), NEW name \in Name, ns \in G PROVE Append(ns, name) \in G
  <2> DEFINE path == Resolved(ns)
  <2>1. Resolved(Append(ns, name)) = Enter(path, name)
    BY ResolvedAppend
  <2>2. path \in Seq(Name) \/ path = Above
    BY <1>2
  <2> HIDE DEF path
  <2>3. Enter(path, name) \in Seq(Name) \/ Enter(path, name) = Above
    BY <2>2 DEF Enter, Front
  <2>4. Append(ns, name) \in Seq(Name)
    OBVIOUS
  <2> QED
    BY <2>1, <2>3, <2>4
<1>3. Seq(Name) \subseteq G
  <2> HIDE DEF G
  <2> QED
    BY <1>1, <1>2, AppendInd
<1> QED
  BY <1>3

LEMMA AboveIsNoPath == Above \notin Seq(Name)
<1>1. <<>> \notin Name
  BY DEF Name, PartsOver
<1>2. ASSUME Above \in Seq(Name) PROVE FALSE
  <2>1. Above[1] \in Name /\ Above[1] = <<>>
    BY <1>2 DEF Above
  <2> QED
    BY <1>1, <2>1
<1> QED
  BY <1>2


LEMMA JoinedAbsolute ==
  ASSUME NEW names \in Seq(Name), Joined(names) # <<>>
  PROVE  Head(Joined(names)) = Slash
<1> DEFINE G == {ns \in Seq(Name) : Joined(ns) # <<>> => Head(Joined(ns)) = Slash}
<1>1. <<>> \in G
  <2>1. <<>> \in Seq(Name)
    OBVIOUS
  <2> QED
    BY <2>1, JoinedEmpty
<1>2. ASSUME NEW ns \in Seq(Name), NEW name \in Name, ns \in G PROVE Append(ns, name) \in G
  <2> DEFINE before == Joined(ns)
             piece == <<Slash>> \o name
  <2>1. /\ before \in Seq(Byte) /\ Joined(Append(ns, name)) = before \o piece
        /\ before # <<>> => Head(before) = Slash
    BY <1>2, JoinedAppend
  <2>2. piece \in Seq(Byte) /\ piece # <<>> /\ Head(piece) = Slash
    <3>1. name \in Seq(Byte) /\ Slash \in Byte
      BY NameIsText DEF Slash, Byte
    <3> QED
      BY <3>1
  <2> HIDE DEF before, piece
  <2>3. Head(before \o piece) = Slash
    <3>1. CASE before = <<>>
      BY <2>2, <3>1
    <3>2. CASE before # <<>>
      BY <2>1, <2>2, <3>2
    <3> QED
      BY <3>1, <3>2
  <2>4. Append(ns, name) \in Seq(Name)
    OBVIOUS
  <2> QED
    BY <2>1, <2>3, <2>4
<1>3. Seq(Name) \subseteq G
  <2> HIDE DEF G
  <2> QED
    BY <1>1, <1>2, AppendInd
<1> QED
  BY <1>3

-----------------------------------------------------------------------------
(***************************************************************************)
(* What process_get makes of a URL.                                        *)
(***************************************************************************)

\* Downwards from the end.
LEMMA DownInd ==
  ASSUME NEW n \in Nat, NEW G, n + 1 \in G,
         \A i \in 1..n : (\A j \in (i + 1)..(n + 1) : j \in G) => i \in G
  PROVE  \A i \in 1..(n + 1) : i \in G
<1> DEFINE D == {k \in Nat : \A i \in 1..(n + 1) : i >= n + 1 - k => i \in G}
<1>1. 0 \in D
  OBVIOUS
<1>2. ASSUME NEW k \in Nat, k \in D PROVE k + 1 \in D
  <2> SUFFICES ASSUME NEW i \in 1..(n + 1), i >= n + 1 - (k + 1) PROVE i \in G
    OBVIOUS
  <2>1. CASE i >= n + 1 - k
    BY <1>2, <2>1
  <2>2. CASE i < n + 1 - k
    <3>1. i \in 1..n /\ \A j \in (i + 1)..(n + 1) : j >= n + 1 - k
      BY <2>2
    <3>2. \A j \in (i + 1)..(n + 1) : j \in G
      BY <1>2, <3>1
    <3> QED
      BY <3>1, <3>2
  <2> QED
    BY <2>1, <2>2
<1>3. n \in D
  <2> HIDE DEF D
  <2> QED
    BY <1>1, <1>2, NatInd
<1> QED
  BY <1>3

\* The part of a text before a byte.
FreeTo(text, c, n) == \A i \in 1..n : text[i] # c

LEMMA LeastIs ==
  ASSUME NEW I \in SUBSET Int, NEW m \in I, \A i \in I : m <= i
  PROVE  Min(I) = m
<1>1. \E i \in I : \A j \in I : i =< j
  OBVIOUS
<1>2. Min(I) \in I /\ \A j \in I : Min(I) =< j
  BY <1>1, Zenon DEF Min
<1>3. Min(I) <= m /\ m <= Min(I)
  BY <1>2
<1>4. Min(I) \in Int /\ m \in Int
  BY <1>2
<1> QED
  BY <1>3, <1>4

LEMMA GreatestIs ==
  ASSUME NEW I \in SUBSET Int, NEW m \in I, \A i \in I : i <= m
  PROVE  Max(I) = m
<1>1. \E i \in I : \A j \in I : i >= j
  OBVIOUS
<1>2. Max(I) \in I /\ \A j \in I : Max(I) >= j
  BY <1>1, Zenon DEF Max
<1>3. Max(I) <= m /\ m <= Max(I)
  BY <1>2
<1>4. Max(I) \in Int /\ m \in Int
  BY <1>2
<1> QED
  BY <1>3, <1>4

\* There is a longest of some texts.
LEMMA LongestIs ==
  ASSUME NEW n \in Nat, NEW lengths, \A i \in 1..n : lengths[i] \in Nat
  PROVE  LET longest == Max({0} \cup {lengths[i] : i \in 1..n})
         IN  longest \in Nat /\ \A i \in 1..n : lengths[i] <= longest
<1> DEFINE T(k) == {0} \cup {lengths[i] : i \in 1..k}
           D == {k \in Nat : k <= n => \E m \in T(k) : \A t \in T(k) : t <= m}
<1>1. 0 \in D
  OBVIOUS
<1>2. ASSUME NEW k \in Nat, k \in D PROVE k + 1 \in D
  <2> SUFFICES ASSUME k + 1 <= n PROVE \E m \in T(k + 1) : \A t \in T(k + 1) : t <= m
    OBVIOUS
  <2>1. PICK m \in T(k) : \A t \in T(k) : t <= m
    BY <1>2
  <2>2. /\ T(k + 1) = T(k) \cup {lengths[k + 1]}
        /\ lengths[k + 1] \in Nat /\ T(k) \subseteq Nat
    OBVIOUS
  <2> DEFINE last == lengths[k + 1]
             U == T(k)
  <2>3. T(k + 1) = U \cup {last} /\ last \in Nat /\ U \subseteq Nat /\ m \in U /\ \A t \in U : t <= m
    BY <2>1, <2>2
  <2> HIDE DEF T, U, last
  <2>4. CASE last <= m
    BY <2>3, <2>4
  <2>5. CASE ~(last <= m)
    BY <2>3, <2>5
  <2> QED
    BY <2>4, <2>5
<1>3. n \in D
  <2> HIDE DEF D
  <2> QED
    BY <1>1, <1>2, NatInd
<1>4. PICK m \in T(n) : \A t \in T(n) : t <= m
  BY <1>3
<1>5. T(n) \in SUBSET Int /\ T(n) \subseteq Nat
  OBVIOUS
<1>6. Max(T(n)) = m
  <2> HIDE DEF T
  <2> QED
    BY <1>4, <1>5, GreatestIs
<1>7. m \in Nat /\ \A i \in 1..n : lengths[i] <= m
  BY <1>4, <1>5
<1> HIDE DEF T
<1>8. Max(T(n)) \in Nat /\ \A i \in 1..n : lengths[i] <= Max(T(n))
  BY <1>6, <1>7
<1> QED
  BY <1>8 DEF T

LEMMA BeforeIs ==
  ASSUME NEW S, NEW text \in Seq(S), NEW c, NEW n \in 0..Len(text),
         FreeTo(text, c, n), n = Len(text) \/ text[n + 1] = c
  PROVE  Before(text, c) = SubSeq(text, 1, n)
<1> DEFINE I == {i \in 1..Len(text) : text[i] = c}
<1>1. Before(text, c) =
        IF (IF I # {} THEN Min(I) ELSE 0) = 0 THEN text
        ELSE SubSeq(text, 1, (IF I # {} THEN Min(I) ELSE 0) - 1)
  BY DEF Before, SelectInSeq
<1>2. CASE n = Len(text)
  <2>1. I = {}
    BY <1>2 DEF FreeTo
  <2>2. SubSeq(text, 1, Len(text)) = text
    OBVIOUS
  <2> QED
    BY <1>1, <1>2, <2>1, <2>2
<1>3. CASE n # Len(text)
  <2>1. n + 1 \in I /\ \A i \in I : n + 1 <= i
    BY <1>3 DEF FreeTo
  <2>2. I \subseteq Int
    OBVIOUS
  <2> HIDE DEF I
  <2>3. Min(I) = n + 1
    BY <2>1, <2>2, LeastIs
  <2>4. n + 1 # 0 /\ n + 1 - 1 = n /\ I # {}
    BY <2>1
  <2> QED
    BY <1>1, <2>3, <2>4
<1> QED
  BY <1>2, <1>3

LEMMA BeforeExists ==
  ASSUME NEW S, NEW text \in Seq(S), NEW c
  PROVE  \E n \in 0..Len(text) :
           /\ FreeTo(text, c, n) /\ (n = Len(text) \/ text[n + 1] = c)
           /\ Before(text, c) = SubSeq(text, 1, n)
<1> DEFINE T == {n \in 0..Len(text) : n = Len(text) \/ text[n + 1] = c}
<1>1. Len(text) \in T /\ T \in SUBSET Nat
  OBVIOUS
<1>2. PICK n \in T : \A m \in T : n <= m
  <2> HIDE DEF T
  <2> QED
    BY <1>1, LeastNat
<1>3. FreeTo(text, c, n)
  <2> SUFFICES ASSUME NEW i \in 1..n, text[i] = c PROVE FALSE
    BY DEF FreeTo
  <2>1. i - 1 \in T
    OBVIOUS
  <2> QED
    BY <1>2, <2>1
<1> QED
  BY <1>2, <1>3, BeforeIs

LEMMA BeforeType ==
  ASSUME NEW S, NEW text \in Seq(S), NEW c
  PROVE  /\ Before(text, c) \in Seq(S \ {c})
         /\ Before(text, c) \in Seq(S)
         /\ text \in Seq(S \ {c}) => Before(text, c) = text
<1>1. PICK n \in 0..Len(text) :
        /\ FreeTo(text, c, n) /\ (n = Len(text) \/ text[n + 1] = c)
        /\ Before(text, c) = SubSeq(text, 1, n)
  BY BeforeExists
<1>2. /\ SubSeq(text, 1, n) \in Seq(S) /\ Len(SubSeq(text, 1, n)) = n
      /\ \A i \in 1..n : SubSeq(text, 1, n)[i] = text[i]
  OBVIOUS
<1> DEFINE t == SubSeq(text, 1, n)
<1>3. t \in Seq(S \ {c})
  <2>1. \A i \in 1..n : t[i] \in S /\ t[i] # c
    BY <1>1, <1>2 DEF FreeTo
  <2>2. t = [i \in 1..n |-> t[i]]
    BY <1>2
  <2>3. n \in Nat
    OBVIOUS
  <2> HIDE DEF t
  <2>4. [i \in 1..n |-> t[i]] \in Seq(S \ {c})
    BY <2>1, <2>3
  <2> QED
    BY <2>2, <2>4
<1>4. ASSUME text \in Seq(S \ {c}) PROVE Before(text, c) = text
  <2>1. FreeTo(text, c, Len(text))
    BY <1>4 DEF FreeTo
  <2>2. Before(text, c) = SubSeq(text, 1, Len(text))
    BY <2>1, BeforeIs
  <2> QED
    BY <2>2
<1> QED
  BY <1>1, <1>2, <1>3, <1>4

\* urldecode, from the end to the start.
CodeAt(text, i) == HexValue(text[i + 1]) * 16 + HexValue(text[i + 2])

DecodedAt(f, text, i) ==
  IF i > Len(text) THEN <<>>
  ELSE IF Escaped(text, i) THEN <<CodeAt(text, i)>> \o f[i + 3]
  ELSE <<text[i]>> \o f[i + 1]

Decoding(f, text) == f = [i \in 1..(Len(text) + 1) |-> DecodedAt(f, text, i)]

\* The text behind a first byte is decoded as before.
LongerDecoding(f, text) ==
  [i \in 1..(Len(text) + 1) |->
     IF i # 1 THEN f[i - 1]
     ELSE IF Escaped(text, 1) THEN <<CodeAt(text, 1)>> \o f[3]
     ELSE <<text[1]>> \o f[1]]

LEMMA DecodingLonger ==
  ASSUME NEW S, NEW t \in Seq(S), NEW c \in S, NEW f, Decoding(f, t)
  PROVE  Decoding(LongerDecoding(f, Cons(c, t)), Cons(c, t))
<1> DEFINE text == Cons(c, t)
           g == LongerDecoding(f, text)
<1>1. /\ Len(text) = Len(t) + 1
      /\ Len(text) \in Nat /\ Len(t) \in Nat
      /\ \A i \in 2..Len(text) : text[i] = t[i - 1]
  BY DEF Cons
<1>2. \A i \in 1..(Len(t) + 1) : f[i] = DecodedAt(f, t, i)
  BY DEF Decoding
<1> HIDE DEF text
<1>3. /\ g[1] = IF Escaped(text, 1) THEN <<CodeAt(text, 1)>> \o f[3]
                ELSE <<text[1]>> \o f[1]
      /\ \A i \in 2..(Len(text) + 1) : g[i] = f[i - 1]
  BY <1>1 DEF LongerDecoding
<1>4. g = [i \in 1..(Len(text) + 1) |-> g[i]]
  BY DEF LongerDecoding
<1> HIDE DEF g
<1>5. ASSUME NEW i \in 1..(Len(text) + 1) PROVE g[i] = DecodedAt(g, text, i)
  <2>1. CASE i = 1
    <3>1. Escaped(text, 1) => 4 <= Len(text) + 1
      BY <1>1 DEF Escaped
    <3>2. g[1 + 1] = f[1] /\ (Escaped(text, 1) => g[1 + 3] = f[3])
      BY <3>1, <1>1, <1>3
    <3>3. ~ (1 > Len(text))
      BY <1>1
    <3> QED
      BY <2>1, <3>2, <3>3, <1>3 DEF DecodedAt
  <2>2. CASE i # 1
    <3> DEFINE j == i - 1
    <3>1. j \in 1..(Len(t) + 1) /\ g[i] = f[j] /\ i = j + 1 /\ (i > Len(text) <=> j > Len(t))
      BY <2>2, <1>1, <1>3
    <3>2. f[j] = DecodedAt(f, t, j)
      BY <3>1, <1>2
    <3>3. CASE i > Len(text)
      BY <3>1, <3>2, <3>3 DEF DecodedAt
    <3>4. CASE ~ (i > Len(text))
      <4>1. j <= Len(t) /\ text[i] = t[j]
        BY <3>1, <3>4, <2>2, <1>1
      <4>2. j + 2 <= Len(t) => text[i + 1] = t[j + 1] /\ text[i + 2] = t[j + 2]
        BY <2>2, <1>1
      <4>3. i + 2 <= Len(text) <=> j + 2 <= Len(t)
        BY <1>1
      <4>4. Escaped(text, i) <=> Escaped(t, j)
        BY <4>1, <4>2, <4>3 DEF Escaped
      <4>5. Escaped(t, j) => CodeAt(text, i) = CodeAt(t, j) /\ g[i + 3] = f[j + 3]
        <5> SUFFICES ASSUME Escaped(t, j) PROVE CodeAt(text, i) = CodeAt(t, j) /\ g[i + 3] = f[j + 3]
          OBVIOUS
        <5>1. j + 2 <= Len(t)
          BY DEF Escaped
        <5>2. i + 3 \in 2..(Len(text) + 1) /\ i + 3 - 1 = j + 3
          BY <5>1, <1>1, <2>2
        <5> QED
          BY <4>2, <5>1, <5>2, <1>3 DEF CodeAt
      <4>6. g[i + 1] = f[j + 1]
        BY <4>1, <1>1, <1>3, <2>2
      <4> HIDE DEF j
      <4> QED
        BY <3>1, <3>2, <3>4, <4>1, <4>4, <4>5, <4>6 DEF DecodedAt
    <3> QED
      BY <3>3, <3>4
  <2> QED
    BY <2>1, <2>2
<1> QED
  BY <1>4, <1>5 DEF Decoding, g, text

LEMMA DecodingExists ==
  ASSUME NEW S, NEW text \in Seq(S)
  PROVE  \E f : Decoding(f, text)
<1> DEFINE G == {t \in Seq(S) : \E f : Decoding(f, t)}
<1>1. <<>> \in G
  <2>1. Decoding([i \in 1..1 |-> <<>>], <<>>)
    BY DEF Decoding, DecodedAt
  <2>2. <<>> \in Seq(S)
    OBVIOUS
  <2> QED
    BY <2>1, <2>2
<1>2. ASSUME NEW t \in Seq(S), NEW c \in S, t \in G PROVE Cons(c, t) \in G
  <2>1. PICK f : Decoding(f, t)
    BY <1>2
  <2>2. Cons(c, t) \in Seq(S)
    BY DEF Cons
  <2> QED
    BY <2>1, <2>2, DecodingLonger
<1> HIDE DEF G
<1>3. Seq(S) \subseteq G
  BY <1>1, <1>2, ConsInd
<1> QED
  BY <1>3 DEF G

LEMMA urldecodeIs ==
  ASSUME NEW S, NEW text \in Seq(S)
  PROVE  \E f : Decoding(f, text) /\ urldecode(text) = Before(f[1], NUL)
<1> DEFINE f == CHOOSE f : Decoding(f, text)
<1>1. Decoding(f, text)
  BY DecodingExists
<1>2. urldecode(text) = Before(f[1], NUL)
  BY DEF urldecode, Decoding, DecodedAt, CodeAt
<1> HIDE DEF f
<1> QED
  BY <1>1, <1>2

\* What is decoded is what is in the text, and what its escapes stand for.
Decodable(text, S) ==
  \A i \in 1..Len(text) : text[i] \in S /\ (Escaped(text, i) => CodeAt(text, i) \in S)

LEMMA HexType ==
  ASSUME NEW c \in Int
  PROVE  /\ HexValue(c) \in Int
         /\ isxdigit(c) => HexValue(c) \in 0..15
  BY DEF HexValue, isxdigit, Digits

LEMMA CodeType ==
  ASSUME NEW text \in Seq(Int), NEW i \in Nat \ {0}, i + 2 <= Len(text)
  PROVE  /\ CodeAt(text, i) \in Int
         /\ Escaped(text, i) => CodeAt(text, i) \in 0..255
<1>1. text[i + 1] \in Int /\ text[i + 2] \in Int
  OBVIOUS
<1> DEFINE a == HexValue(text[i + 1])
           b == HexValue(text[i + 2])
<1>2. a \in Int /\ b \in Int /\ CodeAt(text, i) = a * 16 + b
  BY <1>1, HexType DEF CodeAt
<1>3. Escaped(text, i) => a \in 0..15 /\ b \in 0..15
  BY <1>1, HexType DEF Escaped
<1> HIDE DEF a, b
<1> QED
  BY <1>2, <1>3

LEMMA DecodedType ==
  ASSUME NEW T, NEW text \in Seq(T), NEW S, Decodable(text, S), NEW f, Decoding(f, text)
  PROVE  f[1] \in Seq(S)
<1> DEFINE n == Len(text)
           G == {i \in 1..(n + 1) : f[i] \in Seq(S)}
<1>1. \A i \in 1..(n + 1) : f[i] = DecodedAt(f, text, i)
  BY DEF Decoding
<1>2. n \in Nat
  OBVIOUS
<1> HIDE DEF n
<1>3. n + 1 \in G
  <2>1. f[n + 1] = <<>>
    <3>1. n + 1 \in 1..(n + 1) /\ n + 1 > Len(text)
      BY <1>2 DEF n
    <3> QED
      BY <3>1, <1>1 DEF DecodedAt
  <2>2. <<>> \in Seq(S)
    OBVIOUS
  <2>3. f[n + 1] \in Seq(S)
    BY <2>1, <2>2
  <2>4. n + 1 \in 1..(n + 1)
    BY <1>2
  <2> QED
    BY <2>3, <2>4
<1>4. ASSUME NEW i \in 1..n, \A j \in (i + 1)..(n + 1) : j \in G PROVE i \in G
  <2>1. ~ (i > Len(text)) /\ i \in 1..(n + 1)
    BY <1>2 DEF n
  <2>2. text[i] \in S /\ (Escaped(text, i) => CodeAt(text, i) \in S)
    BY DEF Decodable, n
  <2>3. f[i + 1] \in Seq(S)
    BY <1>4, <1>2
  <2>4. Escaped(text, i) => f[i + 3] \in Seq(S)
    <3>1. Escaped(text, i) => i + 3 \in (i + 1)..(n + 1)
      BY <1>2 DEF Escaped, n
    <3> QED
      BY <3>1, <1>4
  <2>5. f[i] = DecodedAt(f, text, i)
    BY <1>1, <2>1
  <2>6. CASE Escaped(text, i)
    <3> DEFINE c == CodeAt(text, i)
               t == f[i + 3]
    <3>1. f[i] = <<c>> \o t /\ c \in S /\ t \in Seq(S)
      BY <2>1, <2>2, <2>4, <2>5, <2>6 DEF DecodedAt
    <3> HIDE DEF c, t
    <3>2. <<c>> \o t \in Seq(S)
      BY <3>1
    <3> QED
      BY <3>1, <3>2, <2>1
  <2>7. CASE ~Escaped(text, i)
    <3> DEFINE c == text[i]
               t == f[i + 1]
    <3>1. f[i] = <<c>> \o t /\ c \in S /\ t \in Seq(S)
      BY <2>1, <2>2, <2>3, <2>5, <2>7 DEF DecodedAt
    <3> HIDE DEF c, t
    <3>2. <<c>> \o t \in Seq(S)
      BY <3>1
    <3> QED
      BY <3>1, <3>2, <2>1
  <2> QED
    BY <2>6, <2>7
<1>5. \A i \in 1..(n + 1) : i \in G
  <2> HIDE DEF G
  <2> QED
    BY <1>2, <1>3, <1>4, DownInd
<1> QED
  BY <1>5, <1>2

LEMMA DecodedAppend ==
  ASSUME NEW text \in Seq(Byte), NEW f, Decoding(f, text),
         NEW g, Decoding(g, Append(text, Slash))
  PROVE  g[1] = Append(f[1], Slash)
<1> DEFINE n == Len(text)
           more == Append(text, Slash)
           G == {i \in 1..(n + 1) : f[i] \in Seq(Int) /\ g[i] = Append(f[i], Slash)}
<1>1. /\ n \in Nat /\ Len(more) = n + 1 /\ more[n + 1] = Slash
      /\ text \in Seq(Int)
      /\ \A i \in 1..n : more[i] = text[i] /\ text[i] \in Int
  <2>1. Byte \subseteq Int /\ Slash \in Int
    BY DEF Byte, Slash
  <2>2. text \in Seq(Int)
    BY <2>1, SeqMonotonic
  <2> QED
    BY <2>1, <2>2
<1>2. /\ \A i \in 1..(n + 1) : f[i] = DecodedAt(f, text, i)
      /\ \A i \in 1..(n + 1) : g[i] = DecodedAt(g, more, i)
      /\ g[n + 2] = <<>>
  <2>1. \A i \in 1..(n + 1) : f[i] = DecodedAt(f, text, i)
    BY DEF Decoding
  <2>2. \A i \in 1..(n + 2) : g[i] = DecodedAt(g, more, i)
    <3> HIDE DEF n, more
    <3>1. Decoding(g, more) /\ Len(more) + 1 = n + 2
      BY <1>1 DEF more
    <3> QED
      BY <3>1 DEF Decoding
  <2>3. n + 2 \in 1..(n + 2) /\ n + 2 > Len(more) /\ \A i \in 1..(n + 1) : i \in 1..(n + 2)
    BY <1>1
  <2>4. g[n + 2] = <<>>
    BY <2>2, <2>3 DEF DecodedAt
  <2> HIDE DEF n, more
  <2> QED
    BY <2>1, <2>2, <2>3, <2>4
<1> HIDE DEF n, more
<1>3. n + 1 \in G
  <2>1. f[n + 1] = <<>>
    <3>1. n + 1 \in 1..(n + 1) /\ n + 1 > Len(text)
      BY <1>1 DEF n
    <3> QED
      BY <3>1, <1>2 DEF DecodedAt
  <2>2. ~Escaped(more, n + 1)
    BY <1>1 DEF Escaped
  <2>3. ~ (n + 1 > Len(more)) /\ n + 1 \in 1..(n + 1) /\ (n + 1) + 1 = n + 2
    BY <1>1
  <2>4. g[n + 1] = <<Slash>> \o <<>>
    BY <1>2, <1>1, <2>2, <2>3 DEF DecodedAt
  <2>5. <<>> \in Seq(Int) /\ <<Slash>> \o <<>> = Append(<<>>, Slash)
    OBVIOUS
  <2> QED
    BY <2>1, <2>3, <2>4, <2>5
<1>4. ASSUME NEW i \in 1..n, \A j \in (i + 1)..(n + 1) : j \in G PROVE i \in G
  <2>1. ~ (i > Len(text)) /\ ~ (i > Len(more)) /\ i \in 1..(n + 1)
    BY <1>1 DEF n
  <2>2. more[i] = text[i] /\ text[i] \in Int
    BY <1>1
  <2>3. Escaped(more, i) <=> Escaped(text, i)
    <3>1. CASE i + 2 <= n
      <4>1. more[i + 1] = text[i + 1] /\ more[i + 2] = text[i + 2]
        BY <3>1, <1>1
      <4> QED
        BY <4>1, <3>1, <2>2, <1>1 DEF Escaped, n
    <3>2. CASE ~ (i + 2 <= n)
      <4>1. ~Escaped(text, i)
        BY <3>2 DEF Escaped, n
      <4>2. ~isxdigit(Slash)
        BY DEF isxdigit, Digits, Slash
      <4>3. ASSUME Escaped(more, i) PROVE FALSE
        <5>1. i + 2 = n + 1
          BY <4>3, <3>2, <1>1 DEF Escaped
        <5> QED
          BY <4>2, <4>3, <5>1, <1>1 DEF Escaped
      <4> QED
        BY <4>1, <4>3
    <3> QED
      BY <3>1, <3>2
  <2>4. f[i + 1] \in Seq(Int) /\ g[i + 1] = Append(f[i + 1], Slash)
    BY <1>4, <1>1
  <2>5. f[i] = DecodedAt(f, text, i) /\ g[i] = DecodedAt(g, more, i)
    BY <1>2, <2>1
  <2>6. CASE Escaped(text, i)
    <3> DEFINE c == CodeAt(text, i)
               t == f[i + 3]
    <3>1. i + 3 \in (i + 1)..(n + 1) /\ i + 2 <= n
      BY <2>6, <1>1 DEF Escaped, n
    <3>2. CodeAt(more, i) = c
      BY <3>1, <1>1 DEF CodeAt
    <3>3. c \in Int
      BY <3>1, <1>1, CodeType DEF n
    <3>4. t \in Seq(Int) /\ g[i + 3] = Append(t, Slash)
      BY <3>1, <1>4
    <3>5. f[i] = <<c>> \o t /\ g[i] = <<c>> \o Append(t, Slash)
      BY <2>1, <2>3, <2>5, <2>6, <3>2, <3>4 DEF DecodedAt
    <3> HIDE DEF c, t
    <3>6. <<c>> \o t \in Seq(Int) /\ <<c>> \o Append(t, Slash) = Append(<<c>> \o t, Slash)
      BY <3>3, <3>4 DEF Slash
    <3> QED
      BY <3>5, <3>6, <2>1
  <2>7. CASE ~Escaped(text, i)
    <3> DEFINE c == text[i]
               t == f[i + 1]
    <3>1. f[i] = <<c>> \o t /\ g[i] = <<c>> \o Append(t, Slash)
      BY <2>1, <2>2, <2>3, <2>4, <2>5, <2>7 DEF DecodedAt
    <3>2. c \in Int /\ t \in Seq(Int)
      BY <2>2, <2>4
    <3> HIDE DEF c, t
    <3>3. <<c>> \o t \in Seq(Int) /\ <<c>> \o Append(t, Slash) = Append(<<c>> \o t, Slash)
      BY <3>2 DEF Slash
    <3> QED
      BY <3>1, <3>3, <2>1
  <2> QED
    BY <2>6, <2>7
<1>5. \A i \in 1..(n + 1) : i \in G
  <2> HIDE DEF G
  <2> QED
    BY <1>1, <1>3, <1>4, DownInd
<1> QED
  BY <1>5, <1>1

LEMMA BytesAreInts == Byte \subseteq Int /\ Byte \subseteq 0..255 /\ (0..255) \ {NUL} = Byte
  BY DEF Byte, NUL

LEMMA urldecodeType ==
  ASSUME NEW text \in Seq(Byte)
  PROVE  urldecode(text) \in Seq(Byte)
<1>1. PICK f : Decoding(f, text) /\ urldecode(text) = Before(f[1], NUL)
  BY urldecodeIs
<1>2. text \in Seq(Int)
  BY BytesAreInts, SeqMonotonic
<1>3. Decodable(text, 0..255)
  <2> SUFFICES ASSUME NEW i \in 1..Len(text)
               PROVE  text[i] \in 0..255 /\ (Escaped(text, i) => CodeAt(text, i) \in 0..255)
    BY DEF Decodable
  <2>1. text[i] \in 0..255
    <3>1. text[i] \in Byte
      OBVIOUS
    <3> QED
      BY <3>1, BytesAreInts
  <2>2. Escaped(text, i) => i + 2 <= Len(text)
    BY DEF Escaped
  <2>3. i \in Nat \ {0}
    OBVIOUS
  <2> QED
    BY <1>2, <2>1, <2>2, <2>3, CodeType
<1> DEFINE d == f[1]
           S == 0..255
<1>4. d \in Seq(S)
  BY <1>1, <1>3, DecodedType
<1> HIDE DEF d, S
<1>5. Before(d, NUL) \in Seq(S \ {NUL})
  BY <1>4, BeforeType
<1>6. S \ {NUL} = Byte
  BY BytesAreInts DEF S
<1> QED
  BY <1>1, <1>5, <1>6 DEF d

LEMMA urldecodeAddSlash ==
  ASSUME NEW text \in Seq(Byte), Decodable(text, Byte)
  PROVE  urldecode(Append(text, Slash)) = Append(urldecode(text), Slash)
<1> DEFINE more == Append(text, Slash)
<1>1. more \in Seq(Byte) /\ Slash \in Byte /\ Byte \ {NUL} = Byte
  <2>1. Slash \in Byte
    BY DEF Byte, Slash
  <2>2. more \in Seq(Byte)
    BY <2>1
  <2>3. Byte \ {NUL} = Byte
    BY BytesAreInts
  <2> QED
    BY <2>1, <2>2, <2>3
<1>2. PICK f : Decoding(f, text) /\ urldecode(text) = Before(f[1], NUL)
  BY urldecodeIs
<1>3. PICK g : Decoding(g, more) /\ urldecode(more) = Before(g[1], NUL)
  <2> HIDE DEF more
  <2> QED
    BY <1>1, urldecodeIs
<1>4. g[1] = Append(f[1], Slash)
  BY <1>2, <1>3, DecodedAppend
<1>5. f[1] \in Seq(Byte)
  BY <1>2, DecodedType
<1> DEFINE d == f[1]
           e == g[1]
<1>6. d \in Seq(Byte) /\ e \in Seq(Byte)
  BY <1>1, <1>4, <1>5
<1> HIDE DEF d, e, more
<1>7. Before(d, NUL) = d /\ Before(e, NUL) = e
  BY <1>1, <1>6, BeforeType
<1> QED
  BY <1>2, <1>3, <1>4, <1>7 DEF d, e, more

\* normalize_path.
LEMMA TailOfAppend ==
  ASSUME NEW S, NEW text \in Seq(S), NEW c \in S, NEW k \in 1..(Len(text) + 1)
  PROVE  /\ SubSeq(Append(text, c), k, Len(text) + 1) = Append(SubSeq(text, k, Len(text)), c)
         /\ SubSeq(text, k, Len(text)) \in Seq(S)
         /\ Len(SubSeq(text, k, Len(text))) = Len(text) + 1 - k
         /\ k <= Len(text) => Head(SubSeq(text, k, Len(text))) = text[k]
<1>1. /\ SubSeq(text, k, Len(text)) \in Seq(S)
      /\ Len(SubSeq(text, k, Len(text))) = Len(text) + 1 - k
      /\ \A i \in 1..(Len(text) + 1 - k) : SubSeq(text, k, Len(text))[i] = text[k + i - 1]
  OBVIOUS
<1> DEFINE more == Append(text, c)
<1>2. /\ more \in Seq(S) /\ Len(more) = Len(text) + 1
      /\ \A i \in 1..Len(text) : more[i] = text[i]
      /\ more[Len(text) + 1] = c
  OBVIOUS
<1> DEFINE a == SubSeq(more, k, Len(text) + 1)
           b == Append(SubSeq(text, k, Len(text)), c)
           m == Len(text) + 2 - k
<1>3. /\ a \in Seq(S) /\ Len(a) = m
      /\ \A i \in 1..m : a[i] = more[k + i - 1]
  <2> HIDE DEF more
  <2> QED
    BY <1>2
<1>4. /\ b \in Seq(S) /\ Len(b) = m
      /\ \A i \in 1..(m - 1) : b[i] = text[k + i - 1]
      /\ b[m] = c
  BY <1>1
<1>5. \A i \in 1..m : more[k + i - 1] = IF i = m THEN c ELSE text[k + i - 1]
  BY <1>2
<1> HIDE DEF a, b
<1>6. a = b
  BY <1>3, <1>4, <1>5
<1>7. k <= Len(text) => Head(SubSeq(text, k, Len(text))) = text[k]
  <2> SUFFICES ASSUME k <= Len(text) PROVE Head(SubSeq(text, k, Len(text))) = text[k]
    OBVIOUS
  <2>1. 1 \in 1..(Len(text) + 1 - k) /\ k + 1 - 1 = k
    OBVIOUS
  <2> QED
    BY <1>1, <2>1
<1> QED
  BY <1>1, <1>6, <1>7 DEF a, b

LEMMA FromSlashIs ==
  ASSUME NEW text \in Seq(Byte)
  PROVE  /\ FromSlash(text) \in Seq(Byte)
         /\ FromSlash(text) # <<>> => Head(FromSlash(text)) = Slash
         /\ FromSlash(Append(text, Slash)) = Append(FromSlash(text), Slash)
<1>1. PICK n \in 0..Len(text) :
        /\ FreeTo(text, Slash, n) /\ (n = Len(text) \/ text[n + 1] = Slash)
        /\ Before(text, Slash) = SubSeq(text, 1, n)
  BY BeforeExists
<1> DEFINE more == Append(text, Slash)
<1>2. /\ Slash \in Byte /\ more \in Seq(Byte) /\ Len(more) = Len(text) + 1
      /\ n \in 0..Len(more) /\ n + 1 \in 1..(Len(text) + 1)
      /\ \A i \in 1..Len(text) : more[i] = text[i]
      /\ more[Len(text) + 1] = Slash
  BY DEF Byte, Slash
<1>3. Len(SubSeq(text, 1, n)) = n /\ Len(SubSeq(more, 1, n)) = n
  BY <1>2
<1>4. Before(more, Slash) = SubSeq(more, 1, n)
  <2>1. FreeTo(more, Slash, n) /\ more[n + 1] = Slash
    BY <1>1, <1>2 DEF FreeTo
  <2> HIDE DEF more
  <2> QED
    BY <1>2, <2>1, BeforeIs
<1>5. /\ FromSlash(text) = SubSeq(text, n + 1, Len(text))
      /\ FromSlash(more) = SubSeq(more, n + 1, Len(text) + 1)
  BY <1>1, <1>2, <1>3, <1>4 DEF FromSlash
<1> DEFINE k == n + 1
<1>6. /\ SubSeq(more, k, Len(text) + 1) = Append(SubSeq(text, k, Len(text)), Slash)
      /\ SubSeq(text, k, Len(text)) \in Seq(Byte)
      /\ Len(SubSeq(text, k, Len(text))) = Len(text) + 1 - k
      /\ k <= Len(text) => Head(SubSeq(text, k, Len(text))) = text[k]
  <2>1. k \in 1..(Len(text) + 1)
    BY <1>2
  <2> HIDE DEF k
  <2> QED
    BY <1>2, <2>1, TailOfAppend
<1> DEFINE rest == SubSeq(text, k, Len(text))
<1>7. rest # <<>> => Head(rest) = Slash
  <2> SUFFICES ASSUME rest # <<>> PROVE Head(rest) = Slash
    OBVIOUS
  <2>1. n < Len(text)
    BY <1>6
  <2> QED
    BY <2>1, <1>1, <1>6
<1>8. /\ FromSlash(text) = rest /\ rest \in Seq(Byte)
      /\ FromSlash(Append(text, Slash)) = Append(rest, Slash)
  BY <1>5, <1>6
<1> HIDE DEF rest
<1> QED
  BY <1>7, <1>8

LEMMA PrefixIs ==
  ASSUME NEW S, NEW s \in Seq(S), NEW t \in Seq(S)
  PROVE  IsPrefix(s, t) <=> Len(s) <= Len(t) /\ \A i \in 1..Len(s) : s[i] = t[i]
<1>1. Len(s) <= Len(t) =>
        /\ SubSeq(s, 1, Len(s)) = s
        /\ SubSeq(t, 1, Len(s)) \in Seq(S) /\ Len(SubSeq(t, 1, Len(s))) = Len(s)
        /\ \A i \in 1..Len(s) : SubSeq(t, 1, Len(s))[i] = t[i]
  OBVIOUS
<1> DEFINE u == SubSeq(t, 1, Len(s))
<1>2. IsPrefix(s, t) <=> Len(s) <= Len(t) /\ s = u
  BY <1>1 DEF IsPrefix
<1> HIDE DEF u
<1>3. Len(s) <= Len(t) => (s = u <=> \A i \in 1..Len(s) : s[i] = t[i])
  BY <1>1 DEF u
<1> QED
  BY <1>2, <1>3

LEMMA normalize_pathIs ==
  ASSUME NEW text \in Seq(Byte)
  PROVE  /\ normalize_path(text) \in Seq(Byte)
         /\ normalize_path(text) # <<>> /\ Head(normalize_path(text)) = Slash =>
              normalize_path(Append(text, Slash)) = Append(normalize_path(text), Slash)
<1> DEFINE more == Append(text, Slash)
<1>1. /\ Slash \in Byte /\ more \in Seq(Byte) /\ Len(more) = Len(text) + 1
      /\ \A i \in 1..Len(text) : more[i] = text[i]
  BY DEF Byte, Slash
<1>2. ASSUME NEW scheme \in Seq(Byte), scheme # <<>>, IsPrefix(scheme, text)
      PROVE  /\ IsPrefix(scheme, more)
             /\ FromSlash(SubSeq(text, Len(scheme) + 1, Len(text))) \in Seq(Byte)
             /\ FromSlash(SubSeq(more, Len(scheme) + 1, Len(more))) =
                  Append(FromSlash(SubSeq(text, Len(scheme) + 1, Len(text))), Slash)
  <2>1. Len(scheme) <= Len(text) /\ \A i \in 1..Len(scheme) : scheme[i] = text[i]
    BY <1>2, PrefixIs
  <2>2. IsPrefix(scheme, more)
    <3>1. Len(scheme) <= Len(more) /\ \A i \in 1..Len(scheme) : scheme[i] = more[i]
      BY <2>1, <1>1
    <3> HIDE DEF more
    <3> QED
      BY <1>1, <3>1, PrefixIs
  <2> DEFINE k == Len(scheme) + 1
             rest == SubSeq(text, k, Len(text))
  <2>3. /\ rest \in Seq(Byte)
        /\ SubSeq(more, k, Len(more)) = Append(rest, Slash)
    <3>1. k \in 1..(Len(text) + 1)
      BY <2>1
    <3> HIDE DEF k
    <3> QED
      BY <1>1, <3>1, TailOfAppend
  <2> HIDE DEF rest
  <2> QED
    BY <2>2, <2>3, FromSlashIs DEF rest
<1>3. /\ Http \in Seq(Byte) /\ Http # <<>> /\ Http[1] = 104 /\ Len(Http) = 7
      /\ Https \in Seq(Byte) /\ Https # <<>> /\ Https[1] = 104 /\ Len(Https) = 8
  BY DEF Http, Https, Byte
<1>4. ASSUME NEW scheme \in Seq(Byte), NEW t \in Seq(Byte), IsPrefix(scheme, t)
      PROVE  Len(scheme) <= Len(t) /\ \A i \in 1..Len(scheme) : scheme[i] = t[i]
  BY <1>4, PrefixIs
<1>5. CASE IsPrefix(Http, text)
  BY <1>2, <1>3, <1>5 DEF normalize_path
<1>6. CASE ~IsPrefix(Http, text) /\ IsPrefix(Https, text)
  <2>1. ~IsPrefix(Http, more)
    <3>1. /\ 8 <= Len(text) /\ \A i \in 1..8 : Https[i] = text[i]
      <4>1. /\ Len(Https) <= Len(text) /\ \A i \in 1..Len(Https) : Https[i] = text[i]
        <5>1. Https \in Seq(Byte) /\ text \in Seq(Byte) /\ IsPrefix(Https, text)
          BY <1>3, <1>6
        <5> QED
          BY <5>1, <1>4, Zenon
      <4> QED
        BY <4>1, <1>3
    <3>2. more[5] = Https[5] /\ Https[5] # Http[5]
      BY <1>1, <3>1 DEF Http, Https
    <3> HIDE DEF more
    <3>3. ASSUME IsPrefix(Http, more) PROVE FALSE
      <4>1. \A i \in 1..Len(Http) : Http[i] = more[i]
        <5>1. Http \in Seq(Byte) /\ more \in Seq(Byte) /\ IsPrefix(Http, more)
          BY <1>1, <1>3, <3>3
        <5> QED
          BY <5>1, <1>4, Zenon
      <4>2. 5 \in 1..Len(Http)
        BY <1>3
      <4> QED
        BY <3>2, <4>1, <4>2
    <3> QED
      BY <3>3
  <2> QED
    BY <1>2, <1>3, <1>6, <2>1 DEF normalize_path
<1>7. CASE ~IsPrefix(Http, text) /\ ~IsPrefix(Https, text)
  <2>1. normalize_path(text) = text
    BY <1>7 DEF normalize_path
  <2>2. ASSUME text # <<>>, Head(text) = Slash PROVE normalize_path(more) = more
    <3>1. more[1] # 104
      BY <2>2, <1>1 DEF Slash
    <3>2. ASSUME NEW scheme \in Seq(Byte), scheme # <<>>, scheme[1] = 104,
                 IsPrefix(scheme, more)
          PROVE  FALSE
      <4> HIDE DEF more
      <4>1. \A i \in 1..Len(scheme) : scheme[i] = more[i]
        BY <1>1, <3>2, PrefixIs
      <4>2. 1 \in 1..Len(scheme)
        BY <3>2
      <4> QED
        BY <3>1, <3>2, <4>1, <4>2
    <3> QED
      BY <1>3, <3>2 DEF normalize_path
  <2> QED
    BY <2>1, <2>2
<1> QED
  BY <1>5, <1>6, <1>7

LEMMA PreparedIs ==
  ASSUME NEW text \in Seq(Byte)
  PROVE  /\ Prepared(text) \in Seq(Byte)
         /\ Decodable(text, Byte) /\ Prepared(text) # <<>> /\ Head(Prepared(text)) = Slash =>
              Prepared(Append(text, Slash)) = Append(Prepared(text), Slash)
<1> DEFINE d == urldecode(text)
<1>1. d \in Seq(Byte)
  BY urldecodeType
<1>2. Decodable(text, Byte) => urldecode(Append(text, Slash)) = Append(d, Slash)
  BY urldecodeAddSlash
<1>3. Prepared(text) = normalize_path(d)
  BY DEF Prepared
<1> HIDE DEF d
<1> QED
  BY <1>1, <1>2, <1>3, normalize_pathIs DEF Prepared

\* Hidden of RequestPath, and the names it looks for.
SlashDot(text) == \E i \in 1..(Len(text) - 1) : text[i] = Slash /\ text[i + 1] = Dot

DottedFrom(text) ==
  \A k \in 1..Len(Components(text)) :
    Components(text)[k][1] = Dot => k = 1 /\ text # <<>> /\ Head(text) = Dot

LEMMA NamesWithDots ==
  ASSUME NEW text \in Seq(Byte), ~SlashDot(text)
  PROVE  DottedFrom(text)
<1> DEFINE G == {t \in Seq(Byte) : ~SlashDot(t) => DottedFrom(t)}
<1>1. <<>> \in G
  <2>1. <<>> \in Seq(Byte)
    OBVIOUS
  <2> QED
    BY <2>1, ComponentsEmpty DEF DottedFrom
<1>2. ASSUME NEW t \in Seq(Byte), NEW c \in Byte, t \in G PROVE Cons(c, t) \in G
  <2> DEFINE text2 == Cons(c, t)
  <2>1. /\ text2 \in Seq(Byte) /\ text2 # <<>> /\ Head(text2) = c
        /\ Len(text2) = Len(t) + 1 /\ text2[1] = c
        /\ \A i \in 1..Len(t) : text2[i + 1] = t[i]
    BY DEF Cons
  <2> SUFFICES ASSUME ~SlashDot(text2) PROVE DottedFrom(text2)
    BY <2>1
  <2> HIDE DEF text2
  <2>2. ~SlashDot(t)
    <3> SUFFICES ASSUME NEW i \in 1..(Len(t) - 1), t[i] = Slash, t[i + 1] = Dot PROVE FALSE
      BY DEF SlashDot
    <3>1. /\ i + 1 \in 1..(Len(text2) - 1)
          /\ text2[i + 1] = Slash /\ text2[(i + 1) + 1] = Dot
      BY <2>1
    <3> QED
      BY <3>1 DEF SlashDot
  <2>3. DottedFrom(t)
    BY <1>2, <2>2
  <2>4. c = Slash /\ t # <<>> => Head(t) # Dot
    <3> SUFFICES ASSUME c = Slash, t # <<>>, Head(t) = Dot PROVE FALSE
      OBVIOUS
    <3>1. 1 \in 1..(Len(text2) - 1) /\ text2[1] = Slash /\ text2[1 + 1] = Dot
      BY <2>1
    <3> QED
      BY <3>1 DEF SlashDot
  <2> DEFINE parts == Components(t)
             ends == t = <<>> \/ Head(t) \in {Slash}
  <2>5. Components(text2) = WithFirst(c, {Slash}, ends, parts)
    BY SplitCons DEF Components, text2
  <2>6. /\ parts \in Seq(Name)
        /\ ~ends => parts # <<>>
    BY SplitType, ComponentsType DEF Components
  <2>7. \A k \in 1..Len(parts) : parts[k][1] = Dot => k = 1 /\ t # <<>> /\ Head(t) = Dot
    BY <2>3 DEF DottedFrom
  <2>8. Dot # Slash
    BY DEF Dot, Slash
  <2> SUFFICES ASSUME NEW k \in 1..Len(Components(text2)), Components(text2)[k][1] = Dot
               PROVE  k = 1 /\ c = Dot
    BY <2>1 DEF DottedFrom
  <2> HIDE DEF parts
  <2>9. CASE c = Slash
    <3>1. Components(text2) = parts
      BY <2>5, <2>9 DEF WithFirst
    <3> QED
      BY <2>4, <2>7, <2>9, <3>1
  <2>10. CASE c # Slash /\ ends
    <3>1. Components(text2) = <<<<c>>>> \o parts
      BY <2>5, <2>10 DEF WithFirst
    <3>2. CASE k = 1
      <4>1. (<<<<c>>>> \o parts)[1] = <<c>>
        BY <2>6
      <4> QED
        BY <3>1, <3>2, <4>1
    <3>3. CASE k # 1
      <4>1. k - 1 \in 1..Len(parts) /\ (<<<<c>>>> \o parts)[k] = parts[k - 1]
        BY <2>6, <3>1, <3>3
      <4> QED
        BY <2>7, <2>8, <2>10, <3>1, <4>1
    <3> QED
      BY <3>2, <3>3
  <2>11. CASE c # Slash /\ ~ends
    <3> DEFINE first == <<c>> \o Head(parts)
    <3>1. Components(text2) = <<first>> \o Tail(parts)
      BY <2>5, <2>11 DEF WithFirst
    <3>2. first[1] = c
      <4>1. Head(parts) \in Name
        BY <2>6, <2>11
      <4>2. Head(parts) \in Seq(Byte)
        BY <4>1, NameIsText
      <4> HIDE DEF ends
      <4> QED
        BY <4>2
    <3> HIDE DEF first
    <3>3. Tail(parts) \in Seq(Name) /\ parts # <<>>
      BY <2>6, <2>11
    <3>4. CASE k = 1
      <4>1. (<<first>> \o Tail(parts))[1] = first
        BY <3>3
      <4> QED
        BY <3>1, <3>2, <3>4, <4>1
    <3>5. CASE k # 1
      <4>1. k \in 1..Len(parts) /\ (<<first>> \o Tail(parts))[k] = parts[k]
        BY <2>6, <3>1, <3>3, <3>5
      <4> QED
        BY <2>7, <3>1, <3>5, <4>1
    <3> QED
      BY <3>4, <3>5
  <2> QED
    BY <2>9, <2>10, <2>11
<1>3. Seq(Byte) \subseteq G
  <2> HIDE DEF G
  <2> QED
    BY <1>1, <1>2, ConsInd
<1> QED
  BY <1>3

-----------------------------------------------------------------------------
(***************************************************************************)
(* Texts put together: each member has a piece, and the whole is theirs.   *)
(***************************************************************************)
Encoded(piece, text) == FlattenSeq([i \in DOMAIN text |-> piece[text[i]]])

PiecesIn(piece, S, T) == \A c \in S : piece[c] \in Seq(T)

LEMMA EncodedIs ==
  ASSUME NEW S, NEW T, NEW piece, PiecesIn(piece, S, T)
  PROVE  /\ Encoded(piece, <<>>) = <<>>
         /\ \A text \in Seq(S) :
              /\ Encoded(piece, text) \in Seq(T)
              /\ \A c \in S :
                   Encoded(piece, Append(text, c)) = Encoded(piece, text) \o piece[c]
<1> DEFINE Pieces(text) == [i \in DOMAIN text |-> piece[text[i]]]
<1>1. Encoded(piece, <<>>) = <<>>
  <2>1. Pieces(<<>>) = <<>>
    OBVIOUS
  <2> QED
    BY <2>1, FlattenEmpty DEF Encoded
<1>2. ASSUME NEW text \in Seq(S)
      PROVE  /\ Pieces(text) \in Seq(Seq(T))
             /\ \A c \in S : Pieces(Append(text, c)) = Append(Pieces(text), piece[c])
  <2>1. \A i \in 1..Len(text) : piece[text[i]] \in Seq(T)
    BY DEF PiecesIn
  <2>2. Len(text) \in Nat /\ DOMAIN text = 1..Len(text)
    OBVIOUS
  <2>3. Pieces(text) \in Seq(Seq(T))
    BY <2>1, <2>2
  <2>4. ASSUME NEW c \in S PROVE Pieces(Append(text, c)) = Append(Pieces(text), piece[c])
    OBVIOUS
  <2> QED
    BY <2>3, <2>4
<1>3. ASSUME NEW text \in Seq(S)
      PROVE  /\ Encoded(piece, text) \in Seq(T)
             /\ \A c \in S :
                  Encoded(piece, Append(text, c)) = Encoded(piece, text) \o piece[c]
  <2>1. /\ Pieces(text) \in Seq(Seq(T))
        /\ \A c \in S : Pieces(Append(text, c)) = Append(Pieces(text), piece[c])
    BY <1>2
  <2>2. \A u : Encoded(piece, u) = FlattenSeq(Pieces(u))
    BY DEF Encoded
  <2>3. \A c \in S : piece[c] \in Seq(T)
    BY DEF PiecesIn
  <2> DEFINE pieces == Pieces(text)
  <2> HIDE DEF Pieces
  <2>4. FlattenSeq(pieces) \in Seq(T)
    BY <2>1, FlattenType
  <2>5. ASSUME NEW c \in S
        PROVE  Encoded(piece, Append(text, c)) = Encoded(piece, text) \o piece[c]
    <3> DEFINE p == piece[c]
    <3>1. Pieces(Append(text, c)) = Append(pieces, p) /\ p \in Seq(T) /\ pieces \in Seq(Seq(T))
      BY <2>1, <2>3
    <3> HIDE DEF p, pieces
    <3>2. FlattenSeq(Append(pieces, p)) = FlattenSeq(pieces) \o p
      BY <3>1, FlattenAppend
    <3> QED
      BY <2>2, <3>1, <3>2 DEF p, pieces
  <2> QED
    BY <2>2, <2>4, <2>5
<1> QED
  BY <1>1, <1>3

LEMMA EncodedConcat ==
  ASSUME NEW S, NEW T, NEW piece, PiecesIn(piece, S, T), NEW a \in Seq(S), NEW b \in Seq(S)
  PROVE  Encoded(piece, a \o b) = Encoded(piece, a) \o Encoded(piece, b)
<1> DEFINE e(t) == Encoded(piece, t)
           G == {t \in Seq(S) : e(a \o t) = e(a) \o e(t)}
<1>1. /\ e(<<>>) = <<>> /\ \A t \in Seq(S) : e(t) \in Seq(T)
      /\ \A t \in Seq(S) : \A c \in S : e(Append(t, c)) = e(t) \o piece[c]
      /\ \A c \in S : piece[c] \in Seq(T)
  BY EncodedIs DEF PiecesIn
<1> HIDE DEF e
<1>2. <<>> \in G
  <2>1. e(a) \o <<>> = e(a) /\ a \o <<>> = a
    BY <1>1
  <2> QED
    BY <1>1, <2>1
<1>3. ASSUME NEW t \in Seq(S), NEW c \in S, t \in G PROVE Append(t, c) \in G
  <2>1. Append(t, c) \in Seq(S) /\ a \o t \in Seq(S) /\ a \o Append(t, c) = Append(a \o t, c)
    OBVIOUS
  <2>2. e(a \o Append(t, c)) = (e(a) \o e(t)) \o piece[c]
    BY <1>1, <1>3, <2>1
  <2>3. e(a) \in Seq(T) /\ e(t) \in Seq(T) /\ piece[c] \in Seq(T)
    BY <1>1
  <2>4. (e(a) \o e(t)) \o piece[c] = e(a) \o (e(t) \o piece[c])
    <3> DEFINE u == e(a)
               v == e(t)
               w == piece[c]
    <3>1. u \in Seq(T) /\ v \in Seq(T) /\ w \in Seq(T)
      BY <2>3
    <3> HIDE DEF u, v, w
    <3>2. (u \o v) \o w = u \o (v \o w)
      BY <3>1, ConcatAssociative
    <3> QED
      BY <3>2 DEF u, v, w
  <2> QED
    BY <1>1, <2>1, <2>2, <2>4
<1> HIDE DEF G
<1>4. Seq(S) \subseteq G
  BY <1>2, <1>3, AppendInd
<1> QED
  BY <1>4 DEF G, e

=============================================================================
