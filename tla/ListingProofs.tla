----------------------------- MODULE ListingProofs -----------------------------
(***************************************************************************)
(* The page for a directory, for every directory and every way it changes  *)
(* while it is read, every name and every size of the buffers.             *)
(***************************************************************************)
EXTENDS Listing, TextLemmas

-----------------------------------------------------------------------------
(***************************************************************************)
(* What is listed.                                                         *)
(***************************************************************************)
Entry == [name : Names, is_dir : BOOLEAN]

Places(name) == {i \in DOMAIN list : list[i].name = name}
Listable(name) == ~StatFails(name) /\ ~Skipped(name)

\* What has been read of the directory is told from what has not.
ListInv ==
  /\ DOMAIN here \subseteq Names /\ steady \subseteq DOMAIN here
  /\ unread \subseteq ever \cup Self /\ ever \subseteq Names
  /\ list \in Seq(Entry)
  /\ pc = "opendir" => list = <<>>
  /\ whole => unread = {} /\ pc \notin {"opendir", "readdir"}
  /\ \A i \in DOMAIN list : list[i].name \in ever /\ ~Skipped(list[i].name)
  /\ \A name \in steady :
       Listable(name) =>
         IF name \in unread THEN Places(name) = {}
         ELSE \E i \in DOMAIN list : Places(name) = {i}

LEMMA ListInvInit == Init => ListInv
<1> SUFFICES ASSUME Init PROVE ListInv
  OBVIOUS
<1>1. DOMAIN here \subseteq Names
  BY ListingAssumption DEF Init
<1>2. <<>> \in Seq(Entry)
  OBVIOUS
<1> QED
  BY <1>1, <1>2 DEF Init, ListInv

\* An entry is added to the list.
LEMMA PlacesGrow ==
  ASSUME NEW entry \in Entry, list \in Seq(Entry), list' = Append(list, entry)
  PROVE  /\ list' \in Seq(Entry) /\ Len(list') = Len(list) + 1
         /\ DOMAIN list' = DOMAIN list \cup {Len(list) + 1}
         /\ Len(list) + 1 \notin DOMAIN list
         /\ \A i \in DOMAIN list : list'[i] = list[i]
         /\ list'[Len(list) + 1] = entry
         /\ \A name : Places(name)' =
              Places(name) \cup IF name = entry.name THEN {Len(list) + 1} ELSE {}
<1>1. /\ list' \in Seq(Entry) /\ Len(list') = Len(list) + 1
      /\ DOMAIN list' = DOMAIN list \cup {Len(list) + 1}
      /\ Len(list) + 1 \notin DOMAIN list
      /\ \A i \in DOMAIN list : list'[i] = list[i]
      /\ list'[Len(list) + 1] = entry
  OBVIOUS
<1>2. ASSUME NEW name
      PROVE  Places(name)' =
               Places(name) \cup IF name = entry.name THEN {Len(list) + 1} ELSE {}
  BY <1>1 DEF Places
<1> QED
  BY <1>1, <1>2

\* The list is put in order.
LEMMA PlacesMove ==
  ASSUME list \in Seq(Entry), NEW order \in Bijection(DOMAIN list, DOMAIN list),
         list' = [i \in DOMAIN list |-> list[order[i]]]
  PROVE  /\ list' \in Seq(Entry) /\ Len(list') = Len(list)
         /\ \A i \in DOMAIN list' : \E j \in DOMAIN list : list'[i] = list[j]
         /\ \A name : (\E i \in DOMAIN list : Places(name) = {i}) =>
                        \E i \in DOMAIN list' : Places(name)' = {i}
<1>1. /\ order \in [DOMAIN list -> DOMAIN list]
      /\ \A i, j \in DOMAIN list : order[i] = order[j] => i = j
      /\ \A j \in DOMAIN list : \E i \in DOMAIN list : order[i] = j
  BY DEF Bijection, Injection, Surjection, IsInjective
<1>2. DOMAIN list = 1..Len(list) /\ Len(list) \in Nat
  OBVIOUS
<1>3. list' \in Seq(Entry) /\ Len(list') = Len(list) /\ DOMAIN list' = DOMAIN list
  <2>1. \A i \in 1..Len(list) : list[order[i]] \in Entry
    BY <1>1, <1>2
  <2> QED
    BY <1>2, <2>1
<1>4. ASSUME NEW name, NEW i \in DOMAIN list, Places(name) = {i}
      PROVE  \E k \in DOMAIN list' : Places(name)' = {k}
  <2>1. PICK k \in DOMAIN list : order[k] = i
    BY <1>1
  <2>2. Places(name)' = {j \in DOMAIN list : list[order[j]].name = name}
    BY <1>3 DEF Places
  <2>3. \A j \in DOMAIN list : list[order[j]].name = name <=> order[j] = i
    BY <1>1, <1>4 DEF Places
  <2> QED
    BY <1>1, <1>3, <2>1, <2>2, <2>3
<1> QED
  BY <1>1, <1>3, <1>4

LEMMA ListInvNext == ListInv /\ [Next]_vars => ListInv'
<1> SUFFICES ASSUME ListInv, [Next]_vars PROVE ListInv'
  OBVIOUS
<1> USE DEF worldVars, listVars, pageVars
<1>1. CASE opendir
  <2>1. UNCHANGED <<here, list, whole>> /\ list = <<>> /\ ~whole /\ pc' # "opendir"
    BY <1>1 DEF opendir, ListInv
  <2>2. \A name : Places(name)' = {}
    BY <2>1 DEF Places
  <2>3. CASE UNCHANGED <<unread, steady, ever>>
    BY <1>1, <2>1, <2>2, <2>3 DEF ListInv, Listable, StatFails, Skipped, Places
  <2>4. CASE unread' = DOMAIN here \cup Self /\ steady' = DOMAIN here /\ ever' = DOMAIN here
    BY <2>1, <2>2, <2>4 DEF ListInv
  <2> QED
    BY <1>1, <2>3, <2>4 DEF opendir
<1>2. ASSUME NEW name \in unread, readdir(name) PROVE ListInv'
  <2>1. /\ UNCHANGED <<here, steady, ever, pc, whole>> /\ unread' = unread \ {name}
        /\ pc = "readdir"
    BY <1>2 DEF readdir, Rest
  <2>2. \A n : (StatFails(n)' <=> StatFails(n)) /\ (Skipped(n)' <=> Skipped(n))
    BY <2>1 DEF StatFails, Skipped
  <2>3. CASE Skipped(name) \/ StatFails(name)
    <3>1. UNCHANGED list
      BY <1>2, <2>3 DEF readdir
    <3>2. \A n : Places(n)' = Places(n)
      BY <3>1 DEF Places
    <3> QED
      BY <2>1, <2>2, <2>3, <3>1, <3>2 DEF ListInv, Listable
  <2>4. CASE ~(Skipped(name) \/ StatFails(name))
    <3> DEFINE entry == [name |-> name, is_dir |-> here[name] = "dir"]
    <3>1. list' = Append(list, entry) /\ name \in DOMAIN here /\ name \notin Self
      BY <1>2, <2>4 DEF readdir, StatFails, Skipped
    <3>2. entry \in Entry /\ name \in ever /\ list \in Seq(Entry) /\ entry.name = name
      BY <3>1 DEF ListInv, Entry
    <3> HIDE DEF entry
    <3>3. /\ list' \in Seq(Entry)
          /\ DOMAIN list' = DOMAIN list \cup {Len(list) + 1}
          /\ \A i \in DOMAIN list : list'[i] = list[i]
          /\ list'[Len(list) + 1] = entry
          /\ \A n : Places(n)' = Places(n) \cup IF n = name THEN {Len(list) + 1} ELSE {}
      BY <3>1, <3>2, PlacesGrow
    <3>4. \A i \in DOMAIN list' : list'[i].name \in ever /\ ~Skipped(list'[i].name)
      BY <2>4, <3>2, <3>3 DEF ListInv
    <3>5. ASSUME NEW n \in steady, Listable(n)
          PROVE  IF n \in unread' THEN Places(n)' = {}
                 ELSE \E i \in DOMAIN list' : Places(n)' = {i}
      <4>1. CASE n = name
        <5>1. Places(n)' = {Len(list) + 1} /\ n \notin unread'
          BY <1>2, <2>1, <3>3, <3>5, <4>1 DEF ListInv
        <5> QED
          BY <3>3, <5>1
      <4>2. CASE n # name
        <5>1. Places(n)' = Places(n) /\ (n \in unread' <=> n \in unread)
          BY <2>1, <3>3, <4>2
        <5> QED
          BY <3>3, <3>5, <5>1 DEF ListInv
      <4> QED
        BY <4>1, <4>2
    <3> QED
      BY <2>1, <2>2, <3>3, <3>4, <3>5 DEF ListInv, Listable
  <2> QED
    BY <2>3, <2>4
<1>3. CASE EndOfDirectory
  <2>1. /\ UNCHANGED <<here, steady, ever, unread>> /\ pc' = "head" /\ whole' = (unread = {})
        /\ pc = "readdir"
    BY <1>3 DEF EndOfDirectory
  <2>2. \A n : (StatFails(n)' <=> StatFails(n)) /\ (Skipped(n)' <=> Skipped(n))
    BY <2>1 DEF StatFails, Skipped
  <2>3. list \in Seq(Entry)
    BY DEF ListInv
  <2>4. PICK order \in Bijection(DOMAIN list, DOMAIN list) :
          list' = [i \in DOMAIN list |-> list[order[i]]]
    BY <1>3 DEF EndOfDirectory
  <2>5. /\ list' \in Seq(Entry)
        /\ \A i \in DOMAIN list' : \E j \in DOMAIN list : list'[i] = list[j]
        /\ \A name : (\E i \in DOMAIN list : Places(name) = {i}) =>
                       \E i \in DOMAIN list' : Places(name)' = {i}
    BY <2>3, <2>4, PlacesMove
  <2>6. ASSUME NEW n, Places(n) = {} PROVE Places(n)' = {}
    BY <2>5, <2>6 DEF Places
  <2>7. \A i \in DOMAIN list' : list'[i].name \in ever /\ ~Skipped(list'[i].name)
    BY <2>5 DEF ListInv
  <2>8. \A n \in steady :
          Listable(n) => IF n \in unread THEN Places(n)' = {}
                         ELSE \E i \in DOMAIN list' : Places(n)' = {i}
    BY <2>5, <2>6 DEF ListInv
  <2> QED
    BY <2>1, <2>2, <2>5, <2>7, <2>8 DEF ListInv, Listable
<1>4. ASSUME NEW name \in Names, NEW kind \in Kinds, Make(name, kind) PROVE ListInv'
  <2>1. /\ UNCHANGED <<steady, pc, list, whole>> /\ pc = "readdir" /\ name \notin DOMAIN here
        /\ here' = [n \in DOMAIN here \cup {name} |-> IF n = name THEN kind ELSE here[n]]
        /\ unread' \subseteq unread \cup {name}
        /\ unread \subseteq unread' /\ ever' = ever \cup {name}
    BY <1>4 DEF Make
  <2>2. DOMAIN here' = DOMAIN here \cup {name} /\ \A n \in DOMAIN here : here'[n] = here[n]
    BY <2>1
  <2>3. \A n \in steady : (Listable(n)' <=> Listable(n)) /\ (n \in unread' <=> n \in unread)
    BY <2>1, <2>2 DEF ListInv, Listable, StatFails, Skipped
  <2>4. \A n : Places(n)' = Places(n) /\ (Skipped(n)' <=> Skipped(n))
    BY <2>1 DEF Places, Skipped
  <2> QED
    BY <2>1, <2>2, <2>3, <2>4 DEF ListInv
<1>5. ASSUME NEW name \in Names, Delete(name) PROVE ListInv'
  <2>1. /\ UNCHANGED <<ever, pc, list, whole>> /\ pc = "readdir"
        /\ here' = Restrict(here, DOMAIN here \ {name})
        /\ unread' \subseteq unread /\ unread \subseteq unread' \cup {name}
        /\ steady' = steady \ {name}
    BY <1>5 DEF Delete
  <2>2. /\ DOMAIN here' = DOMAIN here \ {name}
        /\ \A n \in DOMAIN here \ {name} : here'[n] = here[n]
    BY <2>1 DEF Restrict
  <2>3. \A n \in steady' : (Listable(n)' <=> Listable(n)) /\ (n \in unread' <=> n \in unread)
    BY <2>1, <2>2 DEF ListInv, Listable, StatFails, Skipped
  <2>4. \A n : Places(n)' = Places(n) /\ (Skipped(n)' <=> Skipped(n))
    BY <2>1 DEF Places, Skipped
  <2> QED
    BY <2>1, <2>2, <2>3, <2>4 DEF ListInv
<1>6. CASE WriteHead \/ WriteRow \/ WriteFoot \/ UNCHANGED vars
  <2>1. /\ UNCHANGED <<here, steady, ever, unread, list, whole>>
        /\ \/ pc' = pc
           \/ pc \in {"head", "rows"} /\ pc' \in {"rows", "done"}
    <3>1. CASE WriteHead
      BY <3>1 DEF WriteHead
    <3>2. CASE WriteRow
      BY <3>2 DEF WriteRow
    <3>3. CASE WriteFoot
      BY <3>3 DEF WriteFoot
    <3>4. CASE UNCHANGED vars
      BY <3>4 DEF vars
    <3> QED
      BY <1>6, <3>1, <3>2, <3>3, <3>4
  <2>2. \A n : Places(n)' = Places(n) /\ (Listable(n)' <=> Listable(n)) /\ (Skipped(n)' <=> Skipped(n))
    BY <2>1 DEF Places, Listable, StatFails, Skipped
  <2> QED
    BY <2>1, <2>2 DEF ListInv
<1> QED
  BY <1>1, <1>2, <1>3, <1>4, <1>5, <1>6 DEF Next

LEMMA ListInvariant == Spec => []ListInv
  BY ListInvInit, ListInvNext, PTL DEF Spec

\* However the directory changes while it is read, what stays in it is listed
\* once, and nothing is that was never there, or that is hidden.
THEOREM WhatIsThereIsListed == Spec => []ListsWhatIsThere
<1>1. ListInv => ListsWhatIsThere
  <2> SUFFICES ASSUME ListInv PROVE ListsWhatIsThere
    OBVIOUS
  <2>1. ASSUME NEW name \in steady, whole, here[name] # "dangling", Len(name) <= MAXNAMLEN,
               ~(want_hide_dotfiles /\ name[1] = Dot)
        PROVE  \E i \in DOMAIN list : {j \in DOMAIN list : list[j].name = name} = {i}
    <3>1. name \in DOMAIN here /\ name \in Names /\ unread = {}
      BY <2>1 DEF ListInv
    <3>2. name \notin Self /\ Len(name) \in Nat
      BY <3>1, ListingAssumption
    <3>3. Listable(name)
      BY <2>1, <3>1, <3>2, ListingAssumption DEF Listable, StatFails, Skipped
    <3> QED
      BY <3>1, <3>3 DEF ListInv, Places
  <2>2. \A i \in DOMAIN list :
          list[i].name \in ever /\ ~(want_hide_dotfiles /\ list[i].name[1] = Dot)
    BY DEF ListInv, Skipped
  <2> QED
    BY <2>1, <2>2 DEF ListsWhatIsThere
<1> QED
  BY <1>1, ListInvariant, PTL

-----------------------------------------------------------------------------
(***************************************************************************)
(* The growing buffer: it always holds what is appended to it.             *)
(***************************************************************************)
Buffers == {b \in [length : Nat, pool : Nat] : b.length <= b.pool}

LEMMA TimesIsNoLess ==
  ASSUME NEW a \in Nat \ {0}, NEW n \in Nat
  PROVE  n * a \in Nat /\ n <= n * a
<1> DEFINE G == {k \in Nat : k * a \in Nat /\ k <= k * a}
<1>1. 0 \in G
  OBVIOUS
<1>2. ASSUME NEW k \in Nat, k \in G PROVE k + 1 \in G
  <2>1. (k + 1) * a = k * a + a
    OBVIOUS
  <2> DEFINE m == k * a
  <2>2. m \in Nat /\ k <= m
    BY <1>2
  <2> HIDE DEF m
  <2>3. (k + 1) * a = m + a
    BY <2>1 DEF m
  <2> QED
    BY <2>2, <2>3
<1> HIDE DEF G
<1>3. Nat \subseteq G
  BY <1>1, <1>2, NatInd
<1> QED
  BY <1>3 DEF G

LEMMA GrownIs ==
  ASSUME NEW size \in Nat, NEW need \in Nat
  PROVE  Grown(size, need) \in Nat /\ need <= Grown(size, need)
<1> DEFINE T == {n \in {size + k * APBUF_INIT : k \in 0..need} : n >= need}
<1>1. T \in SUBSET Nat
  BY TimesIsNoLess, ListingAssumption
<1>2. size + need * APBUF_INIT \in T
  <2>1. need * APBUF_INIT \in Nat /\ need <= need * APBUF_INIT
    BY TimesIsNoLess, ListingAssumption
  <2> DEFINE m == need * APBUF_INIT
  <2>2. size + m >= need
    <3> HIDE DEF m
    <3> QED
      BY <2>1 DEF m
  <2> QED
    BY <2>2
<1>3. Grown(size, need) = Min(T)
  BY DEF Grown
<1>4. \A n \in T : n >= need
  OBVIOUS
<1> HIDE DEF T
<1>5. PICK m \in T : \A n \in T : m <= n
  BY <1>1, <1>2, LeastNat
<1>6. Min(T) = m
  BY <1>1, <1>5, LeastIs
<1> QED
  BY <1>1, <1>3, <1>4, <1>5, <1>6

LEMMA AppendlHolds ==
  ASSUME NEW b \in Buffers, NEW len \in Nat
  PROVE  appendl(b, len) \in Buffers
<1> DEFINE need == b.length + len
<1>1. b.length \in Nat /\ b.pool \in Nat /\ need \in Nat
  BY DEF Buffers
<1>2. Grown(b.pool, need) \in Nat /\ need <= Grown(b.pool, need)
  BY <1>1, GrownIs
<1> DEFINE size == IF b.pool < need THEN Grown(b.pool, need) ELSE b.pool
<1>3. size \in Nat /\ need <= size
  BY <1>1, <1>2
<1>4. appendl(b, len) = [length |-> need, pool |-> size]
  BY DEF appendl
<1> HIDE DEF size, need
<1> QED
  BY <1>1, <1>3, <1>4 DEF Buffers

LEMMA AppendsHold ==
  ASSUME NEW b \in Buffers, NEW lengths \in Seq(Nat)
  PROVE  appends(b, lengths) \in Buffers
<1> DEFINE n == Len(lengths)
           Upto(f) == f = [k \in 0..n |-> IF k = 0 THEN b ELSE appendl(f[k - 1], lengths[k])]
           f == CHOOSE f : Upto(f)
           Step == [k \in 1..n |-> [v \in Buffers |-> appendl(v, lengths[k])]]
           lo == 0
<1>1. n \in Nat /\ \A k \in 1..n : lengths[k] \in Nat
  OBVIOUS
<1>2. appends(b, lengths) = f[n]
  BY Zenon DEF appends
<1> HIDE DEF n, f
<1>3. \A k \in 1..n : \A v \in Buffers : Step[k][v] = appendl(v, lengths[k]) /\ Step[k][v] \in Buffers
  BY <1>1, AppendlHolds
<1> HIDE DEF Step
<1>4. \E g : Climbs(g, lo, n, b, Step, Buffers)
  <2>1. lo \in Nat /\ lo <= n /\ StepsIn(Buffers, Step, lo + 1, n)
    BY <1>1, <1>3 DEF StepsIn
  <2> HIDE DEF lo
  <2> QED
    BY <1>1, <2>1, UpRec
<1>5. \A g : Climbs(g, lo, n, b, Step, Buffers) => Upto(g)
  <2> SUFFICES ASSUME NEW g, Climbs(g, lo, n, b, Step, Buffers) PROVE Upto(g)
    OBVIOUS
  <2>1. g \in [0..n -> Buffers] /\ g[0] = b /\ \A k \in 1..n : g[k] = Step[k][g[k - 1]]
    BY DEF Climbs
  <2>2. \A k \in 1..n : g[k] = appendl(g[k - 1], lengths[k])
    <3> TAKE k \in 1..n
    <3>1. k - 1 \in 0..n
      BY <1>1
    <3>2. g[k - 1] \in Buffers
      BY <2>1, <3>1
    <3> QED
      BY <1>3, <2>1, <3>2
  <2> QED
    BY <1>1, <2>1, <2>2
<1>6. Upto(f)
  <2> HIDE DEF Upto, lo
  <2> QED
    BY <1>4, <1>5 DEF f
<1>7. f[0] = b /\ \A k \in 1..n : f[k] = appendl(f[k - 1], lengths[k])
  BY <1>1, <1>6
<1> HIDE DEF Upto
<1> DEFINE D == {k \in Nat : k <= n => f[k] \in Buffers}
<1>8. 0 \in D
  BY <1>7
<1>9. ASSUME NEW k \in Nat, k \in D PROVE k + 1 \in D
  <2> SUFFICES ASSUME k + 1 <= n PROVE f[k + 1] \in Buffers
    OBVIOUS
  <2>1. k + 1 \in 1..n /\ (k + 1) - 1 = k /\ f[k] \in Buffers
    BY <1>1, <1>9
  <2>2. f[k + 1] = appendl(f[(k + 1) - 1], lengths[k + 1])
    BY <1>7, <2>1
  <2> QED
    BY <1>1, <2>1, <2>2, AppendlHolds
<1> HIDE DEF D
<1>10. Nat \subseteq D
  BY <1>8, <1>9, NatInd
<1>11. f[n] \in Buffers
  BY <1>1, <1>10 DEF D
<1> QED
  BY <1>2, <1>11

-----------------------------------------------------------------------------
(***************************************************************************)
(* Encoders: no byte becomes more than three.                              *)
(***************************************************************************)
LEMMA EncodedLength ==
  ASSUME NEW S, NEW T, NEW piece, PiecesIn(piece, S, T), \A c \in S : Len(piece[c]) <= 3,
         NEW text \in Seq(S)
  PROVE  Len(Encoded(piece, text)) <= 3 * Len(text)
<1> DEFINE e(t) == Encoded(piece, t)
           G == {t \in Seq(S) : Len(e(t)) <= 3 * Len(t)}
<1>1. /\ e(<<>>) = <<>> /\ \A t \in Seq(S) : e(t) \in Seq(T)
      /\ \A t \in Seq(S) : \A c \in S : e(Append(t, c)) = e(t) \o piece[c]
      /\ \A c \in S : piece[c] \in Seq(T)
  BY EncodedIs DEF PiecesIn
<1> HIDE DEF e
<1>2. <<>> \in G
  <2>1. Len(<<>>) = 0 /\ <<>> \in Seq(S)
    OBVIOUS
  <2> QED
    BY <1>1, <2>1
<1>3. ASSUME NEW t \in Seq(S), NEW c \in S, t \in G PROVE Append(t, c) \in G
  <2>1. Append(t, c) \in Seq(S) /\ Len(Append(t, c)) = Len(t) + 1 /\ Len(t) \in Nat
    OBVIOUS
  <2> DEFINE p == piece[c]
             u == e(t)
  <2>2. p \in Seq(T) /\ u \in Seq(T) /\ e(Append(t, c)) = u \o p /\ Len(p) <= 3
        /\ Len(u) <= 3 * Len(t)
    BY <1>1, <1>3
  <2> HIDE DEF p, u
  <2>3. Len(u \o p) = Len(u) + Len(p) /\ Len(u) \in Nat /\ Len(p) \in Nat
    BY <2>2, ConcatIs
  <2> QED
    BY <2>1, <2>2, <2>3
<1> HIDE DEF G
<1>4. Seq(S) \subseteq G
  BY <1>2, <1>3, AppendInd
<1> QED
  BY <1>4 DEF G, e

\* What takes one piece after the other gets the text back.
PieceAt(p, text, i) ==
  i + Len(p) - 1 <= Len(text) /\ \A j \in 1..Len(p) : text[i + j - 1] = p[j]

TakesPieces(f, piece, S, text) ==
  /\ f[Len(text) + 1] = <<>>
  /\ \A i \in 1..Len(text) : \A c \in S :
       PieceAt(piece[c], text, i) => f[i] = <<c>> \o f[i + Len(piece[c])]

LEMMA PiecesTaken ==
  ASSUME NEW S, NEW T, NEW piece, PiecesIn(piece, S, T), \A c \in S : piece[c] # <<>>,
         NEW text \in Seq(S), NEW f, TakesPieces(f, piece, S, Encoded(piece, text))
  PROVE  f[1] = text
<1> DEFINE e(t) == Encoded(piece, t)
           whole_text == e(text)
           G == {b \in Seq(S) : \A a \in Seq(S) : a \o b = text => f[Len(e(a)) + 1] = b}
<1>1. /\ e(<<>>) = <<>> /\ \A t \in Seq(S) : e(t) \in Seq(T)
      /\ \A t \in Seq(S) : \A c \in S : e(Append(t, c)) = e(t) \o piece[c]
      /\ \A c \in S : piece[c] \in Seq(T) /\ piece[c] # <<>>
  BY EncodedIs DEF PiecesIn
<1>2. \A a, b \in Seq(S) : e(a \o b) = e(a) \o e(b)
  BY EncodedConcat
<1>3. /\ f[Len(whole_text) + 1] = <<>>
      /\ \A i \in 1..Len(whole_text) : \A c \in S :
           PieceAt(piece[c], whole_text, i) => f[i] = <<c>> \o f[i + Len(piece[c])]
  BY DEF TakesPieces
<1> HIDE DEF e, whole_text
<1>4. <<>> \in G
  <2>1. ASSUME NEW a \in Seq(S), a \o <<>> = text PROVE f[Len(e(a)) + 1] = <<>>
    <3>1. a = text
      BY <2>1
    <3> QED
      BY <1>3, <3>1 DEF whole_text
  <2>2. <<>> \in Seq(S)
    OBVIOUS
  <2> QED
    BY <2>1, <2>2
<1>5. ASSUME NEW b \in Seq(S), NEW c \in S, b \in G PROVE Cons(c, b) \in G
  <2>1. ASSUME NEW a \in Seq(S), a \o Cons(c, b) = text
        PROVE  f[Len(e(a)) + 1] = Cons(c, b)
    <3> DEFINE ac == Append(a, c)
               ea == e(a)
               eb == e(b)
               p == piece[c]
               ep == ea \o p
    <3>1. ac \in Seq(S) /\ ac \o b = text
      <4>1. ac = a \o <<c>> /\ <<c>> \in Seq(S)
        BY AppendIsConcat
      <4>2. (a \o <<c>>) \o b = a \o (<<c>> \o b)
        BY <4>1, ConcatAssociative
      <4>3. Cons(c, b) = <<c>> \o b
        BY DEF Cons
      <4>4. ac \in Seq(S)
        OBVIOUS
      <4> HIDE DEF ac
      <4> QED
        BY <2>1, <4>1, <4>2, <4>3, <4>4
    <3>2. /\ ea \in Seq(T) /\ eb \in Seq(T) /\ p \in Seq(T) /\ p # <<>>
          /\ e(ac) = ea \o p /\ whole_text = (ea \o p) \o eb
      BY <1>1, <1>2, <3>1 DEF whole_text
    <3>3. f[Len(e(ac)) + 1] = b
      BY <1>5, <3>1
    <3> HIDE DEF ac, ea, eb, p
    <3>4. /\ ep \in Seq(T) /\ Len(ep) = Len(ea) + Len(p) /\ Len(ea) \in Nat /\ Len(p) \in Nat
          /\ \A j \in 1..Len(p) : ep[Len(ea) + j] = p[j]
      BY <3>2, ConcatIs
    <3>5. whole_text = ep \o eb
      BY <3>2
    <3> HIDE DEF ep
    <3>6. /\ Len(whole_text) = Len(ep) + Len(eb) /\ Len(eb) \in Nat
          /\ \A j \in 1..Len(ep) : whole_text[j] = ep[j]
      <4>1. /\ Len(ep \o eb) = Len(ep) + Len(eb) /\ Len(eb) \in Nat
            /\ \A j \in 1..Len(ep) : (ep \o eb)[j] = ep[j]
        <5>1. ep \in Seq(T) /\ eb \in Seq(T)
          BY <3>2, <3>4
        <5> QED
          BY <5>1, ConcatIs
      <4> QED
        BY <3>5, <4>1
    <3> DEFINE i == Len(ea) + 1
    <3>7. Len(p) # 0
      BY <3>2
    <3>8. i \in 1..Len(whole_text) /\ i + Len(p) - 1 <= Len(whole_text)
          /\ i + Len(p) = Len(ep) + 1
      BY <3>4, <3>6, <3>7
    <3>9. \A j \in 1..Len(p) : whole_text[i + j - 1] = p[j]
      <4> TAKE j \in 1..Len(p)
      <4>1. i + j - 1 = Len(ea) + j /\ Len(ea) + j \in 1..Len(ep)
        BY <3>4
      <4> QED
        BY <3>4, <3>6, <4>1
    <3>10. f[i] = <<c>> \o f[i + Len(p)]
      <4>1. PieceAt(p, whole_text, i)
        BY <3>8, <3>9 DEF PieceAt
      <4> HIDE DEF i
      <4> QED
        BY <1>3, <3>8, <4>1 DEF p
    <3>11. f[i + Len(p)] = b
      BY <3>2, <3>3, <3>8 DEF ep
    <3>12. f[i] = <<c>> \o b
      BY <3>10, <3>11
    <3> QED
      BY <3>12 DEF Cons, ea
  <2>2. Cons(c, b) \in Seq(S)
    BY DEF Cons
  <2> QED
    BY <2>1, <2>2
<1> HIDE DEF G
<1>6. Seq(S) \subseteq G
  BY <1>4, <1>5, ConsInd
<1>7. <<>> \in Seq(S) /\ <<>> \o text = text /\ Len(<<>>) + 1 = 1
  OBVIOUS
<1>8. \A a \in Seq(S) : a \o text = text => f[Len(e(a)) + 1] = text
  BY <1>6 DEF G
<1> QED
  BY <1>1, <1>7, <1>8

-----------------------------------------------------------------------------
(***************************************************************************)
(* What urlencode and append_escaped write.                                *)
(***************************************************************************)
UrlByte == {c \in Byte : ~needs_encoding(c)} \cup {Percent}

UrlPiece ==
  [c \in Byte |->
     IF needs_encoding(c)
       THEN <<Percent, HexDigit(c \div 16), HexDigit(c % 16)>> ELSE <<c>>]

LEMMA HexDigitIs ==
  ASSUME NEW n \in 0..15
  PROVE  /\ HexDigit(n) \in UrlByte
         /\ isxdigit(HexDigit(n)) /\ HexValue(HexDigit(n)) = n
  BY DEF HexDigit, UrlByte, needs_encoding, Letters, Digits, Byte, isxdigit, HexValue

LEMMA UrlPieceIs ==
  /\ PiecesIn(UrlPiece, Byte, UrlByte)
  /\ \A c \in Byte : UrlPiece[c] # <<>> /\ Len(UrlPiece[c]) <= 3
  /\ \A c \in Byte :
       \/ c \in UrlByte \ {Percent} /\ UrlPiece[c] = <<c>>
       \/ \E high, low \in 0..15 :
            /\ c = high * 16 + low
            /\ UrlPiece[c] = <<Percent, HexDigit(high), HexDigit(low)>>
<1>1. ASSUME NEW c \in Byte, ~needs_encoding(c)
      PROVE  c \in UrlByte \ {Percent} /\ UrlPiece[c] = <<c>>
  <2>1. needs_encoding(Percent)
    BY DEF needs_encoding, Percent, Digits, Letters, Slash
  <2> QED
    BY <1>1, <2>1 DEF UrlPiece, UrlByte
<1>2. ASSUME NEW c \in Byte, needs_encoding(c)
      PROVE  \E high, low \in 0..15 :
               /\ c = high * 16 + low
               /\ UrlPiece[c] = <<Percent, HexDigit(high), HexDigit(low)>>
  <2> DEFINE high == c \div 16
             low == c % 16
  <2>1. high \in 0..15 /\ low \in 0..15 /\ c = high * 16 + low
    <3>1. c \in 1..255
      BY DEF Byte
    <3>2. c \in Int
      BY <3>1
    <3>3. high \in Int
      BY <3>2
    <3>4. low \in 0..15
      BY <3>2
    <3>5. c = 16 * high + low
      BY <3>2
    <3> HIDE DEF high, low
    <3> QED
      BY <3>1, <3>3, <3>4, <3>5
  <2>2. UrlPiece[c] = <<Percent, HexDigit(high), HexDigit(low)>>
    BY <1>2 DEF UrlPiece
  <2> HIDE DEF high, low
  <2> QED
    BY <2>1, <2>2
<1>3. ASSUME NEW c \in Byte
      PROVE  UrlPiece[c] \in Seq(UrlByte) /\ UrlPiece[c] # <<>> /\ Len(UrlPiece[c]) <= 3
  <2>1. CASE ~needs_encoding(c)
    <3>1. c \in UrlByte /\ UrlPiece[c] = <<c>>
      BY <1>1, <2>1
    <3> QED
      BY <3>1
  <2>2. CASE needs_encoding(c)
    <3>1. PICK high \in 0..15, low \in 0..15 :
            UrlPiece[c] = <<Percent, HexDigit(high), HexDigit(low)>>
      BY <1>2, <2>2
    <3>2. HexDigit(high) \in UrlByte /\ HexDigit(low) \in UrlByte /\ Percent \in UrlByte
      BY HexDigitIs DEF UrlByte
    <3> QED
      BY <3>1, <3>2
  <2> QED
    BY <2>1, <2>2
<1> QED
  BY <1>1, <1>2, <1>3 DEF PiecesIn

LEMMA urlencodeIs ==
  ASSUME NEW text \in Seq(Byte)
  PROVE  /\ urlencode(text) = Encoded(UrlPiece, text)
         /\ urlencode(text) \in Seq(UrlByte)
         /\ Len(urlencode(text)) <= 3 * Len(text)
<1>1. urlencode(text) = Encoded(UrlPiece, text)
  <2>1. \A i \in DOMAIN text : text[i] \in Byte
    OBVIOUS
  <2> QED
    BY <2>1 DEF urlencode, Encoded, UrlPiece
<1> QED
  BY <1>1, UrlPieceIs, EncodedIs, EncodedLength

PageByte == Byte \ {34, 39, 60, 62}

PagePiece == [c \in Byte |-> IF c \in DOMAIN Entity THEN Entity[c] ELSE <<c>>]

LEMMA PagePieceIs ==
  /\ PiecesIn(PagePiece, Byte, PageByte)
  /\ \A c \in Byte : PagePiece[c] # <<>>
<1>1. ASSUME NEW c \in Byte PROVE PagePiece[c] \in Seq(PageByte) /\ PagePiece[c] # <<>>
  <2>1. CASE c \in DOMAIN Entity
    <3>1. PagePiece[c] = Entity[c]
      BY <2>1 DEF PagePiece
    <3>2. c \in {34, 38, 39, 60, 62}
      BY <2>1 DEF Entity
    <3>3. Entity[c] \in Seq(PageByte) /\ Entity[c] # <<>>
      <4>1. {38, 59, 97, 103, 108, 109, 111, 112, 113, 115, 116, 117} \subseteq PageByte
        BY DEF PageByte, Byte
      <4>2. CASE c = 60
        BY <4>1, <4>2 DEF Entity
      <4>3. CASE c = 62
        BY <4>1, <4>3 DEF Entity
      <4>4. CASE c = 38
        BY <4>1, <4>4 DEF Entity
      <4>5. CASE c = 39
        BY <4>1, <4>5 DEF Entity
      <4>6. CASE c = 34
        BY <4>1, <4>6 DEF Entity
      <4> QED
        BY <3>2, <4>2, <4>3, <4>4, <4>5, <4>6
    <3> QED
      BY <3>1, <3>3
  <2>2. CASE c \notin DOMAIN Entity
    BY <2>2 DEF PagePiece, Entity, PageByte
  <2> QED
    BY <2>1, <2>2
<1> QED
  BY <1>1 DEF PiecesIn

LEMMA append_escapedIs ==
  ASSUME NEW text \in Seq(Byte)
  PROVE  /\ append_escaped(text) = Encoded(PagePiece, text)
         /\ append_escaped(text) \in Seq(PageByte)
<1>1. append_escaped(text) = Encoded(PagePiece, text)
  <2>1. \A i \in DOMAIN text : text[i] \in Byte
    OBVIOUS
  <2> QED
    BY <2>1 DEF append_escaped, Encoded, PagePiece
<1> QED
  BY <1>1, PagePieceIs, EncodedIs

-----------------------------------------------------------------------------
(***************************************************************************)
(* The page.                                                               *)
(***************************************************************************)
LEMMA EntryIs ==
  ASSUME NEW entry \in Entry
  PROVE  /\ entry.name \in Seq(Byte \ {Slash}) /\ entry.name \in Seq(Byte)
         /\ entry.name # <<>> /\ entry.name \notin Self
         /\ entry.is_dir \in BOOLEAN
         /\ Width(entry) = Len(entry.name) + IF entry.is_dir THEN 1 ELSE 0
         /\ Width(entry) \in Nat
<1>1. entry.name \in Names /\ entry.is_dir \in BOOLEAN
  BY DEF Entry
<1>2. entry.name \in Seq(Byte \ {Slash}) /\ entry.name # <<>> /\ entry.name \notin Self
  BY <1>1, ListingAssumption
<1>3. entry.name \in Seq(Byte)
  BY <1>2, SeqMonotonic
<1>4. Len(entry.name) \in Nat
  BY <1>3
<1>5. Width(entry) \in Nat
  <2> DEFINE slash == IF entry.is_dir THEN 1 ELSE 0
             n == Len(entry.name)
  <2>1. slash \in {0, 1}
    OBVIOUS
  <2>2. Width(entry) = n + slash
    BY DEF Width
  <2> HIDE DEF slash, n
  <2>3. n + slash \in Nat
    BY <1>4, <2>1 DEF n
  <2> QED
    BY <2>2, <2>3
<1> QED
  BY <1>1, <1>2, <1>3, <1>5 DEF Width

LEMMA maxlenIs ==
  ASSUME list \in Seq(Entry)
  PROVE  maxlen \in Nat /\ \A i \in DOMAIN list : Width(list[i]) <= maxlen
<1> DEFINE n == Len(list)
           widths == [i \in 1..n |-> Width(list[i])]
<1>1. n \in Nat /\ DOMAIN list = 1..n /\ \A i \in 1..n : list[i] \in Entry
  OBVIOUS
<1> HIDE DEF n
<1>2. \A i \in 1..n : widths[i] = Width(list[i]) /\ widths[i] \in Nat
  BY <1>1, EntryIs
<1>3. maxlen = Max({0} \cup {widths[i] : i \in 1..n})
  BY <1>1 DEF maxlen
<1> HIDE DEF widths
<1>4. maxlen \in Nat /\ \A i \in 1..n : widths[i] <= maxlen
  BY <1>1, <1>2, <1>3, LongestIs
<1> QED
  BY <1>1, <1>2, <1>4

RowType == [href : Seq(UrlByte), text : Seq(PageByte), blanks : Nat]

LEMMA RowIs ==
  ASSUME list \in Seq(Entry), NEW i \in DOMAIN list
  PROVE  /\ Row(list[i]) \in RowType
         /\ Row(list[i]).blanks <= maxlen
         /\ Width(list[i]) + Row(list[i]).blanks + (IF list[i].is_dir THEN 0 ELSE 1) = maxlen + 1
<1> DEFINE entry == list[i]
           name == entry.name
           slash == IF entry.is_dir THEN <<Slash>> ELSE <<>>
           m == maxlen
           href == urlencode(name) \o slash
           text == append_escaped(name)
           blanks == m - Len(name)
<1>1. /\ name \in Seq(Byte) /\ entry.is_dir \in BOOLEAN
      /\ Width(entry) = Len(name) + IF entry.is_dir THEN 1 ELSE 0
  <2>1. entry \in Entry
    OBVIOUS
  <2> HIDE DEF entry
  <2> QED
    BY <2>1, EntryIs
<1>2. m \in Nat /\ Width(entry) <= m
  BY maxlenIs
<1>3. Row(entry) = [href |-> href, text |-> text, blanks |-> blanks]
  BY DEF Row
<1>4. href \in Seq(UrlByte) /\ text \in Seq(PageByte)
  <2>1. Slash \in UrlByte
    BY DEF UrlByte, needs_encoding, Slash, Byte
  <2>2. slash \in Seq(UrlByte)
    BY <2>1
  <2>3. urlencode(name) \in Seq(UrlByte) /\ append_escaped(name) \in Seq(PageByte)
    BY <1>1, urlencodeIs, append_escapedIs
  <2> DEFINE u == urlencode(name)
  <2> HIDE DEF u, slash
  <2>4. u \o slash \in Seq(UrlByte)
    BY <2>2, <2>3 DEF u
  <2> QED
    BY <2>3, <2>4 DEF u
<1> HIDE DEF entry, href, text, m, name
<1>5. /\ blanks \in Nat /\ blanks <= m
      /\ Width(entry) + blanks + (IF entry.is_dir THEN 0 ELSE 1) = m + 1
  <2>1. Len(name) \in Nat
    BY <1>1
  <2> QED
    BY <1>1, <1>2, <2>1
<1> QED
  BY <1>3, <1>4, <1>5 DEF RowType, entry, m

\* The page is written of the list, in its order.
PageInv ==
  /\ pool \in Nat \ {0} /\ Len(list) <= pool
  /\ buf \in Buffers
  /\ decoded_url \in Urls
  /\ rows \in Seq(RowType) /\ Len(rows) <= Len(list)
  /\ \A i \in DOMAIN rows : rows[i] = Row(list[i])
  /\ pc \notin {"rows", "done"} => rows = <<>>
  /\ code = 200 => pc = "done"
  /\ pc = "rows" \/ code = 200 => dotdot = BelowRoot

LEMMA PageInvInit == Init => PageInv
<1> SUFFICES ASSUME Init PROVE PageInv
  OBVIOUS
<1>1. buf \in Buffers
  BY ListingAssumption DEF Init, make_apbuf, Buffers
<1>2. <<>> \in Seq(RowType) /\ Len(<<>>) = 0 /\ DOMAIN <<>> = {}
  OBVIOUS
<1> QED
  BY <1>1, <1>2, ListingAssumption DEF Init, PageInv

LEMMA SameRows ==
  ASSUME UNCHANGED list
  PROVE  maxlen' = maxlen /\ \A i \in DOMAIN list : Row(list[i])' = Row(list[i])
  BY DEF maxlen, Width, Row

LEMMA PageInvNext == ListInv /\ PageInv /\ [Next]_vars => PageInv'
<1> SUFFICES ASSUME ListInv, PageInv, [Next]_vars PROVE PageInv'
  OBVIOUS
<1> USE DEF worldVars, listVars, pageVars
<1>1. list \in Seq(Entry) /\ Len(list) \in Nat /\ DOMAIN list = 1..Len(list)
  BY DEF ListInv
<1>2. CASE opendir \/ (\E name \in Names : Delete(name) \/ \E kind \in Kinds : Make(name, kind))
  <2>1. /\ UNCHANGED <<list, pool, rows, dotdot, buf, decoded_url>>
        /\ \/ pc = "opendir" /\ pc' = "readdir" /\ code' = code
           \/ pc = "opendir" /\ pc' = "done" /\ code' # 200
           \/ pc = "readdir" /\ pc' = pc /\ code' = code
    <3>1. CASE opendir
      BY <3>1 DEF opendir
    <3>2. ASSUME NEW name \in Names, Delete(name)
          PROVE  /\ UNCHANGED <<list, pool, rows, dotdot, buf, decoded_url, pc, code>>
                 /\ pc = "readdir"
      BY <3>2 DEF Delete
    <3>3. ASSUME NEW name \in Names, NEW kind \in Kinds, Make(name, kind)
          PROVE  /\ UNCHANGED <<list, pool, rows, dotdot, buf, decoded_url, pc, code>>
                 /\ pc = "readdir"
      BY <3>3 DEF Make
    <3> QED
      BY <1>2, <3>1, <3>2, <3>3
  <2>2. rows = <<>> /\ code # 200 /\ code' # 200 /\ pc' # "rows"
    BY <2>1 DEF PageInv
  <2> QED
    BY <2>1, <2>2 DEF PageInv
<1>3. ASSUME NEW name \in unread, readdir(name) PROVE PageInv'
  <2>1. /\ UNCHANGED <<rows, dotdot, buf, decoded_url, pc, code>> /\ pc = "readdir"
        /\ \/ UNCHANGED <<list, pool>>
           \/ /\ list' = Append(list, [name |-> name, is_dir |-> here[name] = "dir"])
              /\ pool' = IF Len(list) = pool THEN 2 * pool ELSE pool
    BY <1>3 DEF readdir
  <2>2. rows = <<>> /\ code # 200
    BY <2>1 DEF PageInv
  <2>3. pool' \in Nat \ {0} /\ Len(list') <= pool' /\ Len(list') \in Nat
    <3>1. CASE UNCHANGED <<list, pool>>
      BY <1>1, <3>1 DEF PageInv
    <3>2. CASE /\ list' = Append(list, [name |-> name, is_dir |-> here[name] = "dir"])
               /\ pool' = IF Len(list) = pool THEN 2 * pool ELSE pool
      <4>1. Len(list') = Len(list) + 1
        BY <1>1, <3>2
      <4> DEFINE n == Len(list)
      <4>2. /\ n \in Nat /\ pool \in Nat \ {0} /\ n <= pool /\ Len(list') = n + 1
            /\ pool' = IF n = pool THEN 2 * pool ELSE pool
        BY <1>1, <3>2, <4>1 DEF PageInv
      <4> HIDE DEF n
      <4> QED
        BY <4>2
    <3> QED
      BY <2>1, <3>1, <3>2
  <2> QED
    BY <2>1, <2>2, <2>3 DEF PageInv
<1>4. CASE EndOfDirectory
  <2>1. UNCHANGED <<rows, dotdot, buf, decoded_url, pool, code>> /\ pc = "readdir" /\ pc' = "head"
    BY <1>4 DEF EndOfDirectory
  <2>2. rows = <<>> /\ code # 200
    BY <2>1 DEF PageInv
  <2>3. Len(list') = Len(list)
    BY <1>1, <1>4, PlacesMove DEF EndOfDirectory
  <2> QED
    BY <1>1, <2>1, <2>2, <2>3 DEF PageInv
<1>5. CASE WriteHead
  <2> DEFINE title == Len(append_escaped(decoded_url))
             lengths == <<1, title, 1, title, 1>> \o (IF BelowRoot THEN <<1>> ELSE <<>>)
  <2>1. /\ pc = "head" /\ pc' = "rows" /\ dotdot' = BelowRoot
        /\ buf' = appends(make_apbuf, lengths)
        /\ UNCHANGED <<list, pool, rows, decoded_url, code>>
    BY <1>5 DEF WriteHead
  <2>2. BelowRoot' = BelowRoot
    BY <2>1 DEF BelowRoot
  <2>3. buf' \in Buffers
    <3>1. decoded_url \in Seq(Byte)
      BY ListingAssumption DEF PageInv, Clean
    <3>2. title \in Nat
      BY <3>1, append_escapedIs
    <3>3. lengths \in Seq(Nat)
      <4> HIDE DEF title
      <4> QED
        BY <3>2
    <3>4. make_apbuf \in Buffers
      BY ListingAssumption DEF make_apbuf, Buffers
    <3> HIDE DEF lengths
    <3> QED
      BY <2>1, <3>3, <3>4, AppendsHold
  <2>4. rows = <<>>
    BY <2>1 DEF PageInv
  <2> QED
    BY <2>1, <2>2, <2>3, <2>4 DEF PageInv
<1>6. CASE WriteRow
  <2> DEFINE k == Len(rows) + 1
             row == Row(list[k])
             lengths == <<1, Len(row.href), 1, Len(row.text), 1, Blank(row), 1, 1, 1>>
  <2>1. /\ pc = "rows" /\ Len(rows) < Len(list)
        /\ rows' = Append(rows, row) /\ buf' = appends(buf, lengths)
        /\ UNCHANGED <<list, pool, pc, decoded_url, code, dotdot>>
    BY <1>6 DEF WriteRow
  <2>2. rows \in Seq(RowType) /\ Len(rows) \in Nat /\ DOMAIN rows = 1..Len(rows) /\ k \in DOMAIN list
    BY <1>1, <2>1 DEF PageInv
  <2>3. row \in RowType
    BY <1>1, <2>2, RowIs
  <2> HIDE DEF row, k
  <2>4. buf' \in Buffers
    <3>1. row.href \in Seq(UrlByte) /\ row.text \in Seq(PageByte) /\ row.blanks \in Nat
      BY <2>3 DEF RowType
    <3>2. Len(row.href) \in Nat /\ Len(row.text) \in Nat /\ Blank(row) \in Nat
      BY <3>1 DEF Blank
    <3>3. lengths \in Seq(Nat)
      BY <3>2
    <3>4. buf \in Buffers
      BY DEF PageInv
    <3> HIDE DEF lengths
    <3> QED
      BY <2>1, <3>3, <3>4, AppendsHold
  <2>5. /\ rows' \in Seq(RowType) /\ Len(rows') = k /\ DOMAIN rows' = 1..k
        /\ \A i \in DOMAIN rows : rows'[i] = rows[i]
        /\ rows'[k] = row /\ k \in Nat
    BY <2>1, <2>2, <2>3 DEF k
  <2>6. \A i \in DOMAIN list : Row(list[i])' = Row(list[i])
    BY <2>1, SameRows
  <2>7. ASSUME NEW i \in 1..k PROVE rows'[i] = Row(list[i])'
    <3>1. CASE i = k
      BY <2>2, <2>5, <2>6, <3>1 DEF row
    <3>2. CASE i # k
      <4>1. i \in DOMAIN rows
        BY <2>2, <3>2 DEF k
      <4>2. i \in DOMAIN list
        BY <1>1, <2>1, <2>2, <4>1
      <4> QED
        BY <2>5, <2>6, <4>1, <4>2 DEF PageInv
    <3> QED
      BY <3>1, <3>2
  <2>8. BelowRoot' = BelowRoot
    BY <2>1 DEF BelowRoot
  <2>9. Len(rows') <= Len(list')
    BY <1>1, <2>1, <2>2, <2>5 DEF k
  <2>10. pool' \in Nat \ {0} /\ Len(list') <= pool' /\ decoded_url' \in Urls
         /\ (pc' \notin {"rows", "done"} => rows' = <<>>) /\ (code' = 200 => pc' = "done")
         /\ (pc' = "rows" \/ code' = 200 => dotdot' = BelowRoot')
    BY <2>1, <2>8 DEF PageInv
  <2> QED
    BY <2>4, <2>5, <2>7, <2>9, <2>10 DEF PageInv
<1>7. CASE WriteFoot \/ UNCHANGED vars
  <2>1. UNCHANGED <<list, pool, rows, decoded_url, dotdot>>
    BY <1>7 DEF WriteFoot, vars
  <2>2. \/ UNCHANGED <<pc, code, buf>>
        \/ pc = "rows" /\ pc' = "done" /\ code' = 200 /\ buf' = appends(buf, <<1, 1, 1>>)
    BY <1>7 DEF WriteFoot, vars
  <2>3. buf' \in Buffers
    <3>1. <<1, 1, 1>> \in Seq(Nat) /\ buf \in Buffers
      BY DEF PageInv
    <3> QED
      BY <2>2, <3>1, AppendsHold
  <2>4. BelowRoot' = BelowRoot
    BY <2>1 DEF BelowRoot
  <2>5. \A i \in DOMAIN rows' : rows'[i] = Row(list[i])'
    <3>1. \A i \in DOMAIN list : Row(list[i])' = Row(list[i])
      BY <2>1, SameRows
    <3>2. rows \in Seq(RowType) /\ Len(rows) <= Len(list)
      BY DEF PageInv
    <3>3. DOMAIN rows \subseteq DOMAIN list
      BY <1>1, <3>2
    <3> QED
      BY <2>1, <3>1, <3>3 DEF PageInv
  <2>6. /\ pool' \in Nat \ {0} /\ Len(list') <= pool' /\ decoded_url' \in Urls
        /\ rows' \in Seq(RowType) /\ Len(rows') <= Len(list')
        /\ (pc' \notin {"rows", "done"} => rows' = <<>>) /\ (code' = 200 => pc' = "done")
        /\ (pc' = "rows" \/ code' = 200 => dotdot' = BelowRoot')
    BY <2>1, <2>2, <2>4 DEF PageInv
  <2> QED
    BY <2>3, <2>5, <2>6 DEF PageInv
<1> QED
  BY <1>2, <1>3, <1>4, <1>5, <1>6, <1>7 DEF Next

LEMMA PageInvariant == Spec => [](ListInv /\ PageInv)
  BY ListInvInit, ListInvNext, PageInvInit, PageInvNext, PTL DEF Spec

\* Whatever is in the directory, nothing is written past the list, the buffer
\* or an encoded name, or read past the blanks, and the dates are in one column.
THEOREM BuffersAlwaysHold == Spec => []BuffersHold
<1>1. ListInv /\ PageInv => BuffersHold
  <2> SUFFICES ASSUME ListInv, PageInv PROVE BuffersHold
    OBVIOUS
  <2>1. list \in Seq(Entry)
    BY DEF ListInv
  <2>2. Len(list) <= pool /\ buf.length <= buf.pool
    BY DEF PageInv, Buffers
  <2>3. ASSUME NEW i \in DOMAIN rows
        PROVE  /\ rows[i].blanks \in 0..maxlen
               /\ Len(urlencode(list[i].name)) <= 3 * MAXNAMLEN
               /\ Width(list[i]) + rows[i].blanks + (IF list[i].is_dir THEN 0 ELSE 1)
                    = maxlen + 1
    <3>1. i \in DOMAIN list
      BY <2>1 DEF PageInv
    <3>2. /\ rows[i] = Row(list[i]) /\ Row(list[i]) \in RowType
          /\ Row(list[i]).blanks <= maxlen
          /\ Width(list[i]) + Row(list[i]).blanks + (IF list[i].is_dir THEN 0 ELSE 1)
               = maxlen + 1
      BY <2>1, <3>1, RowIs DEF PageInv
    <3>3. rows[i].blanks \in 0..maxlen
      BY <2>1, <3>2, maxlenIs DEF RowType
    <3> DEFINE name == list[i].name
    <3>4. name \in Seq(Byte) /\ Len(name) <= MAXNAMLEN
      <4>1. list[i] \in Entry /\ ~Skipped(name)
        BY <2>1, <3>1 DEF ListInv
      <4>2. name \in Seq(Byte)
        BY <4>1, EntryIs
      <4>3. Len(name) \in Nat /\ MAXNAMLEN \in Nat
        BY <4>2, ListingAssumption
      <4> HIDE DEF name
      <4> QED
        BY <4>1, <4>2, <4>3 DEF Skipped
    <3>5. Len(urlencode(name)) <= 3 * MAXNAMLEN
      <4> HIDE DEF name
      <4> DEFINE n == Len(urlencode(name))
      <4>1. n <= 3 * Len(name) /\ n \in Nat /\ Len(name) \in Nat /\ MAXNAMLEN \in Nat
        BY <3>4, urlencodeIs, ListingAssumption
      <4> HIDE DEF n
      <4>2. n <= 3 * MAXNAMLEN
        BY <3>4, <4>1
      <4> QED
        BY <4>2 DEF n
    <3> QED
      BY <3>2, <3>3, <3>5
  <2> QED
    BY <2>2, <2>3 DEF BuffersHold
<1> QED
  BY <1>1, PageInvariant, PTL

-----------------------------------------------------------------------------
(***************************************************************************)
(* Reading what was encoded.                                               *)
(***************************************************************************)

\* urldecode gets back what urlencode was given.
LEMMA DecodesEncoded ==
  ASSUME NEW text \in Seq(Byte)
  PROVE  urldecode(urlencode(text)) = text
<1> DEFINE code_text == urlencode(text)
           n == Len(code_text)
<1>1. code_text = Encoded(UrlPiece, text) /\ code_text \in Seq(UrlByte)
  BY urlencodeIs
<1> HIDE DEF code_text
<1>2. PICK f : Decoding(f, code_text) /\ urldecode(code_text) = Before(f[1], NUL)
  BY <1>1, urldecodeIs
<1>3. \A i \in 1..(n + 1) : f[i] = DecodedAt(f, code_text, i)
  BY <1>2 DEF Decoding
<1>4. n \in Nat
  BY <1>1
<1> HIDE DEF n
<1>5. f[n + 1] = <<>>
  <2>1. n + 1 \in 1..(n + 1) /\ n + 1 > n
    BY <1>4
  <2> QED
    BY <1>3, <2>1 DEF DecodedAt, n
<1>6. ASSUME NEW i \in 1..n, NEW c \in Byte, PieceAt(UrlPiece[c], code_text, i)
      PROVE  f[i] = <<c>> \o f[i + Len(UrlPiece[c])]
  <2>1. f[i] = IF Escaped(code_text, i) THEN <<CodeAt(code_text, i)>> \o f[i + 3]
               ELSE <<code_text[i]>> \o f[i + 1]
    <3>1. i \in 1..(n + 1) /\ ~(i > n)
      BY <1>4
    <3> QED
      BY <1>3, <3>1 DEF DecodedAt, n
  <2>2. CASE c # Percent /\ UrlPiece[c] = <<c>>
    <3>1. Len(UrlPiece[c]) = 1 /\ UrlPiece[c][1] = c /\ i + 1 - 1 = i
      BY <2>2
    <3>2. code_text[i] = c
      BY <1>6, <3>1 DEF PieceAt
    <3> QED
      BY <2>1, <2>2, <3>1, <3>2 DEF Escaped
  <2>3. ASSUME NEW high \in 0..15, NEW low \in 0..15, c = high * 16 + low,
               UrlPiece[c] = <<Percent, HexDigit(high), HexDigit(low)>>
        PROVE  f[i] = <<c>> \o f[i + Len(UrlPiece[c])]
    <3> DEFINE p == UrlPiece[c]
    <3>1. /\ Len(p) = 3 /\ p[1] = Percent /\ p[2] = HexDigit(high) /\ p[3] = HexDigit(low)
      BY <2>3
    <3> HIDE DEF p
    <3>2. i + 3 - 1 <= n /\ \A j \in 1..3 : code_text[i + j - 1] = p[j]
      BY <1>6, <3>1 DEF PieceAt, p, n
    <3>3. i + 2 <= n /\ i + 1 - 1 = i /\ i + 2 - 1 = i + 1 /\ i + 3 - 1 = i + 2
      BY <1>4, <3>2
    <3>4. /\ code_text[i] = Percent /\ code_text[i + 1] = HexDigit(high)
          /\ code_text[i + 2] = HexDigit(low)
      <4>1. 1 \in 1..3 /\ 2 \in 1..3 /\ 3 \in 1..3
        OBVIOUS
      <4>2. /\ code_text[i + 1 - 1] = p[1] /\ code_text[i + 2 - 1] = p[2]
            /\ code_text[i + 3 - 1] = p[3]
        BY <3>2, <4>1
      <4> QED
        BY <3>1, <3>3, <4>2
    <3>5. Escaped(code_text, i) /\ CodeAt(code_text, i) = c
      BY <2>3, <3>3, <3>4, HexDigitIs DEF Escaped, CodeAt, n
    <3> QED
      BY <2>1, <3>1, <3>5 DEF p
  <2> QED
    BY <2>2, <2>3, UrlPieceIs
<1>7. f[1] = text
  <2>1. TakesPieces(f, UrlPiece, Byte, code_text)
    BY <1>5, <1>6 DEF TakesPieces, n
  <2> QED
    BY <1>1, <2>1, UrlPieceIs, PiecesTaken
<1>8. Before(text, NUL) = text
  <2>1. NUL \notin Byte
    BY DEF Byte, NUL
  <2>2. Byte \ {NUL} = Byte
    BY <2>1
  <2> QED
    BY <2>2, BeforeType
<1> QED
  BY <1>2, <1>7, <1>8 DEF code_text

LEMMA PieceIsPrefix ==
  ASSUME NEW S, NEW p \in Seq(S), NEW text \in Seq(S), NEW i \in 1..Len(text)
  PROVE  IsPrefix(p, SubSeq(text, i, Len(text))) <=> PieceAt(p, text, i)
<1> DEFINE rest == SubSeq(text, i, Len(text))
           n == Len(text)
           k == Len(p)
<1>1. n \in Nat /\ k \in Nat /\ rest \in Seq(S) /\ Len(rest) = n - i + 1
  OBVIOUS
<1>2. \A j \in 1..(n - i + 1) : rest[j] = text[i + j - 1]
  OBVIOUS
<1> HIDE DEF rest
<1>3. IsPrefix(p, rest) <=> k <= Len(rest) /\ \A j \in 1..k : p[j] = rest[j]
  BY <1>1, PrefixIs
<1> HIDE DEF n, k
<1>4. k <= n - i + 1 <=> i + k - 1 <= n
  BY <1>1 DEF n
<1>5. k <= n - i + 1 =>
        ((\A j \in 1..k : p[j] = rest[j]) <=> (\A j \in 1..k : text[i + j - 1] = p[j]))
  <2> SUFFICES ASSUME k <= n - i + 1
               PROVE  (\A j \in 1..k : p[j] = rest[j]) <=> (\A j \in 1..k : text[i + j - 1] = p[j])
    OBVIOUS
  <2>1. \A j \in 1..k : rest[j] = text[i + j - 1]
    <3> TAKE j \in 1..k
    <3>1. j \in 1..(n - i + 1)
      BY <1>1 DEF n
    <3> QED
      BY <1>2, <3>1
  <2> QED
    BY <2>1
<1> QED
  BY <1>1, <1>3, <1>4, <1>5 DEF PieceAt, rest, n, k

LEMMA EntityIs ==
  /\ DOMAIN Entity = {34, 38, 39, 60, 62} /\ DOMAIN Entity \subseteq Byte
  /\ \A c \in DOMAIN Entity :
       Entity[c] \in Seq(Byte) /\ Entity[c][1] = 38 /\ Len(Entity[c]) \in 4..6
  /\ \A c, d \in DOMAIN Entity :
       Entity[c][2] = Entity[d][2] /\ Entity[c][3] = Entity[d][3] => c = d
<1>1. DOMAIN Entity = {34, 38, 39, 60, 62} /\ DOMAIN Entity \subseteq Byte
  BY DEF Entity, Byte
<1>2. /\ Entity[60] = <<38, 108, 116, 59>> /\ Entity[62] = <<38, 103, 116, 59>>
      /\ Entity[38] = <<38, 97, 109, 112, 59>>
      /\ Entity[39] = <<38, 97, 112, 111, 115, 59>>
      /\ Entity[34] = <<38, 113, 117, 111, 116, 59>>
  BY DEF Entity
<1>3. {38, 59, 97, 103, 108, 109, 111, 112, 113, 115, 116, 117} \subseteq Byte
  BY DEF Byte
<1>4. ASSUME NEW c \in DOMAIN Entity
      PROVE  Entity[c] \in Seq(Byte) /\ Entity[c][1] = 38 /\ Len(Entity[c]) \in 4..6
  <2>1. CASE c = 60
    <3>1. Entity[c] = <<38, 108, 116, 59>>
      BY <1>2, <2>1
    <3>2. <<38, 108, 116, 59>> \in Seq(Byte)
      BY <1>3
    <3> QED
      BY <3>1, <3>2
  <2>2. CASE c = 62
    <3>1. Entity[c] = <<38, 103, 116, 59>>
      BY <1>2, <2>2
    <3>2. <<38, 103, 116, 59>> \in Seq(Byte)
      BY <1>3
    <3> QED
      BY <3>1, <3>2
  <2>3. CASE c = 38
    <3>1. Entity[c] = <<38, 97, 109, 112, 59>>
      BY <1>2, <2>3
    <3>2. <<38, 97, 109, 112, 59>> \in Seq(Byte)
      BY <1>3
    <3> QED
      BY <3>1, <3>2
  <2>4. CASE c = 39
    <3>1. Entity[c] = <<38, 97, 112, 111, 115, 59>>
      BY <1>2, <2>4
    <3>2. <<38, 97, 112, 111, 115, 59>> \in Seq(Byte)
      BY <1>3
    <3> QED
      BY <3>1, <3>2
  <2>5. CASE c = 34
    <3>1. Entity[c] = <<38, 113, 117, 111, 116, 59>>
      BY <1>2, <2>5
    <3>2. <<38, 113, 117, 111, 116, 59>> \in Seq(Byte)
      BY <1>3
    <3> QED
      BY <3>1, <3>2
  <2> QED
    BY <1>1, <2>1, <2>2, <2>3, <2>4, <2>5
<1>5. /\ Entity[60][2] = 108 /\ Entity[62][2] = 103 /\ Entity[38][2] = 97
      /\ Entity[39][2] = 97 /\ Entity[34][2] = 113
      /\ Entity[38][3] = 109 /\ Entity[39][3] = 112
  BY <1>2
<1>6. \A c, d \in DOMAIN Entity :
        Entity[c][2] = Entity[d][2] /\ Entity[c][3] = Entity[d][3] => c = d
  BY <1>1, <1>5
<1> QED
  BY <1>1, <1>4, <1>6

\* A browser shows what append_escaped was given.
Codes(text, i) == {c \in DOMAIN Entity : IsPrefix(Entity[c], SubSeq(text, i, Len(text)))}

ShownAt(f, text, i) ==
  IF i > Len(text) THEN <<>>
  ELSE IF Codes(text, i) = {} THEN <<text[i]>> \o f[i + 1]
  ELSE LET c == CHOOSE c \in Codes(text, i) : TRUE
       IN  <<c>> \o f[i + Len(Entity[c])]

Showing(f, text) == f = [i \in 1..(Len(text) + 1) |-> ShownAt(f, text, i)]

LEMMA ShowingExists ==
  ASSUME NEW text \in Seq(Byte)
  PROVE  \E f : Showing(f, text)
<1> DEFINE n == Len(text)
           V == Seq(Byte)
           code_at(i) == CHOOSE c \in Codes(text, i) : TRUE
           base == [i \in 1..(n + 1) |-> <<>>]
           jump == [i \in 1..(n + 1) |-> IF i > n THEN 0
                                         ELSE IF Codes(text, i) = {} THEN i + 1
                                         ELSE i + Len(Entity[code_at(i)])]
           byte == [i \in 1..(n + 1) |-> IF Codes(text, i) = {} THEN text[i] ELSE code_at(i)]
           Step == [i \in 1..(n + 1) |-> [v \in V |-> <<byte[i]>> \o v]]
<1>1. n \in Nat /\ \A i \in 1..n : text[i] \in Byte
  OBVIOUS
<1>2. ASSUME NEW i \in 1..n, Codes(text, i) # {}
      PROVE  code_at(i) \in Byte /\ i + Len(Entity[code_at(i)]) \in (i + 1)..(n + 1)
  <2> DEFINE c == code_at(i)
  <2>1. c \in Codes(text, i)
    BY <1>2
  <2> HIDE DEF c
  <2>2. c \in DOMAIN Entity /\ IsPrefix(Entity[c], SubSeq(text, i, n))
    BY <2>1 DEF Codes
  <2>3. c \in Byte /\ Entity[c] \in Seq(Byte) /\ Len(Entity[c]) \in 4..6
    BY <2>2, EntityIs
  <2>4. PieceAt(Entity[c], text, i)
    BY <2>2, <2>3, PieceIsPrefix
  <2>5. i + Len(Entity[c]) - 1 <= n
    BY <2>4 DEF PieceAt
  <2> DEFINE k == Len(Entity[c])
  <2>6. k \in 4..6 /\ i + k - 1 <= n
    BY <2>3, <2>5
  <2> HIDE DEF n, k
  <2>7. i + k \in (i + 1)..(n + 1)
    BY <1>1, <2>6
  <2> QED
    BY <2>3, <2>7 DEF c, k
<1> HIDE DEF n, code_at
<1>3. \A i \in 1..n : byte[i] \in Byte /\ jump[i] \in (i + 1)..(n + 1)
  BY <1>1, <1>2
<1>4. jump[n + 1] = 0 /\ \A i \in 1..n : jump[i] # 0
  BY <1>1, <1>3
<1>5. <<>> \in V /\ \A i \in 1..(n + 1) : base[i] = <<>>
  OBVIOUS
<1>6. \A i \in 1..n : \A v \in V : Step[i][v] = <<byte[i]>> \o v /\ Step[i][v] \in V
  <2> TAKE i \in 1..n
  <2> TAKE v \in V
  <2>1. byte[i] \in Byte /\ i \in 1..(n + 1)
    <3>1. byte[i] \in Byte
      BY <1>3
    <3> HIDE DEF byte
    <3> QED
      BY <1>1, <3>1
  <2>2. Step[i][v] = <<byte[i]>> \o v
    BY <2>1
  <2> HIDE DEF byte, Step
  <2>3. <<byte[i]>> \o v \in Seq(Byte)
    BY <2>1
  <2> QED
    BY <2>2, <2>3
<1>7. \A i \in 1..n : /\ jump[i] = IF Codes(text, i) = {} THEN i + 1 ELSE i + Len(Entity[code_at(i)])
                      /\ byte[i] = IF Codes(text, i) = {} THEN text[i] ELSE code_at(i)
  BY <1>1
<1> HIDE DEF V, base, jump, byte, Step
<1>8. JumpsIn(V, n, base, jump, Step)
  <2> SUFFICES ASSUME NEW i \in 1..(n + 1)
               PROVE  \/ jump[i] = 0 /\ base[i] \in V
                      \/ jump[i] \in (i + 1)..(n + 1) /\ \A v \in V : Step[i][v] \in V
    BY DEF JumpsIn
  <2>1. i = n + 1 \/ i \in 1..n
    BY <1>1
  <2> QED
    BY <1>3, <1>4, <1>5, <1>6, <2>1
<1>9. PICK f : Descends(f, V, n, base, jump, Step)
  BY <1>1, <1>8, DownRec
<1>10. /\ f \in [1..(n + 1) -> V]
       /\ \A i \in 1..(n + 1) :
            f[i] = IF jump[i] = 0 THEN base[i] ELSE Step[i][f[jump[i]]]
  BY <1>9 DEF Descends
<1>11. ASSUME NEW i \in 1..(n + 1) PROVE f[i] = ShownAt(f, text, i)
  <2>1. CASE i = n + 1
    <3>1. i > n
      BY <1>1, <2>1
    <3> QED
      BY <1>4, <1>5, <1>10, <2>1, <3>1 DEF ShownAt, n
  <2>2. CASE i # n + 1
    <3>1. i \in 1..n /\ ~(i > n)
      BY <1>1, <2>2
    <3>2. jump[i] \in 1..(n + 1)
      BY <1>1, <1>3, <3>1
    <3>3. f[i] = <<byte[i]>> \o f[jump[i]]
      <4>1. f[jump[i]] \in V
        BY <1>10, <3>2
      <4> QED
        BY <1>4, <1>6, <1>10, <3>1, <4>1
    <3>4. CASE Codes(text, i) = {}
      BY <1>7, <3>1, <3>3, <3>4 DEF ShownAt, n
    <3>5. CASE Codes(text, i) # {}
      BY <1>7, <3>1, <3>3, <3>5 DEF ShownAt, n, code_at
    <3> QED
      BY <3>4, <3>5
  <2> QED
    BY <2>1, <2>2
<1> QED
  BY <1>10, <1>11 DEF Showing, n

LEMMA ShownIs ==
  ASSUME NEW text \in Seq(Byte)
  PROVE  \E f : Showing(f, text) /\ Shown(text) = f[1]
<1> DEFINE S(f) == Showing(f, text)
           F == CHOOSE f : S(f)
<1>1. \E f : S(f)
  BY ShowingExists
<1>2. S(F)
  <2> HIDE DEF S
  <2> QED
    BY <1>1
<1>3. F = [i \in 1..(Len(text) + 1) |-> ShownAt(F, text, i)]
  BY <1>2 DEF Showing
<1>4. Shown(text) = F[1]
  BY DEF Shown, Showing, ShownAt, Codes
<1> QED
  BY <1>2, <1>4

LEMMA ShowsEscaped ==
  ASSUME NEW name \in Seq(Byte)
  PROVE  Shown(append_escaped(name)) = name
<1> DEFINE text == append_escaped(name)
           n == Len(text)
<1>1. text = Encoded(PagePiece, name) /\ text \in Seq(Byte)
  <2>1. PageByte \subseteq Byte
    BY DEF PageByte
  <2>2. text \in Seq(PageByte) /\ text = Encoded(PagePiece, name)
    BY append_escapedIs
  <2> HIDE DEF text
  <2> QED
    BY <2>1, <2>2
<1> HIDE DEF text
<1>2. PICK f : Showing(f, text) /\ Shown(text) = f[1]
  BY <1>1, ShownIs
<1>3. \A i \in 1..(n + 1) : f[i] = ShownAt(f, text, i)
  BY <1>2 DEF Showing
<1>4. n \in Nat
  BY <1>1
<1> HIDE DEF n
<1>5. f[n + 1] = <<>>
  <2>1. n + 1 \in 1..(n + 1) /\ n + 1 > n
    BY <1>4
  <2> QED
    BY <1>3, <2>1 DEF ShownAt, n
<1>6. ASSUME NEW i \in 1..n, NEW c \in Byte, PieceAt(PagePiece[c], text, i)
      PROVE  f[i] = <<c>> \o f[i + Len(PagePiece[c])]
  <2>1. f[i] = IF Codes(text, i) = {} THEN <<text[i]>> \o f[i + 1]
               ELSE LET d == CHOOSE d \in Codes(text, i) : TRUE
                    IN  <<d>> \o f[i + Len(Entity[d])]
    <3>1. i \in 1..(n + 1) /\ ~(i > n)
      BY <1>4
    <3> QED
      BY <1>3, <3>1 DEF ShownAt, n
  <2>2. \A d \in DOMAIN Entity : d \in Codes(text, i) <=> PieceAt(Entity[d], text, i)
    <3> TAKE d \in DOMAIN Entity
    <3>1. Entity[d] \in Seq(Byte) /\ i \in 1..Len(text)
      BY EntityIs DEF n
    <3>2. IsPrefix(Entity[d], SubSeq(text, i, Len(text))) <=> PieceAt(Entity[d], text, i)
      BY <1>1, <3>1, PieceIsPrefix
    <3> QED
      BY <3>2 DEF Codes
  <2>3. Codes(text, i) \subseteq DOMAIN Entity
    BY DEF Codes
  <2>4. \A d \in Codes(text, i) :
          text[i] = 38 /\ text[i + 1] = Entity[d][2] /\ text[i + 2] = Entity[d][3]
    <3> TAKE d \in Codes(text, i)
    <3>1. PieceAt(Entity[d], text, i) /\ Entity[d][1] = 38 /\ Len(Entity[d]) \in 4..6
      BY <2>2, <2>3, EntityIs
    <3>2. 1 \in 1..Len(Entity[d]) /\ 2 \in 1..Len(Entity[d]) /\ 3 \in 1..Len(Entity[d])
      <4> DEFINE n2 == Len(Entity[d])
      <4>1. n2 \in 4..6
        BY <3>1
      <4> HIDE DEF n2
      <4>2. 1 \in 1..n2 /\ 2 \in 1..n2 /\ 3 \in 1..n2
        BY <4>1
      <4> QED
        BY <4>2 DEF n2
    <3>3. i + 1 - 1 = i /\ i + 2 - 1 = i + 1 /\ i + 3 - 1 = i + 2
      BY <1>4
    <3>4. /\ text[i + 1 - 1] = Entity[d][1] /\ text[i + 2 - 1] = Entity[d][2]
          /\ text[i + 3 - 1] = Entity[d][3]
      BY <3>1, <3>2 DEF PieceAt
    <3> QED
      BY <3>1, <3>3, <3>4
  <2>5. CASE c \in DOMAIN Entity
    <3>1. PagePiece[c] = Entity[c]
      BY <2>5 DEF PagePiece
    <3>2. c \in Codes(text, i)
      BY <1>6, <2>2, <2>5, <3>1
    <3>3. Codes(text, i) = {c}
      <4>1. ASSUME NEW d \in Codes(text, i) PROVE d = c
        <5>1. c \in DOMAIN Entity /\ d \in DOMAIN Entity
          BY <2>3, <2>5
        <5>2. Entity[c][2] = Entity[d][2] /\ Entity[c][3] = Entity[d][3]
          BY <2>4, <3>2
        <5> QED
          BY <5>1, <5>2, EntityIs
      <4> QED
        BY <3>2, <4>1
    <3>4. (CHOOSE d \in Codes(text, i) : TRUE) = c
      BY <3>3
    <3> QED
      BY <2>1, <3>1, <3>2, <3>4
  <2>6. CASE c \notin DOMAIN Entity
    <3>1. PagePiece[c] = <<c>> /\ c # 38
      BY <2>6, EntityIs DEF PagePiece
    <3>2. Len(PagePiece[c]) = 1 /\ PagePiece[c][1] = c /\ i + 1 - 1 = i
      BY <1>4, <3>1
    <3>3. text[i] = c
      BY <1>6, <3>2 DEF PieceAt
    <3>4. Codes(text, i) = {}
      BY <2>4, <3>1, <3>3
    <3> QED
      BY <2>1, <3>2, <3>3, <3>4
  <2> QED
    BY <2>5, <2>6
<1>7. TakesPieces(f, PagePiece, Byte, text)
  BY <1>5, <1>6 DEF TakesPieces, n
<1>8. f[1] = name
  <2>1. PiecesIn(PagePiece, Byte, Byte) /\ \A c \in Byte : PagePiece[c] # <<>>
    <3>1. PageByte \subseteq Byte
      BY DEF PageByte
    <3>2. \A c \in Byte : PagePiece[c] \in Seq(PageByte)
      BY PagePieceIs DEF PiecesIn
    <3> QED
      BY <3>1, <3>2, PagePieceIs DEF PiecesIn
  <2> QED
    BY <1>1, <1>7, <2>1, PiecesTaken
<1> QED
  BY <1>2, <1>8 DEF text

\* A path is not an absolute URL.
LEMMA NormalIs ==
  ASSUME NEW text \in Seq(Byte), Head(text) = Slash, text # <<>>
  PROVE  normalize_path(text) = text
<1>1. /\ Http \in Seq(Byte) /\ Http[1] = 104 /\ Len(Http) = 7
      /\ Https \in Seq(Byte) /\ Https[1] = 104 /\ Len(Https) = 8
  BY DEF Http, Https, Byte
<1>2. text[1] = 47
  BY DEF Slash
<1>3. ASSUME NEW scheme \in Seq(Byte), scheme[1] = 104, Len(scheme) >= 1
      PROVE  ~IsPrefix(scheme, text)
  <2>1. 1 \in 1..Len(scheme)
    BY <1>3
  <2> QED
    BY <1>2, <1>3, <2>1, PrefixIs
<1>4. ~IsPrefix(Http, text) /\ ~IsPrefix(Https, text)
  <2>1. 7 >= 1 /\ 8 >= 1
    OBVIOUS
  <2> QED
    BY <1>1, <1>3, <2>1
<1> QED
  BY <1>4 DEF normalize_path

-----------------------------------------------------------------------------
(***************************************************************************)
(* Following a link.                                                       *)
(***************************************************************************)
SlashOf(is_dir) == IF is_dir THEN <<Slash>> ELSE <<>>

LEMMA SlashOfIs ==
  ASSUME NEW is_dir \in BOOLEAN
  PROVE  SlashOf(is_dir) \in Seq(Byte) /\ Encoded(UrlPiece, SlashOf(is_dir)) = SlashOf(is_dir)
<1>1. Slash \in Byte /\ ~needs_encoding(Slash)
  BY DEF Slash, Byte, needs_encoding
<1>2. UrlPiece[Slash] = <<Slash>>
  BY <1>1 DEF UrlPiece
<1>3. Encoded(UrlPiece, <<>>) = <<>>
  BY UrlPieceIs, EncodedIs
<1>4. Encoded(UrlPiece, Append(<<>>, Slash)) = Encoded(UrlPiece, <<>>) \o UrlPiece[Slash]
  <2>1. <<>> \in Seq(Byte)
    OBVIOUS
  <2>2. PiecesIn(UrlPiece, Byte, UrlByte)
    BY UrlPieceIs
  <2>3. \A text \in Seq(Byte) : \A c \in Byte :
          Encoded(UrlPiece, Append(text, c)) = Encoded(UrlPiece, text) \o UrlPiece[c]
    BY <2>2, EncodedIs
  <2> QED
    BY <1>1, <2>1, <2>3
<1>5. Append(<<>>, Slash) = <<Slash>> /\ <<>> \o <<Slash>> = <<Slash>> /\ <<Slash>> \in Seq(Byte)
  BY <1>1
<1>6. Encoded(UrlPiece, <<Slash>>) = <<Slash>>
  BY <1>2, <1>3, <1>4, <1>5
<1> QED
  BY <1>3, <1>5, <1>6 DEF SlashOf

\* What a link is decoded to: the page's URL, and the name behind it.
LEMMA LinkIs ==
  ASSUME NEW d \in Seq(Byte), d # <<>>, Head(d) = Slash,
         NEW name \in Seq(Byte), NEW is_dir \in BOOLEAN
  PROVE  LET href == urlencode(name) \o SlashOf(is_dir)
         IN  Prepared(Before(urlencode(d) \o href, Query)) = d \o (name \o SlashOf(is_dir))
<1> DEFINE slash == SlashOf(is_dir)
           href == urlencode(name) \o slash
           behind == name \o slash
           whole_url == d \o behind
           link == urlencode(d) \o href
<1>1. slash \in Seq(Byte) /\ Encoded(UrlPiece, slash) = slash
  BY SlashOfIs
<1> HIDE DEF slash
<1>2. behind \in Seq(Byte)
  BY <1>1
<1>3. href = urlencode(behind)
  <2>1. Encoded(UrlPiece, name \o slash) = Encoded(UrlPiece, name) \o Encoded(UrlPiece, slash)
    <3>1. PiecesIn(UrlPiece, Byte, UrlByte) /\ name \in Seq(Byte) /\ slash \in Seq(Byte)
      BY <1>1, UrlPieceIs
    <3> QED
      BY <3>1, EncodedConcat
  <2>2. urlencode(name) = Encoded(UrlPiece, name) /\ urlencode(behind) = Encoded(UrlPiece, behind)
    <3> HIDE DEF behind
    <3> QED
      BY <1>2, urlencodeIs
  <2> QED
    BY <1>1, <2>1, <2>2
<1> HIDE DEF behind, href
<1>4. whole_url \in Seq(Byte) /\ whole_url # <<>> /\ Head(whole_url) = Slash
  BY <1>2
<1>5. link = urlencode(whole_url)
  <2>1. Encoded(UrlPiece, d \o behind) = Encoded(UrlPiece, d) \o Encoded(UrlPiece, behind)
    BY <1>2, UrlPieceIs, EncodedConcat
  <2>2. /\ urlencode(d) = Encoded(UrlPiece, d) /\ urlencode(behind) = Encoded(UrlPiece, behind)
        /\ urlencode(whole_url) = Encoded(UrlPiece, whole_url)
    <3> HIDE DEF whole_url
    <3> QED
      BY <1>2, <1>4, urlencodeIs
  <2> QED
    BY <1>3, <2>1, <2>2
<1> HIDE DEF whole_url, link
<1>6. Before(link, Query) = link
  <2>1. Query \notin UrlByte
    BY DEF Query, UrlByte, needs_encoding, Digits, Letters, Slash, Percent
  <2>2. UrlByte \ {Query} = UrlByte
    BY <2>1
  <2>3. link \in Seq(UrlByte)
    BY <1>4, <1>5, urlencodeIs
  <2> QED
    BY <2>2, <2>3, BeforeType
<1>7. urldecode(link) = whole_url
  BY <1>4, <1>5, DecodesEncoded
<1>8. normalize_path(whole_url) = whole_url
  BY <1>4, NormalIs
<1>9. Prepared(Before(link, Query)) = whole_url
  BY <1>6, <1>7, <1>8 DEF Prepared
<1> QED
  BY <1>9 DEF link, whole_url, behind, href, slash

LEMMA PlainResolved ==
  ASSUME NEW names \in Seq(Name), \A i \in 1..Len(names) : names[i] \notin Self
  PROVE  Resolved(names) = names
<1> DEFINE Plain(ns) == \A i \in 1..Len(ns) : ns[i] \notin Self
           G == {ns \in Seq(Name) : Plain(ns) => Resolved(ns) = ns}
<1>1. <<>> \in G
  <2>1. <<>> \in Seq(Name)
    OBVIOUS
  <2> QED
    BY <2>1, ResolvedEmpty
<1>2. ASSUME NEW ns \in Seq(Name), NEW name \in Name, ns \in G PROVE Append(ns, name) \in G
  <2> DEFINE more == Append(ns, name)
  <2>1. /\ more \in Seq(Name) /\ Len(more) = Len(ns) + 1 /\ more[Len(ns) + 1] = name
        /\ \A i \in 1..Len(ns) : more[i] = ns[i]
    OBVIOUS
  <2>2. Resolved(more) = Enter(Resolved(ns), name)
    BY ResolvedAppend
  <2> HIDE DEF more
  <2>3. ASSUME Plain(more) PROVE Resolved(more) = more
    <3>1. name \notin Self /\ Plain(ns)
      BY <2>1, <2>3
    <3>2. Resolved(ns) = ns
      BY <1>2, <3>1
    <3>3. ns # Above
      BY AboveIsNoPath
    <3> QED
      BY <2>2, <3>1, <3>2, <3>3 DEF Enter, Self, more
  <2>4. more \in G
    BY <2>1, <2>3
  <2> QED
    BY <2>4 DEF more
<1>3. Seq(Name) \subseteq G
  <2> HIDE DEF G
  <2> QED
    BY <1>1, <1>2, AppendInd
<1> QED
  BY <1>3

\* The page of a clean URL, and one name more.
LEMMA NameBehindIs ==
  ASSUME NEW d, Clean(d), NEW entry \in Entry
  PROVE  LET url == d \o (entry.name \o SlashOf(entry.is_dir))
         IN  /\ Resolved(Components(url)) = Append(Components(d), entry.name)
             /\ EndsInSlash(url) = entry.is_dir
<1> DEFINE name == entry.name
           is_dir == entry.is_dir
           slash == SlashOf(is_dir)
           dn == d \o name
           url == d \o (name \o slash)
           cs == Components(d)
<1>1. /\ name \in Seq(Byte) /\ name \in Name /\ name \notin Self /\ is_dir \in BOOLEAN
      /\ name[Len(name)] # Slash
  <2>1. /\ name \in Seq(Byte \ {Slash}) /\ name \in Seq(Byte) /\ name # <<>>
        /\ name \notin Self /\ is_dir \in BOOLEAN
    BY EntryIs
  <2> HIDE DEF name, is_dir
  <2> QED
    BY <2>1 DEF Name, PartsOver
<1>2. d \in Seq(Byte) /\ d # <<>> /\ d[Len(d)] = Slash
  BY DEF Clean, EndsInSlash, Last
<1>3. slash \in Seq(Byte)
  BY <1>1, SlashOfIs
<1> HIDE DEF name, is_dir
<1>4. dn \in Seq(Byte) /\ Components(dn) = Append(cs, name)
  BY <1>1, <1>2, ComponentsAddName
<1>5. dn[Len(dn)] # Slash /\ dn # <<>>
  <2>1. Len(dn) = Len(d) + Len(name) /\ \A i \in 1..Len(name) : dn[Len(d) + i] = name[i]
    BY <1>1, <1>2, ConcatIs
  <2>2. Len(name) \in 1..Len(name) /\ Len(d) \in Nat
    BY <1>1, <1>2 DEF Name, PartsOver
  <2> HIDE DEF dn
  <2> QED
    BY <1>1, <1>4, <2>1, <2>2
<1>6. url = dn \o slash
  <2>1. d \in Seq(Byte) /\ name \in Seq(Byte) /\ slash \in Seq(Byte)
    BY <1>1, <1>2, <1>3
  <2> HIDE DEF slash
  <2> QED
    BY <2>1, ConcatAssociative
<1> HIDE DEF dn, url
<1>7. Components(url) = Append(cs, name) /\ EndsInSlash(url) = is_dir
  <2>1. CASE is_dir
    <3>1. url = Append(dn, Slash)
      BY <1>4, <1>6, <2>1 DEF SlashOf
    <3>2. EndsInSlash(url)
      BY <1>4, <3>1 DEF EndsInSlash, Last
    <3> QED
      BY <1>4, <2>1, <3>1, <3>2, ComponentsAddSlash
  <2>2. CASE ~is_dir
    <3>1. url = dn
      BY <1>4, <1>6, <2>2 DEF SlashOf
    <3>2. ~EndsInSlash(url)
      BY <1>5, <3>1 DEF EndsInSlash, Last
    <3>3. EndsInSlash(url) \in BOOLEAN
      BY DEF EndsInSlash
    <3> QED
      BY <1>1, <1>4, <2>2, <3>1, <3>2, <3>3
  <2> QED
    BY <1>1, <2>1, <2>2
<1>8. Resolved(Append(cs, name)) = Append(cs, name)
  <2>1. cs \in Seq(Name)
    BY <1>2, ComponentsType
  <2>2. \A i \in 1..Len(cs) : cs[i] \notin Self
    BY <2>1 DEF Clean, ToSet
  <2>3. Resolved(cs) = cs
    BY <2>1, <2>2, PlainResolved
  <2> HIDE DEF cs
  <2>4. Resolved(Append(cs, name)) = Enter(cs, name)
    BY <1>1, <2>1, <2>3, ResolvedAppend
  <2>5. cs # Above
    BY <2>1, AboveIsNoPath
  <2> QED
    BY <1>1, <2>4, <2>5 DEF Enter, Self
<1>9. Resolved(Components(url)) = Append(cs, name) /\ EndsInSlash(url) = is_dir
  BY <1>7, <1>8
<1> QED
  BY <1>9 DEF url, slash, name, is_dir

LEMMA BelowRootIs ==
  ASSUME Clean(decoded_url)
  PROVE  BelowRoot <=> Components(decoded_url) # <<>>
<1> DEFINE d == decoded_url
           root == wwwroot
           path == root \o d
           r == Len(root)
           n == Len(d)
<1>1. /\ d \in Seq(Byte) /\ d # <<>> /\ d[1] = Slash /\ EndsInSlash(d) /\ OneSlashEach(d)
      /\ root \in Seq(Byte)
  BY ListingAssumption DEF Clean, EndsInSlash, OneSlashEach
<1> HIDE DEF d, root
<1>2. /\ path \in Seq(Byte) /\ Len(path) = r + n /\ r \in Nat /\ n \in Nat /\ n >= 1
      /\ \A i \in 1..r : path[i] = root[i]
  <2>1. n >= 1
    BY <1>1
  <2> QED
    BY <1>1, <2>1, ConcatIs
<1> HIDE DEF path
<1>3. Front(path) \in Seq(Byte) /\ Len(Front(path)) = r + n - 1
      /\ \A i \in 1..(r + n - 1) : Front(path)[i] = path[i]
  <2>1. Front(path) = SubSeq(path, 1, r + n - 1)
    BY <1>2 DEF Front
  <2> DEFINE k == r + n - 1
  <2>2. k \in Nat /\ k <= Len(path)
    BY <1>2
  <2> HIDE DEF k
  <2>3. /\ SubSeq(path, 1, k) \in Seq(Byte) /\ Len(SubSeq(path, 1, k)) = k
        /\ \A i \in 1..k : SubSeq(path, 1, k)[i] = path[i]
    BY <1>2, <2>2
  <2> QED
    BY <2>1, <2>3 DEF k
<1>4. IsPrefix(Front(path), root) <=> n = 1
  <2> DEFINE front == Front(path)
  <2> HIDE DEF front
  <2>1. IsPrefix(front, root) <=>
          Len(front) <= Len(root) /\ \A i \in 1..Len(front) : front[i] = root[i]
    BY <1>1, <1>3, PrefixIs DEF front
  <2> HIDE DEF r, n
  <2>2. Len(front) <= r <=> n = 1
    BY <1>2, <1>3 DEF front
  <2>3. ASSUME n = 1 PROVE \A i \in 1..Len(front) : front[i] = root[i]
    <3>1. Len(front) = r
      BY <1>2, <1>3, <2>3 DEF front
    <3> QED
      BY <1>2, <1>3, <3>1 DEF front
  <2> QED
    BY <2>1, <2>2, <2>3 DEF front, r
<1>5. n = 1 <=> d = <<Slash>>
  BY <1>1
<1>6. Components(d) = <<>> <=> d = <<Slash>>
  <2>1. ASSUME Components(d) = <<>> PROVE d = <<Slash>>
    <3>1. d = Joined(<<>>) \o <<Slash>>
      BY <1>1, <2>1, JoinedComponents
    <3>2. Joined(<<>>) = <<>> /\ <<>> \o <<Slash>> = <<Slash>>
      BY JoinedEmpty
    <3> QED
      BY <3>1, <3>2
  <2> QED
    BY <2>1, ComponentsSlash
<1>7. BelowRoot <=> ~IsPrefix(Front(path), root)
  BY DEF BelowRoot, path, root, d
<1> QED
  BY <1>4, <1>5, <1>6, <1>7 DEF d

\* Whatever the names of the entries are: a link, followed and decoded, leads to
\* the entry of its row, and only the root's page has no link upwards.
THEOREM LinksAlwaysLead == Spec => []LinksLeadToEntries
<1>1. ListInv /\ PageInv => LinksLeadToEntries
  <2> SUFFICES ASSUME ListInv, PageInv PROVE LinksLeadToEntries
    OBVIOUS
  <2>1. list \in Seq(Entry) /\ Clean(decoded_url)
    BY ListingAssumption DEF ListInv, PageInv
  <2>2. ASSUME NEW i \in DOMAIN rows
        PROVE  LET url == Prepared(Before(urlencode(decoded_url) \o rows[i].href, Query))
               IN  /\ Resolved(Components(url)) = Append(Components(decoded_url), list[i].name)
                   /\ EndsInSlash(url) = list[i].is_dir
                   /\ Colon \notin ToSet(rows[i].href)
                   /\ Shown(rows[i].text) = list[i].name
                   /\ {34, 39, 60, 62} \cap ToSet(rows[i].text) = {}
    <3> DEFINE entry == list[i]
               row == rows[i]
    <3>1. i \in DOMAIN list
      BY <2>1 DEF PageInv
    <3>2. entry \in Entry /\ row = Row(entry) /\ row \in RowType
      BY <2>1, <3>1 DEF PageInv
    <3> HIDE DEF entry, row
    <3>3. entry.name \in Seq(Byte) /\ entry.is_dir \in BOOLEAN
      BY <3>2, EntryIs
    <3>4. /\ row.href = urlencode(entry.name) \o SlashOf(entry.is_dir)
          /\ row.text = append_escaped(entry.name)
      BY <3>2 DEF Row, SlashOf
    <3>5. decoded_url \in Seq(Byte) /\ decoded_url # <<>> /\ Head(decoded_url) = Slash
      BY <2>1 DEF Clean, EndsInSlash
    <3> DEFINE url == Prepared(Before(urlencode(decoded_url) \o row.href, Query))
    <3>6. url = decoded_url \o (entry.name \o SlashOf(entry.is_dir))
      BY <3>3, <3>4, <3>5, LinkIs
    <3>7. /\ Resolved(Components(url)) = Append(Components(decoded_url), entry.name)
          /\ EndsInSlash(url) = entry.is_dir
      BY <2>1, <3>2, <3>6, NameBehindIs
    <3>8. Colon \notin ToSet(row.href)
      <4>1. Colon \notin UrlByte
        BY DEF Colon, UrlByte, needs_encoding, Digits, Letters, Slash, Percent
      <4>2. row.href \in Seq(UrlByte)
        BY <3>2 DEF RowType
      <4> QED
        BY <4>1, <4>2 DEF ToSet
    <3>9. {34, 39, 60, 62} \cap ToSet(row.text) = {}
      <4>1. {34, 39, 60, 62} \cap PageByte = {}
        BY DEF PageByte
      <4>2. row.text \in Seq(PageByte)
        BY <3>2 DEF RowType
      <4>3. ToSet(row.text) \subseteq PageByte
        BY <4>2 DEF ToSet
      <4> QED
        BY <4>1, <4>3
    <3>10. Shown(row.text) = entry.name
      BY <3>3, <3>4, ShowsEscaped
    <3> QED
      BY <3>7, <3>8, <3>9, <3>10 DEF entry, row
  <2>3. pc = "rows" \/ code = 200 => dotdot = (Components(decoded_url) # <<>>)
    <3>1. pc = "rows" \/ code = 200 => dotdot = BelowRoot
      BY DEF PageInv
    <3>2. BelowRoot \in BOOLEAN
      BY DEF BelowRoot
    <3> QED
      BY <2>1, <3>1, <3>2, BelowRootIs
  <2> QED
    BY <2>2, <2>3 DEF LinksLeadToEntries
<1> QED
  BY <1>1, PageInvariant, PTL

=============================================================================
