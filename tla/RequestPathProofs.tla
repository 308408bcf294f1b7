-------------------------- MODULE RequestPathProofs --------------------------
(***************************************************************************)
(* From a URL to what is opened for it, for every URL, command line and    *)
(* file system.  First make_safe_url by itself, for texts of every length: *)
(* its indexes, what it leaves, and the walk over components that it       *)
(* implements.  Then what the walk means for routing, which makes the      *)
(* calls make_safe_url is specified for.                                   *)
(***************************************************************************)
EXTENDS RequestPath, TextLemmas

-----------------------------------------------------------------------------
(***************************************************************************)
(* make_safe_url.                                                          *)
(*                                                                         *)
(* The invariant is about the text that would be there if the loop stopped *)
(* cleaning now: what is kept, followed by what is still to be read.  No   *)
(* slash that is kept is followed in it by anything the loop removes.      *)
(***************************************************************************)

\* The caller's text: a zero at its end and nowhere else.
GivenIsText ==
  /\ given[len] = NUL
  /\ \A i \in 0..(len - 1) : given[i] # NUL

\* The first slash stays, and only a slash is ever written there.
FirstSlash ==
  Walking => url[0] = Slash /\ (pc = "copy" /\ dst = 0 => Ends(url[src]))

Remaining(j) == IF j < Kept THEN url[j] ELSE url[src + (j - Kept)]

CleanAt(i) ==
  /\ url[i] # NUL
  /\ url[i] = Slash =>
       /\ Remaining(i + 1) # Slash
       /\ ~(Remaining(i + 1) = Dot /\ Ends(Remaining(i + 2)))
       /\ ~(/\ Remaining(i + 1) = Dot /\ Remaining(i + 2) = Dot
            /\ Ends(Remaining(i + 3)))

KeptIsClean == Walking => \A i \in 0..(Kept - 1) : CleanAt(i)

IInv == SafeTypeOK /\ GivenIsText /\ UnreadIntact /\ FirstSlash

-----------------------------------------------------------------------------
LEMMA BufferType ==
  ASSUME NEW text \in Seq(Byte)
  PROVE  /\ Len(text) \in Nat
         /\ Buffer(text) \in [0..Len(text) -> Byte \cup {NUL}]
         /\ Buffer(text)[Len(text)] = NUL
         /\ \A i \in 0..(Len(text) - 1) : Buffer(text)[i] # NUL
<1>1. Len(text) \in Nat
  OBVIOUS
<1>2. \A i \in 0..(Len(text) - 1) : i + 1 \in 1..Len(text) /\ text[i + 1] \in Byte
  BY <1>1
<1>3. Buffer(text)[Len(text)] = NUL
  BY <1>1 DEF Buffer
<1>4. \A i \in 0..(Len(text) - 1) : Buffer(text)[i] = text[i + 1]
  BY <1>1 DEF Buffer
<1>5. Buffer(text) \in [0..Len(text) -> Byte \cup {NUL}]
  <2> SUFFICES \A i \in 0..Len(text) :
                 (IF i < Len(text) THEN text[i + 1] ELSE NUL) \in Byte \cup {NUL}
    BY DEF Buffer
  <2> QED
    BY <1>1, <1>2
<1>6. \A i \in 0..(Len(text) - 1) : Buffer(text)[i] # NUL
  <2> TAKE i \in 0..(Len(text) - 1)
  <2>1. Buffer(text)[i] = text[i + 1] /\ text[i + 1] \in Byte
    BY <1>2, <1>4
  <2> QED
    <3>1. \A c \in Byte : c # NUL
      BY DEF Byte, NUL
    <3> QED
      BY <2>1, <3>1
<1> QED
  BY <1>1, <1>3, <1>5, <1>6

\* While there is something to read, the reading index is before the end.
LEMMA ReadInside ==
  ASSUME IInv, Walking
  PROVE  /\ url[len] = NUL
         /\ url[src] = NUL => src = len
         /\ url[src] # NUL => src + 1 \in 0..len
         /\ url[src] # NUL /\ url[src + 1] # NUL => src + 2 \in 0..len
         /\ (url[src] # NUL /\ url[src + 1] # NUL /\ url[src + 2] # NUL
               => src + 3 \in 0..len)
  BY DEF IInv, SafeTypeOK, GivenIsText, UnreadIntact

\* Neither what a step writes nor where it stops reading leaves the string.
LEMMA SafeIndexes ==
  ASSUME IInv, [SafeNext]_safeVars
  PROVE  IInv'
<1> USE DEF IInv, Walking
<1>1. CASE pc = "idle" /\ \E text \in Seq(Byte) : SafeCall(text)
  <2>1. PICK text \in Seq(Byte) : SafeCall(text)
    BY <1>1
  <2> QED
    BY <2>1, BufferType
    DEF SafeCall, SafeTypeOK, GivenIsText, UnreadIntact, FirstSlash
<1>2. CASE Skip
  BY <1>2, ReadInside DEF Skip, SafeTypeOK, GivenIsText, UnreadIntact, FirstSlash
<1>3. CASE StartCopy
  BY <1>3 DEF StartCopy, CopyStart, Plain, Ends, SafeTypeOK, GivenIsText,
              UnreadIntact, FirstSlash
<1>4. CASE CopyByte
  <2>1. src + 1 \in 0..len /\ dst # 0 /\ dst <= src
    BY <1>4, ReadInside
    DEF CopyByte, FirstSlash, SafeTypeOK, UnreadIntact, Ends, Slash, NUL
  <2> QED
    BY <1>4, <2>1
    DEF CopyByte, Write, SafeTypeOK, GivenIsText, UnreadIntact, FirstSlash
<1>5. CASE SkipSlash
  BY <1>5, ReadInside
  DEF SkipSlash, SlashAt, Ends, SafeTypeOK, GivenIsText, UnreadIntact, FirstSlash, Slash, NUL
<1>6. CASE SkipDot
  BY <1>6, ReadInside
  DEF SkipDot, DotAt, Ends, SafeTypeOK, GivenIsText, UnreadIntact, FirstSlash, Slash, Dot, NUL
<1>7. CASE Backtrack
  BY <1>7, ReadInside
  DEF Backtrack, DotDotAt, PastDotDot, Ends, SafeTypeOK, GivenIsText,
      UnreadIntact, FirstSlash, Slash, Dot, NUL
<1>8. CASE AboveRoot
  BY <1>8 DEF AboveRoot, SafeTypeOK, GivenIsText, UnreadIntact, FirstSlash
<1>9. CASE KeepSlash
  <2>1. src + 1 \in 0..len /\ dst <= src
    BY <1>9, ReadInside DEF KeepSlash, SafeTypeOK, UnreadIntact, Slash, NUL
  <2> QED
    BY <1>9, <2>1
    DEF KeepSlash, Write, SafeTypeOK, GivenIsText, UnreadIntact, FirstSlash, Byte, Slash
<1>10. CASE Finish
  <2>1. src = len /\ dst <= src /\ len # 0
    BY <1>10, ReadInside DEF Finish, SafeTypeOK, UnreadIntact, FirstSlash, Slash, NUL
  <2> QED
    BY <1>10, <2>1
    DEF Finish, SafeTypeOK, GivenIsText, UnreadIntact, FirstSlash
<1>11. CASE UNCHANGED safeVars
  BY <1>11 DEF safeVars, SafeTypeOK, GivenIsText, UnreadIntact, FirstSlash, Ends
<1> QED
  BY <1>1, <1>2, <1>3, <1>4, <1>5, <1>6, <1>7, <1>8, <1>9, <1>10, <1>11
  DEF SafeNext, SafeStep

LEMMA InitIndexes == SafeInit => IInv
  BY DEF SafeInit, IInv, SafeTypeOK, GivenIsText, UnreadIntact, FirstSlash, Walking

\* Both indexes stay inside the string, for texts of every length.
THEOREM SafeTypeCorrect == SafeSpec => []SafeTypeOK
<1>1. IInv => SafeTypeOK
  BY DEF IInv
<1> QED
  BY <1>1, InitIndexes, SafeIndexes, PTL DEF SafeSpec

\* What is still to be read is never overwritten.
THEOREM NothingUnreadIsLost == SafeSpec => []UnreadIntact
<1>1. IInv => UnreadIntact
  BY DEF IInv
<1> QED
  BY <1>1, InitIndexes, SafeIndexes, PTL DEF SafeSpec

-----------------------------------------------------------------------------
\* What is kept stays clean, however the two indexes move.
LEMMA KeptStaysClean ==
  ASSUME IInv, KeptIsClean, [SafeNext]_safeVars
  PROVE  KeptIsClean'
<1> USE DEF KeptIsClean, CleanAt, Remaining, Kept, Walking
<1>1. CASE pc = "idle" /\ \E text \in Seq(Byte) : SafeCall(text)
  BY <1>1 DEF SafeCall
<1>2. CASE Skip
  BY <1>2 DEF Skip, Plain, SlashAt, DotAt, DotDotAt, IInv, SafeTypeOK, Ends
<1>3. CASE StartCopy
  BY <1>3 DEF StartCopy, CopyStart
<1>4. CASE CopyByte
  <2>1. dst <= src /\ dst \in 0..len /\ src \in 0..len /\ src + 1 \in 0..len
    BY <1>4, ReadInside DEF CopyByte, IInv, SafeTypeOK, UnreadIntact
  <2>2. \A j \in Nat : Remaining(j)' = Remaining(j) \/ src + (j - dst) > len
    BY <1>4, <2>1 DEF CopyByte, Write, IInv, SafeTypeOK
  <2> QED
    BY <1>4, <2>1 DEF CopyByte, Write, IInv, SafeTypeOK, Ends
<1>5. CASE SkipSlash
  BY <1>5 DEF SkipSlash, SlashAt, IInv, SafeTypeOK, Ends
<1>6. CASE SkipDot
  BY <1>6 DEF SkipDot, DotAt, IInv, SafeTypeOK, Ends
<1>7. CASE Backtrack
  BY <1>7 DEF Backtrack, DotDotAt, PastDotDot, IInv, SafeTypeOK, Ends
<1>8. CASE AboveRoot
  BY <1>8 DEF AboveRoot
<1>9. CASE KeepSlash
  <2>1. len \in Nat /\ dst <= src /\ dst \in 0..len /\ src \in 0..len /\ src + 1 \in 0..len
    BY <1>9, ReadInside DEF KeepSlash, IInv, SafeTypeOK, UnreadIntact, Slash, NUL
  <2>2. dst' = dst + 1 /\ src' = src + 1 /\ Kept' = dst + 1 /\ Kept = dst
        /\ url'[dst] = Slash /\ \A i \in 0..len : i # dst => url'[i] = url[i]
    BY <1>9, <2>1 DEF KeepSlash, Write, IInv, SafeTypeOK
  <2>3. ASSUME NEW i \in 0..dst, i < dst
        PROVE  CleanAt(i)'
    <3>1. /\ i + 1 \in Nat /\ src + (i + 1 - dst) <= len
          /\ i + 2 \in Nat /\ src + (i + 2 - dst) <= len
      BY <2>1, <2>3
    <3>2. /\ Remaining(i + 1)' = Remaining(i + 1)
          /\ Remaining(i + 2)' = Remaining(i + 2)
      <4>1. CASE i + 1 = dst
        BY <1>9, <2>1, <2>2, <3>1, <4>1 DEF KeepSlash
      <4>2. CASE i + 2 = dst
        BY <1>9, <2>1, <2>2, <3>1, <4>2 DEF KeepSlash
      <4>3. CASE i + 2 < dst
        BY <2>1, <2>2, <3>1, <4>3
      <4> QED
        BY <2>1, <2>3, <4>1, <4>2, <4>3
    <3>3. ASSUME Remaining(i + 2) = Dot
          PROVE  Remaining(i + 3)' = Remaining(i + 3)
      <4>1. i + 3 \in Nat /\ src + (i + 3 - dst) <= len
        BY <1>9, <2>1, <2>2, <2>3, <3>3, ReadInside DEF KeepSlash, Dot, Slash, NUL
      <4>2. CASE i + 3 = dst
        BY <1>9, <2>1, <2>2, <4>2 DEF KeepSlash
      <4>3. CASE i + 3 > dst
        BY <2>1, <2>2, <4>1, <4>3
      <4>4. CASE i + 3 < dst
        BY <2>1, <2>2, <4>4
      <4> QED
        BY <2>1, <4>2, <4>3, <4>4
    <3>4. CleanAt(i) /\ url'[i] = url[i]
      BY <1>9, <2>1, <2>2, <2>3 DEF KeepSlash
    <3> HIDE DEF Remaining
    <3> QED
      BY <3>1, <3>2, <3>3, <3>4 DEF Ends
  <2>4. ASSUME NEW i \in 0..dst, i = dst
        PROVE  CleanAt(i)'
    BY <1>9, <2>1, <2>2, <2>4, ReadInside
    DEF KeepSlash, Plain, SlashAt, DotAt, DotDotAt, IInv, SafeTypeOK,
        UnreadIntact, Ends, Slash, Dot, NUL
  <2>5. \A i \in 0..dst : CleanAt(i)'
    <3> HIDE DEF CleanAt
    <3> QED
      BY <2>1, <2>3, <2>4
  <2> HIDE DEF CleanAt, Kept
  <2> QED
    BY <2>1, <2>2, <2>5
<1>10. CASE Finish
  BY <1>10 DEF Finish
<1>11. CASE UNCHANGED safeVars
  BY <1>11 DEF safeVars
<1> QED
  BY <1>1, <1>2, <1>3, <1>4, <1>5, <1>6, <1>7, <1>8, <1>9, <1>10, <1>11
  DEF SafeNext, SafeStep

LEMMA FinishedIsClean ==
  ASSUME IInv, KeptIsClean, ResultIsClean, [SafeNext]_safeVars
  PROVE  ResultIsClean'
<1>1. CASE Finish
  <2>1. src = len /\ dst <= src /\ len # 0
    BY <1>1, ReadInside DEF Finish, IInv, SafeTypeOK, UnreadIntact, FirstSlash, Walking, Slash, NUL
  <2> QED
    BY <1>1, <2>1
    DEF Finish, ResultIsClean, KeptIsClean, CleanAt, Remaining, Kept, Walking, IInv,
        SafeTypeOK, FirstSlash, SlashAt, DotAt, DotDotAt, Ends, Slash, Dot, NUL
<1>2. CASE ~Finish
  BY <1>2
  DEF SafeNext, SafeStep, SafeCall, Skip, StartCopy, CopyByte, SkipSlash, SkipDot,
      Backtrack, AboveRoot, KeepSlash, safeVars, ResultIsClean,
      SlashAt, DotAt, DotDotAt, Ends
<1> QED
  BY <1>1, <1>2

\* Whatever the URL, what make_safe_url returns has no empty, "." or ".."
\* component left.
THEOREM SafeUrlIsClean == SafeSpec => []ResultIsClean
<1>1. SafeInit => KeptIsClean /\ ResultIsClean
  BY DEF SafeInit, KeptIsClean, Walking, ResultIsClean
<1> QED
  BY <1>1, InitIndexes, SafeIndexes, KeptStaysClean, FinishedIsClean, PTL DEF SafeSpec

-----------------------------------------------------------------------------
(***************************************************************************)
(* make_safe_url implements the walk over components.                      *)
(*                                                                         *)
(* Between two iterations the text is taken apart into what is kept and    *)
(* what is not read yet (At, in TextLemmas); a step of the walk happens    *)
(* when the last byte of a component has been read.                        *)
(***************************************************************************)

KeptText == Bytes(url, 0, Kept)
Unread   == Bytes(url, src, len)

\* Behind a run of slashes, what is kept ends in a slash exactly if the
\* caller's text did up to there.
TrailingSlash ==
  Walking /\ src > 0 /\ url[src] # Slash =>
    (given[src - 1] = Slash <=> Kept > 0 /\ url[Kept - 1] = Slash)

WalkInv == IInv /\ KeptIsClean /\ TrailingSlash

LEMMA SlashStaysLast ==
  ASSUME WalkInv, [SafeNext]_safeVars
  PROVE  TrailingSlash'
<1> USE DEF TrailingSlash, Walking, Kept
<1>a. IInv /\ KeptIsClean /\ TrailingSlash
  BY DEF WalkInv
<1>b. ASSUME pc = "copy", NEW i \in 0..(dst - 1), url[i] = Slash
      PROVE  IF i + 1 < dst THEN url[i + 1] # Slash ELSE url[src] # Slash
  BY <1>a, <1>b DEF KeptIsClean, CleanAt, Remaining, IInv, SafeTypeOK
<1>1. CASE pc = "idle" /\ \E text \in Seq(Byte) : SafeCall(text)
  BY <1>1 DEF SafeCall
<1>2. CASE Skip
  BY <1>a, <1>2, ReadInside DEF Skip, IInv, SafeTypeOK, UnreadIntact
<1>3. CASE StartCopy
  BY <1>a, <1>3 DEF StartCopy, CopyStart
<1>4. CASE CopyByte
  BY <1>a, <1>4, ReadInside DEF CopyByte, Write, IInv, SafeTypeOK, UnreadIntact
<1>5. CASE SkipSlash
  BY <1>a, <1>5 DEF SkipSlash, SlashAt, IInv, SafeTypeOK
<1>6. CASE SkipDot
  <2>1. src' > 0 => given'[src' - 1] = Dot
    BY <1>a, <1>6, ReadInside DEF SkipDot, DotAt, IInv, SafeTypeOK, UnreadIntact, Slash, NUL
  <2>2. dst > 0 => url[dst - 1] # Slash
    <3> SUFFICES ASSUME dst > 0 PROVE url[dst - 1] # Slash
      OBVIOUS
    <3>1. dst - 1 \in 0..(dst - 1) /\ ~(dst - 1 + 1 < dst)
      BY <1>a DEF IInv, SafeTypeOK
    <3> QED
      BY <1>6, <1>b, <3>1 DEF SkipDot
  <2> QED
    BY <1>6, <2>1, <2>2 DEF SkipDot, Slash, Dot
<1>7. CASE Backtrack
  <2>1. src' > 0 => given'[src' - 1] = Dot
    BY <1>a, <1>7, ReadInside
    DEF Backtrack, DotDotAt, PastDotDot, IInv, SafeTypeOK, UnreadIntact, Slash, Dot, NUL
  <2>2. PICK d \in 0..(dst - 1) : dst' = d /\ (url[d] = Slash \/ d = 0)
    BY <1>7 DEF Backtrack
  <2>3. dst \in Nat
    BY <1>a DEF IInv, SafeTypeOK
  <2>4. dst' > 0 => url[dst' - 1] # Slash
    <3> SUFFICES ASSUME d > 0 PROVE url[d - 1] # Slash
      BY <2>2
    <3>1. d - 1 \in 0..(dst - 1) /\ d - 1 + 1 = d /\ d < dst
      BY <2>3
    <3>2. url[d] = Slash
      BY <2>2
    <3> QED
      BY <1>7, <1>b, <3>1, <3>2 DEF Backtrack
  <2> QED
    BY <1>7, <2>1, <2>2, <2>4 DEF Backtrack, Slash, Dot
<1>8. CASE AboveRoot
  BY <1>8 DEF AboveRoot
<1>9. CASE KeepSlash
  BY <1>a, <1>9, ReadInside DEF KeepSlash, Write, IInv, SafeTypeOK, UnreadIntact, Slash, NUL
<1>10. CASE Finish
  BY <1>10 DEF Finish
<1>11. CASE UNCHANGED safeVars
  BY <1>a, <1>11 DEF safeVars
<1> QED
  BY <1>1, <1>2, <1>3, <1>4, <1>5, <1>6, <1>7, <1>8, <1>9, <1>10, <1>11
  DEF SafeNext, SafeStep

LEMMA WalkInvKept ==
  /\ SafeInit => WalkInv
  /\ WalkInv /\ [SafeNext]_safeVars => WalkInv'
<1>1. SafeInit => KeptIsClean /\ TrailingSlash
  BY DEF SafeInit, KeptIsClean, Walking, TrailingSlash
<1> QED
  BY <1>1, InitIndexes, SafeIndexes, KeptStaysClean, SlashStaysLast DEF WalkInv

\* The last name of a part of an array starts somewhere.
StartsName(buffer, k, d) ==
  /\ d = 0 \/ buffer[d - 1] = Slash
  /\ \A i \in d..(k - 1) : buffer[i] # Slash

LEMMA NameStarts ==
  ASSUME NEW buffer, NEW k \in Nat
  PROVE  \E d \in 0..k : StartsName(buffer, k, d)
<1> DEFINE T == {j \in Nat : j <= k /\ (k - j = 0 \/ buffer[k - j - 1] = Slash)}
<1>1. k \in T
  OBVIOUS
<1>2. PICK x \in T : \A y \in T : x <= y
  <2> HIDE DEF T
  <2>1. T \in SUBSET Nat
    BY DEF T
  <2> QED
    BY <1>1, <2>1, LeastNat
<1>3. k - x \in 0..k /\ (k - x = 0 \/ buffer[k - x - 1] = Slash)
  BY <1>2
<1>4. ASSUME NEW i \in (k - x)..(k - 1), buffer[i] = Slash PROVE FALSE
  <2>1. k - (i + 1) \in T /\ k - (i + 1) < x
    BY <1>2, <1>4
  <2> QED
    BY <1>2, <2>1
<1> QED
  BY <1>3, <1>4 DEF StartsName

LEMMA NameTakenOff ==
  ASSUME NEW buffer, NEW k \in Nat, PartIn(Byte, buffer, 0, k), NEW unread,
         NEW d \in 0..k, StartsName(buffer, k, d)
  PROVE  /\ Bytes(buffer, d, k) \in Word
         /\ Whole(Bytes(buffer, 0, k), unread, Bytes(buffer, 0, d),
                  Bytes(buffer, d, k) \o unread, Bytes(buffer, d, k))
<1>1. PartIn(Byte, buffer, 0, d) /\ PartIn(Byte \ {Slash}, buffer, d, k)
  BY DEF PartIn, StartsName
<1>2. Bytes(buffer, d, k) \in Word
  <2> DEFINE S == Byte \ {Slash}
  <2> HIDE DEF S
  <2>1. PartIn(S, buffer, d, k) /\ d \in Int /\ k \in Int /\ d <= k
    BY <1>1 DEF S
  <2>2. Bytes(buffer, d, k) \in Seq(S)
    BY <2>1, BytesType
  <2> QED
    BY <2>2 DEF S, Word
<1>3. /\ Bytes(buffer, 0, d) \in Seq(Byte)
      /\ Bytes(buffer, 0, k) = Bytes(buffer, 0, d) \o Bytes(buffer, d, k)
  <2>1. 0 \in Int /\ d \in Int /\ k \in Int /\ 0 <= d /\ d <= k
    OBVIOUS
  <2>2. Bytes(buffer, 0, d) \in Seq(Byte)
    BY <2>1, <1>1, BytesType
  <2>3. Bytes(buffer, 0, k) = Bytes(buffer, 0, d) \o Bytes(buffer, d, k)
    BY <2>1, BytesConcat
  <2> QED
    BY <2>2, <2>3
<1>4. NewName(Bytes(buffer, 0, d))
  <2>1. CASE d = 0
    <3>1. Bytes(buffer, 0, 0) = <<>>
      BY BytesEmpty
    <3> QED
      BY <2>1, <3>1 DEF NewName
  <2>2. CASE d # 0
    BY <2>2 DEF NewName, Bytes, StartsName
  <2> QED
    BY <2>1, <2>2
<1> QED
  BY <1>2, <1>3, <1>4 DEF Whole

\* The text is taken apart between two iterations.
LEMMA TextsWalked ==
  WalkInv /\ Walking =>
    /\ Kept \in 0..len /\ Kept <= src
    /\ PartIn(Byte, url, 0, Kept) /\ PartIn(Byte, url, src, len)
    /\ KeptText \in Seq(Byte) /\ Unread \in Seq(Byte)
    /\ Unread = <<>> <=> url[src] = NUL
    /\ Unread # <<>> => Head(Unread) = url[src]
    /\ At(KeptText, Unread, Done, ToRead)
<1> SUFFICES ASSUME WalkInv, Walking
             PROVE  /\ Kept \in 0..len /\ Kept <= src
                    /\ PartIn(Byte, url, 0, Kept) /\ PartIn(Byte, url, src, len)
                    /\ KeptText \in Seq(Byte) /\ Unread \in Seq(Byte)
                    /\ Unread = <<>> <=> url[src] = NUL
                    /\ Unread # <<>> => Head(Unread) = url[src]
                    /\ At(KeptText, Unread, Done, ToRead)
  OBVIOUS
<1>1. Kept \in 0..len /\ Kept <= src /\ src \in 0..len /\ len \in Nat
  BY DEF WalkInv, IInv, SafeTypeOK, UnreadIntact, Kept, Walking
<1>2. PartIn(Byte, url, 0, Kept) /\ PartIn(Byte, url, src, len)
  <2>1. \A i \in 0..(Kept - 1) : url[i] # NUL
    BY DEF WalkInv, KeptIsClean, CleanAt
  <2>2. \A i \in src..(len - 1) : url[i] # NUL
    BY <1>1 DEF WalkInv, IInv, GivenIsText, UnreadIntact
  <2>3. \A i \in 0..len : url[i] \in Byte \cup {NUL}
    BY DEF WalkInv, IInv, SafeTypeOK
  <2> QED
    BY <1>1, <2>1, <2>2, <2>3 DEF PartIn
<1>3. /\ KeptText \in Seq(Byte) /\ Unread \in Seq(Byte) /\ Len(Unread) = len - src
      /\ \A i \in 1..(len - src) : Unread[i] = url[src + i - 1]
  BY <1>1, <1>2, BytesType DEF KeptText, Unread
<1>4. url[len] = NUL /\ (src < len => url[src] # NUL)
  BY <1>1 DEF WalkInv, IInv, GivenIsText, UnreadIntact
<1>5. Unread = <<>> <=> url[src] = NUL
  BY <1>1, <1>3, <1>4
<1>6. Unread # <<>> => Head(Unread) = url[src]
  BY <1>1, <1>3
<1>7. InName(Unread) <=> MidName
  BY <1>5, <1>6 DEF InName, MidName, Ends
<1>8. ASSUME ~MidName PROVE At(KeptText, Unread, Done, ToRead)
  BY <1>7, <1>8 DEF At, Done, ToRead, KeptText, Unread
<1>9. ASSUME MidName PROVE At(KeptText, Unread, Done, ToRead)
  <2>1. Kept \in Nat
    BY <1>1
  <2>2. NameFrom \in 0..Kept /\ StartsName(url, Kept, NameFrom)
    BY <2>1, NameStarts DEF NameFrom, StartsName
  <2> HIDE DEF NameFrom
  <2>3. /\ Bytes(url, NameFrom, Kept) \in Word
        /\ Whole(KeptText, Unread, Bytes(url, 0, NameFrom),
                 Bytes(url, NameFrom, Kept) \o Unread, Bytes(url, NameFrom, Kept))
    BY <2>1, <2>2, <1>2, NameTakenOff DEF KeptText
  <2>4. Done = Bytes(url, 0, NameFrom) /\ ToRead = Bytes(url, NameFrom, Kept) \o Unread
    BY <1>9 DEF Done, ToRead, Unread
  <2> QED
    BY <1>7, <1>9, <2>3, <2>4 DEF At
<1> QED
  BY <1>1, <1>2, <1>3, <1>5, <1>6, <1>8, <1>9

\* What is read is taken off the text, and what is written is put to it.
LEMMA ReadOff ==
  ASSUME WalkInv, Walking, url[src] # NUL
  PROVE  /\ url[src] \in Byte /\ src + 1 \in 0..len
         /\ Unread = Cons(url[src], Bytes(url, src + 1, len))
         /\ \A a \in [0..len -> Byte \cup {NUL}] :
              (\A i \in 0..len : i # dst => a[i] = url[i]) =>
                 Bytes(a, src + 1, len) = Bytes(url, src + 1, len)
<1>1. /\ PartIn(Byte, url, src, len) /\ src \in 0..len /\ len \in Nat /\ src < len
      /\ dst <= src
  BY TextsWalked, ReadInside DEF WalkInv, IInv, SafeTypeOK, UnreadIntact
<1>2. url[src] \in Byte
  BY <1>1 DEF PartIn
<1>3. Unread = Cons(url[src], Bytes(url, src + 1, len))
  <2>1. src \in Int /\ len \in Int
    BY <1>1
  <2> QED
    BY <2>1, <1>1, BytesEnds DEF Unread
<1>4. ASSUME NEW a \in [0..len -> Byte \cup {NUL}], \A i \in 0..len : i # dst => a[i] = url[i]
      PROVE  Bytes(a, src + 1, len) = Bytes(url, src + 1, len)
  <2>1. \A i \in (src + 1)..(len - 1) : a[i] = url[i]
    BY <1>1, <1>4
  <2>2. src + 1 \in Int /\ len \in Int
    BY <1>1
  <2> QED
    BY <2>1, <2>2, BytesSame
<1> QED
  BY <1>1, <1>2, <1>3, <1>4

\* The texts behind a slash that starts "/." or "/..".
LEMMA DotsReadOff ==
  ASSUME WalkInv, Walking, url[src] # NUL, url[src + 1] # NUL
  PROVE  /\ src + 2 \in 0..len /\ Bytes(url, src + 2, len) \in Seq(Byte)
         /\ Unread = Cons(url[src], <<url[src + 1]>> \o Bytes(url, src + 2, len))
         /\ Ends(url[src + 2]) => ~InName(Bytes(url, src + 2, len))
         /\ url[src + 2] # NUL =>
              /\ src + 3 \in 0..len /\ Bytes(url, src + 3, len) \in Seq(Byte)
              /\ Bytes(url, src + 2, len) = Cons(url[src + 2], Bytes(url, src + 3, len))
              /\ Ends(url[src + 3]) => ~InName(Bytes(url, src + 3, len))
<1>1. /\ PartIn(Byte, url, src, len) /\ src \in 0..len /\ len \in Nat
      /\ src + 2 \in 0..len
      /\ url[src + 2] # NUL => src + 3 \in 0..len
  BY TextsWalked, ReadInside DEF WalkInv, IInv, SafeTypeOK
<1>2. Unread = Cons(url[src], Bytes(url, src + 1, len))
  BY ReadOff
<1>3. ASSUME NEW s \in 0..len, s >= src
      PROVE  /\ Bytes(url, s, len) \in Seq(Byte)
             /\ Ends(url[s]) => ~InName(Bytes(url, s, len))
  <2>1. s \in Int /\ len \in Int /\ s <= len /\ PartIn(Byte, url, s, len)
    BY <1>1, <1>3 DEF PartIn
  <2> DEFINE t == Bytes(url, s, len)
  <2>2. /\ t \in Seq(Byte) /\ Len(t) = len - s
        /\ \A i \in 1..(len - s) : t[i] = url[s + i - 1]
    BY <2>1, BytesType
  <2> HIDE DEF t
  <2>3. ASSUME t # <<>> PROVE Head(t) = url[s] /\ s \in src..(len - 1)
    <3>1. 1 \in 1..(len - s) /\ s + 1 - 1 = s /\ s \in src..(len - 1)
      BY <2>1, <2>2, <2>3, <1>1, <1>3
    <3>2. t[1] = url[s]
      BY <2>2, <3>1
    <3> QED
      BY <2>2, <2>3, <3>1, <3>2
  <2>4. \A i \in src..(len - 1) : url[i] # NUL
    BY <1>1 DEF PartIn, Byte, NUL
  <2>5. Ends(url[s]) => ~InName(t)
    BY <2>3, <2>4 DEF Ends, InName
  <2> QED
    BY <2>2, <2>5 DEF t
<1>4. ASSUME NEW s \in 0..len, NEW more \in 0..len, more = s + 1, s >= src
      PROVE  Bytes(url, s, len) = Cons(url[s], Bytes(url, more, len))
  <2>1. s \in Int /\ len \in Int /\ s < len /\ PartIn(Byte, url, s, len)
    BY <1>1, <1>4 DEF PartIn
  <2> QED
    BY <2>1, <1>4, BytesEnds
<1>5. Bytes(url, src + 1, len) = Cons(url[src + 1], Bytes(url, src + 2, len))
  <2>1. src + 1 \in 0..len /\ src + 2 = src + 1 + 1 /\ src + 1 >= src
    BY <1>1
  <2> QED
    BY <2>1, <1>1, <1>4
<1>6. url[src + 2] # NUL =>
        Bytes(url, src + 2, len) = Cons(url[src + 2], Bytes(url, src + 3, len))
  <2>1. src + 3 = src + 2 + 1 /\ src + 2 >= src
    BY <1>1
  <2> QED
    BY <2>1, <1>1, <1>4
<1>7. src + 2 >= src /\ src + 3 >= src
  BY <1>1
<1> QED
  BY <1>1, <1>2, <1>3, <1>5, <1>6, <1>7 DEF Cons

LEMMA ByteKept ==
  ASSUME WalkInv, WalkInv', Skip \/ CopyByte \/ KeepSlash
  PROVE  /\ Walking /\ Walking' /\ url[src] \in Byte
         /\ KeptText' = Append(KeptText, url[src])
         /\ Unread = Cons(url[src], Unread')
<1>1. Walking /\ Walking' /\ url[src] # NUL
  BY DEF Skip, CopyByte, KeepSlash, Walking, Slash, NUL
<1>2. /\ url[src] \in Byte /\ src + 1 \in 0..len
      /\ Unread = Cons(url[src], Bytes(url, src + 1, len))
  BY <1>1, ReadOff
<1>3. /\ len \in Nat /\ len' = len /\ src' = src + 1 /\ src \in 0..len /\ dst \in 0..len
      /\ url \in [0..len -> Byte \cup {NUL}] /\ url' \in [0..len -> Byte \cup {NUL}]
      /\ dst <= src
  BY <1>1 DEF Skip, CopyByte, KeepSlash, WalkInv, IInv, SafeTypeOK, UnreadIntact
<1>4. CASE Skip
  <2>1. KeptText = Bytes(url, 0, src) /\ KeptText' = Bytes(url, 0, src + 1)
        /\ Unread' = Bytes(url, src + 1, len)
    BY <1>4 DEF Skip, KeptText, Kept, Unread
  <2>2. PartIn(Byte, url, 0, src + 1)
    <3>1. PartIn(Byte, url, 0, src)
      BY <1>1, <1>4, TextsWalked DEF Skip, Kept
    <3> QED
      BY <3>1, <1>2, <1>3 DEF PartIn
  <2>3. Bytes(url, 0, src + 1) = Append(Bytes(url, 0, src), url[src])
    BY <1>3, <2>2, BytesGrow
  <2> QED
    BY <1>1, <1>2, <2>1, <2>3
<1>5. CASE CopyByte \/ KeepSlash
  <2>1. /\ KeptText = Bytes(url, 0, dst) /\ KeptText' = Bytes(url', 0, dst + 1)
        /\ Unread' = Bytes(url', src + 1, len)
        /\ url' = [url EXCEPT ![dst] = url[src]]
    BY <1>5 DEF CopyByte, KeepSlash, Write, KeptText, Kept, Unread
  <2>2. url'[dst] = url[src] /\ \A i \in 0..len : i # dst => url'[i] = url[i]
    BY <1>3, <2>1
  <2>3. Unread' = Bytes(url, src + 1, len)
    BY <1>1, <1>3, <2>1, <2>2, ReadOff
  <2>4. PartIn(Byte, url', 0, dst + 1) /\ \A i \in 0..(dst - 1) : url'[i] = url[i]
    <3>1. PartIn(Byte, url, 0, dst)
      BY <1>1, <1>5, TextsWalked DEF CopyByte, KeepSlash, Kept
    <3> QED
      BY <3>1, <1>2, <1>3, <2>2 DEF PartIn
  <2>5. Bytes(url', 0, dst + 1) = Append(Bytes(url', 0, dst), url'[dst])
    <3> DEFINE a == url'
    <3> HIDE DEF a
    <3>1. PartIn(Byte, a, 0, dst + 1) /\ dst \in Nat
      BY <1>3, <2>4 DEF a
    <3>2. Bytes(a, 0, dst + 1) = Append(Bytes(a, 0, dst), a[dst])
      BY <3>1, BytesGrow
    <3> QED
      BY <3>2 DEF a
  <2>6. 0 \in Int /\ dst \in Int
    BY <1>3
  <2>7. Bytes(url', 0, dst) = Bytes(url, 0, dst)
    <3> DEFINE a == url'
    <3> HIDE DEF a
    <3>1. \A i \in 0..(dst - 1) : a[i] = url[i]
      BY <2>4 DEF a
    <3>2. Bytes(a, 0, dst) = Bytes(url, 0, dst)
      BY <3>1, <2>6, BytesSame
    <3> QED
      BY <3>2 DEF a
  <2> QED
    BY <1>1, <1>2, <2>1, <2>2, <2>3, <2>5, <2>6, <2>7
<1> QED
  BY <1>4, <1>5

\* A name that is complete is neither "." nor "..": their slash would not
\* have been kept.
LastNameIsPlain ==
  \A before \in Seq(Byte), name \in Name :
    NewName(before) /\ KeptText = before \o name => name \notin {<<Dot>>, <<Dot, Dot>>}

LEMMA KeptNameIsPlain ==
  WalkInv /\ Walking /\ Ends(url[src]) => LastNameIsPlain
<1> SUFFICES ASSUME WalkInv, Walking, Ends(url[src]),
                    NEW before \in Seq(Byte), NEW name \in Name,
                    NewName(before), KeptText = before \o name
             PROVE  name \notin {<<Dot>>, <<Dot, Dot>>}
  BY DEF LastNameIsPlain
<1> DEFINE n == Len(before)
<1>1. /\ Kept \in Nat /\ Len(KeptText) = Kept
      /\ \A i \in 1..Kept : KeptText[i] = url[i - 1]
  <2>1. PartIn(Byte, url, 0, Kept) /\ Kept \in Nat
    BY TextsWalked DEF WalkInv, IInv, SafeTypeOK
  <2>2. 0 \in Int /\ Kept \in Int /\ 0 <= Kept
    BY <2>1
  <2>3. /\ Len(Bytes(url, 0, Kept)) = Kept - 0
        /\ \A i \in 1..(Kept - 0) : Bytes(url, 0, Kept)[i] = url[0 + i - 1]
    <3> DEFINE t == Bytes(url, 0, Kept)
    <3>1. Len(t) = Kept - 0 /\ \A i \in 1..(Kept - 0) : t[i] = url[0 + i - 1]
      BY <2>1, <2>2, BytesType
    <3> QED
      BY <3>1
  <2>4. /\ Len(KeptText) = Kept - 0
        /\ \A i \in 1..(Kept - 0) : KeptText[i] = url[0 + i - 1]
    BY <2>3 DEF KeptText
  <2> QED
    BY <2>1, <2>4
<1>2. before # <<>>
  <2> SUFFICES ASSUME before = <<>> PROVE FALSE
    OBVIOUS
  <2>1. name \in Seq(Byte \ {Slash}) /\ name # <<>> /\ name \in Seq(Byte)
    BY NameIsText DEF Name, PartsOver
  <2>2. KeptText = name
    BY <2>1
  <2>3. 1 \in 1..Kept /\ name[1] # Slash
    BY <1>1, <2>1, <2>2
  <2>4. url[0] = Slash
    BY DEF WalkInv, IInv, FirstSlash
  <2> QED
    BY <1>1, <2>2, <2>3, <2>4
<1>3. /\ n \in Nat \ {0} /\ name \in Seq(Byte) /\ Kept = n + Len(name)
      /\ KeptText[n] = before[n]
      /\ \A i \in 1..Len(name) : KeptText[n + i] = name[i]
  <2>1. name \in Seq(Byte)
    BY NameIsText
  <2> QED
    BY <2>1, <1>1, <1>2, ConcatIs
<1>4. n - 1 \in 0..(Kept - 1) \/ name = <<>>
  BY <1>1, <1>3
<1>5. url[n - 1] = Slash
  <2>1. before[n] = Slash
    BY <1>2 DEF NewName
  <2>2. n \in 1..Kept
    BY <1>1, <1>3
  <2> QED
    BY <2>1, <2>2, <1>1, <1>3
<1>6. Kept > n => CleanAt(n - 1)
  BY <1>1, <1>3, <1>4 DEF WalkInv, KeptIsClean
<1> HIDE DEF n
<1>7. name # <<Dot>>
  <2> SUFFICES ASSUME name = <<Dot>> PROVE FALSE
    OBVIOUS
  <2>1. Kept = n + 1 /\ url[n] = Dot
    <3>1. Len(name) = 1 /\ name[1] = Dot
      OBVIOUS
    <3> QED
      BY <3>1, <1>1, <1>3
  <2>2. n - 1 + 1 = n /\ n - 1 + 2 = n + 1 /\ n < Kept /\ ~(n + 1 < Kept) /\ n + 1 - Kept = 0
        /\ src + 0 = src
    BY <2>1, <1>3 DEF WalkInv, IInv, SafeTypeOK
  <2> QED
    BY <2>1, <2>2, <1>5, <1>6 DEF CleanAt, Remaining
<1>8. name # <<Dot, Dot>>
  <2> SUFFICES ASSUME name = <<Dot, Dot>> PROVE FALSE
    OBVIOUS
  <2>1. Kept = n + 2 /\ url[n] = Dot /\ url[n + 1] = Dot
    <3>1. Len(name) = 2 /\ name[1] = Dot /\ name[2] = Dot
      OBVIOUS
    <3> QED
      BY <3>1, <1>1, <1>3
  <2>2. n - 1 + 1 = n /\ n - 1 + 2 = n + 1 /\ n - 1 + 3 = n + 2 /\ n < Kept /\ n + 1 < Kept
        /\ ~(n + 2 < Kept) /\ n + 2 - Kept = 0 /\ src + 0 = src
    BY <2>1, <1>3 DEF WalkInv, IInv, SafeTypeOK
  <2> QED
    BY <2>1, <2>2, <1>5, <1>6 DEF CleanAt, Remaining
<1> QED
  BY <1>7, <1>8

\* The walk's texts are these.
LEMMA SameTexts ==
  /\ W!Slash = Slash /\ W!Byte = Byte
  /\ W!DotDir = <<Dot>> /\ W!DotDotDir = <<Dot, Dot>>
  /\ \A t : /\ W!Components(t) = Components(t)
            /\ W!Joined(t) = Joined(t)
            /\ W!EndsInSlash(t) = EndsInSlash(t)
<1>1. W!Slash = Slash /\ W!Byte = Byte /\ W!Dot = Dot
  BY DEF W!Slash, W!Byte, W!Dot, Slash, Byte, Dot
<1>2. \A t, separators : W!Split(t, separators) = Split(t, separators)
  BY Zenon DEF W!Split, Split
<1>3. \A t : W!Components(t) = Components(t)
  BY <1>1, <1>2 DEF W!Components, Components
<1>4. \A t : W!FlattenSeq(t) = FlattenSeq(t)
  BY Zenon DEF W!FlattenSeq, FlattenSeq
<1>5. \A t : W!Joined(t) = Joined(t)
  BY <1>1, <1>4 DEF W!Joined, Joined
<1>6. \A t : W!EndsInSlash(t) = EndsInSlash(t)
  <2>1. \A t : W!Last(t) = Last(t)
    BY DEF W!Last, Last
  <2> QED
    BY <1>1, <2>1 DEF W!EndsInSlash, EndsInSlash
<1> QED
  BY <1>1, <1>3, <1>5, <1>6 DEF W!DotDir, W!DotDotDir

\* Between two iterations of the copying, a step of the walk is one of these.
LEMMA WalkStutters ==
  ASSUME Walking, Walking', UNCHANGED <<given, len>>,
         Components(ToRead)' = Components(ToRead), Components(Done)' = Components(Done)
  PROVE  UNCHANGED W!walkVars
BY DEF W!walkVars, Walking

LEMMA WalkTakes ==
  ASSUME Walking, Walking', UNCHANGED <<given, len>>,
         NEW name \in Name, Components(ToRead) = Cons(name, Components(ToRead)'),
         Components(ToRead)' \in Seq(Name),
         \/ name = <<Dot>> /\ Components(Done)' = Components(Done)
         \/ /\ name = <<Dot, Dot>>
            /\ Components(Done) # <<>> /\ Components(Done)' = Front(Components(Done))
         \/ /\ name \notin {<<Dot>>, <<Dot, Dot>>}
            /\ Components(Done)' = Append(Components(Done), name)
  PROVE  W!Take
<1> DEFINE before == Components(ToRead)
           after == Components(ToRead)'
<1>1. before # <<>> /\ Head(before) = name /\ Tail(before) = after
  <2>1. before = Cons(name, after) /\ after \in Seq(Name)
    OBVIOUS
  <2> HIDE DEF before, after
  <2> QED
    BY <2>1 DEF Cons
<1>2. \A t : W!Front(t) = Front(t)
  BY DEF W!Front, Front
<1> QED
  BY <1>1, <1>2, SameTexts DEF W!Take, Walking

\* Going back to the previous slash drops the last name that is kept.
LEMMA NameDropped ==
  ASSUME WalkInv, Backtrack
  PROVE  /\ Components(KeptText) # <<>>
         /\ Components(KeptText') = Front(Components(KeptText))
<1>1. /\ Walking /\ Kept = dst /\ dst \in Nat \ {0} /\ url[src] = Slash
      /\ url' = url /\ Kept' = dst'
  BY DEF Backtrack, Walking, Kept, WalkInv, IInv, SafeTypeOK
<1>2. PICK d \in 0..(dst - 1) :
        /\ dst' = d /\ url[d] = Slash /\ \A i \in (d + 1)..(dst - 1) : url[i] # Slash
  <2>1. url[0] = Slash
    BY <1>1 DEF WalkInv, IInv, FirstSlash
  <2> QED
    BY <2>1 DEF Backtrack
<1>3. PartIn(Byte, url, 0, dst)
  BY <1>1, TextsWalked
<1>4. d + 1 < dst
  <2>1. CleanAt(dst - 1)
    BY <1>1 DEF WalkInv, KeptIsClean
  <2>2. url[dst - 1] # Slash
    BY <1>1, <2>1 DEF CleanAt, Remaining, WalkInv, IInv, SafeTypeOK
  <2> QED
    BY <1>1, <1>2, <2>2
<1> DEFINE a == Bytes(url, 0, d)
           mid == d + 1
           name == Bytes(url, mid, dst)
<1>5. a \in Seq(Byte) /\ Bytes(url, 0, mid) = Append(a, Slash)
  <2>1. PartIn(Byte, url, 0, d) /\ PartIn(Byte, url, 0, d + 1) /\ d \in Nat
    BY <1>1, <1>2, <1>3 DEF PartIn
  <2>2. 0 \in Int /\ d \in Int /\ 0 <= d
    BY <2>1
  <2> QED
    BY <2>1, <2>2, <1>2, BytesGrow, BytesType
<1>6. mid \in Int /\ 0 \in Int /\ dst \in Int /\ 0 <= mid /\ mid < dst /\ mid <= dst
  BY <1>1, <1>4
<1>7. PartIn(Byte \ {Slash}, url, mid, dst)
  BY <1>2, <1>3 DEF PartIn
<1> HIDE DEF mid
<1>8. name \in Name
  <2> DEFINE S == Byte \ {Slash}
  <2> HIDE DEF S
  <2>1. PartIn(S, url, mid, dst)
    BY <1>7 DEF S
  <2>2. name \in Seq(S) /\ Len(name) = dst - mid
    BY <1>6, <2>1, BytesType
  <2>3. name # <<>>
    BY <1>6, <2>2
  <2> QED
    BY <2>2, <2>3 DEF S, Name, PartsOver
<1>9. Bytes(url, 0, dst) = Bytes(url, 0, mid) \o name
  BY <1>3, <1>6, BytesConcat
<1>10. KeptText = Append(a, Slash) \o name /\ KeptText' = a
  BY <1>1, <1>2, <1>5, <1>9 DEF KeptText
<1> HIDE DEF a, name
<1>11. /\ Components(KeptText) = Append(Components(a), name)
       /\ Front(Components(KeptText)) = Components(a)
  BY <1>5, <1>8, <1>10, DropName
<1>12. Components(KeptText) # <<>>
  <2> DEFINE names == Components(a)
  <2>1. names \in Seq(Name)
    BY <1>5, ComponentsType
  <2> HIDE DEF names
  <2>2. Append(names, name) # <<>>
    BY <1>8, <2>1, AppendProperties
  <2> QED
    BY <1>11, <2>2 DEF names
<1>13. Components(KeptText') = Components(a)
  BY <1>10
<1> QED
  BY <1>11, <1>12, <1>13

\* What is returned is the path of what was kept.
LEMMA FinishedText ==
  ASSUME WalkInv, Finish
  PROVE  Bytes(url', 0, dst') =
           Joined(Components(KeptText)) \o
             IF Components(KeptText) = <<>> \/ EndsInSlash(Bytes(given, 0, len))
             THEN <<Slash>> ELSE <<>>
<1>1. /\ Walking /\ src = len /\ dst <= src /\ len \in Nat \ {0} /\ Kept = dst /\ dst \in Nat
      /\ url[0] = Slash /\ url[src] = NUL /\ pc = "copy"
  BY ReadInside
  DEF Finish, WalkInv, IInv, SafeTypeOK, UnreadIntact, FirstSlash, Walking, Kept, Slash, NUL
<1>2. /\ dst' = IF dst = 0 THEN 1 ELSE dst
      /\ url' = [url EXCEPT ![dst'] = NUL]
      /\ url \in [0..len -> Byte \cup {NUL}]
  BY DEF Finish, WalkInv, IInv, SafeTypeOK
<1>3. \A i \in 0..(dst' - 1) : url'[i] = url[i]
  BY <1>1, <1>2
<1>4. Bytes(url', 0, dst') = Bytes(url, 0, dst')
  <2> DEFINE a == url'
             k == dst'
  <2>1. k \in Int /\ 0 \in Int /\ \A i \in 0..(k - 1) : a[i] = url[i]
    BY <1>1, <1>2, <1>3
  <2> HIDE DEF a, k
  <2>2. Bytes(a, 0, k) = Bytes(url, 0, k)
    BY <2>1, BytesSame
  <2> QED
    BY <2>2 DEF a, k
<1>5. CASE dst = 0
  <2>1. Components(KeptText) = <<>>
    <3>1. KeptText = Bytes(url, 0, 0)
      BY <1>1, <1>5 DEF KeptText
    <3> QED
      BY <3>1, BytesEmpty, ComponentsEmpty
  <2>2. Bytes(url, 0, 1) = <<Slash>>
    BY <1>1 DEF Bytes
  <2>3. Bytes(url', 0, dst') = <<Slash>>
    BY <1>2, <1>4, <1>5, <2>2
  <2>4. Joined(Components(KeptText)) = <<>>
    BY <2>1, JoinedEmpty
  <2>5. <<>> \o <<Slash>> = <<Slash>>
    OBVIOUS
  <2> QED
    BY <2>1, <2>3, <2>4, <2>5
<1>6. CASE dst # 0
  <2>1. /\ PartIn(Byte, url, 0, dst) /\ KeptText = Bytes(url, 0, dst)
        /\ KeptText = Bytes(url', 0, dst')
    BY <1>1, <1>2, <1>4, <1>6, TextsWalked DEF KeptText
  <2>2. /\ KeptText \in Seq(Byte) /\ Len(KeptText) = dst
        /\ \A i \in 1..dst : KeptText[i] = url[i - 1]
    <3> DEFINE t == Bytes(url, 0, dst)
    <3>1. 0 \in Int /\ dst \in Int /\ 0 <= dst /\ dst - 0 = dst
      BY <1>1
    <3>2. t \in Seq(Byte) /\ Len(t) = dst - 0 /\ \A i \in 1..(dst - 0) : t[i] = url[0 + i - 1]
      BY <2>1, <3>1, BytesType
    <3> HIDE DEF t
    <3>3. t \in Seq(Byte) /\ Len(t) = dst /\ \A i \in 1..dst : t[i] = url[i - 1]
      BY <3>1, <3>2
    <3> QED
      BY <2>1, <3>3 DEF t
  <2>3. OneSlashEach(KeptText)
    <3>1. KeptText # <<>> => KeptText[1] = Slash
      BY <1>1, <1>6, <2>2
    <3>2. ASSUME NEW i \in 1..(dst - 1), url[i - 1] = Slash PROVE url[i] # Slash
      <4>1. i - 1 \in 0..(Kept - 1) /\ i - 1 + 1 = i /\ i < Kept
        BY <1>1
      <4>2. CleanAt(i - 1)
        BY <1>1, <4>1 DEF WalkInv, KeptIsClean
      <4> QED
        BY <3>2, <4>1, <4>2 DEF CleanAt, Remaining
    <3>3. \A i \in 1..(dst - 1) : KeptText[i] = url[i - 1] /\ KeptText[i + 1] = url[i]
      <4> TAKE i \in 1..(dst - 1)
      <4>1. i \in 1..dst /\ i + 1 \in 1..dst /\ i + 1 - 1 = i
        BY <1>1
      <4> QED
        BY <4>1, <2>2
    <3> QED
      BY <2>2, <3>1, <3>2, <3>3 DEF OneSlashEach
  <2>4. KeptText = Joined(Components(KeptText)) \o
                     IF EndsInSlash(KeptText) THEN <<Slash>> ELSE <<>>
    BY <2>2, <2>3, JoinedComponents
  <2>5. EndsInSlash(KeptText) <=> url[dst - 1] = Slash
    BY <1>1, <1>6, <2>2 DEF EndsInSlash, Last
  <2>6. EndsInSlash(Bytes(given, 0, len)) <=> given[len - 1] = Slash
    <3>1. Bytes(given, 0, len) # <<>> /\ Len(Bytes(given, 0, len)) = len
          /\ Bytes(given, 0, len)[len] = given[len - 1]
      BY <1>1 DEF Bytes
    <3> QED
      BY <3>1 DEF EndsInSlash, Last
  <2>7. given[len - 1] = Slash <=> url[dst - 1] = Slash
    BY <1>1, <1>6 DEF WalkInv, TrailingSlash, Slash, NUL
  <2>8. ASSUME Components(KeptText) = <<>> PROVE EndsInSlash(KeptText)
    <3> DEFINE separators == {Slash}
    <3> SUFFICES ASSUME KeptText[Len(KeptText)] # Slash PROVE FALSE
      BY <1>1, <1>6, <2>2 DEF EndsInSlash, Last
    <3>1. KeptText # <<>> /\ KeptText[Len(KeptText)] \notin separators
      BY <1>1, <1>6, <2>2
    <3> HIDE DEF separators
    <3>2. PICK a \in Seq(Byte), name \in PartsOver(Byte, separators) :
            KeptText = a \o name /\ (a = <<>> \/ a[Len(a)] \in separators)
      BY <2>2, <3>1, EndsInName
    <3>3. name \in Name /\ (a = <<>> \/ a[Len(a)] = Slash)
      BY <3>2 DEF separators, Name
    <3>4. Components(a \o name) = Append(Components(a), name) /\ Components(a) \in Seq(Name)
      BY <3>3, ComponentsAddName, ComponentsType
    <3> DEFINE names == Components(a)
    <3> HIDE DEF names
    <3>5. Append(names, name) # <<>>
      BY <3>3, <3>4, AppendProperties DEF names
    <3> QED
      BY <2>8, <3>2, <3>4, <3>5 DEF names
  <2>9. Components(KeptText) = <<>> \/ EndsInSlash(Bytes(given, 0, len))
          <=> EndsInSlash(KeptText)
    BY <2>5, <2>6, <2>7, <2>8
  <2> QED
    BY <2>1, <2>4, <2>9
<1> QED
  BY <1>5, <1>6

LEMMA BytesOfBuffer ==
  ASSUME NEW text \in Seq(Byte)
  PROVE  Bytes(Buffer(text), 0, Len(text)) = text
<1>1. PartIn(Byte, Buffer(text), 0, Len(text))
  BY BufferType DEF PartIn
<1> DEFINE b == Buffer(text)
           n == Len(text)
           t == Bytes(b, 0, n)
<1>2. \A i \in 1..n : b[i - 1] = text[i]
  BY DEF Buffer
<1>3. 0 \in Int /\ n \in Int /\ 0 <= n /\ n - 0 = n /\ PartIn(Byte, b, 0, n)
  BY <1>1
<1> HIDE DEF b
<1>4. t \in Seq(Byte) /\ Len(t) = n - 0 /\ \A i \in 1..(n - 0) : t[i] = b[0 + i - 1]
  BY <1>3, BytesType
<1>5. Len(t) = Len(text) /\ \A i \in 1..Len(t) : t[i] = text[i]
  BY <1>2, <1>3, <1>4
<1> HIDE DEF t
<1>6. t = text
  BY <1>4, <1>5, SeqEqual
<1> QED
  BY <1>6 DEF t, b

LEMMA StepOfWalk ==
  ASSUME WalkInv, WalkInv', SafeNext
  PROVE  W!Next \/ UNCHANGED W!walkVars
<1>1. CASE pc = "idle" /\ \E text \in Seq(Byte) : SafeCall(text)
  <2>1. PICK text \in Seq(Byte) : SafeCall(text)
    BY <1>1
  <2>2. /\ len' = Len(text) /\ Len(text) \in Nat
        /\ Bytes(given', 0, len') = text /\ Bytes(url', 0, len') = text
        /\ src' = 0 /\ dst' = 0 /\ url'[0] = Buffer(text)[0]
    <3>1. Bytes(Buffer(text), 0, Len(text)) = text
      BY BytesOfBuffer
    <3> QED
      BY <2>1, <3>1 DEF SafeCall
  <2>3. text = <<>> => Buffer(text)[0] = NUL
    BY DEF Buffer
  <2>4. text # <<>> => Buffer(text)[0] = Head(text)
    BY DEF Buffer
  <2>5. /\ (IF Walking THEN Components(ToRead) ELSE <<>>) = <<>>
        /\ (IF Walking THEN Components(Done) ELSE <<>>) = <<>>
        /\ (IF pc = "safe" THEN Bytes(url, 0, dst) ELSE <<>>) = <<>>
        /\ (IF Walking THEN "walking" ELSE pc) = "idle"
    BY <1>1 DEF Walking
  <2>6. CASE text = <<>> \/ Head(text) # Slash
    <3>1. pc' = "illegal" /\ ~Walking'
      BY <2>1, <2>3, <2>4, <2>6 DEF SafeCall, Walking, Slash, NUL
    <3> QED
      BY <2>2, <2>5, <2>6, <3>1, SameTexts DEF W!Next, W!Begin, W!Refuse
  <2>7. CASE text # <<>> /\ Head(text) = Slash
    <3>1. pc' = "skip" /\ Walking' /\ url'[0] = Slash /\ ~MidName' /\ Kept' = 0
      BY <2>1, <2>2, <2>4, <2>7 DEF SafeCall, Walking, MidName, Ends, Kept
    <3>2. ToRead' = text /\ Done' = Bytes(url', 0, 0)
      BY <2>2, <3>1 DEF ToRead, Done
    <3>3. Components(Done)' = <<>> /\ Components(ToRead)' = Components(text)
      BY <3>2, BytesEmpty, ComponentsEmpty
    <3> QED
      BY <2>2, <2>5, <2>7, <3>1, <3>3, SameTexts DEF W!Next, W!Begin
  <2> QED
    BY <2>6, <2>7
<1> DEFINE Reading == /\ Walking /\ KeptText \in Seq(Byte) /\ Unread \in Seq(Byte)
                      /\ Unread = <<>> <=> url[src] = NUL
                      /\ Unread # <<>> => Head(Unread) = url[src]
                      /\ At(KeptText, Unread, Done, ToRead)
<1>2. Walking => Reading
  BY TextsWalked
<1>3. (Walking => Reading)'
  BY TextsWalked, PTL
<1>4. CASE (Skip \/ CopyByte) /\ url[src] # Slash
  <2>1. /\ Walking /\ Walking' /\ url[src] \in Byte
        /\ KeptText' = Append(KeptText, url[src])
        /\ Unread = Cons(url[src], Unread')
    BY <1>4, ByteKept
  <2>2. /\ KeptText \in Seq(Byte) /\ Unread' \in Seq(Byte)
        /\ At(KeptText, Cons(url[src], Unread'), Done, ToRead)
        /\ At(Append(KeptText, url[src]), Unread', Done', ToRead')
    BY <1>2, <1>3, <2>1
  <2>3. UNCHANGED <<given, len>>
    BY <1>4 DEF Skip, CopyByte
  <2>4. CASE InName(Unread')
    <3>1. Done' = Done /\ ToRead' = ToRead
      BY <1>4, <2>1, <2>2, <2>4, KeepByte
    <3>2. Components(Done)' = Components(Done) /\ Components(ToRead)' = Components(ToRead)
      BY <3>1
    <3> QED
      BY <2>1, <2>3, <3>2, WalkStutters
  <2>5. CASE ~InName(Unread')
    <3>1. PICK name \in Name :
            /\ Done \in Seq(Byte) /\ NewName(Done)
            /\ Append(KeptText, url[src]) = Done \o name
            /\ Components(ToRead) = Cons(name, Components(ToRead'))
            /\ Components(Done') = Append(Components(Done), name)
      <4> DEFINE kept == KeptText
                 more == Unread'
                 c == url[src]
                 done2 == Done'
                 toread2 == ToRead'
      <4>1. /\ kept \in Seq(Byte) /\ more \in Seq(Byte) /\ c \in Byte /\ c # Slash
            /\ At(kept, Cons(c, more), Done, ToRead)
            /\ At(Append(kept, c), more, done2, toread2)
            /\ ~InName(more)
        BY <1>4, <2>1, <2>2, <2>5
      <4> HIDE DEF kept, more, c, done2, toread2
      <4>2. \E name \in Name :
              /\ Done \in Seq(Byte) /\ NewName(Done)
              /\ Append(kept, c) = Done \o name
              /\ Components(ToRead) = Cons(name, Components(toread2))
              /\ Components(done2) = Append(Components(Done), name)
        BY <4>1, KeepByte
      <4> QED
        BY <4>2 DEF kept, c, done2, toread2
    <3>2. Ends(url'[src'])
      BY <1>3, <2>1, <2>5 DEF InName, Ends
    <3>3. name \notin {<<Dot>>, <<Dot, Dot>>}
      <4>1. (WalkInv /\ Walking /\ Ends(url[src]) => LastNameIsPlain)'
        BY KeptNameIsPlain, PTL
      <4> QED
        BY <2>1, <3>1, <3>2, <4>1 DEF LastNameIsPlain
    <3>4. Components(ToRead)' \in Seq(Name)
      <4>1. ToRead' \in Seq(Byte)
        BY <2>2, <2>5 DEF At
      <4> QED
        BY <4>1, ComponentsType
    <3>5. W!Take
      BY <2>1, <2>3, <3>1, <3>3, <3>4, WalkTakes
    <3> QED
      BY <3>5 DEF W!Next
  <2> QED
    BY <2>4, <2>5
<1>5. CASE (Skip \/ KeepSlash) /\ url[src] = Slash
  <2>1. /\ Walking /\ Walking'
        /\ KeptText' = Append(KeptText, Slash)
        /\ Unread = Cons(Slash, Unread')
    BY <1>5, ByteKept
  <2>2. /\ KeptText \in Seq(Byte) /\ Unread' \in Seq(Byte)
        /\ At(KeptText, Cons(Slash, Unread'), Done, ToRead)
        /\ At(Append(KeptText, Slash), Unread', Done', ToRead')
    BY <1>2, <1>3, <2>1
  <2>3. UNCHANGED <<given, len>>
    BY <1>5 DEF Skip, KeepSlash
  <2>4. Components(ToRead') = Components(ToRead) /\ Components(Done') = Components(Done)
    BY <2>2, KeepSlashes
  <2> QED
    BY <2>1, <2>3, <2>4, WalkStutters
<1>6. CASE SkipSlash
  <2>1. /\ Walking /\ Walking' /\ url[src] # NUL /\ UNCHANGED <<given, len>>
        /\ KeptText' = KeptText /\ Unread' = Bytes(url, src + 1, len)
        /\ url'[src'] = Slash
    BY <1>6 DEF SkipSlash, SlashAt, Walking, KeptText, Kept, Unread, Slash, NUL
  <2>2. Unread = Cons(Slash, Unread')
    BY <1>6, <2>1, ReadOff DEF SkipSlash
  <2>3. /\ KeptText \in Seq(Byte) /\ Unread' \in Seq(Byte)
        /\ At(KeptText, Cons(Slash, Unread'), Done, ToRead)
        /\ At(KeptText, Unread', Done', ToRead') /\ ~InName(Unread')
    BY <1>2, <1>3, <2>1, <2>2 DEF InName
  <2>4. Components(ToRead') = Components(ToRead) /\ Components(Done') = Components(Done)
    BY <2>3, KeepSlashes
  <2> QED
    BY <2>1, <2>4, WalkStutters
<1>7. CASE StartCopy
  <2>1. Walking /\ Walking' /\ UNCHANGED <<given, len>> /\ ToRead' = ToRead /\ Done' = Done
    BY <1>7 DEF StartCopy, CopyStart, Walking, ToRead, Done, MidName, NameFrom, Kept
  <2>2. Components(ToRead') = Components(ToRead) /\ Components(Done') = Components(Done)
    BY <2>1
  <2> QED
    BY <2>1, <2>2, WalkStutters
<1>8. CASE SkipDot
  <2>1. /\ Walking /\ Walking' /\ url[src] = Slash /\ url[src + 1] = Dot /\ Ends(url[src + 2])
        /\ url[src] # NUL /\ url[src + 1] # NUL /\ UNCHANGED <<given, len>>
        /\ KeptText' = KeptText /\ Unread' = Bytes(url, src + 2, len)
    BY <1>8 DEF SkipDot, DotAt, Walking, KeptText, Kept, Unread, Slash, Dot, NUL
  <2>2. Unread = Cons(Slash, <<Dot>> \o Unread') /\ ~InName(Unread')
    BY <2>1, DotsReadOff
  <2>3. /\ KeptText \in Seq(Byte) /\ Unread' \in Seq(Byte)
        /\ At(KeptText, Cons(Slash, <<Dot>> \o Unread'), Done, ToRead)
        /\ At(KeptText, Unread', Done', ToRead')
    BY <1>2, <1>3, <2>1, <2>2
  <2>4. <<Dot>> \in Name
    BY DEF Name, PartsOver, Byte, Slash, Dot
  <2>5. Done = KeptText /\ Components(ToRead) = Cons(<<Dot>>, Components(Unread'))
    BY <2>2, <2>3, <2>4, SkipName
  <2>6. Done' = KeptText /\ ToRead' = Unread'
    BY <2>2, <2>3 DEF At
  <2>7. /\ Components(ToRead) = Cons(<<Dot>>, Components(ToRead)')
        /\ Components(ToRead)' \in Seq(Name) /\ Components(Done)' = Components(Done)
    BY <2>3, <2>5, <2>6, ComponentsType
  <2>8. W!Take
    BY <2>1, <2>4, <2>7, WalkTakes
  <2> QED
    BY <2>8 DEF W!Next
<1>9. CASE Backtrack
  <2>1. /\ Walking /\ Walking' /\ url[src] = Slash /\ url[src + 1] = Dot
        /\ url[src + 2] = Dot /\ Ends(url[src + 3])
        /\ url[src] # NUL /\ url[src + 1] # NUL /\ url[src + 2] # NUL
        /\ UNCHANGED <<given, len>> /\ Unread' = Bytes(url, src + 3, len)
    BY <1>9 DEF Backtrack, DotDotAt, PastDotDot, Walking, Unread, Slash, Dot, NUL
  <2>2. Unread = Cons(Slash, <<Dot, Dot>> \o Unread') /\ ~InName(Unread')
    <3> DEFINE more == Bytes(url, src + 3, len)
    <3>1. /\ more \in Seq(Byte) /\ ~InName(more)
          /\ Unread = Cons(Slash, <<Dot>> \o Cons(Dot, more))
      BY <2>1, DotsReadOff
    <3> HIDE DEF more
    <3>2. <<Dot>> \o Cons(Dot, more) = <<Dot, Dot>> \o more
      BY <3>1 DEF Cons
    <3> QED
      BY <2>1, <3>1, <3>2 DEF more
  <2>3. /\ KeptText \in Seq(Byte) /\ Unread' \in Seq(Byte)
        /\ At(KeptText, Cons(Slash, <<Dot, Dot>> \o Unread'), Done, ToRead)
        /\ At(KeptText', Unread', Done', ToRead')
    BY <1>2, <1>3, <2>1, <2>2
  <2>4. <<Dot, Dot>> \in Name
    BY DEF Name, PartsOver, Byte, Slash, Dot
  <2>5. Done = KeptText /\ Components(ToRead) = Cons(<<Dot, Dot>>, Components(Unread'))
    BY <2>2, <2>3, <2>4, SkipName
  <2>6. Done' = KeptText' /\ ToRead' = Unread'
    BY <2>2, <2>3 DEF At
  <2>7. /\ Components(KeptText) # <<>>
        /\ Components(KeptText') = Front(Components(KeptText))
    BY <1>9, NameDropped
  <2>8. /\ Components(ToRead) = Cons(<<Dot, Dot>>, Components(ToRead)')
        /\ Components(ToRead)' \in Seq(Name)
        /\ Components(Done) # <<>> /\ Components(Done)' = Front(Components(Done))
    BY <2>3, <2>5, <2>6, <2>7, ComponentsType
  <2>9. W!Take
    BY <2>1, <2>4, <2>8, WalkTakes
  <2> QED
    BY <2>9 DEF W!Next
<1>10. CASE AboveRoot
  <2> DEFINE more == Bytes(url, src + 3, len)
             names == Components(more)
  <2>1. /\ Walking /\ url[src] = Slash /\ url[src + 1] = Dot
        /\ url[src + 2] = Dot /\ Ends(url[src + 3])
        /\ url[src] # NUL /\ url[src + 1] # NUL /\ url[src + 2] # NUL
        /\ KeptText = Bytes(url, 0, 0)
    BY <1>10 DEF AboveRoot, DotDotAt, Walking, KeptText, Kept, Slash, Dot, NUL
  <2>2. /\ more \in Seq(Byte) /\ ~InName(more)
        /\ Unread = Cons(Slash, <<Dot>> \o Cons(Dot, more))
    BY <2>1, DotsReadOff
  <2> HIDE DEF more
  <2>3. <<Dot>> \o Cons(Dot, more) = <<Dot, Dot>> \o more
    BY <2>2 DEF Cons
  <2>4. <<Dot, Dot>> \in Name
    BY DEF Name, PartsOver, Byte, Slash, Dot
  <2>5. /\ KeptText \in Seq(Byte)
        /\ At(KeptText, Cons(Slash, <<Dot, Dot>> \o more), Done, ToRead)
    BY <1>2, <2>1, <2>2, <2>3
  <2>6. Done = KeptText /\ Components(ToRead) = Cons(<<Dot, Dot>>, names)
    BY <2>2, <2>4, <2>5, SkipName
  <2>7. Components(Done) = <<>>
    BY <2>1, <2>6, BytesEmpty, ComponentsEmpty
  <2>8. Components(ToRead) # <<>> /\ Head(Components(ToRead)) = <<Dot, Dot>>
    <3>1. names \in Seq(Name)
      BY <2>2, ComponentsType
    <3> HIDE DEF names
    <3> QED
      BY <2>6, <3>1 DEF Cons
  <2>9. pc' = "illegal" /\ pc # "safe" /\ UNCHANGED <<given, len>>
    BY <1>10 DEF AboveRoot
  <2>10. W!AboveRoot
    BY <2>1, <2>7, <2>8, <2>9, SameTexts DEF W!AboveRoot, W!Refuse, Walking
  <2> QED
    BY <2>10 DEF W!Next
<1>11. CASE Finish
  <2>1. /\ Walking /\ ~Walking' /\ pc = "copy" /\ pc' = "safe" /\ url[src] = NUL
        /\ UNCHANGED <<given, len>>
    BY <1>11 DEF Finish, Walking
  <2>2. Unread = <<>> /\ At(KeptText, <<>>, Done, ToRead)
    BY <1>2, <2>1
  <2>3. Done = KeptText /\ Components(ToRead) = <<>>
    BY <2>2, ComponentsEmpty DEF At, InName
  <2>4. Bytes(url', 0, dst') =
          Joined(Components(Done)) \o
            IF Components(Done) = <<>> \/ EndsInSlash(Bytes(given, 0, len))
            THEN <<Slash>> ELSE <<>>
    BY <1>11, <2>3, FinishedText
  <2>5. W!Reassemble
    BY <2>1, <2>3, <2>4, SameTexts DEF W!Reassemble
  <2> QED
    BY <2>5 DEF W!Next
<1> QED
  BY <1>1, <1>4, <1>5, <1>6, <1>7, <1>8, <1>9, <1>10, <1>11
  DEF SafeNext, SafeStep, CopyByte, KeepSlash

\* Whatever the URL, make_safe_url returns what the walk over its components
\* returns, or refuses what the walk refuses.
THEOREM SafeUrlIsTheWalk == SafeSpec => ImplementsWalk
<1>1. SafeInit => W!Init
  <2> SUFFICES ASSUME SafeInit PROVE W!Init
    OBVIOUS
  <2>1. pc = "idle" /\ ~Walking /\ Bytes(given, 0, len) = <<>>
    BY BytesEmpty DEF SafeInit, Walking
  <2> QED
    BY <2>1 DEF W!Init
<1>2. WalkInv /\ WalkInv' /\ [SafeNext]_safeVars => [W!Next]_(W!walkVars)
  <2>1. UNCHANGED safeVars => UNCHANGED W!walkVars
    BY DEF safeVars, W!walkVars, Walking, ToRead, Done, MidName, NameFrom, Kept
  <2> QED
    BY <2>1, StepOfWalk
<1> QED
  BY <1>1, <1>2, WalkInvKept, PTL DEF SafeSpec, ImplementsWalk, W!Spec

-----------------------------------------------------------------------------
(***************************************************************************)
(* What the walk comes to: its stack is what the names before it resolve   *)
(* to.                                                                     *)
(***************************************************************************)

Given == Bytes(given, 0, len)

Absolute(text) == text \in Seq(Byte) /\ text # <<>> /\ Head(text) = Slash

\* Of the walk's variables.
Resolves(verdict, rest, stack, text, answer) ==
  /\ verdict = "walking" =>
       /\ Absolute(text) /\ rest \in Seq(Name)
       /\ \E taken \in Seq(Name) :
            Components(text) = taken \o rest /\ Resolved(taken) = stack
  /\ verdict = "safe" =>
       /\ Absolute(text) /\ Absolute(answer)
       /\ Components(answer) = Resolved(Components(text))
       /\ Resolved(Components(text)) # Above
  /\ verdict = "illegal" =>
       text = <<>> \/ Head(text) # Slash \/ Resolved(Components(text)) = Above

WalkVerdict == IF Walking THEN "walking" ELSE pc
WalkRest    == IF Walking THEN Components(ToRead) ELSE <<>>
WalkStack   == IF Walking THEN Components(Done) ELSE <<>>
WalkAnswer  == IF pc = "safe" THEN Bytes(url, 0, dst) ELSE <<>>

WalkResolves == Resolves(WalkVerdict, WalkRest, WalkStack, Given, WalkAnswer)

LEMMA NextIsTaken ==
  ASSUME NEW taken \in Seq(Name), NEW rest \in Seq(Name), rest # <<>>
  PROVE  /\ Append(taken, Head(rest)) \in Seq(Name) /\ Tail(rest) \in Seq(Name)
         /\ Head(rest) \in Name
         /\ taken \o rest = Append(taken, Head(rest)) \o Tail(rest)
         /\ Resolved(Append(taken, Head(rest))) = Enter(Resolved(taken), Head(rest))
<1> DEFINE name == Head(rest)
           more == Tail(rest)
<1>1. name \in Name /\ more \in Seq(Name) /\ rest = <<name>> \o more
  OBVIOUS
<1> HIDE DEF name, more
<1>2. <<name>> \in Seq(Name)
  BY <1>1
<1>3. (taken \o <<name>>) \o more = taken \o (<<name>> \o more)
  BY <1>1, <1>2, ConcatAssociative
<1>4. Append(taken, name) = taken \o <<name>> /\ Append(taken, name) \in Seq(Name)
  BY <1>1, AppendIsConcat
<1>5. Resolved(Append(taken, name)) = Enter(Resolved(taken), name)
  BY <1>1, ResolvedAppend
<1> QED
  BY <1>1, <1>3, <1>4, <1>5 DEF name, more

LEMMA WalkGoesOn ==
  ASSUME NEW text, NEW rest, NEW stack, NEW answer, rest # <<>>,
         Resolves("walking", rest, stack, text, answer)
  PROVE  /\ Head(rest) # <<Dot, Dot>> \/ stack # <<>> =>
              \A new : new = Enter(stack, Head(rest)) /\ new # Above =>
                Resolves("walking", Tail(rest), new, text, answer)
         /\ Head(rest) = <<Dot, Dot>> /\ stack = <<>> =>
              Resolved(Components(text)) = Above
<1>1. PICK taken \in Seq(Name) : Components(text) = taken \o rest /\ Resolved(taken) = stack
  BY DEF Resolves
<1>2. Absolute(text) /\ rest \in Seq(Name)
  BY DEF Resolves
<1>3. /\ Append(taken, Head(rest)) \in Seq(Name) /\ Tail(rest) \in Seq(Name)
      /\ Head(rest) \in Name
      /\ taken \o rest = Append(taken, Head(rest)) \o Tail(rest)
      /\ Resolved(Append(taken, Head(rest))) = Enter(stack, Head(rest))
  BY <1>1, <1>2, NextIsTaken
<1> DEFINE name == Head(rest)
           more == Tail(rest)
           longer == Append(taken, name)
<1>4. /\ longer \in Seq(Name) /\ more \in Seq(Name)
      /\ Components(text) = longer \o more /\ Resolved(longer) = Enter(stack, name)
  BY <1>1, <1>3
<1> HIDE DEF name, more, longer
<1>5. \A new : new = Enter(stack, name) => Resolves("walking", more, new, text, answer)
  BY <1>2, <1>4 DEF Resolves
<1>6. name = <<Dot, Dot>> /\ stack = <<>> => Enter(stack, name) = Above
  BY DEF Enter, Above
<1>7. Enter(stack, name) = Above => Resolved(longer \o more) = Above
  BY <1>4, AboveStays
<1> QED
  BY <1>4, <1>5, <1>6, <1>7 DEF name, more

LEMMA WalkEnds ==
  ASSUME NEW text, NEW stack, NEW answer, Resolves("walking", <<>>, stack, text, answer),
         stack # Above,
         NEW slash, slash = <<>> \/ slash = <<Slash>>, stack = <<>> => slash = <<Slash>>
  PROVE  Resolves("safe", <<>>, <<>>, text, Joined(stack) \o slash)
<1>1. PICK taken \in Seq(Name) : Components(text) = taken \o <<>> /\ Resolved(taken) = stack
  BY DEF Resolves
<1>2. Absolute(text) /\ Components(text) = taken
  BY <1>1 DEF Resolves
<1>3. stack \in Seq(Name)
  BY <1>1, ResolvedType
<1> DEFINE path == Joined(stack)
<1>4. path \in Seq(Byte) /\ Components(path) = stack
  BY <1>3, ComponentsJoined
<1>5. path = <<>> <=> stack = <<>>
  BY <1>3, <1>4, JoinedEmpty, ComponentsEmpty
<1>6. path # <<>> => Head(path) = Slash
  BY <1>3, JoinedAbsolute
<1> HIDE DEF path
<1>7. Components(path \o slash) = stack
  <2>1. CASE slash = <<>>
    BY <1>4, <2>1
  <2>2. CASE slash = <<Slash>>
    <3>1. path \o <<Slash>> = Append(path, Slash)
      BY <1>4, AppendIsConcat DEF Slash, Byte
    <3> QED
      BY <1>4, <2>2, <3>1, ComponentsAddSlash
  <2> QED
    BY <2>1, <2>2
<1>8. Absolute(path \o slash)
  <2>1. slash \in Seq(Byte)
    <3>1. <<Slash>> \in Seq(Byte) /\ <<>> \in Seq(Byte)
      BY DEF Slash, Byte
    <3> QED
      BY <3>1
  <2>2. path \o slash \in Seq(Byte)
    BY <1>4, <2>1
  <2>3. CASE path = <<>>
    <3>1. path \o slash = <<Slash>>
      BY <1>5, <2>3
    <3> QED
      BY <2>2, <3>1 DEF Absolute
  <2>4. CASE path # <<>>
    <3>1. path \o slash # <<>> /\ Head(path \o slash) = Head(path)
      BY <1>4, <2>1, <2>4
    <3> QED
      BY <1>6, <2>2, <2>4, <3>1 DEF Absolute
  <2> QED
    BY <2>3, <2>4
<1> QED
  BY <1>1, <1>2, <1>7, <1>8 DEF Resolves, path

\* What is kept is a path, and so is what it becomes.
LEMMA StackIsPath ==
  WalkInv => WalkStack \in Seq(Name) /\ WalkStack # Above
<1> SUFFICES ASSUME WalkInv PROVE WalkStack \in Seq(Name)
  BY AboveIsNoPath
<1>1. CASE Walking
  <2>1. At(KeptText, Unread, Done, ToRead) /\ KeptText \in Seq(Byte)
    BY <1>1, TextsWalked
  <2>2. Done \in Seq(Byte)
    BY <2>1 DEF At, Whole
  <2> QED
    BY <1>1, <2>2, ComponentsType DEF WalkStack
<1>2. CASE ~Walking
  BY <1>2 DEF WalkStack
<1> QED
  BY <1>1, <1>2

LEMMA WalkResolvesKept ==
  ASSUME WalkInv, WalkInv', WalkResolves, [SafeNext]_safeVars
  PROVE  WalkResolves'
<1> DEFINE v == WalkVerdict'
           r == WalkRest'
           k == WalkStack'
           t == Given'
           a == WalkAnswer'
<1>1. CASE W!Next
  <2>1. CASE W!Begin
    <3>1. /\ t \in Seq(Byte)
          /\ \/ (t = <<>> \/ Head(t) # Slash) /\ v = "illegal"
             \/ /\ t # <<>> /\ Head(t) = Slash /\ v = "walking"
                /\ r = Components(t) /\ k = WalkStack /\ WalkVerdict = "idle"
      BY <2>1, SameTexts
      DEF W!Begin, W!Refuse, Given, WalkVerdict, WalkRest, WalkStack, Walking
    <3>2. WalkVerdict = "idle" => WalkStack = <<>>
      BY DEF WalkVerdict, WalkStack, Walking
    <3> HIDE DEF v, r, k, t, a
    <3>3. t \in Seq(Byte) => Components(t) \in Seq(Name) /\ Components(t) = <<>> \o Components(t)
      BY ComponentsType
    <3>4. <<>> \in Seq(Name)
      OBVIOUS
    <3>5. Resolves(v, r, k, t, a)
      BY <3>1, <3>2, <3>3, <3>4, ResolvedEmpty DEF Resolves, Absolute
    <3> QED
      BY <3>5 DEF v, r, k, t, a, WalkResolves
  <2>2. CASE W!Take
    <3>1. /\ WalkVerdict = "walking" /\ v = "walking" /\ WalkRest # <<>> /\ r = Tail(WalkRest)
          /\ t = Given /\ a = WalkAnswer
          /\ \/ Head(WalkRest) = <<Dot>> /\ k = WalkStack
             \/ Head(WalkRest) = <<Dot, Dot>> /\ WalkStack # <<>> /\ k = Front(WalkStack)
             \/ /\ Head(WalkRest) \notin {<<Dot>>, <<Dot, Dot>>}
                /\ k = Append(WalkStack, Head(WalkRest))
      <4>1. \A x : W!Front(x) = Front(x)
        BY DEF W!Front, Front
      <4> QED
        BY <2>2, <4>1, SameTexts
        DEF W!Take, Given, WalkVerdict, WalkRest, WalkStack, WalkAnswer
    <3>2. WalkStack # Above /\ k # Above
      <4>1. (WalkInv => WalkStack \in Seq(Name) /\ WalkStack # Above)'
        BY StackIsPath, PTL
      <4> QED
        BY <4>1, StackIsPath
    <3> HIDE DEF v, r, k, t, a
    <3>3. Resolves("walking", WalkRest, WalkStack, Given, WalkAnswer)
      BY <3>1 DEF WalkResolves
    <3>4. <<Dot>> # <<Dot, Dot>>
      <4>1. Len(<<Dot>>) = 1 /\ Len(<<Dot, Dot>>) = 2
        OBVIOUS
      <4> QED
        BY <4>1
    <3>5. k = Enter(WalkStack, Head(WalkRest))
      BY <3>1, <3>2, <3>4, Zenon DEF Enter
    <3>6. Head(WalkRest) # <<Dot, Dot>> \/ WalkStack # <<>>
      BY <3>1, <3>4, Zenon
    <3>7. Resolves(v, r, k, t, a)
      BY <3>1, <3>2, <3>3, <3>5, <3>6, WalkGoesOn
    <3> QED
      BY <3>7 DEF v, r, k, t, a, WalkResolves
  <2>3. CASE W!AboveRoot
    <3>1. /\ WalkVerdict = "walking" /\ v = "illegal" /\ WalkRest # <<>> /\ t = Given
          /\ Head(WalkRest) = <<Dot, Dot>> /\ WalkStack = <<>>
      BY <2>3, SameTexts DEF W!AboveRoot, W!Refuse, Given, WalkVerdict, WalkRest, WalkStack
    <3> HIDE DEF v, r, k, t, a
    <3>2. Resolves("walking", WalkRest, WalkStack, Given, WalkAnswer)
      BY <3>1 DEF WalkResolves
    <3>3. Resolved(Components(t)) = Above
      BY <3>1, <3>2, WalkGoesOn
    <3>4. Resolves(v, r, k, t, a)
      BY <3>1, <3>3 DEF Resolves
    <3> QED
      BY <3>4 DEF v, r, k, t, a, WalkResolves
  <2>4. CASE W!Reassemble
    <3> DEFINE slash == IF WalkStack = <<>> \/ EndsInSlash(Given) THEN <<Slash>> ELSE <<>>
    <3>1. /\ WalkVerdict = "walking" /\ v = "safe" /\ WalkRest = <<>> /\ t = Given
          /\ r = <<>> /\ k = <<>> /\ a = Joined(WalkStack) \o slash
      BY <2>4, SameTexts
      DEF W!Reassemble, Given, WalkVerdict, WalkRest, WalkStack, WalkAnswer
    <3>2. WalkStack # Above
      BY StackIsPath
    <3>3. (slash = <<>> \/ slash = <<Slash>>) /\ (WalkStack = <<>> => slash = <<Slash>>)
      OBVIOUS
    <3> HIDE DEF v, r, k, t, a, slash
    <3>4. Resolves("walking", <<>>, WalkStack, Given, WalkAnswer)
      BY <3>1 DEF WalkResolves
    <3>5. Resolves("safe", <<>>, <<>>, Given, Joined(WalkStack) \o slash)
      BY <3>2, <3>3, <3>4, WalkEnds
    <3>6. Resolves(v, r, k, t, a)
      BY <3>1, <3>5
    <3> QED
      BY <3>6 DEF v, r, k, t, a, WalkResolves
  <2> QED
    BY <1>1, <2>1, <2>2, <2>3, <2>4 DEF W!Next
<1>2. CASE UNCHANGED W!walkVars
  <2>1. /\ v = WalkVerdict /\ r = WalkRest /\ k = WalkStack /\ t = Given /\ a = WalkAnswer
    BY <1>2 DEF W!walkVars, Given, WalkVerdict, WalkRest, WalkStack, WalkAnswer
  <2> HIDE DEF v, r, k, t, a
  <2>2. Resolves(v, r, k, t, a)
    BY <2>1 DEF WalkResolves
  <2> QED
    BY <2>2 DEF v, r, k, t, a, WalkResolves
<1>3. UNCHANGED safeVars => UNCHANGED W!walkVars
  BY DEF safeVars, W!walkVars, Walking, ToRead, Done, MidName, NameFrom, Kept
<1> QED
  BY <1>1, <1>2, <1>3, StepOfWalk

-----------------------------------------------------------------------------
(***************************************************************************)
(* Routing.                                                                *)
(***************************************************************************)

\* The URL that make_safe_url is given is the one of the request.
UrlIsPrepared ==
  /\ conn_url \in Seq(Byte)
  /\ pc # "idle" =>
       /\ Given = Prepared(conn_url)
       /\ ~options.https => conn_url \in Seq(Byte \ {Query})

\* What is opened is chosen once, for a URL that is safe and not hidden, and a
\* redirect from it is made of the URL of the request.
TargetIsChosen ==
  /\ asked = "nothing" => target = <<>>
  /\ target # <<>> => pc = "safe"
  /\ Serves /\ target # <<>> =>
       /\ options.want_hide_dotfiles => ~Hidden(decoded_url)
       /\ \/ target = Under(decoded_url)
          \/ EndsInSlash(decoded_url) /\ target = Under(decoded_url \o index_name)
       /\ status = 301 => location = SlashAdded
  /\ Serves /\ status = 400 => pc = "illegal"

RouteInv == UrlIsPrepared /\ TargetIsChosen

LEMMA RouteStays ==
  ASSUME UNCHANGED <<safeVars, options, conn_url>>
  PROVE  /\ UrlIsPrepared => UrlIsPrepared'
         /\ decoded_url' = decoded_url /\ SlashAdded' = SlashAdded /\ Serves' = Serves
  BY DEF safeVars, UrlIsPrepared, Given, decoded_url, SlashAdded, Serves

LEMMA StepIsSafeStep ==
  ASSUME RouteInv, [Next]_vars
  PROVE  [SafeNext]_safeVars /\ RouteInv'
<1>1. CASE PrepareUrl
  <2>1. conn_url' \in Seq(Byte) /\ (~options.https => conn_url' \in Seq(Byte \ {Query}))
    <3>1. conn_url \in Seq(Byte)
      BY DEF RouteInv, UrlIsPrepared
    <3>2. Before(conn_url, Query) \in Seq(Byte) /\ Before(conn_url, Query) \in Seq(Byte \ {Query})
      BY <3>1, BeforeType
    <3> QED
      BY <1>1, <3>1, <3>2 DEF PrepareUrl
  <2> DEFINE text == Prepared(conn_url')
  <2>2. text \in Seq(Byte) /\ SafeCall(text) /\ options' = options
    BY <1>1, <2>1, PreparedIs DEF PrepareUrl
  <2>3. Given' = text
    <3>1. given' = Buffer(text) /\ len' = Len(text)
      BY <2>2 DEF SafeCall
    <3> HIDE DEF text
    <3> QED
      BY <2>2, <3>1, BytesOfBuffer DEF Given
  <2>4. pc = "idle" /\ pc' # "idle" /\ UNCHANGED <<options, status, asked, target, location>>
    BY <1>1 DEF PrepareUrl, SafeCall
  <2>5. [SafeNext]_safeVars
    BY <2>2, <2>4 DEF SafeNext
  <2>6. UrlIsPrepared'
    BY <2>1, <2>3, <2>4 DEF UrlIsPrepared
  <2>7. TargetIsChosen'
    BY <2>4 DEF RouteInv, TargetIsChosen, Serves
  <2> QED
    BY <2>5, <2>6, <2>7 DEF RouteInv
<1>2. CASE MakeSafe
  <2>1. Walking /\ pc' # "idle" /\ UNCHANGED <<given, len>>
    BY <1>2
    DEF MakeSafe, SafeStep, Skip, StartCopy, CopyByte, SkipSlash, SkipDot,
        Backtrack, AboveRoot, KeepSlash, Finish, Walking
  <2>2. UNCHANGED routeVars
    BY <1>2 DEF MakeSafe
  <2>3. pc # "safe" /\ pc # "illegal" /\ pc # "idle"
    BY <2>1 DEF Walking
  <2>4. UrlIsPrepared'
    BY <2>1, <2>2, <2>3 DEF RouteInv, UrlIsPrepared, Given, routeVars
  <2>5. TargetIsChosen'
    BY <2>2, <2>3 DEF RouteInv, TargetIsChosen, Serves, routeVars
  <2>6. SafeNext
    BY <1>2 DEF MakeSafe, SafeNext
  <2> QED
    BY <2>4, <2>5, <2>6 DEF RouteInv
<1>3. CASE Route
  <2>1. UNCHANGED <<safeVars, options, conn_url>>
    BY <1>3
    DEF Route, InvalidUrl, RedirectHttps, Forward, Hide, SingleFile, Index,
        NoListing, Listing, File, Open, OpenDirectory, Keep
  <2> DEFINE d == decoded_url
             d2 == decoded_url'
             added == SlashAdded
             added2 == SlashAdded'
             serves == Serves
             serves2 == Serves'
  <2>2. /\ UrlIsPrepared' /\ pc' = pc /\ options' = options
        /\ d2 = d /\ added2 = added /\ serves2 = serves
    BY <2>1, RouteStays DEF RouteInv, safeVars
  <2>3. /\ asked = "nothing" => target = <<>>
        /\ target # <<>> => pc = "safe"
        /\ serves /\ target # <<>> =>
             /\ options.want_hide_dotfiles => ~Hidden(d)
             /\ \/ target = Under(d)
                \/ EndsInSlash(d) /\ target = Under(d \o index_name)
             /\ status = 301 => location = added
        /\ serves /\ status = 400 => pc = "illegal"
    BY DEF RouteInv, TargetIsChosen
  <2>4. /\ asked' = "nothing" => target' = <<>>
        /\ target' # <<>> => pc = "safe"
        /\ serves /\ target' # <<>> =>
             /\ options.want_hide_dotfiles => ~Hidden(d)
             /\ \/ target' = Under(d)
                \/ EndsInSlash(d) /\ target' = Under(d \o index_name)
             /\ status' = 301 => location' = added
        /\ serves /\ status' = 400 => pc = "illegal"
    <3> HIDE DEF d, added, d2, added2, serves2
    <3>1. CASE InvalidUrl \/ Hide \/ NoListing
      BY <2>3, <3>1 DEF InvalidUrl, Hide, NoListing, Reply, Directory, Shown, Serving, Routing
    <3>2. CASE RedirectHttps \/ Forward
      BY <2>3, <3>2 DEF RedirectHttps, Forward, Reply, Routing, Serves
    <3>3. CASE SingleFile
      BY <2>3, <3>3 DEF SingleFile, Shown, Serving, Routing, Serves
    <3>4. CASE Index
      BY <2>3, <3>4 DEF Index, Directory, Shown, Serving, Routing, d
    <3>5. CASE Listing
      BY <2>3, <3>5 DEF Listing, Directory, Shown, Serving, Routing, Reply, d
    <3>6. CASE File
      BY <2>3, <3>6 DEF File, Shown, Serving, Routing, d
    <3>7. CASE Open
      BY <2>3, <3>7 DEF Open, Opening, Reply
    <3>8. CASE OpenDirectory
      BY <2>3, <3>8 DEF OpenDirectory, Opening, Reply, added
    <3> QED
      BY <1>3, <3>1, <3>2, <3>3, <3>4, <3>5, <3>6, <3>7, <3>8 DEF Route
  <2>5. TargetIsChosen'
    <3> HIDE DEF d, added, d2, added2, serves, serves2
    <3> QED
      BY <2>2, <2>4 DEF TargetIsChosen, d2, added2, serves2
  <2> QED
    BY <2>1, <2>2, <2>5 DEF RouteInv, safeVars
<1>4. CASE UNCHANGED vars
  <2>1. UNCHANGED <<safeVars, options, conn_url, status, asked, target, location>>
    BY <1>4 DEF vars, routeVars
  <2>2. UrlIsPrepared' /\ TargetIsChosen'
    BY <2>1, RouteStays DEF RouteInv, TargetIsChosen, safeVars
  <2> QED
    BY <2>1, <2>2 DEF RouteInv
<1> QED
  BY <1>1, <1>2, <1>3, <1>4 DEF Next

LEMMA RouteInvInit == Init => SafeInit /\ RouteInv
  BY RequestPathAssumption DEF Init, SafeInit, RouteInv, UrlIsPrepared, TargetIsChosen

\* The calls that are made are calls make_safe_url is specified for.
THEOREM UsesMakeSafeUrl == Spec => SafeSpec
  BY RouteInvInit, StepIsSafeStep, PTL DEF Spec, SafeSpec

\* Whatever the client wrote, the URL that routing looks at is clean.
THEOREM RoutedUrlIsClean == Spec => []ResultIsClean
  BY UsesMakeSafeUrl, SafeUrlIsClean, PTL

\* And it is what the walk over the components of the client's URL returns.
THEOREM RoutedUrlIsTheWalk == Spec => ImplementsWalk
  BY UsesMakeSafeUrl, SafeUrlIsTheWalk

-----------------------------------------------------------------------------
(***************************************************************************)
(* What is opened.                                                         *)
(***************************************************************************)

\* A URL that is safe, between the text it was made from and its names.
LEMMA SafeIsResolved ==
  ASSUME RouteInv, WalkResolves, ~options.https, pc = "safe" \/ pc = "illegal"
  PROVE  /\ AskedFor = Prepared(conn_url) /\ AskedFor = Given
         /\ pc = "safe" =>
              /\ Absolute(AskedFor) /\ Absolute(decoded_url)
              /\ Components(decoded_url) = Resolved(Components(AskedFor))
              /\ Resolved(Components(AskedFor)) # Above
         /\ pc = "illegal" =>
              \/ AskedFor = <<>> \/ Head(AskedFor) # Slash
              \/ Resolved(Components(AskedFor)) = Above
<1>1. AskedFor = Prepared(conn_url) /\ AskedFor = Given
  <2>1. /\ conn_url \in Seq(Byte) /\ conn_url \in Seq(Byte \ {Query})
        /\ Given = Prepared(conn_url)
    BY DEF RouteInv, UrlIsPrepared
  <2>2. Before(conn_url, Query) = conn_url
    BY <2>1, BeforeType
  <2> QED
    BY <2>1, <2>2 DEF AskedFor
<1>2. Resolves(pc, WalkRest, WalkStack, Given, WalkAnswer)
  BY DEF WalkResolves, WalkVerdict, Walking
<1>3. pc = "safe" => WalkAnswer = decoded_url
  BY DEF WalkAnswer, decoded_url
<1> QED
  BY <1>1, <1>2, <1>3 DEF Resolves

LEMMA UnderIs ==
  ASSUME NEW d, Absolute(d)
  PROVE  /\ Components(Under(d)) = Components(wwwroot) \o Components(d)
         /\ EndsInSlash(d) =>
              Components(Under(d \o index_name)) =
                Components(wwwroot) \o Components(d) \o Components(index_name)
<1>1. wwwroot \in Seq(Byte) /\ index_name \in Seq(Byte)
  BY RequestPathAssumption
<1>2. d \in Seq(Byte) /\ d # <<>> /\ Head(d) = Slash
  BY DEF Absolute
<1>3. Components(wwwroot \o d) = Components(wwwroot) \o Components(d)
  BY <1>1, <1>2, ComponentsConcat
<1>4. ASSUME EndsInSlash(d)
      PROVE  Components(wwwroot \o (d \o index_name)) =
               Components(wwwroot) \o Components(d) \o Components(index_name)
  <2> DEFINE below == wwwroot \o d
  <2>1. below \in Seq(Byte) /\ below # <<>> /\ below[Len(below)] = Slash
    <3>1. d[Len(d)] = Slash
      BY <1>2, <1>4 DEF EndsInSlash, Last
    <3>2. /\ below \in Seq(Byte) /\ Len(below) = Len(wwwroot) + Len(d)
          /\ Len(d) \in 1..Len(d) /\ below[Len(wwwroot) + Len(d)] = d[Len(d)]
      <4>1. Len(d) \in 1..Len(d)
        BY <1>2
      <4> QED
        BY <1>1, <1>2, <4>1, ConcatIs
    <3>3. Len(below) # 0
      BY <3>2, <1>1
    <3> HIDE DEF below
    <3> QED
      BY <3>1, <3>2, <3>3
  <2>2. wwwroot \o (d \o index_name) = below \o index_name
    BY <1>1, <1>2, ConcatAssociative
  <2> HIDE DEF below
  <2>3. Components(below \o index_name) = Components(below) \o Components(index_name)
    BY <1>1, <2>1, ComponentsConcat
  <2> QED
    BY <2>2, <2>3, <1>3 DEF below
<1> QED
  BY <1>3, <1>4 DEF Under

LEMMA TargetIsAsked ==
  ASSUME RouteInv, WalkResolves
  PROVE  OpensWhatWasAsked
<1>1. ASSUME Serves, target # <<>>
      PROVE  /\ Head(AskedFor) = Slash
             /\ Resolved(Components(AskedFor)) # Above
             /\ Components(target) \in
                  {Components(wwwroot) \o Resolved(Components(AskedFor)),
                   Components(wwwroot) \o Resolved(Components(AskedFor))
                     \o Components(index_name)}
  <2> DEFINE d == decoded_url
  <2>1. /\ pc = "safe" /\ ~options.https
        /\ \/ target = Under(d)
           \/ EndsInSlash(d) /\ target = Under(d \o index_name)
    BY <1>1 DEF RouteInv, TargetIsChosen, Serves
  <2>2. /\ Absolute(AskedFor) /\ Absolute(d)
        /\ Components(d) = Resolved(Components(AskedFor))
        /\ Resolved(Components(AskedFor)) # Above
    BY <2>1, SafeIsResolved
  <2> HIDE DEF d
  <2>3. Head(AskedFor) = Slash
    BY <2>2 DEF Absolute
  <2> QED
    BY <2>1, <2>2, <2>3, UnderIs
<1>2. ASSUME Serves, status = 400
      PROVE  \/ AskedFor = <<>> \/ Head(AskedFor) # Slash
             \/ Resolved(Components(AskedFor)) = Above
  <2>1. pc = "illegal" /\ ~options.https
    BY <1>2 DEF RouteInv, TargetIsChosen, Serves
  <2> QED
    BY <2>1, SafeIsResolved
<1> QED
  BY <1>1, <1>2 DEF OpensWhatWasAsked

LEMMA TargetIsShown ==
  ASSUME RouteInv, WalkResolves
  PROVE  HiddenStaysHidden
<1> DEFINE d == decoded_url
           names == Components(d)
           root == Components(wwwroot)
<1> SUFFICES ASSUME options.want_hide_dotfiles, target # <<>>, Serves,
                    NEW i \in 1..Len(Resolved(Components(AskedFor)))
             PROVE  Components(target)[Len(root) + i][1] # Dot
  BY DEF HiddenStaysHidden
<1>1. /\ pc = "safe" /\ ~options.https /\ ~Hidden(d)
      /\ \/ target = Under(d)
         \/ EndsInSlash(d) /\ target = Under(d \o index_name)
  BY DEF RouteInv, TargetIsChosen, Serves
<1>2. Absolute(d) /\ names = Resolved(Components(AskedFor))
  BY <1>1, SafeIsResolved
<1> HIDE DEF d
<1>3. /\ d \in Seq(Byte) /\ Head(d) = Slash /\ ~SlashDot(d)
  BY <1>1, <1>2 DEF Absolute, Hidden, SlashDot
<1>4. names[i][1] # Dot
  <2>1. DottedFrom(d)
    BY <1>3, NamesWithDots
  <2>2. Slash # Dot
    BY DEF Slash, Dot
  <2> QED
    BY <1>2, <1>3, <2>1, <2>2 DEF DottedFrom
<1>5. /\ names \in Seq(Name) /\ root \in Seq(Name) /\ Components(index_name) \in Seq(Name)
      /\ i \in 1..Len(names)
  BY <1>2, <1>3, RequestPathAssumption, ComponentsType
<1>6. Components(target) \in {root \o names, (root \o names) \o Components(index_name)}
  BY <1>1, <1>2, UnderIs
<1> HIDE DEF names, root
<1>7. Components(target)[Len(root) + i] = names[i]
  <2> DEFINE path == root \o names
             n == Len(root) + i
  <2>1. path \in Seq(Name) /\ n \in 1..Len(path) /\ path[n] = names[i]
    BY <1>5, ConcatIs
  <2> HIDE DEF path, n
  <2>2. (path \o Components(index_name))[n] = path[n]
    BY <1>5, <2>1, ConcatIs
  <2> QED
    BY <1>6, <2>1, <2>2 DEF path, n
<1> QED
  BY <1>4, <1>7

\* A text without an encoded NUL stays a text.
LEMMA NoNulDecoded ==
  ASSUME NEW text \in Seq(Byte), ~EncodesNul(text)
  PROVE  Decodable(text, Byte)
<1> SUFFICES ASSUME NEW i \in 1..Len(text)
             PROVE  text[i] \in Byte /\ (Escaped(text, i) => CodeAt(text, i) \in Byte)
  BY DEF Decodable
<1>1. text[i] \in Byte
  OBVIOUS
<1>2. ASSUME Escaped(text, i) PROVE CodeAt(text, i) \in Byte
  <2> DEFINE a == HexValue(text[i + 1])
             b == HexValue(text[i + 2])
  <2>1. i + 2 <= Len(text) /\ isxdigit(text[i + 1]) /\ isxdigit(text[i + 2])
    BY <1>2 DEF Escaped
  <2>2. text[i + 1] \in Int /\ text[i + 2] \in Int
    <3>1. text[i + 1] \in Byte /\ text[i + 2] \in Byte
      BY <2>1
    <3> QED
      BY <3>1, BytesAreInts
  <2>3. a \in 0..15 /\ b \in 0..15
    BY <2>1, <2>2, HexType
  <2>4. ~ (a = 0 /\ b = 0)
    BY <1>2 DEF EncodesNul
  <2>5. CodeAt(text, i) = a * 16 + b
    BY DEF CodeAt
  <2> HIDE DEF a, b
  <2> QED
    BY <2>3, <2>4, <2>5 DEF Byte
<1> QED
  BY <1>1, <1>2

\* A slash at the end does not change how a client asks for a text.
LEMMA AskedWithSlash ==
  ASSUME NEW text \in Seq(Byte), AskedAsWritten(text)
  PROVE  AskedAsWritten(Append(text, Slash))
<1> DEFINE more == Append(text, Slash)
<1>1. /\ more \in Seq(Byte) /\ Len(more) = Len(text) + 1 /\ Len(text) \in Nat
      /\ \A i \in 1..Len(text) : more[i] = text[i]
      /\ more[Len(text) + 1] = Slash
  BY DEF Slash, Byte
<1>2. Components(more) = Components(text)
  BY ComponentsAddSlash
<1> HIDE DEF more
<1>3. ASSUME Len(text) > 1, text[1] = Slash, text[2] # Slash
      PROVE  Len(more) > 1 /\ more[1] = Slash /\ more[2] # Slash
  BY <1>1, <1>3
<1>4. ASSUME NEW scheme \in Seq(Byte), IsPrefix(scheme, text)
      PROVE  IsPrefix(scheme, more)
  <2>1. Len(scheme) \in Nat /\ Len(scheme) <= Len(text)
        /\ SubSeq(scheme, 1, Len(scheme)) = SubSeq(text, 1, Len(scheme))
    BY <1>4 DEF IsPrefix
  <2> DEFINE n == Len(scheme)
             a == SubSeq(text, 1, n)
             b == SubSeq(more, 1, n)
  <2>2. /\ a \in Seq(Byte) /\ Len(a) = n /\ \A i \in 1..n : a[i] = text[i]
    BY <2>1
  <2>3. /\ b \in Seq(Byte) /\ Len(b) = n /\ \A i \in 1..n : b[i] = more[i]
    BY <1>1, <2>1
  <2>4. n <= Len(text) /\ n \in Nat
    BY <2>1
  <2> HIDE DEF a, b, n
  <2>5. ASSUME NEW i \in 1..n PROVE b[i] = a[i]
    <3>1. i \in 1..Len(text)
      BY <1>1, <2>4
    <3>2. more[i] = text[i]
      BY <1>1, <3>1
    <3>3. b[i] = more[i] /\ a[i] = text[i]
      BY <2>2, <2>3
    <3> QED
      BY <3>2, <3>3
  <2>6. a = b
    BY <2>2, <2>3, <2>5
  <2> QED
    BY <1>1, <2>1, <2>6 DEF IsPrefix, a, b, n
<1>5. ASSUME Hash \notin ToSet(text) PROVE Hash \notin ToSet(more)
  <2>1. Slash # Hash
    BY DEF Slash, Hash
  <2>2. \A i \in DOMAIN more : i \in 1..Len(text) \/ i = Len(text) + 1
    BY <1>1
  <2>3. \A i \in 1..Len(text) : text[i] # Hash
    BY <1>5 DEF ToSet
  <2>4. \A i \in DOMAIN more : more[i] # Hash
    BY <1>1, <2>1, <2>2, <2>3
  <2> QED
    BY <2>4 DEF ToSet
<1>6. Http \in Seq(Byte) /\ Https \in Seq(Byte)
  BY DEF Http, Https, Byte
<1>7. AskedAsWritten(more)
  BY <1>2, <1>3, <1>4, <1>5, <1>6 DEF AskedAsWritten
<1> QED
  BY <1>7 DEF more

LEMMA RedirectIsIn ==
  ASSUME RouteInv, WalkResolves
  PROVE  RedirectLeadsIn
<1> DEFINE next == Prepared(Before(location, Query))
<1> SUFFICES ASSUME status = 301, Serves, target # <<>>,
                    AskedAsWritten(conn_url), ~EncodesNul(conn_url)
             PROVE  /\ AskedAsWritten(location)
                    /\ EndsInSlash(next)
                    /\ Resolved(Components(next)) = Components(decoded_url)
  BY Zenon DEF RedirectLeadsIn
<1>1. pc = "safe" /\ ~options.https /\ location = conn_url \o <<Slash>>
  BY DEF RouteInv, TargetIsChosen, Serves, SlashAdded
<1>2. conn_url \in Seq(Byte) /\ conn_url \in Seq(Byte \ {Query})
  BY <1>1 DEF RouteInv, UrlIsPrepared
<1> DEFINE asked_for == Prepared(conn_url)
<1>3. /\ Absolute(asked_for)
      /\ Components(decoded_url) = Resolved(Components(asked_for))
  BY <1>1, SafeIsResolved
<1>4. location = Append(conn_url, Slash)
  BY <1>1, <1>2, AppendIsConcat DEF Slash, Byte
<1>5. Before(location, Query) = location
  <2> DEFINE S == Byte \ {Query}
  <2>1. Slash \in S /\ conn_url \in Seq(S)
    BY <1>2 DEF Slash, Byte, Query
  <2> HIDE DEF S
  <2>2. location \in Seq(S)
    BY <1>4, <2>1
  <2>3. location \in Seq(Byte)
    <3>1. Slash \in Byte
      BY DEF Slash, Byte
    <3> QED
      BY <1>2, <1>4, <3>1
  <2> QED
    BY <2>2, <2>3, BeforeType DEF S
<1>6. next = Append(asked_for, Slash)
  <2>1. Decodable(conn_url, Byte)
    BY <1>2, NoNulDecoded
  <2>2. asked_for # <<>> /\ Head(asked_for) = Slash
    BY <1>3 DEF Absolute
  <2> QED
    BY <1>2, <1>4, <1>5, <2>1, <2>2, PreparedIs
<1>7. asked_for \in Seq(Byte)
  BY <1>3 DEF Absolute
<1> HIDE DEF next, asked_for
<1>8. EndsInSlash(next)
  <2>1. Slash \in Byte
    BY DEF Slash, Byte
  <2>2. Append(asked_for, Slash) # <<>> /\ Last(Append(asked_for, Slash)) = Slash
    BY <1>7, <2>1 DEF Last
  <2> QED
    BY <1>6, <2>2 DEF EndsInSlash
<1>9. Components(next) = Components(asked_for)
  BY <1>6, <1>7, ComponentsAddSlash
<1>10. AskedAsWritten(location)
  BY <1>2, <1>4, AskedWithSlash
<1> QED
  BY <1>3, <1>8, <1>9, <1>10

LEMMA AlwaysRouted == Spec => [](RouteInv /\ WalkResolves)
<1>1. SafeInit => WalkInv /\ WalkResolves
  BY WalkInvKept DEF SafeInit, WalkResolves, Resolves, WalkVerdict, Walking
<1>2. WalkInv /\ WalkResolves /\ RouteInv /\ [Next]_vars => (WalkInv /\ WalkResolves /\ RouteInv)'
  BY StepIsSafeStep, WalkInvKept, WalkResolvesKept
<1> QED
  BY <1>1, <1>2, RouteInvInit, PTL DEF Spec

\* What is opened or listed is what the URL names below the root, resolved
\* name by name, or the index in it; only what names nothing gets a 400.
THEOREM OpensOnlyWhatWasAsked == Spec => []OpensWhatWasAsked
  BY AlwaysRouted, TargetIsAsked, PTL

\* With --hide-dotfiles no name of the URL that is opened starts with a dot.
THEOREM DotfilesStayHidden == Spec => []HiddenStaysHidden
  BY AlwaysRouted, TargetIsShown, PTL

\* The redirect of a directory whose URL a client asks for as it is written
\* is asked for as it is written, too, and names the same directory, with its
\* slash.
THEOREM RedirectsLeadIn == Spec => []RedirectLeadsIn
  BY AlwaysRouted, RedirectIsIn, PTL

-----------------------------------------------------------------------------
(***************************************************************************)
(* The table of types: what is found in it for an extension is what was    *)
(* said of it last.                                                        *)
(***************************************************************************)

\* Entries with extensions from a set, one for each extension.
Entries(X) == [extension : X, mimetype : Seq(Byte)]

OneEach(map) ==
  \A i, j \in 1..Len(map) : SameText(map[i].extension, map[j].extension) => i = j

LEMMA SameTextIs ==
  ASSUME NEW a \in Seq(Byte), NEW b \in Seq(Byte), SameText(a, b)
  PROVE  Len(a) = Len(b) /\ \A i \in 1..Len(a) : a[i] = Slash <=> b[i] = Slash
<1> DEFINE u == LowerCase(a)
           v == LowerCase(b)
<1>1. /\ DOMAIN u = 1..Len(a) /\ \A i \in 1..Len(a) : u[i] = Lower(a[i])
      /\ DOMAIN v = 1..Len(b) /\ \A i \in 1..Len(b) : v[i] = Lower(b[i])
  BY DEF LowerCase
<1>2. u = v
  BY DEF SameText
<1> HIDE DEF u, v
<1>3. Len(a) = Len(b)
  BY <1>1, <1>2
<1>4. \A c \in Byte : Lower(c) = Slash <=> c = Slash
  BY DEF Lower, Slash, Byte
<1>5. \A i \in 1..Len(a) : a[i] \in Byte /\ b[i] \in Byte /\ Lower(a[i]) = Lower(b[i])
  BY <1>1, <1>2, <1>3
<1> QED
  BY <1>3, <1>4, <1>5

\* The entry of an extension, or 0.
Entry(map, extension) == SelectInSeq(map, LAMBDA m : SameText(m.extension, extension))

LEMMA EntryOf ==
  ASSUME NEW map, Len(map) \in Nat, NEW extension
  PROVE  /\ Entry(map, extension) \in 0..Len(map)
         /\ Entry(map, extension) # 0 =>
              SameText(map[Entry(map, extension)].extension, extension)
         /\ Entry(map, extension) = 0 =>
              \A k \in 1..Len(map) : ~SameText(map[k].extension, extension)
<1> DEFINE I == {k \in 1..Len(map) : SameText(map[k].extension, extension)}
<1>1. Entry(map, extension) = IF I # {} THEN Min(I) ELSE 0
  BY DEF Entry, SelectInSeq
<1>2. I \in SUBSET Nat /\ I \in SUBSET Int
  OBVIOUS
<1>3. CASE I = {}
  <2>1. \A k \in 1..Len(map) : ~SameText(map[k].extension, extension)
    BY <1>3
  <2>2. Entry(map, extension) = 0
    BY <1>1, <1>3
  <2> QED
    BY <2>1, <2>2
<1>4. CASE I # {}
  <2>1. PICK i \in I : \A k \in I : i <= k
    <3> HIDE DEF I
    <3> QED
      BY <1>2, <1>4, LeastNat
  <2>2. Min(I) = i
    <3> HIDE DEF I
    <3> QED
      BY <1>2, <2>1, LeastIs
  <2>3. Entry(map, extension) = i
    BY <1>1, <1>4, <2>2
  <2>4. i \in 1..Len(map) /\ SameText(map[i].extension, extension)
    BY <2>1
  <2> HIDE DEF I
  <2> QED
    BY <2>3, <2>4
<1> QED
  BY <1>3, <1>4

LEMMA MappingAdded ==
  ASSUME NEW X, NEW map \in Seq(Entries(X)), OneEach(map),
         NEW extension \in X, NEW type \in Seq(Byte)
  PROVE  LET new == add_mime_mapping(map, extension, type)
         IN  /\ new \in Seq(Entries(X)) /\ OneEach(new)
             /\ \A text : Found(new, text) =
                  IF SameText(extension, text) THEN {type} ELSE Found(map, text)
<1> DEFINE new == add_mime_mapping(map, extension, type)
           n == Len(map)
<1>1. n \in Nat /\ \A k \in 1..n : map[k] \in Entries(X)
  OBVIOUS
<1> DEFINE i == Entry(map, extension)
<1>2. /\ i \in 0..n
      /\ i # 0 => SameText(map[i].extension, extension)
      /\ i = 0 => \A k \in 1..n : ~SameText(map[k].extension, extension)
  BY <1>1, EntryOf
<1>3. new = IF i # 0 THEN [map EXCEPT ![i].mimetype = type]
            ELSE Append(map, [extension |-> extension, mimetype |-> type])
  BY DEF add_mime_mapping, Entry
<1> HIDE DEF i
<1> HIDE DEF new
<1>4. CASE i # 0
  <2>1. i \in 1..n
    BY <1>2, <1>4
  <2> DEFINE entry == [map[i] EXCEPT !.mimetype = type]
  <2>2. entry \in Entries(X) /\ entry.extension = map[i].extension /\ entry.mimetype = type
    BY <2>1, <1>1 DEF Entries
  <2>3. new = [map EXCEPT ![i] = entry]
    BY <1>3, <1>4
  <2> HIDE DEF entry
  <2>4. /\ new \in Seq(Entries(X)) /\ Len(new) = n
        /\ \A k \in 1..n : new[k] = IF k = i THEN entry ELSE map[k]
    BY <2>1, <2>2, <2>3
  <2>5. \A k \in 1..n : /\ new[k].extension = map[k].extension
                        /\ k # i => new[k].mimetype = map[k].mimetype
    BY <2>2, <2>4
  <2>6. OneEach(new)
    BY <2>4, <2>5 DEF OneEach
  <2>7. ASSUME NEW text
        PROVE  Found(new, text) = IF SameText(extension, text) THEN {type} ELSE Found(map, text)
    <3>1. SameText(map[i].extension, text) <=> SameText(extension, text)
      BY <1>2, <1>4 DEF SameText
    <3>2. \A k \in 1..n : k # i => ~SameText(map[k].extension, map[i].extension)
      BY <2>1 DEF OneEach
    <3>3. DOMAIN new = 1..n /\ DOMAIN map = 1..n
      BY <2>4
    <3>4. CASE SameText(extension, text)
      <4>1. {k \in 1..n : SameText(new[k].extension, text)} = {i}
        BY <2>1, <2>5, <3>1, <3>2, <3>4 DEF SameText
      <4>2. new[i].mimetype = type
        BY <2>1, <2>2, <2>4
      <4> QED
        BY <3>3, <3>4, <4>1, <4>2 DEF Found
    <3>5. CASE ~SameText(extension, text)
      <4> DEFINE K == {k \in 1..n : SameText(map[k].extension, text)}
      <4>1. {k \in 1..n : SameText(new[k].extension, text)} = K
        BY <2>5
      <4>2. \A k \in K : new[k].mimetype = map[k].mimetype
        BY <2>5, <3>1, <3>5
      <4>3. {new[k].mimetype : k \in K} = {map[k].mimetype : k \in K}
        BY <4>2
      <4>4. Found(new, text) = {new[k].mimetype : k \in K}
        BY <3>3, <4>1 DEF Found
      <4>5. Found(map, text) = {map[k].mimetype : k \in K}
        BY <3>3 DEF Found
      <4> QED
        BY <3>5, <4>3, <4>4, <4>5
    <3> QED
      BY <3>4, <3>5
  <2> QED
    BY <2>4, <2>6, <2>7 DEF new
<1>5. CASE i = 0
  <2> DEFINE entry == [extension |-> extension, mimetype |-> type]
  <2>1. entry \in Entries(X) /\ entry.extension = extension /\ entry.mimetype = type
    BY DEF Entries
  <2>2. new = Append(map, entry)
    BY <1>3, <1>5
  <2> HIDE DEF entry
  <2>3. /\ new \in Seq(Entries(X)) /\ Len(new) = n + 1
        /\ new[n + 1] = entry /\ \A k \in 1..n : new[k] = map[k]
    BY <2>1, <2>2
  <2>4. \A k \in 1..n : ~SameText(map[k].extension, extension)
    BY <1>2, <1>5
  <2>5. OneEach(new)
    <3> SUFFICES ASSUME NEW k \in 1..(n + 1), NEW l \in 1..(n + 1),
                        SameText(new[k].extension, new[l].extension)
                 PROVE  k = l
      BY <2>3 DEF OneEach
    <3>1. CASE k = n + 1 /\ l # n + 1
      BY <2>1, <2>3, <2>4, <3>1 DEF SameText
    <3>2. CASE k # n + 1 /\ l = n + 1
      BY <2>1, <2>3, <2>4, <3>2 DEF SameText
    <3>3. CASE k # n + 1 /\ l # n + 1
      BY <2>3, <3>3 DEF OneEach
    <3> QED
      BY <3>1, <3>2, <3>3
  <2>6. ASSUME NEW text
        PROVE  Found(new, text) = IF SameText(extension, text) THEN {type} ELSE Found(map, text)
    <3> DEFINE K == {k \in 1..n : SameText(map[k].extension, text)}
               L == {k \in 1..(n + 1) : SameText(new[k].extension, text)}
    <3>1. Found(map, text) = {map[k].mimetype : k \in K}
      BY DEF Found
    <3>2. Found(new, text) = {new[k].mimetype : k \in L}
      BY <2>3 DEF Found
    <3>3. new[n + 1].extension = extension /\ new[n + 1].mimetype = type
      BY <2>1, <2>3
    <3>4. L = IF SameText(extension, text) THEN K \cup {n + 1} ELSE K
      BY <1>1, <2>3, <3>3
    <3>5. SameText(extension, text) => K = {}
      BY <2>4 DEF SameText
    <3>6. \A k \in K : new[k].mimetype = map[k].mimetype
      BY <2>3
    <3> HIDE DEF K, L
    <3>7. {new[k].mimetype : k \in K} = {map[k].mimetype : k \in K}
      BY <3>6
    <3>8. CASE SameText(extension, text)
      <4>1. L = {n + 1}
        BY <3>4, <3>5, <3>8
      <4> QED
        BY <3>2, <3>3, <3>8, <4>1
    <3>9. CASE ~SameText(extension, text)
      BY <3>1, <3>2, <3>4, <3>7, <3>9
    <3> QED
      BY <3>8, <3>9
  <2> QED
    BY <2>3, <2>5, <2>6 DEF new
<1> QED
  BY <1>4, <1>5

\* A line has extensions of a type, and what it says of one.
Says(line) == Split(line, Blanks) # <<>> /\ Split(line, Blanks)[1][1] # Hash

SaysOf(line, text) ==
  Says(line) /\ \E k \in 2..Len(Split(line, Blanks)) : SameText(Split(line, Blanks)[k], text)

ExtensionsIn(line, X) ==
  Says(line) => \A k \in 2..Len(Split(line, Blanks)) : Split(line, Blanks)[k] \in X

LEMMA LineParsed ==
  ASSUME NEW X, NEW map \in Seq(Entries(X)), OneEach(map),
         NEW line \in Seq(Byte), ExtensionsIn(line, X)
  PROVE  LET new == parse_mimetype_line(map, line)
         IN  /\ new \in Seq(Entries(X)) /\ OneEach(new)
             /\ \A text : Found(new, text) =
                  IF SaysOf(line, text) THEN {Split(line, Blanks)[1]} ELSE Found(map, text)
<1> DEFINE words == Split(line, Blanks)
           new == parse_mimetype_line(map, line)
           n == Len(words)
           type == words[1]
           Upto(f) == f = [k \in 1..n |->
                             IF k = 1 THEN map ELSE add_mime_mapping(f[k - 1], words[k], type)]
           f == CHOOSE f : Upto(f)
<1>1. CASE ~Says(line)
  <2>1. new = map
    BY <1>1, Zenon DEF Says, parse_mimetype_line
  <2> QED
    BY <1>1, <2>1 DEF SaysOf
<1>2. CASE Says(line)
  <2>1. new = f[n]
    BY <1>2, Zenon DEF Says, parse_mimetype_line
  <2>2. /\ words \in Seq(Seq(Byte)) /\ words # <<>>
    <3>1. words \in Seq(PartsOver(Byte, Blanks))
      BY SplitType
    <3>2. PartsOver(Byte, Blanks) \subseteq Seq(Byte)
      BY SeqMonotonic DEF PartsOver
    <3> HIDE DEF words
    <3>3. words \in Seq(Seq(Byte))
      BY <3>1, <3>2, SeqMonotonic
    <3> QED
      BY <3>3, <1>2 DEF Says, words
  <2>3. n \in Nat /\ 1 <= n /\ type \in Seq(Byte) /\ \A k \in 2..n : words[k] \in X
    BY <1>2, <2>2 DEF ExtensionsIn
  <2>4. \A text : SaysOf(line, text) <=> \E k \in 2..n : SameText(words[k], text)
    BY <1>2 DEF SaysOf
  <2> HIDE DEF words, n, type, new
  <2> DEFINE Maps == {m \in Seq(Entries(X)) : OneEach(m)}
  <2>5. \A m \in Maps : \A k \in 2..n : add_mime_mapping(m, words[k], type) \in Maps
    BY <2>3, MappingAdded
  <2>6. map \in Maps
    OBVIOUS
  <2> HIDE DEF Maps
  <2>7. Upto(f)
    <3> DEFINE Step == [k \in 2..n |-> [m \in Maps |-> add_mime_mapping(m, words[k], type)]]
               lo == 1
    <3>1. StepsIn(Maps, Step, lo + 1, n)
      BY <2>5 DEF StepsIn
    <3>2. \A k \in 2..n : \A m \in Maps : Step[k][m] = add_mime_mapping(m, words[k], type)
      OBVIOUS
    <3> HIDE DEF Step
    <3>3. lo \in Nat /\ n \in Nat /\ lo <= n
      BY <2>3
    <3>4. PICK g \in [1..n -> Maps] :
            g[1] = map /\ \A k \in 2..n : g[k] = Step[k][g[k - 1]]
      <4> HIDE DEF lo
      <4>1. \E g : Climbs(g, lo, n, map, Step, Maps)
        BY <2>6, <3>1, <3>3, UpRec
      <4>2. lo = 1 /\ lo + 1 = 2
        BY DEF lo
      <4> QED
        BY <4>1, <4>2 DEF Climbs
    <3>5. \A k \in 2..n : g[k] = add_mime_mapping(g[k - 1], words[k], type)
      <4> TAKE k \in 2..n
      <4>1. k - 1 \in 1..n
        BY <2>3
      <4>2. g[k - 1] \in Maps
        BY <4>1
      <4> QED
        BY <3>2, <3>4, <4>2
    <3>6. Upto(g)
      BY <2>3, <3>4, <3>5
    <3> HIDE DEF Upto
    <3> QED
      BY <3>6
  <2> HIDE DEF f
  <2>8. f[1] = map /\ \A k \in 2..n : f[k] = add_mime_mapping(f[k - 1], words[k], type)
    BY <2>3, <2>7
  <2> HIDE DEF Upto
  <2> DEFINE Said(k, text) == \E j \in 2..k : SameText(words[j], text)
             AsSaid(k) == /\ f[k] \in Maps
                          /\ \A text : Found(f[k], text) =
                               IF Said(k, text) THEN {type} ELSE Found(map, text)
             D == {k \in Nat : 1 <= k /\ k <= n => AsSaid(k)}
  <2>9. 0 \in D
    OBVIOUS
  <2>10. ASSUME NEW k \in Nat, k \in D PROVE k + 1 \in D
    <3> SUFFICES ASSUME k + 1 <= n PROVE AsSaid(k + 1)
      <4> HIDE DEF AsSaid
      <4> QED
        OBVIOUS
    <3>1. CASE k = 0
      <4>1. f[k + 1] = map
        BY <2>8, <3>1
      <4>2. \A text : ~Said(k + 1, text)
        BY <3>1
      <4> HIDE DEF Said
      <4> QED
        BY <2>6, <4>1, <4>2
    <3>2. CASE k # 0
      <4>1. AsSaid(k)
        <5> HIDE DEF AsSaid
        <5>1. 1 <= k /\ k <= n
          BY <2>3, <3>2
        <5> QED
          BY <2>10, <5>1
      <4> DEFINE m == f[k]
                 m2 == f[k + 1]
                 word == words[k + 1]
      <4>2. k + 1 \in 2..n /\ (k + 1) - 1 = k
        BY <3>2
      <4>3. m2 = add_mime_mapping(m, word, type)
        <5>1. f[k + 1] = add_mime_mapping(f[(k + 1) - 1], words[k + 1], type)
          BY <2>8, <4>2
        <5> QED
          BY <4>2, <5>1
      <4>4. m \in Seq(Entries(X)) /\ OneEach(m) /\ word \in X
        BY <2>3, <4>1, <4>2 DEF Maps
      <4>5. \A text : Said(k + 1, text) <=> Said(k, text) \/ SameText(word, text)
        BY <4>2
      <4> HIDE DEF m, m2, word, Said
      <4>6. /\ m2 \in Seq(Entries(X)) /\ OneEach(m2)
            /\ \A text : Found(m2, text) =
                 IF SameText(word, text) THEN {type} ELSE Found(m, text)
        BY <2>3, <4>3, <4>4, MappingAdded
      <4>7. m2 \in Maps
        BY <4>6 DEF Maps
      <4>8. \A text : Found(m2, text) = IF Said(k + 1, text) THEN {type} ELSE Found(map, text)
        BY <4>1, <4>6, <4>5 DEF m
      <4> QED
        BY <4>7, <4>8 DEF m2
    <3> QED
      BY <3>1, <3>2
  <2>11. n \in D
    <3> HIDE DEF D
    <3>1. Nat \subseteq D
      BY <2>9, <2>10, NatInd
    <3> QED
      BY <2>3, <3>1
  <2>12. AsSaid(n)
    <3> HIDE DEF AsSaid
    <3> QED
      BY <2>3, <2>11
  <2> QED
    BY <2>1, <2>4, <2>12 DEF Maps, new, type, words
<1> QED
  BY <1>1, <1>2

\* What the first lines say of an extension.
SaidBy(lines, k, text) ==
  {Split(lines[i], Blanks)[1] :
     i \in {j \in 1..k : SaysOf(lines[j], text) /\ \A l \in (j + 1)..k : ~SaysOf(lines[l], text)}}

LEMMA MapIsSaid ==
  ASSUME NEW X, NEW lines \in Seq(Seq(Byte)),
         \A k \in 1..Len(lines) : ExtensionsIn(lines[k], X)
  PROVE  /\ MapOf(lines) \in Seq(Entries(X)) /\ OneEach(MapOf(lines))
         /\ \A text : Found(MapOf(lines), text) = SaidBy(lines, Len(lines), text)
<1> DEFINE n == Len(lines)
           Upto(f) == f = [k \in 0..n |->
                             IF k = 0 THEN <<>> ELSE parse_mimetype_line(f[k - 1], lines[k])]
           f == CHOOSE f : Upto(f)
           Maps == {m \in Seq(Entries(X)) : OneEach(m)}
<1>1. MapOf(lines) = f[n]
  BY Zenon DEF MapOf
<1>2. n \in Nat /\ \A k \in 1..n : lines[k] \in Seq(Byte) /\ ExtensionsIn(lines[k], X)
  OBVIOUS
<1> HIDE DEF n
<1>3. \A m \in Maps : \A k \in 1..n : parse_mimetype_line(m, lines[k]) \in Maps
  BY <1>2, LineParsed
<1>4. <<>> \in Maps /\ \A text : Found(<<>>, text) = {}
  <2>1. <<>> \in Seq(Entries(X)) /\ OneEach(<<>>)
    BY DEF OneEach
  <2>2. \A text : Found(<<>>, text) = {}
    BY DEF Found
  <2> QED
    BY <2>1, <2>2
<1> HIDE DEF Maps
<1>5. Upto(f)
  <2> DEFINE Step == [k \in 1..n |-> [m \in Maps |-> parse_mimetype_line(m, lines[k])]]
             lo == 0
  <2>1. StepsIn(Maps, Step, lo + 1, n)
    BY <1>3 DEF StepsIn
  <2>2. \A k \in 1..n : \A m \in Maps : Step[k][m] = parse_mimetype_line(m, lines[k])
    OBVIOUS
  <2> HIDE DEF Step
  <2>3. lo \in Nat /\ lo <= n
    BY <1>2
  <2>4. PICK g \in [0..n -> Maps] :
          g[0] = <<>> /\ \A k \in 1..n : g[k] = Step[k][g[k - 1]]
    <3> HIDE DEF lo
    <3>1. \E g : Climbs(g, lo, n, <<>>, Step, Maps)
      BY <1>2, <1>4, <2>1, <2>3, UpRec
    <3>2. lo = 0 /\ lo + 1 = 1
      BY DEF lo
    <3> QED
      BY <3>1, <3>2 DEF Climbs
  <2>5. \A k \in 1..n : g[k] = parse_mimetype_line(g[k - 1], lines[k])
    <3> TAKE k \in 1..n
    <3>1. k - 1 \in 0..n
      BY <1>2
    <3>2. g[k - 1] \in Maps
      BY <3>1
    <3> QED
      BY <2>2, <2>4, <3>2
  <2>6. Upto(g)
    BY <1>2, <2>4, <2>5
  <2> HIDE DEF Upto
  <2> QED
    BY <2>6
<1> HIDE DEF f
<1>6. f[0] = <<>> /\ \A k \in 1..n : f[k] = parse_mimetype_line(f[k - 1], lines[k])
  BY <1>2, <1>5
<1> HIDE DEF Upto
<1> DEFINE AsSaid(k) == f[k] \in Maps /\ \A text : Found(f[k], text) = SaidBy(lines, k, text)
           D == {k \in Nat : k <= n => AsSaid(k)}
<1>7. 0 \in D
  <2>1. f[0] = <<>>
    BY <1>6
  <2>2. \A text : SaidBy(lines, 0, text) = {}
    BY DEF SaidBy
  <2> QED
    BY <1>4, <2>1, <2>2
<1>8. ASSUME NEW k \in Nat, k \in D PROVE k + 1 \in D
  <2> SUFFICES ASSUME k + 1 <= n PROVE AsSaid(k + 1)
    <3> HIDE DEF AsSaid
    <3> QED
      OBVIOUS
  <2>1. k + 1 \in 1..n /\ (k + 1) - 1 = k /\ k <= n
    BY <1>2
  <2> DEFINE m == f[k]
             m2 == f[k + 1]
             line == lines[k + 1]
  <2>2. m \in Maps /\ \A text : Found(m, text) = SaidBy(lines, k, text)
    <3>1. AsSaid(k)
      <4> HIDE DEF AsSaid
      <4> QED
        BY <1>8, <2>1
    <3> QED
      BY <3>1
  <2>3. m2 = parse_mimetype_line(m, line)
    <3>1. f[k + 1] = parse_mimetype_line(f[(k + 1) - 1], lines[k + 1])
      BY <1>6, <2>1
    <3> QED
      BY <2>1, <3>1
  <2>4. m \in Seq(Entries(X)) /\ OneEach(m) /\ line \in Seq(Byte) /\ ExtensionsIn(line, X)
    BY <1>2, <2>1, <2>2 DEF Maps
  <2> HIDE DEF m, m2, line
  <2>5. /\ m2 \in Maps
        /\ \A text : Found(m2, text) =
             IF SaysOf(line, text) THEN {Split(line, Blanks)[1]} ELSE Found(m, text)
    BY <2>3, <2>4, LineParsed DEF Maps
  <2>6. ASSUME NEW text PROVE Found(m2, text) = SaidBy(lines, k + 1, text)
    <3> DEFINE J == {j \in 1..k : SaysOf(lines[j], text) /\ \A l \in (j + 1)..k : ~SaysOf(lines[l], text)}
               J2 == {j \in 1..(k + 1) :
                        SaysOf(lines[j], text) /\ \A l \in (j + 1)..(k + 1) : ~SaysOf(lines[l], text)}
    <3>1. \A j \in 1..(k + 1) : j # k + 1 => k + 1 \in (j + 1)..(k + 1)
      OBVIOUS
    <3>2. SaysOf(line, text) => J2 = {k + 1}
      <4> SUFFICES ASSUME SaysOf(lines[k + 1], text) PROVE J2 = {k + 1}
        BY DEF line
      <4>1. k + 1 \in J2
        OBVIOUS
      <4>2. \A j \in J2 : j = k + 1
        BY <3>1
      <4> QED
        BY <4>1, <4>2
    <3>3. ~SaysOf(line, text) => J2 = J
      BY DEF line
    <3>4. /\ SaidBy(lines, k, text) = {Split(lines[i], Blanks)[1] : i \in J}
          /\ SaidBy(lines, k + 1, text) = {Split(lines[i], Blanks)[1] : i \in J2}
      BY DEF SaidBy
    <3> HIDE DEF J, J2
    <3>5. CASE SaysOf(line, text)
      BY <2>5, <3>2, <3>4, <3>5 DEF line
    <3>6. CASE ~SaysOf(line, text)
      BY <2>2, <2>5, <3>3, <3>4, <3>6
    <3> QED
      BY <3>5, <3>6
  <2> QED
    BY <2>5, <2>6 DEF m2
<1>9. n \in D
  <2> HIDE DEF D
  <2>1. Nat \subseteq D
    BY <1>7, <1>8, NatInd
  <2> QED
    BY <1>2, <2>1
<1>10. AsSaid(n)
  <2> HIDE DEF AsSaid
  <2> QED
    BY <1>2, <1>9
<1> QED
  BY <1>1, <1>10 DEF Maps, n

LEMMA SaidIsTypeSaid ==
  ASSUME NEW lines \in Seq(Seq(Byte)), NEW text
  PROVE  SaidBy(lines, Len(lines), text) = TypeSaid(lines, text)
<1> DEFINE n == Len(lines)
           J == {j \in 1..n : SaysOf(lines[j], text) /\ \A l \in (j + 1)..n : ~SaysOf(lines[l], text)}
           M == Mentions(lines, text)
           K == {k \in M : \A j \in M : j <= k}
<1>1. M = {i \in 1..n : SaysOf(lines[i], text)}
  BY DEF Mentions, SaysOf, Says
<1>2. J = K
  <2> HIDE DEF M
  <2> QED
    BY <1>1
<1> QED
  BY <1>2 DEF SaidBy, TypeSaid

\* The lines of a file are texts.
LineEnds(file, i) == {j \in i..Len(file) : file[j] \in {CRByte, LFByte}}

EndOf(file, i) == Min(LineEnds(file, i))

PastEnd(file, i) == EndOf(file, i) + EndLength(file, EndOf(file, i))

LinesFrom(f, file, i) ==
  IF LineEnds(file, i) # {}
    THEN <<SubSeq(file, i, EndOf(file, i) - 1)>> \o f[PastEnd(file, i)]
  ELSE IF i > Len(file) THEN <<>>
  ELSE <<SubSeq(file, i, Len(file))>>

LEMMA EndIs ==
  ASSUME NEW file \in Seq(Byte), NEW i \in 1..(Len(file) + 1), LineEnds(file, i) # {}
  PROVE  /\ EndOf(file, i) \in i..Len(file)
         /\ PastEnd(file, i) \in (i + 1)..(Len(file) + 1)
<1> DEFINE I == LineEnds(file, i)
           n == Len(file)
<1>1. n \in Nat /\ I \in SUBSET Nat /\ I \in SUBSET Int /\ I \subseteq i..n
  BY DEF LineEnds
<1> HIDE DEF I, n
<1>2. PICK e \in I : \A k \in I : e <= k
  BY <1>1, LeastNat DEF I
<1>3. EndOf(file, i) = e
  <2>1. Min(I) = e
    BY <1>1, <1>2, LeastIs
  <2> QED
    BY <2>1 DEF EndOf, I
<1>4. EndLength(file, e) \in {1, 2} /\ (EndLength(file, e) = 2 => e < n)
  BY DEF EndLength, n
<1>5. e \in i..n
  BY <1>1, <1>2
<1> QED
  BY <1>1, <1>3, <1>4, <1>5 DEF PastEnd, n

LEMMA LinesType ==
  ASSUME NEW file \in Seq(Byte)
  PROVE  read_lines(file) \in Seq(Seq(Byte))
<1> DEFINE n == Len(file)
           V == Seq(Seq(Byte))
           Lines(f) == f = [i \in 1..(n + 1) |-> LinesFrom(f, file, i)]
           f == CHOOSE f : Lines(f)
<1>1. read_lines(file) = f[1]
  BY Zenon DEF read_lines, LinesFrom, LineEnds, EndOf, PastEnd
<1>2. n \in Nat
  OBVIOUS
<1>3. /\ <<>> \in V
      /\ \A i \in 1..(n + 1) : \A k \in 0..n : SubSeq(file, i, k) \in Seq(Byte)
      /\ \A line \in Seq(Byte) : <<line>> \in V /\ \A v \in V : <<line>> \o v \in V
  <2>1. \A i \in 1..(n + 1) : \A k \in 0..n : SubSeq(file, i, k) \in Seq(Byte)
    OBVIOUS
  <2> DEFINE T == Seq(Byte)
  <2> HIDE DEF T
  <2>2. <<>> \in Seq(T) /\ \A line \in T : <<line>> \in Seq(T) /\ \A v \in Seq(T) : <<line>> \o v \in Seq(T)
    OBVIOUS
  <2> QED
    BY <2>1, <2>2 DEF T
<1>4. ASSUME NEW i \in 1..(n + 1)
      PROVE  /\ SubSeq(file, i, n) \in Seq(Byte)
             /\ LineEnds(file, i) # {} =>
                  /\ SubSeq(file, i, EndOf(file, i) - 1) \in Seq(Byte)
                  /\ PastEnd(file, i) \in (i + 1)..(n + 1)
  <2>1. n \in 0..n
    BY <1>2
  <2>2. LineEnds(file, i) # {} =>
          EndOf(file, i) - 1 \in 0..n /\ PastEnd(file, i) \in (i + 1)..(n + 1)
    <3>1. LineEnds(file, i) # {} =>
            EndOf(file, i) \in i..n /\ PastEnd(file, i) \in (i + 1)..(n + 1)
      BY EndIs
    <3> HIDE DEF n
    <3> QED
      BY <1>2, <3>1
  <2> HIDE DEF n
  <2> QED
    BY <1>3, <2>1, <2>2
<1> HIDE DEF V, n
<1>5. Lines(f)
  <2> DEFINE jump == [i \in 1..(n + 1) |-> IF LineEnds(file, i) # {} THEN PastEnd(file, i) ELSE 0]
             base == [i \in 1..(n + 1) |-> IF i > n THEN <<>> ELSE <<SubSeq(file, i, n)>>]
             Step == [i \in 1..(n + 1) |->
                        [v \in V |-> <<SubSeq(file, i, EndOf(file, i) - 1)>> \o v]]
  <2>1. ASSUME NEW i \in 1..(n + 1)
        PROVE  /\ LineEnds(file, i) = {} => jump[i] = 0 /\ base[i] \in V
               /\ LineEnds(file, i) # {} =>
                    jump[i] \in (i + 1)..(n + 1) /\ \A v \in V : Step[i][v] \in V
    BY <1>3, <1>4
  <2>2. \A i \in 1..(n + 1) :
          /\ base[i] = IF i > n THEN <<>> ELSE <<SubSeq(file, i, n)>>
          /\ \A v \in V : Step[i][v] = <<SubSeq(file, i, EndOf(file, i) - 1)>> \o v
          /\ jump[i] = IF LineEnds(file, i) # {} THEN PastEnd(file, i) ELSE 0
    OBVIOUS
  <2> HIDE DEF jump, base, Step
  <2>3. JumpsIn(V, n, base, jump, Step)
    BY <2>1 DEF JumpsIn
  <2>4. PICK g : Descends(g, V, n, base, jump, Step)
    BY <1>2, <2>3, DownRec
  <2>5. ASSUME NEW i \in 1..(n + 1) PROVE g[i] = LinesFrom(g, file, i)
    <3>1. g[i] = IF jump[i] = 0 THEN base[i] ELSE Step[i][g[jump[i]]]
      BY <2>4 DEF Descends
    <3>2. CASE LineEnds(file, i) # {}
      <4>1. jump[i] = PastEnd(file, i) /\ jump[i] \in 1..(n + 1) /\ jump[i] # 0
        <5>1. jump[i] = PastEnd(file, i) /\ jump[i] \in (i + 1)..(n + 1)
          BY <2>1, <2>2, <3>2
        <5> QED
          BY <1>2, <5>1
      <4>2. g[jump[i]] \in V
        BY <2>4, <4>1 DEF Descends
      <4>3. g[i] = <<SubSeq(file, i, EndOf(file, i) - 1)>> \o g[jump[i]]
        BY <2>2, <3>1, <4>1, <4>2
      <4> QED
        BY <3>2, <4>1, <4>3 DEF LinesFrom
    <3>3. CASE LineEnds(file, i) = {}
      BY <2>1, <2>2, <3>1, <3>3 DEF LinesFrom, n
    <3> QED
      BY <3>2, <3>3
  <2>6. g = [i \in 1..(n + 1) |-> g[i]]
    BY <2>4 DEF Descends
  <2>7. Lines(g)
    BY <2>5, <2>6, Zenon
  <2> HIDE DEF Lines
  <2> QED
    BY <2>7
<1> HIDE DEF f
<1> DEFINE G == {i \in 1..(n + 1) : f[i] \in V}
<1>6. \A i \in 1..(n + 1) : f[i] = LinesFrom(f, file, i)
  BY <1>5
<1>7. ASSUME NEW i \in 1..(n + 1), \A j \in (i + 1)..(n + 1) : f[j] \in V PROVE f[i] \in V
  <2>1. CASE LineEnds(file, i) # {}
    BY <1>3, <1>4, <1>6, <1>7, <2>1 DEF LinesFrom
  <2>2. CASE LineEnds(file, i) = {}
    BY <1>3, <1>4, <1>6, <2>2 DEF LinesFrom, n
  <2> QED
    BY <2>1, <2>2
<1>8. n + 1 \in G
  BY <1>2, <1>7
<1>9. \A i \in 1..n : (\A j \in (i + 1)..(n + 1) : j \in G) => i \in G
  BY <1>2, <1>7
<1>10. \A i \in 1..(n + 1) : i \in G
  <2> HIDE DEF G
  <2> QED
    BY <1>2, <1>8, <1>9, DownInd
<1> QED
  BY <1>1, <1>2, <1>10 DEF V

-----------------------------------------------------------------------------
(***************************************************************************)
(* The type of a file.                                                     *)
(***************************************************************************)

\* No extension in the table has a slash: it is part of the name of a file.
SlashFree == {text \in Seq(Byte) : \A i \in 1..Len(text) : text[i] # Slash}

ExtensionsAreNames == \A i \in 1..Len(mime_lines) : ExtensionsIn(mime_lines[i], SlashFree)

LEMMA FoundIsSaid ==
  ASSUME ExtensionsAreNames, NEW text \in Seq(Byte)
  PROVE  /\ Found(mime_map, text) = TypeSaid(mime_lines, text)
         /\ Found(mime_map, text) # {} =>
              /\ text \in SlashFree /\ text # <<>>
              /\ Len(text) <= longest_ext
         /\ longest_ext \in Nat
<1> DEFINE Nonempty == {t \in SlashFree : t # <<>>}
<1>1. mime_lines \in Seq(Seq(Byte))
  <2>1. read_lines(mimetypes) \in Seq(Seq(Byte)) /\ default_extension_map \in Seq(Seq(Byte))
    BY RequestPathAssumption, LinesType
  <2> DEFINE T == Seq(Byte)
             a == read_lines(mimetypes)
  <2> HIDE DEF T, a
  <2>2. default_extension_map \o a \in Seq(T)
    BY <2>1 DEF T, a
  <2> QED
    BY <2>2 DEF mime_lines, T, a
<1>2. \A k \in 1..Len(mime_lines) : ExtensionsIn(mime_lines[k], Nonempty)
  <2> SUFFICES ASSUME NEW k \in 1..Len(mime_lines), Says(mime_lines[k]),
                      NEW j \in 2..Len(Split(mime_lines[k], Blanks))
               PROVE  Split(mime_lines[k], Blanks)[j] \in Nonempty
    BY DEF ExtensionsIn
  <2> DEFINE words == Split(mime_lines[k], Blanks)
  <2>1. mime_lines[k] \in Seq(Byte)
    BY <1>1
  <2>2. words \in Seq(PartsOver(Byte, Blanks))
    BY <2>1, SplitType
  <2>3. words[j] \in SlashFree
    BY DEF ExtensionsAreNames, ExtensionsIn
  <2> HIDE DEF words
  <2>4. words[j] # <<>>
    <3>1. words[j] \in PartsOver(Byte, Blanks)
      BY <2>2 DEF words
    <3> QED
      BY <3>1 DEF PartsOver
  <2> QED
    BY <2>3, <2>4 DEF words
<1> HIDE DEF Nonempty
<1> DEFINE map == mime_map
           n == Len(map)
<1>3. /\ map \in Seq(Entries(Nonempty))
      /\ Found(map, text) = TypeSaid(mime_lines, text)
  BY <1>1, <1>2, MapIsSaid, SaidIsTypeSaid DEF mime_map
<1>4. longest_ext = Max({0} \cup {Len(map[i].extension) : i \in DOMAIN map})
  BY DEF longest_ext
<1> HIDE DEF map
<1>5. /\ n \in Nat /\ DOMAIN map = 1..n
      /\ \A i \in 1..n : map[i].extension \in Seq(Byte) /\ map[i].extension \in Nonempty
  <2>1. \A i \in 1..n : map[i] \in Entries(Nonempty)
    BY <1>3
  <2>2. \A entry \in Entries(Nonempty) : entry.extension \in Nonempty
    BY DEF Entries
  <2>3. Nonempty \subseteq Seq(Byte)
    BY DEF Nonempty, SlashFree
  <2> QED
    BY <1>3, <2>1, <2>2, <2>3
<1> HIDE DEF n
<1> DEFINE lengths == [i \in 1..n |-> Len(map[i].extension)]
<1>6. \A i \in 1..n : lengths[i] \in Nat
  BY <1>5
<1>7. longest_ext = Max({0} \cup {lengths[i] : i \in 1..n})
  BY <1>4, <1>5
<1>8. longest_ext \in Nat /\ \A i \in 1..n : lengths[i] <= longest_ext
  <2> HIDE DEF lengths
  <2> QED
    BY <1>5, <1>6, <1>7, LongestIs
<1>9. ASSUME Found(map, text) # {}
      PROVE  text \in SlashFree /\ text # <<>> /\ Len(text) <= longest_ext
  <2>1. PICK i \in 1..n : SameText(map[i].extension, text)
    BY <1>5, <1>9 DEF Found
  <2> DEFINE extension == map[i].extension
  <2>2. extension \in Seq(Byte) /\ extension \in Nonempty /\ lengths[i] = Len(extension)
    BY <1>5
  <2>3. SameText(extension, text)
    BY <2>1
  <2> HIDE DEF extension
  <2>4. /\ Len(extension) = Len(text)
        /\ \A k \in 1..Len(extension) : extension[k] = Slash <=> text[k] = Slash
    BY <2>2, <2>3, SameTextIs
  <2>5. extension \in SlashFree /\ extension # <<>>
    BY <2>2 DEF Nonempty
  <2>6. text \in SlashFree
    BY <2>4, <2>5 DEF SlashFree
  <2>7. text # <<>>
    BY <2>2, <2>4, <2>5
  <2> QED
    BY <1>8, <2>2, <2>4, <2>6, <2>7
<1> QED
  BY <1>3, <1>8, <1>9 DEF map

\* What is looked for is what follows the last period.
LEMMA TypeByDot ==
  ASSUME ExtensionsAreNames, NEW text \in Seq(Byte), NEW p \in 1..Len(text), text[p] = Dot,
         \A i \in (p + 1)..Len(text) : text[i] # Dot
  PROVE  LET found == Found(mime_map, SubSeq(text, p + 1, Len(text)))
         IN  url_content_type(text) =
               IF found # {} THEN CHOOSE type \in found : TRUE ELSE default_mimetype
<1> DEFINE n == Len(text)
           L == longest_ext
           ext == SubSeq(text, p + 1, n)
           I == {0} \cup {i \in 0..(n - 1) : text[i + 1] = Dot \/ n - i - 1 > L}
           period == Period(text)
           found == Found(mime_map, SubSeq(text, period + 2, n))
           there == text # <<>> /\ text[period + 1] = Dot
<1>1. ext \in Seq(Byte) /\ Len(ext) = n - p /\ n \in Nat /\ n >= 1
  OBVIOUS
<1>2. /\ L \in Nat
      /\ Found(mime_map, ext) # {} => Len(ext) <= L
  BY <1>1, FoundIsSaid
<1>3. period = Max(I) /\ I \in SUBSET Int
  BY DEF Period
<1>4. url_content_type(text) =
        IF there /\ found # {} THEN CHOOSE type \in found : TRUE ELSE default_mimetype
  BY Zenon DEF url_content_type
<1>5. text # <<>>
  BY <1>1
<1>6. CASE n - p <= L
  <2>1. period = p - 1
    <3>1. p - 1 \in I /\ \A i \in I : i <= p - 1
      BY <1>2, <1>6
    <3> HIDE DEF I, period
    <3> QED
      BY <1>3, <3>1, GreatestIs
  <2>2. period + 1 = p /\ period + 2 = p + 1
    BY <2>1
  <2>3. there /\ found = Found(mime_map, ext)
    BY <1>5, <2>2
  <2> HIDE DEF there, found, ext
  <2> QED
    BY <1>4, <2>3 DEF ext
<1>7. CASE ~(n - p <= L)
  <2> DEFINE q == n - 2 - L
  <2>1. q \in I /\ (\A i \in I : i <= q) /\ q \in (p - 1)..(n - 1)
    BY <1>2, <1>7
  <2>2. period = q
    <3> HIDE DEF I, period, q
    <3> QED
      BY <1>3, <2>1, GreatestIs
  <2>3. Found(mime_map, ext) = {}
    BY <1>1, <1>2, <1>7
  <2>4. there => found = {}
    <3> SUFFICES ASSUME there PROVE found = {}
      OBVIOUS
    <3>1. text[q + 1] = Dot
      BY <2>2
    <3>2. q = p - 1
      BY <2>1, <3>1
    <3>3. period + 2 = p + 1
      BY <2>2, <3>2
    <3> HIDE DEF period
    <3> QED
      BY <2>3, <3>3
  <2> HIDE DEF there, found, ext
  <2> QED
    BY <1>4, <2>3, <2>4 DEF ext
<1> QED
  BY <1>1, <1>2, <1>6, <1>7

LEMMA TypeWithoutDot ==
  ASSUME NEW text \in Seq(Byte), longest_ext \in Nat, \A i \in 1..Len(text) : text[i] # Dot
  PROVE  url_content_type(text) = default_mimetype
<1> DEFINE n == Len(text)
           L == longest_ext
           I == {0} \cup {i \in 0..(n - 1) : text[i + 1] = Dot \/ n - i - 1 > L}
           period == Period(text)
<1>1. period = Max(I) /\ I \in SUBSET Int
  BY DEF Period
<1>2. ASSUME text # <<>> PROVE period \in 0..(n - 1)
  <2>1. n >= 1
    BY <1>2
  <2>2. CASE n - 2 - L >= 0
    <3> DEFINE q == n - 2 - L
    <3>1. q \in I /\ (\A i \in I : i <= q) /\ q \in 0..(n - 1)
      BY <2>1, <2>2
    <3> HIDE DEF I, period, q
    <3> QED
      BY <1>1, <3>1, GreatestIs
  <2>3. CASE ~(n - 2 - L >= 0)
    <3>1. 0 \in I /\ \A i \in I : i <= 0
      BY <2>3
    <3>2. period = 0
      <4> DEFINE zero == 0
      <4>1. zero \in I /\ \A i \in I : i <= zero
        BY <3>1
      <4> HIDE DEF I, period, zero
      <4>2. Max(I) = zero
        BY <1>1, <4>1, GreatestIs
      <4> QED
        BY <1>1, <4>2 DEF zero
    <3> HIDE DEF period
    <3> QED
      BY <2>1, <3>2
  <2> QED
    BY <2>2, <2>3
<1>3. text # <<>> => text[period + 1] # Dot
  <2> HIDE DEF period
  <2> QED
    BY <1>2
<1> QED
  BY <1>3, Zenon DEF url_content_type

LEMMA LastOf ==
  ASSUME NEW S, NEW text \in Seq(S), NEW c
  PROVE  \/ \A i \in 1..Len(text) : text[i] # c
         \/ \E p \in 1..Len(text) : text[p] = c /\ \A i \in (p + 1)..Len(text) : text[i] # c
<1> DEFINE n == Len(text)
           T == {k \in 0..(n - 1) : text[n - k] = c}
<1>1. n \in Nat /\ T \in SUBSET Nat
  OBVIOUS
<1>2. CASE T = {}
  <2> SUFFICES ASSUME NEW i \in 1..n, text[i] = c PROVE FALSE
    OBVIOUS
  <2>1. n - i \in 0..(n - 1) /\ n - (n - i) = i
    BY <1>1
  <2> QED
    BY <1>2, <2>1
<1>3. CASE T # {}
  <2>1. PICK k \in T : \A l \in T : k <= l
    <3> HIDE DEF T
    <3> QED
      BY <1>1, <1>3, LeastNat
  <2> DEFINE p == n - k
  <2>2. p \in 1..n /\ text[p] = c
    BY <1>1, <2>1
  <2>3. ASSUME NEW i \in (p + 1)..n, text[i] = c PROVE FALSE
    <3>1. n - i \in 0..(n - 1) /\ n - (n - i) = i /\ n - i < k
      BY <1>1, <2>1
    <3> QED
      BY <2>1, <2>3, <3>1
  <2> QED
    BY <2>2, <2>3
<1> QED
  BY <1>2, <1>3

\* The types that are right for a file of a name.
TypesOf(name) ==
  LET said == IF Dot \in ToSet(name) /\ Last(name) # Dot
                THEN TypeSaid(mime_lines, Last(Split(name, {Dot}))) ELSE {}
  IN  IF said = {} THEN {default_mimetype} ELSE said

LEMMA ExtensionIs ==
  ASSUME NEW name \in Seq(Byte), NEW q \in 1..(Len(name) - 1), name[q] = Dot,
         \A i \in (q + 1)..Len(name) : name[i] # Dot
  PROVE  Last(Split(name, {Dot})) = SubSeq(name, q + 1, Len(name))
<1> DEFINE b == SubSeq(name, 1, q)
           ext == SubSeq(name, q + 1, Len(name))
           n == Len(name)
           separators == {Dot}
<1>1. /\ b \in Seq(Byte) /\ Len(b) = q /\ b[q] = Dot
      /\ \A i \in 1..q : b[i] = name[i]
  OBVIOUS
<1>2. /\ ext \in Seq(Byte) /\ Len(ext) = n - q
      /\ \A i \in 1..(n - q) : ext[i] = name[q + i] /\ ext[i] \in Byte \ {Dot}
  OBVIOUS
<1>3. name = b \o ext
  <2> DEFINE e == b \o ext
  <2>1. /\ e \in Seq(Byte) /\ Len(e) = q + (n - q)
        /\ \A i \in 1..q : e[i] = b[i]
        /\ \A i \in 1..(n - q) : e[q + i] = ext[i]
    <3> DEFINE k == n - q
    <3>1. Len(b) = q /\ Len(ext) = k /\ b \in Seq(Byte) /\ ext \in Seq(Byte)
      BY <1>1, <1>2
    <3> HIDE DEF b, ext, k
    <3>2. /\ e \in Seq(Byte) /\ Len(e) = q + k
          /\ \A i \in 1..q : e[i] = b[i]
          /\ \A i \in 1..k : e[q + i] = ext[i]
      <4> DEFINE S == Byte
      <4>1. b \in Seq(S) /\ ext \in Seq(S)
        BY <3>1
      <4> HIDE DEF S
      <4>2. /\ e \in Seq(S) /\ Len(e) = Len(b) + Len(ext)
            /\ \A i \in 1..Len(b) : e[i] = b[i]
            /\ \A i \in 1..Len(ext) : e[Len(b) + i] = ext[i]
        BY <4>1, ConcatIs
      <4> QED
        BY <3>1, <4>2 DEF S
    <3> QED
      BY <3>2 DEF k
  <2>2. \A i \in 1..n : e[i] = name[i]
    <3> TAKE i \in 1..n
    <3>1. CASE i <= q
      <4>1. i \in 1..q
        BY <3>1
      <4>2. e[i] = b[i]
        BY <2>1, <4>1
      <4>3. b[i] = name[i]
        BY <1>1, <4>1
      <4> QED
        BY <4>2, <4>3
    <3>2. CASE i > q
      <4>1. i - q \in 1..(n - q) /\ q + (i - q) = i
        BY <3>2
      <4>2. e[q + (i - q)] = ext[i - q] /\ ext[i - q] = name[q + (i - q)]
        BY <1>2, <2>1, <4>1
      <4> QED
        BY <4>1, <4>2
    <3> QED
      BY <3>1, <3>2
  <2>3. Len(e) = n
    BY <2>1
  <2> HIDE DEF e
  <2>4. e = name
    BY <2>1, <2>2, <2>3, SeqEqual
  <2> QED
    BY <2>4 DEF e
<1>4. ext \in PartsOver(Byte, separators)
  <2>1. ext # <<>>
    <3>1. n - q > 0
      OBVIOUS
    <3>2. Len(ext) = n - q
      BY <1>2
    <3> HIDE DEF ext, n
    <3> QED
      BY <3>1, <3>2
  <2>2. ext \in Seq(Byte \ separators)
    BY <1>2
  <2> QED
    BY <2>1, <2>2 DEF PartsOver
<1>5. b[Len(b)] \in separators
  BY <1>1
<1> HIDE DEF b, ext, separators
<1>6. Split(b \o ext, separators) = Split(b, separators) \o Split(ext, separators)
  BY <1>1, <1>2, <1>5, SplitConcat
<1>7. Split(ext, separators) = <<ext>>
  BY <1>4, SplitName
<1>8. Split(b, separators) \in Seq(PartsOver(Byte, separators))
  BY <1>1, SplitType
<1> DEFINE parts == Split(b, separators)
<1> HIDE DEF parts
<1>9. Last(parts \o <<ext>>) = ext
  BY <1>4, <1>8 DEF Last, parts
<1> QED
  BY <1>3, <1>6, <1>7, <1>9 DEF parts, ext, separators

LEMMA TypeByName ==
  ASSUME ExtensionsAreNames, NEW a \in Seq(Byte), a = <<>> \/ a[Len(a)] = Slash,
         NEW name \in SlashFree
  PROVE  url_content_type(a \o name) \in TypesOf(name)
<1> DEFINE text == a \o name
           m == Len(a)
           k == Len(name)
           n == Len(text)
<1>1. name \in Seq(Byte) /\ \A i \in 1..k : name[i] # Slash
  BY DEF SlashFree
<1>2. /\ text \in Seq(Byte) /\ n = m + k /\ m \in Nat /\ k \in Nat
      /\ \A i \in 1..m : text[i] = a[i]
      /\ \A i \in 1..k : text[m + i] = name[i]
  BY <1>1, ConcatIs
<1>3. longest_ext \in Nat
  BY <1>1, FoundIsSaid
<1>4. Dot # Slash
  BY DEF Dot, Slash
<1>5. ToSet(name) = {name[i] : i \in 1..k}
  BY <1>1 DEF ToSet
<1>6. Last(name) = name[k]
  BY DEF Last
<1> HIDE DEF text, m, k, n
<1> DEFINE said == IF Dot \in ToSet(name) /\ Last(name) # Dot
                     THEN TypeSaid(mime_lines, Last(Split(name, {Dot}))) ELSE {}
<1>7. TypesOf(name) = IF said = {} THEN {default_mimetype} ELSE said
  BY Zenon DEF TypesOf
<1>8. CASE \A i \in 1..n : text[i] # Dot
  <2>1. url_content_type(text) = default_mimetype
    BY <1>2, <1>3, <1>8, TypeWithoutDot DEF n
  <2>2. \A i \in 1..k : name[i] # Dot
    <3> TAKE i \in 1..k
    <3>1. m + i \in 1..n
      BY <1>2
    <3> QED
      BY <1>2, <1>8, <3>1
  <2>3. said = {}
    BY <1>5, <2>2
  <2> QED
    BY <1>7, <2>1, <2>3 DEF text
<1>9. ASSUME NEW p \in 1..n, text[p] = Dot, \A i \in (p + 1)..n : text[i] # Dot
      PROVE  url_content_type(text) \in TypesOf(name)
  <2> DEFINE ext == SubSeq(text, p + 1, n)
             found == Found(mime_map, ext)
  <2>1. url_content_type(text) =
          IF found # {} THEN CHOOSE type \in found : TRUE ELSE default_mimetype
    BY <1>2, <1>9, TypeByDot DEF n
  <2>2. /\ ext \in Seq(Byte) /\ Len(ext) = n - p
        /\ \A i \in 1..(n - p) : ext[i] = text[p + i]
    BY <1>2 DEF n
  <2>3. /\ found = TypeSaid(mime_lines, ext)
        /\ found # {} => ext \in SlashFree /\ ext # <<>>
    BY <2>2, FoundIsSaid
  <2> HIDE DEF ext, found
  <2>4. CASE p <= m
    <3>1. a # <<>> /\ a[m] = Slash /\ p # m
      BY <1>2, <1>4, <1>9, <2>4 DEF m
    <3>2. m - p \in 1..(n - p) /\ p + (m - p) = m /\ m \in 1..m
      <4>1. p \in Nat /\ p >= 1 /\ m \in Nat
        BY <1>2
      <4>2. p < m
        BY <2>4, <3>1, <4>1
      <4>3. n \in Nat /\ m <= n
        BY <1>2
      <4> QED
        BY <4>1, <4>2, <4>3
    <3>3. ext[m - p] = Slash
      <4>1. ext[m - p] = text[p + (m - p)]
        BY <2>2, <3>2
      <4> QED
        BY <1>2, <3>1, <3>2, <4>1
    <3>4. found = {}
      BY <2>2, <2>3, <3>2, <3>3 DEF SlashFree
    <3>5. \A i \in 1..k : name[i] # Dot
      <4> TAKE i \in 1..k
      <4>1. m + i \in (p + 1)..n
        BY <1>2, <2>4
      <4> QED
        BY <1>2, <1>9, <4>1
    <3>6. said = {}
      BY <1>5, <3>5
    <3> QED
      BY <1>7, <2>1, <3>4, <3>6
  <2>5. CASE p > m
    <3> DEFINE q == p - m
    <3>1. q \in 1..k /\ m + q = p /\ name[q] = Dot /\ n - p = k - q
      <4>1. q \in 1..k /\ m + q = p /\ n - p = k - q
        BY <1>2, <2>5
      <4>2. text[m + q] = name[q]
        BY <1>2, <4>1
      <4> QED
        BY <1>9, <4>1, <4>2
    <3>2. \A i \in (q + 1)..k : name[i] # Dot
      <4> TAKE i \in (q + 1)..k
      <4>1. m + i \in (p + 1)..n /\ i \in 1..k
        BY <1>2, <2>5
      <4> QED
        BY <1>2, <1>9, <4>1
    <3> HIDE DEF q
    <3>3. Dot \in ToSet(name)
      BY <1>5, <3>1
    <3>4. CASE q = k
      <4>1. found = {}
        <5>1. Len(ext) = 0
          BY <1>2, <2>2, <3>1, <3>4
        <5> QED
          BY <2>2, <2>3, <5>1
      <4>2. said = {}
        BY <1>6, <3>1, <3>4
      <4> QED
        BY <1>7, <2>1, <4>1, <4>2
    <3>5. CASE q # k
      <4>1. q \in 1..(k - 1) /\ Last(name) # Dot
        <5>1. q \in 1..(k - 1) /\ k \in (q + 1)..k
          BY <1>2, <3>1, <3>5
        <5>2. name[k] # Dot
          BY <3>2, <5>1
        <5> QED
          BY <1>6, <5>1, <5>2
      <4>2. Last(Split(name, {Dot})) = SubSeq(name, q + 1, k)
        BY <1>1, <3>1, <3>2, <4>1, ExtensionIs DEF k
      <4>3. ext = SubSeq(name, q + 1, k)
        <5> DEFINE e == SubSeq(name, q + 1, k)
        <5>1. e \in Seq(Byte) /\ Len(e) = k - q /\ \A i \in 1..(k - q) : e[i] = name[q + i]
          BY <1>1, <3>1 DEF k
        <5>2. \A i \in 1..(k - q) : ext[i] = name[q + i]
          <6> TAKE i \in 1..(k - q)
          <6>1. i \in 1..(n - p) /\ q + i \in 1..k /\ m + (q + i) = p + i
            BY <1>2, <3>1
          <6>2. text[m + (q + i)] = name[q + i]
            BY <1>2, <6>1
          <6> QED
            BY <2>2, <6>1, <6>2
        <5>3. Len(ext) = k - q
          BY <2>2, <3>1
        <5> HIDE DEF e
        <5>4. ext = e
          BY <2>2, <5>1, <5>2, <5>3, SeqEqual
        <5> QED
          BY <5>4 DEF e
      <4>4. said = found
        BY <2>3, <3>3, <4>1, <4>2, <4>3
      <4> HIDE DEF said
      <4> QED
        BY <1>7, <2>1, <4>4
    <3> QED
      BY <3>4, <3>5
  <2> QED
    BY <1>2, <2>4, <2>5
<1> QED
  <2>1. \/ \A i \in 1..n : text[i] # Dot
        \/ \E p \in 1..n : text[p] = Dot /\ \A i \in (p + 1)..n : text[i] # Dot
    BY <1>2, LastOf DEF n
  <2> QED
    BY <1>8, <1>9, <2>1 DEF text

\* The type of a text is right for a path that ends in it.
LEMMA TypeOfText ==
  ASSUME ExtensionsAreNames, NEW below \in Seq(Byte), NEW text \in Seq(Byte),
         \/ below = <<>> \/ below[Len(below)] = Slash
         \/ text # <<>> /\ Head(text) = Slash
  PROVE  url_content_type(text) \in TypesOf(BaseName(below \o text))
<1> DEFINE path == below \o text
<1>1. /\ path \in Seq(Byte) /\ Len(path) = Len(below) + Len(text)
      /\ Len(below) \in Nat /\ Len(text) \in Nat
      /\ \A i \in 1..Len(text) : path[Len(below) + i] = text[i]
  BY ConcatIs
<1>2. ASSUME text = <<>> \/ text[Len(text)] = Slash
      PROVE  url_content_type(text) \in TypesOf(BaseName(path))
  <2>1. <<>> \in SlashFree /\ text \o <<>> = text
    BY DEF SlashFree
  <2>2. url_content_type(text) \in TypesOf(<<>>)
    BY <1>2, <2>1, TypeByName
  <2>3. BaseName(path) = <<>>
    <3>1. CASE text = <<>>
      <4>1. path = below
        BY <3>1
      <4>2. below = <<>> \/ below[Len(below)] = Slash
        BY <3>1
      <4> HIDE DEF path
      <4> QED
        BY <4>1, <4>2 DEF BaseName, EndsInSlash, Last
    <3>2. CASE text # <<>>
      <4>1. Len(text) \in 1..Len(text)
        BY <3>2
      <4>2. path[Len(path)] = Slash
        BY <1>1, <1>2, <3>2, <4>1
      <4> HIDE DEF path
      <4> QED
        BY <4>2 DEF BaseName, EndsInSlash, Last
    <3> QED
      BY <3>1, <3>2
  <2> QED
    BY <2>2, <2>3
<1>3. ASSUME text # <<>>, text[Len(text)] # Slash
      PROVE  url_content_type(text) \in TypesOf(BaseName(path))
  <2>1. PICK a \in Seq(Byte), name \in PartsOver(Byte, {Slash}) :
          text = a \o name /\ (a = <<>> \/ a[Len(a)] \in {Slash})
    <3> DEFINE separators == {Slash}
    <3>1. text[Len(text)] \notin separators
      BY <1>3
    <3> HIDE DEF separators
    <3>2. \E a \in Seq(Byte), name \in PartsOver(Byte, separators) :
            text = a \o name /\ (a = <<>> \/ a[Len(a)] \in separators)
      BY <1>3, <3>1, EndsInName
    <3> QED
      BY <3>2 DEF separators
  <2>2. name \in Name /\ name \in Seq(Byte) /\ name # <<>>
    <3>1. name \in Name
      BY DEF Name
    <3> QED
      BY <3>1, NameIsText
  <2>3. \A i \in 1..Len(name) : name[i] # Slash
    BY DEF PartsOver
  <2>4. name \in SlashFree
    BY <2>2, <2>3 DEF SlashFree
  <2>5. url_content_type(text) \in TypesOf(name)
    BY <2>1, <2>4, TypeByName
  <2> DEFINE front == below \o a
  <2>6. path = front \o name /\ front \in Seq(Byte)
    <3>1. below \o (a \o name) = (below \o a) \o name
      <4>1. below \in Seq(Byte) /\ a \in Seq(Byte) /\ name \in Seq(Byte)
        BY <2>2
      <4> QED
        BY <4>1, ConcatAssociative
    <3>2. front \in Seq(Byte)
      BY <2>1
    <3> QED
      BY <2>1, <3>1, <3>2
  <2>7. front = <<>> \/ front[Len(front)] = Slash
    <3>1. CASE a = <<>>
      <4>1. text = name /\ front = below
        BY <2>1, <2>2, <3>1
      <4>2. Head(text) # Slash
        <5>1. 1 \in 1..Len(name) /\ Head(name) = name[1]
          BY <2>2
        <5> QED
          BY <2>3, <4>1, <5>1
      <4> HIDE DEF front
      <4> QED
        BY <4>1, <4>2
    <3>2. CASE a # <<>>
      <4>1. Len(a) \in 1..Len(a) /\ a[Len(a)] = Slash
        BY <2>1, <3>2
      <4>2. Len(front) = Len(below) + Len(a) /\ front[Len(below) + Len(a)] = a[Len(a)]
        BY <4>1, ConcatIs
      <4> HIDE DEF front
      <4> QED
        BY <4>1, <4>2
    <3> QED
      BY <3>1, <3>2
  <2>8. ~EndsInSlash(path) /\ path # <<>>
    <3>1. Len(text) \in 1..Len(text) /\ Len(path) # 0
      BY <1>1, <1>3
    <3>2. path[Len(path)] # Slash
      BY <1>1, <1>3, <3>1
    <3> HIDE DEF path
    <3> QED
      BY <3>1, <3>2 DEF EndsInSlash, Last
  <2> HIDE DEF path, front
  <2>9. Components(path) = Append(Components(front), name)
    BY <2>2, <2>6, <2>7, ComponentsAddName
  <2>10. Last(Components(path)) = name
    <3> DEFINE names == Components(front)
    <3>1. names \in Seq(Name)
      BY <2>6, ComponentsType
    <3> HIDE DEF names
    <3>2. Last(Append(names, name)) = name
      BY <2>2, <3>1 DEF Last
    <3> QED
      BY <2>9, <3>2 DEF names
  <2> QED
    BY <2>5, <2>8, <2>10 DEF BaseName
<1> QED
  BY <1>2, <1>3

\* What is opened, and the type it is announced with, are chosen together.
TypeChosen ==
  asked = "open" =>
    /\ pc = "safe" /\ ~options.https
    /\ \/ target = wwwroot /\ mimetype = url_content_type(wwwroot)
       \/ /\ EndsInSlash(decoded_url)
          /\ target = Under(decoded_url \o index_name) /\ mimetype = TypeOfIndex
       \/ target = Under(decoded_url) /\ mimetype = url_content_type(decoded_url)

LEMMA TypeChosenKept ==
  ASSUME RouteInv, TypeChosen, [Next]_vars
  PROVE  TypeChosen'
<1> DEFINE d == decoded_url
           d2 == decoded_url'
<1>1. CASE PrepareUrl
  BY <1>1 DEF PrepareUrl, TypeChosen
<1>2. CASE MakeSafe
  <2>1. Walking /\ asked' = asked
    BY <1>2
    DEF MakeSafe, SafeStep, Skip, StartCopy, CopyByte, SkipSlash, SkipDot,
        Backtrack, AboveRoot, KeepSlash, Finish, Walking, routeVars
  <2> QED
    BY <2>1 DEF Walking, TypeChosen
<1>3. CASE Route
  <2>1. UNCHANGED <<safeVars, options, conn_url>>
    BY <1>3
    DEF Route, InvalidUrl, RedirectHttps, Forward, Hide, SingleFile, Index,
        NoListing, Listing, File, Open, OpenDirectory, Keep
  <2>2. pc' = pc /\ options' = options /\ d2 = d
    BY <2>1, RouteStays DEF safeVars
  <2> DEFINE Opens == asked' = "open" =>
               /\ pc = "safe" /\ ~options.https
               /\ \/ target' = wwwroot /\ mimetype' = url_content_type(wwwroot)
                  \/ /\ EndsInSlash(d) /\ target' = Under(d \o index_name)
                     /\ mimetype' = TypeOfIndex
                  \/ target' = Under(d) /\ mimetype' = url_content_type(d)
  <2> HIDE DEF d, d2
  <2>3. UNCHANGED <<asked, target, mimetype>> => Opens
    BY DEF TypeChosen, d
  <2>4. SingleFile => Opens
    BY DEF SingleFile, Shown, Serving, Routing
  <2>5. Index => Opens
    BY DEF Index, Directory, Shown, Serving, Routing, d
  <2>6. Listing => Opens
    BY DEF Listing
  <2>7. File => Opens
    BY DEF File, Shown, Serving, Routing, d
  <2>8. Opens
    <3> HIDE DEF Opens
    <3> QED
      BY <1>3, <2>3, <2>4, <2>5, <2>6, <2>7
      DEF Route, InvalidUrl, RedirectHttps, Forward, Hide, NoListing, Open, OpenDirectory
  <2> QED
    BY <2>2, <2>8 DEF TypeChosen, TypeOfIndex, d2
<1>4. CASE UNCHANGED vars
  <2>1. UNCHANGED <<safeVars, options, conn_url, asked, target, mimetype>>
    BY <1>4 DEF vars, routeVars
  <2> QED
    BY <2>1, RouteStays DEF TypeChosen, safeVars, TypeOfIndex
<1> QED
  BY <1>1, <1>2, <1>3, <1>4 DEF Next

LEMMA TypeIsRight ==
  ASSUME ExtensionsAreNames, RouteInv, WalkResolves, TypeChosen
  PROVE  TypeIsOfTheFile
<1> DEFINE d == decoded_url
<1>1. ASSUME asked = "open" PROVE mimetype \in TypesOf(BaseName(target))
  <2>1. wwwroot \in Seq(Byte) /\ index_name \in Seq(Byte) /\ <<>> \in Seq(Byte)
    BY RequestPathAssumption
  <2>2. Absolute(d)
    BY <1>1, SafeIsResolved DEF TypeChosen
  <2> HIDE DEF d
  <2>3. d \in Seq(Byte) /\ d # <<>> /\ Head(d) = Slash
    BY <2>2 DEF Absolute
  <2>4. CASE target = wwwroot /\ mimetype = url_content_type(wwwroot)
    <3>1. url_content_type(wwwroot) \in TypesOf(BaseName(<<>> \o wwwroot))
      BY <2>1, TypeOfText
    <3>2. <<>> \o wwwroot = wwwroot
      BY <2>1
    <3> QED
      BY <2>4, <3>1, <3>2
  <2>5. CASE /\ EndsInSlash(d) /\ target = Under(d \o index_name)
             /\ mimetype = url_content_type(index_name)
    <3> DEFINE below == wwwroot \o d
    <3>1. Len(d) \in 1..Len(d) /\ d[Len(d)] = Slash
      BY <2>3, <2>5 DEF EndsInSlash, Last
    <3>2. /\ below \in Seq(Byte) /\ Len(below) = Len(wwwroot) + Len(d)
          /\ below[Len(wwwroot) + Len(d)] = d[Len(d)]
      BY <2>1, <2>3, <3>1, ConcatIs
    <3>3. target = below \o index_name
      <4>1. wwwroot \o (d \o index_name) = (wwwroot \o d) \o index_name
        BY <2>1, <2>3, ConcatAssociative
      <4> QED
        BY <2>5, <4>1 DEF Under
    <3> HIDE DEF below
    <3>4. url_content_type(index_name) \in TypesOf(BaseName(below \o index_name))
      BY <2>1, <3>1, <3>2, TypeOfText
    <3> QED
      BY <2>5, <3>3, <3>4
  <2>6. CASE target = Under(d) /\ mimetype = url_content_type(d)
    <3>1. url_content_type(d) \in TypesOf(BaseName(wwwroot \o d))
      BY <2>1, <2>3, TypeOfText
    <3> QED
      BY <2>6, <3>1 DEF Under
  <2> QED
    BY <1>1, <2>4, <2>5, <2>6 DEF TypeChosen, TypeOfIndex, d
<1> QED
  BY <1>1 DEF TypeIsOfTheFile, TypesOf

\* A file is announced with the type that was said last for the extension of
\* its own name.  An extension with a slash in it, which no name of a file
\* has, is left out: it would be found in a URL all the same.
THEOREM TypesAreOfTheFiles == ExtensionsAreNames => (Spec => []TypeIsOfTheFile)
<1> SUFFICES ASSUME ExtensionsAreNames PROVE Spec => []TypeIsOfTheFile
  OBVIOUS
<1>1. Init => TypeChosen
  BY DEF Init, TypeChosen
<1>2. RouteInv /\ TypeChosen /\ [Next]_vars => TypeChosen'
  BY TypeChosenKept
<1>3. RouteInv /\ WalkResolves /\ TypeChosen => TypeIsOfTheFile
  BY TypeIsRight
<1> QED
  BY <1>1, <1>2, <1>3, AlwaysRouted, PTL DEF Spec

=============================================================================
