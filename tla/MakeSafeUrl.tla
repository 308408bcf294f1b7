----------------------------- MODULE MakeSafeUrl -----------------------------
(***************************************************************************)
(* make_safe_url: resolves "." and ".." and collapses slashes in a URL, in *)
(* place, with one index that reads and one that writes.  One action per   *)
(* iteration of its two loops, one per return.                             *)
(*                                                                         *)
(* The buffer is the C array: indexed from 0, with a NUL at strlen(url).   *)
(* The part the caller sees afterwards ends at the first NUL.              *)
(***************************************************************************)
EXTENDS UrlText

VARIABLES pc,      \* "idle", "skip", "copy", "safe" or "illegal"
          given,   \* the buffer as the caller passed it
          len,     \* strlen(url) at the call
          url,     \* the buffer
          src,     \* next byte to read
          dst      \* next byte to write

safeVars == <<pc, given, len, url, src, dst>>

SafeInit ==
  /\ pc = "idle"
  /\ len = 0
  /\ given = [i \in 0..0 |-> NUL]
  /\ url = [i \in 0..0 |-> NUL]
  /\ src = 0
  /\ dst = 0

-----------------------------------------------------------------------------
\* Mutant: the end of the URL does not end a component.
EndsAtSlash(c) == c = Slash
Ends(c) == c = Slash \/ c = NUL

\* What follows the slash at s.
SlashAt(s)  == url[s + 1] = Slash
DotAt(s)    == url[s + 1] = Dot /\ Ends(url[s + 2])

\* Mutant: every component that starts with ".." is taken for "..".
DotDotPrefix(s) == url[s + 1] = Dot /\ url[s + 2] = Dot
DotDotAt(s) == url[s + 1] = Dot /\ url[s + 2] = Dot /\ Ends(url[s + 3])

PastDotDot(s) == s + 3

CopyStart(s) == s

SafeCall(text) ==
  /\ len' = Len(text)
  /\ given' = Buffer(text)
  /\ url' = Buffer(text)
  /\ src' = 0
  /\ dst' = 0
  /\ pc' = IF Buffer(text)[0] = Slash THEN "skip" ELSE "illegal"

Plain(s) == url[s] = Slash => ~SlashAt(s) /\ ~DotAt(s) /\ ~DotDotAt(s)

\* The fast loop: nothing to change up to here.
Skip ==
  /\ pc = "skip"
  /\ url[src] # NUL
  /\ Plain(src)
  /\ src' = src + 1
  /\ UNCHANGED <<pc, given, len, url, dst>>

StartCopy ==
  /\ pc = "skip"
  /\ url[src] # NUL => ~Plain(src)
  /\ dst' = CopyStart(src)
  /\ pc' = "copy"
  /\ UNCHANGED <<given, len, url, src>>

Write(c) == url' = [url EXCEPT ![dst] = c] /\ dst' = dst + 1

CopyByte ==
  /\ pc = "copy"
  /\ url[src] \notin {NUL, Slash}
  /\ Write(url[src])
  /\ src' = src + 1
  /\ UNCHANGED <<pc, given, len>>

\* One of several slashes.
SkipSlash ==
  /\ pc = "copy"
  /\ url[src] = Slash /\ SlashAt(src)
  /\ src' = src + 1
  /\ UNCHANGED <<pc, given, len, url, dst>>

SkipDot ==
  /\ pc = "copy"
  /\ url[src] = Slash /\ DotAt(src)
  /\ src' = src + 2
  /\ UNCHANGED <<pc, given, len, url, dst>>

\* Back to the previous slash, which the next component overwrites.
Backtrack ==
  /\ pc = "copy"
  /\ url[src] = Slash /\ DotDotAt(src)
  /\ dst # 0
  /\ src' = PastDotDot(src)
  /\ \E d \in 0..(dst - 1) :
       /\ url[d] = Slash \/ d = 0
       /\ \A i \in (d + 1)..(dst - 1) : url[i] # Slash
       /\ dst' = d
  /\ UNCHANGED <<pc, given, len, url>>

AboveRoot ==
  /\ pc = "copy"
  /\ url[src] = Slash /\ DotDotAt(src)
  /\ dst = 0
  /\ pc' = "illegal"
  /\ UNCHANGED <<given, len, url, src, dst>>

KeepSlash ==
  /\ pc = "copy"
  /\ url[src] = Slash /\ Plain(src)
  /\ Write(Slash)
  /\ src' = src + 1
  /\ UNCHANGED <<pc, given, len>>

\* Even if nothing is left, the first slash is.
Finish ==
  /\ pc = "copy"
  /\ url[src] = NUL
  /\ dst' = IF dst = 0 THEN 1 ELSE dst
  /\ url' = [url EXCEPT ![dst'] = NUL]
  /\ pc' = "safe"
  /\ UNCHANGED <<given, len, src>>

SafeStep ==
  \/ Skip \/ StartCopy
  \/ CopyByte \/ SkipSlash \/ SkipDot \/ Backtrack \/ AboveRoot \/ KeepSlash
  \/ Finish

SafeNext ==
  \/ pc = "idle" /\ \E text \in Seq(Byte) : SafeCall(text)
  \/ SafeStep

SafeSpec == SafeInit /\ [][SafeNext]_safeVars

-----------------------------------------------------------------------------
(***************************************************************************)
(* It implements the walk over components.  What of the URL has been       *)
(* walked over is the part before the writing index, together with the     *)
(* component that is being copied as long as there is more of it to read.  *)
(***************************************************************************)
Kept     == IF pc = "skip" THEN src ELSE dst
Walking  == pc \in {"skip", "copy"}
MidName  == Walking /\ ~Ends(url[src])
NameFrom == CHOOSE d \in 0..Kept :
              /\ d = 0 \/ url[d - 1] = Slash
              /\ \A i \in d..(Kept - 1) : url[i] # Slash

Done   == Bytes(url, 0, IF MidName THEN NameFrom ELSE Kept)
ToRead == IF MidName THEN Bytes(url, NameFrom, Kept) \o Bytes(url, src, len)
          ELSE Bytes(url, src, len)

W == INSTANCE PathWalk WITH
  verdict <- IF Walking THEN "walking" ELSE pc,
  rest    <- IF Walking THEN Components(ToRead) ELSE <<>>,
  stack   <- IF Walking THEN Components(Done) ELSE <<>>,
  text    <- Bytes(given, 0, len),
  answer  <- IF pc = "safe" THEN Bytes(url, 0, dst) ELSE <<>>

-----------------------------------------------------------------------------
(***************************************************************************)
(* Properties.                                                             *)
(***************************************************************************)

\* Both indexes stay inside the string, whatever is skipped or backtracked
\* over (make_safe_url reads up to url[src + 3] and writes url[dst]).
SafeTypeOK ==
  /\ pc \in {"idle", "skip", "copy", "safe", "illegal"}
  /\ len \in Nat
  /\ given \in [0..len -> Byte \cup {NUL}]
  /\ url \in [0..len -> Byte \cup {NUL}]
  /\ src \in 0..len
  /\ dst \in 0..len

\* Rewriting in place never destroys what is still to be read: dst stays
\* behind src and the bytes from src on are the caller's.
UnreadIntact ==
  Walking => /\ dst <= src
             /\ \A i \in src..len : url[i] = given[i]

\* What is returned names nothing twice removed: it starts with a slash and
\* has no empty, "." or ".." component ("Impervious to /../ sniffing"; the
\* fuzzer's check()).
ResultIsClean ==
  pc = "safe" =>
    /\ url[0] = Slash /\ 0 < dst /\ url[dst] = NUL
    /\ \A i \in 0..(dst - 1) :
         /\ url[i] # NUL
         /\ url[i] = Slash =>
              /\ url[i + 1] # Slash
              /\ url[i + 1] = Dot =>
                   /\ url[i + 2] \notin {Slash, NUL}
                   /\ url[i + 2] = Dot => url[i + 3] \notin {Slash, NUL}

\* make_safe_url gives what the simpler implementation gives, for every URL
\* (LLVMFuzzerTestOneInput compares the two).
ImplementsWalk == W!Spec

=============================================================================
