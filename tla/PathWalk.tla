------------------------------- MODULE PathWalk -------------------------------
(***************************************************************************)
(* What making a URL safe means, on its components instead of its bytes:   *)
(* walk over them with a stack of names.  This is make_safe_url_old, the   *)
(* simpler implementation that src/devel/fuzz_make_safe_uri.c keeps as the *)
(* reference for make_safe_url.                                            *)
(***************************************************************************)
EXTENDS UrlText

DotDir    == <<Dot>>
DotDotDir == <<Dot, Dot>>

VARIABLES verdict,   \* "idle", "walking", "safe" or "illegal"
          rest,      \* the components not yet looked at
          stack,     \* chunks: the names that are kept
          text,      \* the text of the call
          answer     \* the text that is returned

walkVars == <<verdict, text, rest, stack, answer>>

Init ==
  /\ verdict = "idle"
  /\ text = <<>> /\ rest = <<>> /\ stack = <<>> /\ answer = <<>>

\* No text comes of it: not even the components are kept.
Refuse ==
  /\ verdict' = "illegal"
  /\ rest' = <<>> /\ stack' = <<>>
  /\ UNCHANGED answer

Begin ==
  /\ verdict = "idle"
  /\ text' \in Seq(Byte)
  /\ \/ /\ text' = <<>> \/ Head(text') # Slash
        /\ Refuse
     \/ /\ text' # <<>> /\ Head(text') = Slash
        /\ verdict' = "walking"
        /\ rest' = Components(text')
        /\ UNCHANGED <<stack, answer>>

Take ==
  /\ verdict = "walking" /\ rest # <<>>
  /\ rest' = Tail(rest)
  /\ \/ Head(rest) = DotDir /\ UNCHANGED stack
     \/ Head(rest) = DotDotDir /\ stack # <<>> /\ stack' = Front(stack)
     \/ Head(rest) \notin {DotDir, DotDotDir} /\ stack' = Append(stack, Head(rest))
  /\ UNCHANGED <<verdict, text, answer>>

AboveRoot ==
  /\ verdict = "walking" /\ rest # <<>>
  /\ Head(rest) = DotDotDir /\ stack = <<>>
  /\ Refuse
  /\ UNCHANGED text

Reassemble ==
  /\ verdict = "walking" /\ rest = <<>>
  /\ verdict' = "safe"
  /\ answer' = Joined(stack) \o IF stack = <<>> \/ EndsInSlash(text) THEN <<Slash>> ELSE <<>>
  /\ stack' = <<>>
  /\ UNCHANGED <<text, rest>>

Next == Begin \/ Take \/ AboveRoot \/ Reassemble

Spec == Init /\ [][Next]_walkVars

=============================================================================
