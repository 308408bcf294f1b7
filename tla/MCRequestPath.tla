---------------------------- MODULE MCRequestPath ----------------------------
(***************************************************************************)
(* Instances of RequestPath: every URL of up to three characters behind    *)
(* its first slash, some of them encoded; every one of up to six of the    *)
(* three make_safe_url tells apart; and absolute ones.                     *)
(***************************************************************************)
EXTENDS RequestPath

Characters ==
  {<<Slash>>, <<Dot>>, <<97>>, <<Percent>>, <<Query>>,
   <<Percent, 50, 69>>, <<Percent, 50, 102>>, <<Percent, 51, 70>>,
   <<Percent, 48, 48>>}

Written(characters, n) ==
  {FlattenSeq(s) : s \in UNION {[1..k -> characters] : k \in 0..n}}

MCRawUrls ==
  {<<Slash>> \o s : s \in Written(Characters, 3)}
  \cup {<<Slash>> \o s : s \in Written({<<Slash>>, <<Dot>>, <<97>>}, 6)}
  \cup {Http \o <<97>> \o s : s \in Written({<<Slash>>, <<Dot>>, <<97>>, <<Query>>}, 3)}
  \cup {<<97>>}

\* "/r.a" and "a.B"
MCRoot  == <<Slash, 114, Dot, 97>>
MCIndex == <<97, Dot, 66>>

\* "t a b" is built in; the file has "#t a", an empty line, " u B<tab>B", "v",
\* and, behind a CR only, "w b bb".
MCDefaults == <<<<116, 32, 97, 32, 98>>>>
MCMimeTypes ==
  <<Hash, 116, 32, 97, CRByte, LFByte, CRByte, LFByte,
    32, 117, 32, 66, 9, 66, LFByte, 118, CRByte, 119, 32, 98, 98>>

MCOctets == <<111>>

Plainly ==
  [want_hide_dotfiles |-> FALSE, want_single_file |-> FALSE, no_listing |-> FALSE,
   forward_map |-> None, forward_all |-> None, https |-> FALSE, host |-> None]

MCOptions ==
  {Plainly,
   [Plainly EXCEPT !.want_hide_dotfiles = TRUE, !.no_listing = TRUE],
   [Plainly EXCEPT !.want_single_file = TRUE],
   [Plainly EXCEPT !.forward_all = <<98>>],
   [Plainly EXCEPT !.https = TRUE, !.host = <<104>>],
   [Plainly EXCEPT !.https = TRUE]}

=============================================================================
