------------------------------ MODULE MCListing ------------------------------
(***************************************************************************)
(* Directories of up to four entries: names that look like something else  *)
(* in a URL or a page, one that is hidden, one that is too long.           *)
(***************************************************************************)
EXTENDS Listing

\* "%41", "&<:", ".a", "b", "long"
Quoted == <<37, 52, 49>>
Markup == <<38, 60, 58>>
Hidden == <<Dot, 97>>
Short  == <<98>>
Long   == <<108, 111, 110, 103>>

MCNames == {Quoted, Markup, Hidden, Short, Long}

MCDirectories ==
  {[n \in {} |-> "file"],
   [n \in {Quoted, Markup, Short} |-> IF n = Markup THEN "dir" ELSE "file"],
   [n \in {Quoted, Short} |-> IF n = Short THEN "dir" ELSE "dangling"],
   [n \in {Hidden, Long, Short} |-> "file"]}

\* "/r", and below it "/" and "/r/" and "/%?/"
MCRoot == <<Slash, 114>>
MCUrls == {<<Slash>>, <<Slash, 114, Slash>>, <<Slash, Percent, Query, Slash>>}

=============================================================================
