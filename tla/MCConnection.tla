----------------------------- MODULE MCConnection -----------------------------
(***************************************************************************)
(* Instances of Connection.  A file of three bytes, an empty one and one   *)
(* of one byte; a header and a page of two bytes; requests of up to seven  *)
(* bytes against a limit of four, so that a request can be complete and    *)
(* too long at once, too long without being complete, and neither.         *)
(***************************************************************************)
EXTENDS Connection

MCOffMax == 7

Whole   == NoField
Middle  == [first |-> 1, hyphen |-> TRUE, last |-> 2, tail |-> "end"]
LastTwo == [first |-> Absent, hyphen |-> TRUE, last |-> 2, tail |-> "comma"]
Outside == [first |-> 5, hyphen |-> TRUE, last |-> Absent, tail |-> "end"]

Get(field) ==
  [wellformed |-> TRUE, method |-> "GET", keep |-> TRUE, plain |-> FALSE,
   creds |-> TRUE, range |-> field, unmodified |-> FALSE]

MCRequests ==
  {Get(f) : f \in {Whole, Middle, LastTwo, Outside}}
  \cup {[Get(Middle) EXCEPT !.method = "HEAD"],
        [Get(Whole) EXCEPT !.method = "HEAD"],
        [Get(Whole) EXCEPT !.method = "OTHER"],
        [Get(Whole) EXCEPT !.keep = FALSE],
        [Get(Middle) EXCEPT !.unmodified = TRUE],
        [Get(Whole) EXCEPT !.plain = TRUE],
        [Get(Whole) EXCEPT !.creds = FALSE],
        [Get(Whole) EXCEPT !.creds = FALSE, !.method = "HEAD"],
        NoRequest}

\* What the answers of this server are framed for: HEAD only from clients
\* that are let in (see the runs that add the others).
MCFramedRequests ==
  {r \in MCRequests : r.method = "HEAD" => r.creds /\ ~r.plain}

\* HEAD without credentials.
MCHeadRefused == {[Get(Whole) EXCEPT !.creds = FALSE, !.method = "HEAD"]}

\* Whole files only.
MCWhole == {Get(Whole)}
=============================================================================
