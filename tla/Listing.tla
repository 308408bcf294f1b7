------------------------------- MODULE Listing -------------------------------
(***************************************************************************)
(* The page for a directory: make_sorted_dirlist reads its entries and     *)
(* stats each of them, while others change the directory, and              *)
(* generate_dir_listing writes a row for each into a growing buffer        *)
(* (apbuf).  A row is its link, its text and the blanks behind it; a       *)
(* literal of the page counts as one byte.                                 *)
(***************************************************************************)
EXTENDS UrlText

CONSTANTS
  Names,            \* of directory entries
  Directories,      \* what is in the directory at first: functions to Kinds
  wwwroot,
  Urls,             \* decoded URLs of directories
  want_hide_dotfiles,
  MAXNAMLEN,
  InitialPool,      \* entries the list has room for at first
  APBUF_INIT,       \* bytes the buffer has room for at first, and grows by
  MaxChanges        \* bound: changes of the directory while it is read

Kinds == {"file", "dir", "dangling"}

\* Every directory has these besides its entries.
Self == {<<Dot>>, <<Dot, Dot>>}

\* A URL that make_safe_url returns (ResultIsClean) and that is listed.
Clean(url) ==
  /\ url \in Seq(Byte) /\ EndsInSlash(url) /\ Head(url) = Slash
  /\ \A i \in 1..(Len(url) - 1) : url[i] = Slash => url[i + 1] # Slash
  /\ ToSet(Components(url)) \cap Self = {}

ASSUME ListingAssumption ==
  /\ Names \subseteq Seq(Byte \ {Slash}) \ ({<<>>} \cup Self)
  /\ \A d \in Directories : DOMAIN d \subseteq Names /\ Range(d) \subseteq Kinds
  /\ wwwroot \in Seq(Byte) /\ \A url \in Urls : Clean(url)
  /\ want_hide_dotfiles \in BOOLEAN
  /\ {MAXNAMLEN, InitialPool, APBUF_INIT} \subseteq Nat \ {0} /\ MaxChanges \in Nat

VARIABLES
  here,          \* the entries of the directory, and what they are
  unread,        \* names readdir() has still to return
  steady, ever,  \* names that were there all the time, and at any time,
                 \* since opendir()
  changes,
  pc, decoded_url, code,
  list, pool,    \* the entries found, and for how many there is room
  whole,         \* readdir() came to the end
  rows, dotdot,  \* what is in the page so far
  buf            \* the apbuf

worldVars == <<here, steady, ever, changes>>
listVars  == <<list, pool, whole>>
pageVars  == <<rows, dotdot, buf>>
vars == <<worldVars, unread, pc, decoded_url, code, listVars, pageVars>>

-----------------------------------------------------------------------------
(***************************************************************************)
(* Encoders.                                                               *)
(***************************************************************************)
Letters == 65..90 \cup 97..122

\* Unreserved characters and '/'.  Mutant: '%' is left as it is.
EncodesAllButPercent(c) == ~(Digits(c) \/ c \in Letters \/ c \in {45, 46, 95, 126, Slash, Percent})
needs_encoding(c) == ~(Digits(c) \/ c \in Letters \/ c \in {45, 46, 95, 126, Slash})

HexDigit(n) == IF n < 10 THEN 48 + n ELSE 55 + n

urlencode(text) ==
  FlattenSeq([i \in DOMAIN text |->
    IF needs_encoding(text[i])
      THEN <<Percent, HexDigit(text[i] \div 16), HexDigit(text[i] % 16)>>
      ELSE <<text[i]>>])

\* < > & ' " and the names of their entities.
Entity ==
  [c \in {34, 38, 39, 60, 62} |->
     CASE c = 60 -> <<38, 108, 116, 59>>
       [] c = 62 -> <<38, 103, 116, 59>>
       [] c = 38 -> <<38, 97, 109, 112, 59>>
       [] c = 39 -> <<38, 97, 112, 111, 115, 59>>
       [] c = 34 -> <<38, 113, 117, 111, 116, 59>>]

append_escaped(text) ==
  FlattenSeq([i \in DOMAIN text |->
    IF text[i] \in DOMAIN Entity THEN Entity[text[i]] ELSE <<text[i]>>])

-----------------------------------------------------------------------------
(***************************************************************************)
(* The growing buffer.                                                     *)
(***************************************************************************)
make_apbuf == [length |-> 0, pool |-> APBUF_INIT]

\* The pool is grown until there is room.
Grown(size, need) ==
  Min({n \in {size + k * APBUF_INIT : k \in 0..need} : n >= need})

appendl(b, len) ==
  LET need == b.length + len
  IN  [length |-> need, pool |-> IF b.pool < need THEN Grown(b.pool, need) ELSE b.pool]

\* One append after the other.
appends(b, lengths) ==
  LET upto[k \in 0..Len(lengths)] ==
        IF k = 0 THEN b ELSE appendl(upto[k - 1], lengths[k])
  IN  upto[Len(lengths)]

-----------------------------------------------------------------------------
(***************************************************************************)
(* Reading the directory.                                                  *)
(***************************************************************************)
Init ==
  /\ here \in Directories
  /\ unread = {} /\ steady = {} /\ ever = {} /\ changes = 0
  /\ pc = "opendir" /\ code = 0
  /\ decoded_url \in Urls
  /\ list = <<>> /\ pool = InitialPool /\ whole = FALSE
  /\ rows = <<>> /\ dotdot = FALSE /\ buf = make_apbuf

opendir ==
  /\ pc = "opendir"
  /\ \/ /\ pc' = "readdir"
        /\ unread' = DOMAIN here \cup Self
        /\ steady' = DOMAIN here /\ ever' = DOMAIN here
        /\ UNCHANGED code
     \/ /\ pc' = "done"
        /\ code' \in {403, 404, 500}
        /\ UNCHANGED <<unread, steady, ever>>
  /\ UNCHANGED <<here, changes, decoded_url, listVars, pageVars>>

Skipped(name) ==
  \/ name \in Self
  \/ want_hide_dotfiles /\ name[1] = Dot
  \/ Len(name) > MAXNAMLEN

StatFails(name) == name \notin DOMAIN here \/ here[name] = "dangling"

\* What is read after an entry that cannot be listed.  Mutant: nothing.
Nothing(name) == {}
Rest(name) == unread \ {name}

\* One entry: readdir(), stat(), and the list doubled if it is full.
readdir(name) ==
  /\ pc = "readdir" /\ name \in unread
  /\ IF Skipped(name) \/ StatFails(name)
       THEN unread' = Rest(name) /\ UNCHANGED <<list, pool>>
       ELSE /\ unread' = unread \ {name}
            /\ list' = Append(list, [name |-> name, is_dir |-> here[name] = "dir"])
            /\ pool' = IF Len(list) = pool THEN 2 * pool ELSE pool
  /\ UNCHANGED <<worldVars, pc, decoded_url, code, whole, pageVars>>

\* strcmp() < 0
Less(a, b) ==
  \E i \in 1..Min({Len(b), Len(a) + 1}) :
    /\ SubSeq(a, 1, i - 1) = SubSeq(b, 1, i - 1)
    /\ i > Len(a) \/ a[i] < b[i]

\* qsort(): equal names, of an entry that was removed and made again, come in
\* any order.
Sorted(entries) ==
  \A i, j \in DOMAIN entries : i < j => ~Less(entries[j].name, entries[i].name)

\* readdir() returns NULL in the end, or when it fails: that is not told apart.
EndOfDirectory ==
  /\ pc = "readdir"
  /\ pc' = "head"
  /\ whole' = (unread = {})
  /\ \E order \in Bijection(DOMAIN list, DOMAIN list) :
       list' = [i \in DOMAIN list |-> list[order[i]]]
  /\ Sorted(list')
  /\ UNCHANGED <<worldVars, unread, decoded_url, code, pool, pageVars>>

\* Others make and remove entries while it is read: readdir() may return what
\* is gone, and may or may not return what is new.
Make(name, kind) ==
  /\ pc = "readdir" /\ changes < MaxChanges
  /\ name \notin DOMAIN here
  /\ here' = [n \in DOMAIN here \cup {name} |-> IF n = name THEN kind ELSE here[n]]
  /\ unread' \in {unread, unread \cup {name}}
  /\ ever' = ever \cup {name}
  /\ changes' = changes + 1
  /\ UNCHANGED <<steady, pc, decoded_url, code, listVars, pageVars>>

Delete(name) ==
  /\ pc = "readdir" /\ changes < MaxChanges
  /\ name \in DOMAIN here
  /\ here' = Restrict(here, DOMAIN here \ {name})
  /\ unread' \in {unread, unread \ {name}}
  /\ steady' = steady \ {name}
  /\ changes' = changes + 1
  /\ UNCHANGED <<ever, pc, decoded_url, code, listVars, pageVars>>

-----------------------------------------------------------------------------
(***************************************************************************)
(* Writing the page.                                                       *)
(***************************************************************************)
Width(entry) == Len(entry.name) + (IF entry.is_dir THEN 1 ELSE 0)

\* The widest entry.  Mutant: the last one.
LastWidth == IF list = <<>> THEN 0 ELSE Width(Last(list))
maxlen == Max({0} \cup {Width(list[i]) : i \in DOMAIN list})

\* strncmp(path, wwwroot, strlen(path) - 1) != 0
BelowRoot ==
  LET path == wwwroot \o decoded_url
  IN  ~IsPrefix(Front(path), wwwroot)

WriteHead ==
  /\ pc = "head"
  /\ pc' = "rows"
  /\ dotdot' = BelowRoot
  /\ LET title == Len(append_escaped(decoded_url))
     IN  buf' = appends(make_apbuf, <<1, title, 1, title, 1>> \o (IF BelowRoot THEN <<1>> ELSE <<>>))
  /\ UNCHANGED <<worldVars, unread, decoded_url, code, listVars, rows>>

Row(entry) ==
  [href |-> urlencode(entry.name) \o (IF entry.is_dir THEN <<Slash>> ELSE <<>>),
   text |-> append_escaped(entry.name),
   blanks |-> maxlen - Len(entry.name)]

\* A size_t: what is below 0 is huge.
Blank(row) == IF row.blanks < 0 THEN 1000 ELSE row.blanks

WriteRow ==
  /\ pc = "rows" /\ Len(rows) < Len(list)
  /\ LET row == Row(list[Len(rows) + 1])
     IN  /\ rows' = Append(rows, row)
         /\ buf' = appends(buf, <<1, Len(row.href), 1, Len(row.text), 1, Blank(row), 1, 1, 1>>)
  /\ UNCHANGED <<worldVars, unread, pc, decoded_url, code, listVars, dotdot>>

WriteFoot ==
  /\ pc = "rows" /\ Len(rows) = Len(list)
  /\ pc' = "done" /\ code' = 200
  /\ buf' = appends(buf, <<1, 1, 1>>)
  /\ UNCHANGED <<worldVars, unread, decoded_url, listVars, rows, dotdot>>

Next ==
  \/ opendir \/ (\E name \in unread : readdir(name)) \/ EndOfDirectory
  \/ WriteHead \/ WriteRow \/ WriteFoot
  \/ \E name \in Names : Delete(name) \/ \E kind \in Kinds : Make(name, kind)

Spec == Init /\ [][Next]_vars

-----------------------------------------------------------------------------
(***************************************************************************)
(* Properties.                                                             *)
(***************************************************************************)
Read == pc \in {"head", "rows"} \/ code = 200

\* Whatever is made and removed meanwhile: an entry that was there all the
\* time, is not to be hidden and can be examined is listed, and once; and
\* nothing is listed that was not there at any time, or is to be hidden.
ListsWhatIsThere ==
  Read =>
    /\ \A name \in steady :
         whole /\ here[name] # "dangling" /\ Len(name) <= MAXNAMLEN
         /\ ~(want_hide_dotfiles /\ name[1] = Dot) =>
           \E i \in DOMAIN list : {j \in DOMAIN list : list[j].name = name} = {i}
    /\ \A i \in DOMAIN list :
         list[i].name \in ever /\ ~(want_hide_dotfiles /\ list[i].name[1] = Dot)

\* The text a browser shows for a row.
Shown(text) ==
  LET from[i \in 1..(Len(text) + 1)] ==
        LET codes == {c \in DOMAIN Entity : IsPrefix(Entity[c], SubSeq(text, i, Len(text)))}
            c     == CHOOSE c \in codes : TRUE
        IN  IF i > Len(text) THEN <<>>
            ELSE IF codes = {} THEN <<text[i]>> \o from[i + 1]
            ELSE <<c>> \o from[i + Len(Entity[c])]
  IN  from[1]

Colon == 58

\* The link of a row, followed from the page's own URL, is decoded and
\* resolved (urldecode, make_safe_url) to the very entry the row names, with
\* a slash exactly if it is a directory, and the row shows that entry's name;
\* only the page of the root has no link to the directory above.
LinksLeadToEntries ==
  /\ \A i \in DOMAIN rows :
       LET url == Prepared(Before(urlencode(decoded_url) \o rows[i].href, Query))
       IN  /\ Resolved(Components(url)) = Append(Components(decoded_url), list[i].name)
           /\ EndsInSlash(url) = list[i].is_dir
           /\ Colon \notin ToSet(rows[i].href)
           /\ Shown(rows[i].text) = list[i].name
           /\ {34, 39, 60, 62} \cap ToSet(rows[i].text) = {}
  /\ pc = "rows" \/ code = 200 => dotdot = (Components(decoded_url) # <<>>)

\* Nothing is written past the list, the apbuf or the encoded name, or read
\* past the blanks, and the dates stand in one column.
BuffersHold ==
  /\ Len(list) <= pool
  /\ buf.length <= buf.pool
  /\ \A i \in DOMAIN rows :
       /\ rows[i].blanks \in 0..maxlen
       /\ Len(urlencode(list[i].name)) <= 3 * MAXNAMLEN
       /\ Width(list[i]) + rows[i].blanks + (IF list[i].is_dir THEN 0 ELSE 1) = maxlen + 1

=============================================================================
