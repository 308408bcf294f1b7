----------------------------- MODULE RequestPath -----------------------------
(***************************************************************************)
(* From the URL of a parsed request to what is opened for it: process_get, *)
(* and redirect_https, which shares its first steps.  The URL is decoded,  *)
(* stripped of its host, made safe (module MakeSafeUrl, whose steps are    *)
(* part of this machine), and then forwarded, hidden, listed or opened.    *)
(*                                                                         *)
(* The file system is asked three times (stat, opendir, open with fstat)   *)
(* and may change in between: each answer is chosen freely.                *)
(***************************************************************************)
EXTENDS MakeSafeUrl, MimeMap

CONSTANTS
  RawUrls,       \* conn->url as clients send it
  Options,       \* command lines: see OptionType
  wwwroot,       \* a path without a slash at its end
  index_name,
  default_extension_map,   \* lines
  mimetypes,     \* the file of --mimetypes, or an empty one
  default_mimetype,
  None           \* no URL, no host, no type

OptionType ==
  [want_hide_dotfiles : BOOLEAN, want_single_file : BOOLEAN, no_listing : BOOLEAN,
   \* where the client's Host is forwarded to, and all the others
   forward_map : Seq(Byte) \cup {None}, forward_all : Seq(Byte) \cup {None},
   \* the client has to be sent to https, and the Host it says
   https : BOOLEAN, host : Seq(Byte) \cup {None}]

ASSUME RequestPathAssumption ==
  /\ RawUrls \subseteq Seq(Byte)
  /\ Options \subseteq OptionType
  /\ wwwroot \in Seq(Byte) /\ index_name \in Seq(Byte)
  /\ default_extension_map \in Seq(Seq(Byte)) /\ mimetypes \in Seq(Byte)

VARIABLES options,    \* of this instance and of the client
          conn_url,   \* conn->url
          status,     \* conn->http_code, 0 when there is no answer yet
          asked,      \* what the file system was asked for last
          target,     \* the path that is opened or listed
          mimetype,
          location    \* where a redirect leads

routeVars == <<options, conn_url, status, asked, target, mimetype, location>>
vars == <<safeVars, routeVars>>

-----------------------------------------------------------------------------
(***************************************************************************)
(* The text of a URL, and the type of a file.                              *)
(***************************************************************************)
\* parse_commandline adds to what main() starts with.
mime_lines == default_extension_map \o read_lines(mimetypes)
mime_map == MapOf(mime_lines)

Html == <<116, 101, 120, 116, 47, 104, 116, 109, 108>>

longest_ext == Max({0} \cup {Len(mime_map[i].extension) : i \in DOMAIN mime_map})

\* The extension is looked for from the end, no longer than the longest one.
Period(text) ==
  Max({0} \cup {i \in 0..(Len(text) - 1) :
                  text[i + 1] = Dot \/ Len(text) - i - 1 > longest_ext})

url_content_type(text) ==
  LET period == Period(text)
      found  == Found(mime_map, SubSeq(text, period + 2, Len(text)))
  IN  IF text # <<>> /\ text[period + 1] = Dot /\ found # {}
        THEN CHOOSE type \in found : TRUE ELSE default_mimetype

-----------------------------------------------------------------------------
Init ==
  /\ SafeInit
  /\ options \in Options
  /\ conn_url \in RawUrls
  /\ status = 0
  /\ asked = "nothing"
  /\ target = <<>> /\ location = <<>>
  /\ mimetype = None

\* process_get takes the query off first, redirect_https does not.
PrepareUrl ==
  /\ pc = "idle"
  /\ conn_url' = IF options.https THEN conn_url ELSE Before(conn_url, Query)
  /\ SafeCall(Prepared(conn_url'))
  /\ UNCHANGED <<options, status, asked, target, mimetype, location>>

MakeSafe == SafeStep /\ UNCHANGED routeVars

\* The decoded URL, once make_safe_url has returned.
decoded_url == Bytes(url, 0, dst)

Routing == pc = "safe" /\ status = 0 /\ asked = "nothing"

Reply(code) == status' = code

Keep == UNCHANGED <<safeVars, options, conn_url>>

InvalidUrl ==
  /\ pc = "illegal" /\ status = 0
  /\ Reply(400)
  /\ Keep /\ UNCHANGED <<asked, target, mimetype, location>>

RedirectHttps ==
  /\ Routing /\ options.https
  /\ \/ options.host = None /\ Reply(400) /\ UNCHANGED location
     \/ /\ options.host # None
        /\ Reply(301)
        /\ location' = Https \o options.host \o decoded_url
  /\ Keep /\ UNCHANGED <<asked, target, mimetype>>

ForwardTo ==
  IF options.forward_map # None THEN options.forward_map ELSE options.forward_all

Forward ==
  /\ Routing /\ ~options.https
  /\ ForwardTo # None
  /\ Reply(301)
  /\ location' = ForwardTo \o decoded_url
  /\ Keep /\ UNCHANGED <<asked, target, mimetype>>

\* Mutant: only the URL's first component is looked at.
HiddenFirst(text) == Len(text) > 1 /\ text[2] = Dot

Hidden(text) ==
  \E i \in 1..(Len(text) - 1) : text[i] = Slash /\ text[i + 1] = Dot

Serving == Routing /\ ~options.https /\ ForwardTo = None

Hide ==
  /\ Serving /\ options.want_hide_dotfiles /\ Hidden(decoded_url)
  /\ Reply(404)
  /\ Keep /\ UNCHANGED <<asked, target, mimetype, location>>

Shown == Serving /\ ~(options.want_hide_dotfiles /\ Hidden(decoded_url))

\* What is opened under the root for a URL.  Mutant: for what the client wrote.
UnderWritten(text) == wwwroot \o conn_url
Under(text) == wwwroot \o text

SingleFile ==
  /\ Shown /\ options.want_single_file
  /\ asked' = "open"
  /\ target' = wwwroot
  /\ mimetype' = url_content_type(wwwroot)
  /\ Keep /\ UNCHANGED <<status, location>>

Directory == Shown /\ ~options.want_single_file /\ EndsInSlash(decoded_url)

\* file_exists() fails only with ENOENT: the index is there, or seems to be.
\* Mutant: the type is taken from the URL of the directory.
TypeOfUrl == url_content_type(decoded_url)
TypeOfIndex == url_content_type(index_name)

Index ==
  /\ Directory
  /\ asked' = "open"
  /\ target' = Under(decoded_url \o index_name)
  /\ mimetype' = TypeOfIndex
  /\ Keep /\ UNCHANGED <<status, location>>

NoListing ==
  /\ Directory /\ options.no_listing
  /\ Reply(404)
  /\ Keep /\ UNCHANGED <<asked, target, mimetype, location>>

\* generate_dir_listing: opendir() works, or fails for one of three reasons.
Listing ==
  /\ Directory /\ ~options.no_listing
  /\ asked' = "list"
  /\ target' = Under(decoded_url)
  /\ \E code \in {200, 403, 404, 500} : Reply(code)
  /\ mimetype' = Html
  /\ Keep /\ UNCHANGED location

File ==
  /\ Shown /\ ~options.want_single_file /\ ~EndsInSlash(decoded_url)
  /\ asked' = "open"
  /\ target' = Under(decoded_url)
  /\ mimetype' = url_content_type(decoded_url)
  /\ Keep /\ UNCHANGED <<status, location>>

\* open() or fstat() fails, or it is neither a file nor a directory to
\* redirect to, or it is a regular file: 200, 206, 304 or 416 by the request.
Opening == asked = "open" /\ status = 0

Open ==
  /\ Opening
  /\ \E code \in {403, 404, 500, 200} : Reply(code)
  /\ Keep /\ UNCHANGED <<asked, target, mimetype, location>>

\* Mutant: the redirect is made of the decoded URL.
DecodedSlashAdded == decoded_url \o <<Slash>>
SlashAdded == conn_url \o <<Slash>>

OpenDirectory ==
  /\ Opening /\ ~options.want_single_file
  /\ Reply(301)
  /\ location' = SlashAdded
  /\ Keep /\ UNCHANGED <<asked, target, mimetype>>

Route ==
  \/ InvalidUrl \/ RedirectHttps \/ Forward \/ Hide
  \/ SingleFile \/ Index \/ NoListing \/ Listing \/ File
  \/ Open \/ OpenDirectory

Next == PrepareUrl \/ MakeSafe \/ Route

Spec == Init /\ [][Next]_vars

-----------------------------------------------------------------------------
(***************************************************************************)
(* The reference, with Resolved of UrlText.                                *)
(***************************************************************************)
AskedFor  == Prepared(Before(conn_url, Query))
Serves    == ~options.https /\ ~options.want_single_file

EncodesNul(text) ==
  \E i \in DOMAIN text :
    Escaped(text, i) /\ HexValue(text[i + 1]) = 0 /\ HexValue(text[i + 2]) = 0

\* What a client that is sent to a reference asks this server for next is the
\* reference itself (RFC 3986): a path, or a whole URL if the client takes the
\* server for its proxy.  Not so "//name/...", which names another host,
\* "#...", which is not sent, and "." and "..", which are resolved before.
AskedAsWritten(reference) ==
  /\ \/ Len(reference) > 1 /\ reference[1] = Slash /\ reference[2] # Slash
     \/ IsPrefix(Http, reference) \/ IsPrefix(Https, reference)
  /\ Hash \notin ToSet(reference)
  /\ {<<Dot>>, <<Dot, Dot>>} \cap ToSet(Components(reference)) = {}

BaseName(path) ==
  IF path = <<>> \/ EndsInSlash(path) THEN <<>> ELSE Last(Components(path))

-----------------------------------------------------------------------------
(***************************************************************************)
(* Properties.                                                             *)
(***************************************************************************)

\* Whatever is opened or listed is the object the decoded URL names below
\* wwwroot, resolved name by name, or the index in it; a URL that leads above
\* the root opens nothing and is answered with 400.
OpensWhatWasAsked ==
  /\ Serves /\ target # <<>> =>
       /\ Head(AskedFor) = Slash
       /\ Resolved(Components(AskedFor)) # Above
       /\ Components(target) \in
            {Components(wwwroot) \o Resolved(Components(AskedFor)),
             Components(wwwroot) \o Resolved(Components(AskedFor)) \o Components(index_name)}
  /\ Serves /\ status = 400 =>
       \/ AskedFor = <<>> \/ Head(AskedFor) # Slash
       \/ Resolved(Components(AskedFor)) = Above

\* With --hide-dotfiles nothing is opened or listed at or below a name that
\* starts with a dot, however the URL writes it.  (What --index names is for
\* the one who starts the server to choose.)
HiddenStaysHidden ==
  options.want_hide_dotfiles /\ target # <<>> /\ Serves =>
    \A i \in 1..Len(Resolved(Components(AskedFor))) :
      Components(target)[Len(Components(wwwroot)) + i][1] # Dot

\* The redirect of a directory is one that a client asks this server for as
\* it is written, and leads in this next request to the same object with a
\* slash at its end, so to its index or its listing and not to another
\* redirect.  That is of a URL that can be asked for as it is written itself:
\* one that begins with two slashes leads to another host (RedirectStaysHere).
\* (A URL with an encoded NUL, and an index that is a directory itself,
\* redirect for ever.)
RedirectLeadsIn ==
  status = 301 /\ Serves /\ target # <<>> /\ ~EndsInSlash(decoded_url)
  /\ AskedAsWritten(conn_url) /\ ~EncodesNul(conn_url) =>
    LET next == Prepared(Before(location, Query))
    IN  /\ AskedAsWritten(location)
        /\ EndsInSlash(next)
        /\ Resolved(Components(next)) = Components(decoded_url)

\* The redirect of a directory does not name another host.  Not so in the
\* code, which copies the URL of the request: see README.md, "Where the code
\* and what is said of it disagree".
RedirectStaysHere ==
  status = 301 /\ Serves /\ target # <<>> /\ ~EndsInSlash(decoded_url) =>
    ~IsPrefix(<<Slash, Slash>>, location)

\* A file is announced with the type that was said last, on the command line
\* or before, for the extension of its own name, in upper or lower case, and
\* whatever dots there are in the directories above it.
TypeIsOfTheFile ==
  status = 200 /\ asked = "open" =>
    LET parts == Split(BaseName(target), {Dot})
        said  == IF Dot \in ToSet(BaseName(target)) /\ Last(BaseName(target)) # Dot
                   THEN TypeSaid(mime_lines, Last(parts)) ELSE {}
    IN  mimetype \in IF said = {} THEN {default_mimetype} ELSE said

\* "Return 404 instead of 403 to make --no-listing indistinguishable from the
\* directory not existing": with --no-listing nothing tells a directory that
\* has no index from nothing at all.  Not so in the code: see README.md, "Where
\* the code and what is said of it disagree".
NoListingTellsNothing ==
  options.no_listing /\ Serves /\ asked = "open" /\ ~EndsInSlash(decoded_url) =>
    status # 301

=============================================================================
