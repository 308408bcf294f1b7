# darkhttpd in TLA+

darkhttpd (`src/darkhttpd.c`) is a web server for static files: one process, one
thread, one loop around `select()`, non-blocking sockets, and a `struct connection`
per client that is driven through a small state machine. This directory holds TLA+
models of it, the configurations that check them with TLC, and proofs of
their main safety properties with TLAPS.

Line numbers below are those of `src/darkhttpd.c`. `PROJECT.json` maps every
definition that models code to the lines it models.

## 1. Inventory

| component | state it keeps | operations | what must be right |
|---|---|---|---|
| **event loop** (`main` 3185-3210, `httpd_poll`, `accept_connection`, `poll_check_timeout`) | `running`, `accepting`, `connlist`, `now`, the sets given to `select()` | test `running`; build the sets; `select()`; accept one client; visit every connection once; free or recycle the finished ones; clean exit | every descriptor has one owner; `select()` waits for every connection; no silent client stays; no client starves; it accepts again after running out of descriptors; it stops when told |
| **connection** (`new_connection`, `poll_recv_request`, `process_request`, `process_get`, `poll_send_header`, `poll_send_reply`, `free_connection`, `recycle_connection`) | `struct connection`: state, buffers, the range, what is to be sent and how much has been | receive, process, send header, send reply, free, recycle | nothing leaks or is freed twice; nothing of one request shows in the next; bytes in order and inside the reply; an announced keep-alive is kept, and the client finds the next answer where it looks for it; refused clients get nothing; every request is logged |
| **request ranges** (`parse_range_field`, the arithmetic of `process_get`) | `range_begin`, `range_end` and their `_given` flags | parse a field; turn it and a file size into a status and a slice | exactly the bytes asked for, inside the file, no overflow of `off_t` |
| **request parsing** (`parse_request`, `parse_field`, `split_string`) | the request buffer; method, url, fields | scan the request line and fields | fields found where they are; buffers not over-read; one request at a time |
| **URL safety and decoding** (`make_safe_url`, `urldecode`, `normalize_path`) | the URL, rewritten in place by two indexes | decode, drop the host, collapse `.`, `..` and `//` | never above the root; the writing index never passes the reading one; neither leaves the buffer; the result names what the URL names |
| **routing** (`process_get`'s target, `redirect_https`, forwards, index, hidden dotfiles) | the tables of the command line | choose redirect, listing, file or error | what is opened is what was asked for; what is hidden stays hidden; a redirect leads somewhere |
| **directory listings** (`make_sorted_dirlist`, `generate_dir_listing`, encoders) | an array of entries, an `apbuf` | read, sort, format | every entry once, though the directory changes; links lead to the entries; buffers are sized right |
| **growing buffers** (`apbuf`) | pool, length, capacity | append | nothing is written past the capacity |
| **MIME map** (`parse_mimetype_line`, `add_mime_mapping`, `url_content_type`) | a sorted array | insert or replace, search | sorted, one entry an extension; search finds it |
| **connection list** (`LIST_*` macros) | intrusive links | insert at the head, remove, iterate while removing | a well-formed list |
| **log lines** (`log_connection`, `logencode`, `clf_date`) | `logfile` | one line an answered request | written once, to an open file |
| **credentials** (`password_equal`, `base64_encode`) | `auth_key` | compare in constant time | equal exactly when equal |
| **start-up** (`init_sockin`, signals, `change_root`, `daemonize_start`, `daemonize_finish`) | `sockin`, the lifeline pipe, the privileges | bind, fork, wait for the child, drop root, serve | the parent comes back, and tells the truth about its child; nobody is served with a privilege that was to be given up |
| **pid file** (`pidfile_create`, `pidfile_read`, `pidfile_remove`) | a file | create, write, read, remove | it names the one process that holds it; a start that is refused or cannot write it leaves none; only a crash, or one of the few calls that die without removing it, leaves it |
| **command line** (`parse_commandline`) | the options | parse `argv` | - |

How they interact. `httpd_poll` calls the handlers of a connection, each of which
runs to its end before anything else of the program does; they share `accepting`
(cleared by `accept_connection`, set by `free_connection`), `now` (read once after
each `select()`), `connlist` and `logfile`. The signal handler only clears
`running`. What runs meanwhile is the world: clients connect, send, read and hang
up; files are replaced or cut; directories change; signals arrive; descriptors run out;
other instances of the program start, with the same pid file or the same port.

Where it is hard, and where a test hardly reaches (`PROJECT.json` lists every
hazard at its line): one struct reused for many requests, cleared by two different
functions; an answer that is replaced after it was made; partial sends and
receives, time-outs and errors in the middle of each; `select()`'s answers used
after other connections have been freed and their descriptor numbers reused; a flag
that only the end of a connection sets back; a signal between a test and a wait;
the order of the clean exit; arithmetic on `off_t` at its limits; a text that comes in
pieces and is searched as a whole; a string that is rewritten while it is read; a file
system that is asked three times and changes in between; the order in which
privileges are given up, and a pid file that must be removable after it.

## 2. Modules

    RangeField  <-- RangeRequest   <-- MCRangeRequest
       ^
       +--------- Connection       <-- MCConnection
                      |  implements
                      +-----------> HttpExchange
                  EventLoop        <-- MCEventLoop

    UrlText <-- MakeSafeUrl <--+
       ^  ^          | implements
       |  |          +------------> PathWalk
       |  +-------- MimeMap <--+-- RequestPath  <-- MCRequestPath
       +----------- Listing        <-- MCListing

    RequestText  <-- MCRequestText
    Startup      <-- MCStartup

    RangeRequestProofs                            (extends RangeRequest)
    ConnectionProofs                              (extends Connection)
    EventLoopProofs                               (extends EventLoop)
    TextLemmas <--+-- RequestPathProofs           (extends RequestPath)
                  +-- ListingProofs               (extends Listing)
                  +-- RequestTextProofs           (extends RequestText)
    StartupProofs                                 (extends Startup)

A client's bytes go through `EventLoop` (who may read), `RequestText` (what the bytes
say), `RequestPath` with `MakeSafeUrl` (what is opened for it), `RangeRequest` (which
part of it) or `Listing` (the page for a directory), and `Connection` (how the answer
is made, sent and forgotten). Each takes from the one before what it decides on, as a
free choice among all that can come.

### RangeField, RangeRequest

`RangeField` holds `parse_range_field` and the arithmetic of `process_get` as
operators. A field is a record - number, hyphen, number, what follows - because
that is all the scan distinguishes. `OffMax` is the largest `off_t`; `strtoll`
saturates there. `RangeRequest` is the life of a range on a connection: parse,
answer, recycle. Its reference is a set of byte positions (`Named`, `Positions`)
that does not mention clamping, suffixes or any other step of the code.

### Connection

One `struct connection` from `accept()` to `close()`. A handler is cut at its
system calls: `pc` says where control is ("select" while the connection waits for
`httpd_poll`; "recv", "header", "reply" before a call; "process" and "length" for
the rest of `poll_recv_request`; "cleanup" for what `httpd_poll` does with a DONE
connection). Whatever a system call may return, it may return here.

| state of the code | in the model |
|---|---|
| `state`, `header_only`, `http_code`, `conn_close`, `reply_type`, `reply_start`, `reply_length`, `header_sent`, `reply_sent`, `total_sent`, `request_length`, the range | variables of the same name |
| `request`, `method`, `url`, `header`, `reply`, `reply_fd`, and (as "fields") `referer`, `user_agent`, `authorization`, `forwarded_for` | the sets `ptr` (members that are set), `live` (what is allocated or open) and `lost` (overwritten while live) |
| `now - last_active` | `idle`, counted up to `timeout_secs` |
| the content of the request | a record of what its handlers decide on (`RequestType`) |
| the content of the header | `told`: Content-Length, kept or not; and the size the file had |

Which page or file a URL leads to is a free choice among everything `process_get`
can come to; the order of `process_request`'s tests (malformed, https redirect,
credentials, method) is the code's. `fault` records that the client or the file
system let the server down. `HttpExchange` is what a client may count on:
promises of so many bytes, never more than promised, the next answer only on a
kept connection and only after the whole of the last one. `Connection` implements
it (`ImplementsExchange`) under a refinement mapping that counts the bytes a client
expects from the method it used and the header it was sent.

### EventLoop

`main`'s loop with `select()`, `accept()`, the pass over `connlist`, the clean exit
and the signal handler, over several connections. A connection is what the loop
sees of it: receiving, sending or done; how many calls its request or reply has
taken; its socket and its file. `connlist` is a set: the pass visits its members in
any order, which includes the order of the list. Descriptors are allocated from
`Fds`, which run out before the structs do; `FileTableFull` adds `ENFILE`, which can
happen at any time. Clients and the clock move where the loop can notice it (before
`select()`, and, for data, before a `recv()`): a move at another time cannot be told
from a move just before that.

### UrlText, PathWalk, MakeSafeUrl

`UrlText` holds `urldecode`, `normalize_path` and the reference for all that follows:
`Resolved`, the names of a URL walked from the root one after the other. `MakeSafeUrl`
is the loop of `make_safe_url`, one action a branch: `url` is the buffer with its
NULs, `src` and `dst` the two pointers as indexes; `given` remembers what the caller
passed. `PathWalk` is `make_safe_url_old` of `src/devel/fuzz_make_safe_uri.c`, which
the repository's fuzzer holds against the loop: split at the slashes, then keep a stack
of the components. The fuzzer compares results; here every step of the loop is a step
of the walk or a stutter (`ImplementsWalk`): the stack is what has been written before
`dst`, the components to come are what is left behind `src`.

### MimeMap, RequestPath

`MimeMap` has `read_line`, `parse_mimetype_line` and `add_mime_mapping` as
operators on lines and words. `sort_mime_map` is not needed: `qsort()` orders the table, and of several
entries `strcasecmp()` takes for equal `bsearch()` may return any (`Found`).

`RequestPath` is `process_get` from the URL to what is opened, with `redirect_https`,
which shares its first steps; it extends `MakeSafeUrl`, whose steps are part of it.

| code | in the model |
|---|---|
| `conn->url`, `decoded_url`, `target`, `mimetype` | `conn_url`, the text before `dst`, `target`, `mimetype` |
| the redirects | `location`; which of them a client asks for next as they are written is `AskedAsWritten` |
| `stat()`, `opendir()`, `open()` with `fstat()` | `asked`, and a free choice of the answer each time: the file system may change in between |
| the command line, and the Host of the client | `options`: those that steer this code |

### RequestText

The bytes of requests on one connection, cut by `recv()` anywhere. A text is a
sequence of tokens: blank, CR, LF, NUL, or a word. That is all `parse_request`,
`parse_field` and the look for the empty line tell apart; words are compared without
case, so case is no part of a token. A method is not a field's name. A text that is no
request leaves nothing but `good = FALSE`. `Send` is the client, who may write the next
request before the answer to the last has come (`pipelined`); `poll_recv_request` takes the
next piece, and parses, judges (`password_equal` and the order of `process_request`)
and limits the text so far. Sending is one step (`Connection` has it in full), and a
connection can break at any time. The reference looks at no text, but for its length: it
says what answers a request record deserves.

### Listing

`make_sorted_dirlist` reads the directory, one action a `readdir()` with its `stat()`,
while `Make` and `Delete` change it; as POSIX allows, an entry made or deleted
meanwhile may be returned or not. The order is any that `qsort()` may give: an entry that
was removed and made again can be read twice, and its two rows compare equal. Then
`generate_dir_listing` writes a row for each entry into
the `apbuf`. A row is its link (`urlencode`), its text (`append_escaped`) and its blanks;
the literals of the page, the dates and sizes count as one byte each.

### Startup

`main` from `init_sockin` to its exit, for several starts of the program with a shared
pid file. `pc[i]` is where the process that serves is, `After` the order of `main`;
`fds` are the listening socket and the child's end of the lifeline; `privs` what can
still be given up ("outside" of the root directory, the group, "root"); `parent` and
`told` are the parent of a daemon and what it exits with. A process may fail at every
call that ends in `err()` (`Fail` for the steps that have done nothing else by then; `init_sockin`,
`GiveUp`, `pidfile_write` and `pidfile_remove` have their own), be told to stop
(`Terminate`: death before `signal()`, `running = 0`
after it) or be killed between any two steps; its descriptors are closed before it
can be waited for, as `exit()` does it (`End`, `BecomeZombie`). `ended` remembers how
it ended and at which step: "cleanup" is the `unlink()` of a `pidfile_create` that could
not write. A refused `pidfile_create` reads the file (`pidfile_read`) only for its message. Two
simplifications: `chdir()` and `chroot()` of `change_root` are one step, and what only
`warn()`s or is not tested is taken to work (closing the lifeline, the `dup2()` to `/dev/null`, the
parent's `read()`), as is the parent's `waitpid()` of its own child.

## 3. Runs

Every property of a passing run has a mutant of the code it rejects
(`PROJECT.json`, "mutants").

| run | what it asks | states | bounds |
|---|---|---|---|
| `ranges` | is the slice the set of bytes asked for, computed without overflow | 2.3 k | numbers 0..9 against `OffMax` = 7, files of 0 to 7 bytes: numbers below, at and above every size and above `off_t`; every tail |
| `connection` | memory, order of bytes, freshness, refusals, logging over any sequence of requests | 32 k | thirteen requests, one for each path of `process_request` and kind of range; a header and a page of 2 bytes and a file of 3, so that every send can be partial; 4 bytes of request allowed of up to 7, so that a request can be complete and too long, only too long, and neither; time-out of 2 ticks |
| `exchange` | leaks, framing, keep-alive, refinement of `HttpExchange` | 6.5 k | as above, without the three cases in which the code does not keep them (below): no request over the limit, no empty file, HEAD only from clients that are let in |
| `event_loop` | ownership of descriptors, what `select()` waits for, running out, time-outs | 2.4 M | three connections, three descriptors (two answers with files exhaust them), reduced by symmetry; the time-out of 2 tells "at" from "after" |
| `event_loop_live` | silence is ended, requests are received, accepting resumes, a signal stops it | 414 k | two connections, two descriptors, up to two calls a request |
| `request_path` | is the loop of `make_safe_url` the walk of the old one, is what is opened what was asked for, what is hidden hidden, the type that of the file, and where do redirects lead | 126 k | every URL of `/` and up to three of nine characters (slash, dot, letter, `%`, `?`, and encoded dot, slash, `?` and NUL), every one of up to six of slash, dot and letter (two `..` behind a name, the shortest that climbs back above it), absolute ones; six command lines |
| `request_text` | does each request get the answer it deserves by its own text | 130 k | nine requests: each version, with and without the key, repeated fields, the key and a field's name in the value of another field, a NUL in the URL; two of them on a connection, with both line ends, cut anywhere, pipelined or not; a limit of 21 tokens, which the longest has exactly with LF and passes with CR LF |
| `listing` | which entries are listed, where the links lead, do the buffers hold | 248 k | four directories of up to three entries out of five names (one that looks encoded, one of markup, one hidden, one too long, one plain), two changes at any time; room for 1 entry and 4 bytes at first, so that both grow several times |
| `startup` | who holds the pid file, what is left of it, privileges, what the parent says | 104 k | two starts, one of them a daemon, on one port or two, all three privileges to be given up |
| `head_refused`, `log_at_exit`, `failed_child` | what is said of the code and is not so: see below | | |

Three connections are the fewest with one being visited, one freed before and one
accepted in the same pass; two are the fewest that can starve each other. No
property speaks of more. Two requests on a connection are the fewest with something to
carry over; two starts the fewest that compete.

`CHECK_DEADLOCK FALSE` stands where the modelled part really ends: a URL that is
answered, a connection that is closed, a page that is written, starts that are all over.

Fairness. `EventLoop`'s `FairSpec` has `WF(Server)`: the process is scheduled, and
`select()` returns when one of its descriptors is ready, its time-out is over or a
signal comes; and `SF(Tick)`: the clock runs however busy the loop is. `RequestText` has
`WF(Serve)`: what has arrived is read, which `RequestsAreReceived` of `EventLoop`
says of the loop. `Startup` has `WF` of the next step of every process, of its parent
and of its becoming a zombie: the system schedules them, and none of them waits for
anything but the lifeline. Nothing is asked of clients, users or the file system: they
may stay silent for ever, and send for ever; nobody has to start, stop or kill anything.

### Where the code and what is said of it disagree

Three have a run in which TLC finds the property violated:

| run | what happens |
|---|---|
| `head_refused` | a HEAD request answered by 401 or the https redirect gets the page as body, on a connection that is kept: `header_only` is set only after `process_get` (2571, 2582) |
| `log_at_exit` | the clean exit closes the log and then logs the connections that were being answered (3194) |
| `failed_child` | a daemon's parent may exit with success though its child failed: the lifeline closes before the child can be waited for, and `waitpid(WNOHANG)` finds nothing (2978) |

The others are found by changing a configuration as the third column says:

| what happens | at | property, and how to see it |
|---|---|---|
| `bytes=1-x` is answered as `bytes=1-`: the first number is stored before the rest is found not to be "end of string or a list" | 1883 | `InvalidRangeIgnored` as an invariant of `MCRangeRequest.cfg` |
| a request that is complete and longer than the limit is answered, and then the 413 page overwrites the answer: header and reply leak | 2641 | `NoLeak` as an invariant of `MCConnection.cfg` |
| after an empty file the connection is closed though it was announced as kept: `sendfile()` of 0 bytes returns 0, which is taken for closure | 2798 | `KeepAliveHonoured` in `MCExchange.cfg` with `FileSizes = {0, 1, 3}` |
| `ENFILE` with no connection open makes the server deaf for good: only `free_connection` sets `accepting` | 1352 | `AcceptingResumes` in `MCEventLoopLive.cfg` with `FileTableFull = TRUE` (TLC reports the same as a deadlock unless the cfg has `CHECK_DEADLOCK FALSE`) |
| a signal between the test of `running` and `select()` does not end a server without connections | 3190 | `StopsWhenTold` as a property of `MCEventLoopLive.cfg` |
| `--no-listing` is "indistinguishable from the directory not existing" (2351) only with the slash: without it, a directory is redirected to itself | 2404 | `NoListingTellsNothing` as an invariant of `MCRequestPath.cfg` |
| `//a`, for a directory `a`, is redirected to `//a/`: as the URL of a request that is the directory, but as a `Location` it is a reference (RFC 3986, 4.2), and names a host `a` | 2406 | `RedirectStaysHere` as an invariant of `MCRequestPath.cfg` |

Met on the way, without a property of their own:

- A request that is complete, too long and answered by 304 gets a 413 header without its
  page (the same late length check, with `header_only` left set); so does a HEAD, to which
  no page is due (`TooLarge`).
- Requests that are sent together and received together are answered as
  one, with the fields of either. `EachAnsweredAsAsked` therefore speaks of clients that
  wait; `StartsAtRequest` and `PageNeedsKey` bound what the others get.
- A URL with an encoded NUL, and an index that is itself a directory, redirect for ever;
  `RedirectLeadsIn` leaves them out. It also leaves out URLs that a client does not ask for
  as they are written in a `Location` (`AskedAsWritten`): those that begin with two slashes, above, those
  that do not begin with a slash until they are decoded (`%2fa`), those with `#`, and those
  with `.` or `..` between slashes, which a client resolves before it asks, and otherwise than
  the server where a slash is doubled or encoded.
- Forwards and the https redirect are built from the decoded URL
  and not encoded again (2322).
- A signal between `signal()` and `running = 1` is forgotten (3189).
- A `setsid()` (2995) or `close()` of `sockin` (3193, 402) that fails ends the process with
  the pid file in place, as an error of the main loop does and an `unlink()` that fails
  (3020, on the clean exit or after a `pwrite()` that failed): `LeavesFile`.
- `--maxconn`, "Serve at most 4 simultaneous connections" in the README,
  bounds only the queue of `listen()`.

## 4. Proofs

The modules `*Proofs` are checked by tlapm. Each theorem is stated of the `Spec` that
TLC checks; most name the property of a run: the run shows it on a small instance, the
theorem for every value of the constants. Nothing is assumed but the `ASSUME`s of the
modelled modules, which TLC evaluates in the runs, and the conditions a theorem names.

| module | theorems | under |
|---|---|---|
| `RangeRequestProofs` | `TypeCorrect`, `SliceIsTheOneAsked`, `SliceIsInside`, `OffsetsDoNotOverflow`, `WholeFileWithoutRange` | any width of `off_t`, any set of fields, files up to the largest |
| `ConnectionProofs` | `TypeCorrect`, `NothingDangles`, `BytesInOrder`, `EveryRequestIsLogged`, `AnswerFitsItsRequest`, `RefusedGetsNothing`, `ReadsAreInsideReply` | any requests, options, lengths and time-out |
| | `NothingLeaks` | `WithinLimit` |
| | `KeptConnectionsAreFramed`, `ConnectionImplementsExchange` | `WithinLimit`, `HeadsAccepted` |
| | `KeepAliveIsHonoured` | `WithinLimit`, `NoEmptyFile` |
| `EventLoopProofs` | `TypeCorrect`, `DescriptorsAreOwned`, `SelectWatchesEveryone`, `NobodyOverstays` | any number of connections and descriptors, any time-out |
| | `DeafServerHasConnection` | `OnlyOwnLimit` |
| `RequestPathProofs` | `SafeTypeCorrect`, `NothingUnreadIsLost`, `SafeUrlIsClean`, `SafeUrlIsTheWalk` | texts of any length |
| | `UsesMakeSafeUrl`, `RoutedUrlIsClean`, `RoutedUrlIsTheWalk`, `OpensOnlyWhatWasAsked`, `DotfilesStayHidden`, `RedirectsLeadIn` | any URLs, command lines and root, whatever the file system answers |
| | `TypesAreOfTheFiles` | `ExtensionsAreNames` |
| `ListingProofs` | `WhatIsThereIsListed`, `BuffersAlwaysHold`, `LinksAlwaysLead` | any directories, names, URLs (clean ones), changes and sizes of the buffers at the start |
| `RequestTextProofs` | `TypeCorrect`, `AnswersAreAsAsked`, `ReadsFromTheStart`, `NoPageWithoutKey` | any requests, fields, line ends, key and limit, any pieces |
| `StartupProofs` | `StartupTypeCorrect`, `OneHolder`, `StaleFilesExplained`, `HolderCanRemove`, `PrivilegesGivenUp`, `ParentsAreInformed` | any number of starts, daemons and ports, any privileges to give up |

The conditions are where the code stops keeping the property; section 3 has each:
`WithinLimit` (no complete request over `MAX_REQUEST_LENGTH`, 2641),
`HeadsAccepted` (HEAD only from clients that pass the credentials and the https
redirect; `head_refused`), `NoEmptyFile` (2798), `OnlyOwnLimit` (`accept()`
meets `EMFILE` but not `ENFILE`, 1352). `ExtensionsAreNames` says that no extension
of the type file has a slash in it: `url_content_type` looks for the last dot of the whole
URL (786), so that for the file `z` of a directory `x.y` it would find an extension `y/z`,
which no file can have. It holds of the built-in table.

Type invariants (but that of `RequestText`), `SliceInsideFile`, `NoRangeWholeFile`,
`SafeTypeOK` and `UnreadIntact` are proved and in no run: the mutants that would break
them break a deeper property of the same module as well.

**Ranges.** Lemmas about the operators come first: `strtoll` stays in
0..`OffMax`, and the clamping of `From` and `To` leads to the bounds of the bytes
asked for. The types of `RangeRequest` (`range` and the slice are values of `off_t`)
are inductive, and relative to them `SliceInsideFile` and `AnswerFollows` (the slice
is the one `process_get` computes from a range that only the last field was parsed
into, because `Recycle` forgets the one before), from which the others follow.

**Connection.** None of the properties is inductive. `Inv` adds to the types
`Control` (which function runs next fits `conn->state`: the dispatch of `httpd_poll`
and the fall-through of the handlers), `Fresh` (a connection that receives has every
member of the last answer reset: without it a reachable answer could start from any
counter, range or `header_only`), `Owns` (a member is set exactly when what it points
to is live), `OneLine` (a request is unlogged exactly while `log_connection` would
still log it) and `Sending` (which counters may be non-zero in which state).
`Answering`, inductive relative to `Inv`, ties the answer being sent to the request
and the range that were parsed; `AnswerFitsRequest`, `RefusedGetNothing` and
`ReadsInsideReply` follow from it. Each handler is a lemma.

**Exchange.** `Tidy` (nothing lost, request within the limit), `Framing` (what the
header promised is what the state still has to send), and `Honest` (an announced
keep-alive and `conn_close` agree unless someone failed) are inductive relative to
`Inv`. The refinement `ConnectionImplementsExchange` shows that the initial states map
to `HttpExchange`'s and that every step maps to one of its steps or a stutter:
answering is a promise, a call of `send()` delivers, recycling a connection is the
next exchange, and closing may happen at any time.

**Event loop.** `Ownership` says who holds every open descriptor, and that a
connection still receiving has no file, which is why `Answer` does not overwrite one.
`Swept` says that a connection is DONE only while the pass has it to do; `InTime`
that only connections still to be visited, or to be closed, may be over time;
`SomeoneWaits` that `accept()` is called for a client. A handler is summed up by
`Handled` (it changes its own connection and opens at most one file), so that the
lemmas on ownership do not depend on which handler ran. `Deaf` is the inductive form
of `DeafHasConnection`: out of its own descriptors, the process holds some.

**make_safe_url.** That no index leaves the buffer is not inductive by itself: the loop
reads up to three bytes ahead, which is safe only because a NUL that has not been read
stops it. `IInv` therefore ties the unread part to the text given (`UnreadIntact`: every
byte from `src` on is as the caller passed it, which holds as `dst` never passes
`src`), says that a text has its NUL at its end and only there (`GivenIsText`), and that the
first byte stays a slash: with nothing written, the rest stands at a slash or at its
end (`FirstSlash`). `ResultIsClean` needs one more, `KeptIsClean`. The part before `dst` alone can end in
`/..` and be right, if a name goes on behind `src`; so the invariant speaks of the text
there would be if the rest were only copied (`Remaining`): in that text no slash before
`dst` is followed by a slash, or by a `.` or `..` that ends there. Skipping leaves it
alone, since a component is skipped only where nothing is being written, and
`Backtrack` cuts at a slash that had passed the test.

**Texts.** The library's induction takes an operator, which no installed prover can
instantiate. `TextLemmas` states induction of sets instead (`NatInd`, `ConsInd`,
`AppendInd`: a set that has the empty text, and with a text every text that is longer by
one, has them all), which is first-order; it follows from the library's fact that the finite
subsets of a set are well-founded. Recursive functions (`Split`, `Resolved`,
`urldecode`, `normalize_path`, the encoders) are chosen by the equations they satisfy, so
each is first shown to exist (`UpRec`, `DownRec`), and, where it matters, to be the only one.
From this come the laws the proofs use: a text is split, joined, walked, decoded and
encoded piece by piece (`SplitConcat`, `JoinedComponents`, `ResolvedAppend`,
`DecodedAppend`, `EncodedConcat`), and splitting undoes joining.

**The walk.** `WalkInv` adds to the invariant of `make_safe_url` that behind a run of slashes
what is kept ends in a slash exactly if the text did up to there (`TrailingSlash`). A step
of the walk is taken when the last byte of a component has been read; every other step
of the loop is a stutter (`StepOfWalk`). `WalkResolves` says what the walk comes to:
its stack is what the components taken so far resolve to, and the answer consists of
the resolved components of the URL, or is refused because they lead above the root.

**Routing.** `RequestPath` takes its steps on the variables of the loop only by calling it as
specified (`UsesMakeSafeUrl`), so all of the above holds of the URL that is routed.
`TargetIsChosen`: a target is set once, from the safe URL or the index below it, after the
test for hidden names, and a redirect is built from the URL of the request. With
`WalkResolves` these give `OpensWhatWasAsked`, `HiddenStaysHidden` and
`RedirectLeadsIn`; for the last, a slash at the end changes neither how a client asks for a
reference (`AskedWithSlash`) nor the names in it. For the type, the table holds at most one entry an extension, the one
said last (`MapIsSaid`, an induction over the lines of the table), and the last dot of the
URL is the last dot of the file's name, because a clean URL has no slash behind it
and extensions have none (`TypeByName`).

**Listing.** `ListInv` tells what has been read of the directory from what has not: an entry
that stays has one place in the list once `readdir()` has returned it, and none
before. `Buffers` never hold more than their capacity, since `Grown` adds to it until the
rest fits, and `maxlen` bounds the blanks of every row (`RowIs`). A link leads back
because decoding an encoded text gives the text (`DecodesEncoded`), and the name of an
entry, which has no slash and is neither `.` nor `..`, is one component behind those of
the directory (`NameBehindIs`). That a page shows the names themselves is the same
argument for `append_escaped` (`ShowsEscaped`).

**The text of requests.** Every line of a request but the empty one starts with a word, so an
empty line ends nowhere but at the end of its text (`ClosedOnce`), and whatever number of
texts stand one behind the other, an empty line ends where one of them does
(`CutAtText`). That makes `Aligned` inductive: what has not been answered is the text of
the last requests of the client, however it was cut; `StartsAtRequest` follows.
`LineParsed` shows that `parse_request` finds the words of the line that was written, or
refuses exactly what is malformed. For the fields, `Outcome` says what `parse_field`
finds in a text and will still find however the text goes on: the first field of that
name of the lines so far, or nothing and nothing in the middle of being found
(`TextAfter`, by induction over the lines and the requests). So a request read
alone has the outcome of its own fields (`FieldOfText`), and several that are read together that
of one of them (`FieldOfTexts`), which is why a page still needs the key
(`NoPageWithoutKey`). `WaitInv` is the invariant for clients that wait: what has come is
the rest of one request, an answer being sent is due to it (`Answers`: a request over the
limit has two, as it was read whole or not), and a kept connection has
nothing left to read; without the last, the next request would be judged with what was
left of this one.

**Start-up.** `FileInv`: a process between `pidfile_create` and `pidfile_remove` is the
one that created the file, which therefore exists and has its privileges of now
(`CreatedAsNow`: all of them are given up before it, so the file can be removed), and
a file whose creator is gone has a creator that was killed or failed in one of the calls
that leave it (`StrayExplained`). `PrivInv` follows the order of `main`: root until the last step that
needs it, and after each step what it gives up is gone. `ParentInv`: a parent that has
stopped reading has a child that finished, or is over; and what it told is what the
child had come to.

Only model-checked: all liveness (`SilentIsClosed`, `RequestsAreReceived`,
`AcceptingResumes`, `StopsWithConnections`, `WaitingIsAnswered`, `ParentReturns`),
which rests on fairness and on `ENABLED` and is out of this prover's reach. Every safety
property and the two refinements of the passing runs are theorems.

## 5. What is left, in order

1. `ConnList`: the `LIST_*` macros against a sequence, with the pass of
   `httpd_poll` that removes while it iterates. `EventLoop` takes the list for a set.
2. `sendfile()`'s variants for other systems, where they differ in what they report.
3. The command line: `str_to_num` at its limits, options that exclude each other.

## 6. Not modelled

The command line (read once before anything runs; its options are constants of the
modules), `base64_encode` (runs once, on the command line), the intrusive links of
`connlist`, the layout of pages, headers and log lines (`logencode`, `clf_date`,
`humanize_size`, dates), accept filters and the variants of `sendfile()` for other
systems (all can return what `SendReply`, `SendWouldBlock` and `SendFails` choose
from). The tests and fuzzers are read as documentation of what is expected;
`make_safe_url_old` is modelled, as the reference of `make_safe_url`.
`accept()` is assumed not to block after `select()` has reported the socket, as on
Linux, and descriptors are assumed to be below `FD_SETSIZE`.
