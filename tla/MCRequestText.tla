--------------------------- MODULE MCRequestText ---------------------------
(***************************************************************************)
(* Requests of every version, with and without the key, with fields that   *)
(* are repeated, and with the key in the value of another field.           *)
(***************************************************************************)
EXTENDS RequestText

MCWords ==
  {"GET", "HEAD", "PUT", "HTTP/1.0", "HTTP/1.1", "HTTP/2", "/a", "/b",
   "close", "keep-alive", "Connection:", "Authorization:", "Range:", "Referer:",
   "key", "keys", "0-1"}

Field(name, value) == [name |-> name, value |-> value]
Key == Field("Authorization:", <<"key", SP, "key">>)

Ask(method, url, version, fields) ==
  [method |-> method, url |-> url, version |-> version, fields |-> fields]

MCRequests ==
  {Ask("GET", <<"/a">>, None, <<>>),
   Ask("GET", <<"/b">>, "HTTP/1.1", <<Key>>),
   Ask("GET", <<"/a">>, "HTTP/1.0", <<Field("Authorization:", <<"key">>)>>),
   Ask("GET", <<"/b">>, "HTTP/1.1", <<Field("Referer:", <<"Authorization:", SP, "key", SP, "key">>)>>),
   Ask("HEAD", <<"/b">>, "HTTP/1.0",
       <<Field("Connection:", <<"keep-alive">>), Key, Field("Range:", <<"0-1">>)>>),
   Ask("GET", <<"/a">>, "HTTP/1.1",
       <<Field("Connection:", <<"close">>), Field("Connection:", <<"keep-alive">>)>>),
   Ask("PUT", <<"/a">>, "HTTP/1.1", <<>>),
   Ask("GET", <<"/a", Nul, "/b">>, "HTTP/1.1", <<>>),
   Ask("GET", <<"/a">>, "HTTP/2", <<Field("Referer:", <<"Connection:", SP, "close">>)>>)}

MCOptions ==
  {[want_keepalive |-> TRUE, auth_key |-> <<"key", SP, "key">>],
   [want_keepalive |-> TRUE, auth_key |-> None],
   [want_keepalive |-> FALSE, auth_key |-> None]}

MCLineEnds == {<<CR, LF>>, <<LF>>}

=============================================================================
