-------------------------------- MODULE Http --------------------------------
(***************************************************************************)
(* HTTP/1.1 messages on a stream, crates/ori-compiler/src/http.rs. A       *)
(* stream is the sequence of what is still to be read, one element a byte; *)
(* the words the parser compares (methods, versions, header names) stand   *)
(* as one element. A header map is a function from names to values, both   *)
(* sequences. A parser answers with a value and the rest of the stream, or *)
(* with the code of its error. The caps are those of the source, scaled.   *)
(***************************************************************************)
EXTENDS Integers, Sequences, SequencesExt

CONSTANTS MAX_LINE_BYTES, MAX_HEADER_BYTES, MAX_CHUNK_LINE_BYTES, DEFAULT_MAX_BODY_BYTES,
          MAX_USIZE   \* usize::MAX, scaled like the caps

LOCAL INSTANCE TLC

Fail(code) == [ok |-> FALSE, code |-> code]
Read(v, rest) == [ok |-> TRUE, v |-> v, rest |-> rest]

IoError == "<io>"       \* in a stream: the read of this byte fails, or times out
NotUtf8 == "<ff>"       \* a byte that is not UTF-8
is_utf8(s) == NotUtf8 \notin Range(s)

CRLF == <<"\r", "\n">>
Upto(s, i) == SubSeq(s, 1, i)
From(s, i) == SubSeq(s, i, Len(s))
FirstOf(s, cs) ==
  IF \E i \in DOMAIN s : s[i] \in cs
  THEN CHOOSE i \in DOMAIN s : s[i] \in cs /\ \A j \in 1..(i - 1) : s[j] \notin cs ELSE 0
find(s, c) == FirstOf(s, {c})

\* A line ends at "\n" and loses one "\r" before it. EOF before the first byte is no
\* error: the line is empty and n is 0. A byte is read before the cap is looked at.
Line(s, stop, max) ==
  LET cut == IF stop > 1 /\ s[stop - 1] = "\r" THEN stop - 2 ELSE stop - 1
  IN  IF stop \in 1..(max + 1) /\ s[stop] = IoError THEN Fail("HTTP0006")
      ELSE IF stop \notin 1..max THEN Fail("HTTP0001")
      ELSE [ok |-> TRUE, v |-> Upto(s, cut), n |-> stop, rest |-> From(s, stop + 1)]
read_crlf_line(s, max) ==
  IF s = <<>> THEN [ok |-> TRUE, v |-> <<>>, n |-> 0, rest |-> <<>>]
  ELSE Line(s, FirstOf(s, {"\n", IoError}), max)

ascii_lower(s) ==
  LET lower == [X |-> "x", Chunked |-> "chunked"] @@ ("Content-Length" :> "content-length")
                 @@ ("HTTP://" :> "http://") @@ ("HTTPS://" :> "https://")
  IN  [i \in DOMAIN s |-> IF s[i] \in DOMAIN lower THEN lower[s[i]] ELSE s[i]]
RECURSIVE trim_ascii_ws(_)
trim_ascii_ws(s) ==
  CASE s /= <<>> /\ Head(s) \in {" ", "\t"} -> trim_ascii_ws(Tail(s))
    [] s /= <<>> /\ Head(s) \notin {" ", "\t"} /\ Last(s) \in {" ", "\t"} -> trim_ascii_ws(Front(s))
    [] OTHER -> s
\* The bytes a token may have, and the words made of them.
HexDigits == <<"0", "1", "2", "3", "4", "5", "6", "7", "8", "9", "a", "b", "c", "d", "e", "f">>
Tokens ==
  {"!", "#", "$", "%", "&", "'", "*", "+", "-", ".", "^", "_", "grave", "|", "~", "x", "y", "X"}
    \cup Range(HexDigits) \cup {"GET", "POST", "host", "user-agent", "accept", "connection", "content-type",
                               "content-length", "Content-Length", "transfer-encoding", "chunked", "Chunked", "gzip"}
is_token(s) == s /= <<>> /\ Range(s) \subseteq Tokens

\* A name that occurs again has its values joined with a comma.
insert_header(map, name, value) ==
  LET key == ascii_lower(name)
  IN  (key :> (IF key \in DOMAIN map THEN map[key] \o <<",", " ">> \o trim_ascii_ws(value)
               ELSE trim_ascii_ws(value))) @@ map

\* Header lines up to an empty one; r is the next of them.
RECURSIVE parse_headers(_, _, _)
header_line(r, map, total) ==
  LET colon == find(r.v, ":")
  IN  IF ~r.ok THEN r
      ELSE IF r.n = 0 \/ total > MAX_HEADER_BYTES THEN Fail("HTTP0002")
      ELSE IF r.v = <<>> THEN Read(map, r.rest)
      ELSE IF ~is_utf8(r.v) \/ colon = 0 THEN Fail("HTTP0002")
      ELSE IF ~is_token(Upto(r.v, colon - 1)) THEN Fail("HTTP0002")
      ELSE parse_headers(r.rest, insert_header(map, Upto(r.v, colon - 1), From(r.v, colon + 1)), total)
parse_headers(s, map, total) ==
  LET Next(r) == header_line(r, map, IF r.ok THEN total + r.n ELSE total)
  IN  Next(read_crlf_line(s, MAX_LINE_BYTES))

\* parse and from_str_radix of a type whose largest value is max: digits, with or
\* without a plus before them.
Value(digit) == find(HexDigits, digit) - 1
number(s, base, max) ==
  LET ds == IF s /= <<>> /\ Head(s) = "+" THEN Tail(s) ELSE s
      Shift(n, d) == n * base + Value(d)
      n == FoldLeft(Shift, 0, ds)
      ok == ds /= <<>> /\ \A i \in DOMAIN ds : Value(ds[i]) \in 0..(base - 1)
  IN  IF ok /\ n <= max THEN n ELSE -1
MaxU16 == 65535

RECURSIVE decimal(_)
decimal(n) ==
  IF n > 9 THEN decimal(n \div 10) \o decimal(n % 10) ELSE <<HexDigits[n + 1]>>

\* read_exact: all n bytes arrive.
Arrive(s, n) == n <= Len(s) /\ IoError \notin Range(Upto(s, n))
read_exact_vec(s, n, limit) ==
  IF n > limit THEN Fail("HTTP0005")
  ELSE IF ~Arrive(s, n) THEN Fail("HTTP0006")
  ELSE Read(Upto(s, n), From(s, n + 1))

\* Chunks, then trailer lines up to an empty one.
AsChunkError(r) == IF r.ok \/ r.code /= "HTTP0001" THEN r ELSE Fail("HTTP0004")
RECURSIVE drain_trailers(_, _)
trailer_line(r, out) ==
  IF ~r.ok THEN r
  ELSE IF r.n = 0 THEN Fail("HTTP0004")
  ELSE IF r.v = <<>> THEN Read(out, r.rest) ELSE drain_trailers(r.rest, out)
drain_trailers(s, out) == trailer_line(AsChunkError(read_crlf_line(s, MAX_LINE_BYTES)), out)

\* r is the line of a chunk's size; trail the one that must follow its data.
RECURSIVE decode_chunked(_, _, _)
chunk_size(line) ==
  LET semi == find(line, ";")
  IN  IF ~is_utf8(line) THEN -1
      ELSE number(trim_ascii_ws(IF semi = 0 THEN line ELSE Upto(line, semi - 1)), 16, MAX_USIZE)
chunk_done(trail, out, limit) ==
  IF ~trail.ok THEN trail
  ELSE IF trail.n = 0 \/ trail.v /= <<>> THEN Fail("HTTP0004")
  ELSE decode_chunked(trail.rest, out, limit)
chunk(r, size, out, limit) ==
  IF r.n = 0 \/ size = -1 THEN Fail("HTTP0004")
  ELSE IF size = 0 THEN drain_trailers(r.rest, out)
  ELSE IF Len(out) + size > limit THEN Fail("HTTP0005")
  ELSE IF ~Arrive(r.rest, size) THEN Fail("HTTP0004")
  ELSE chunk_done(AsChunkError(read_crlf_line(From(r.rest, size + 1), MAX_CHUNK_LINE_BYTES)),
                  out \o Upto(r.rest, size), limit)
decode_chunked(s, out, limit) ==
  LET Next(r) == IF r.ok THEN chunk(r, chunk_size(r.v), out, limit) ELSE r
  IN  Next(AsChunkError(read_crlf_line(s, MAX_CHUNK_LINE_BYTES)))

RECURSIVE listed(_, _)
listed(value, word) ==
  LET comma == find(value, ",")
  IN  \/ ascii_lower(trim_ascii_ws(IF comma = 0 THEN value ELSE Upto(value, comma - 1))) = word
      \/ comma > 0 /\ listed(From(value, comma + 1), word)

\* Mutant: a declared length goes before the chunks.
parse_body_mutant(s, headers, limit) ==
  CASE <<"content-length">> \in DOMAIN headers ->
         read_exact_vec(s, number(headers[<<"content-length">>], 10, MAX_USIZE), limit)
    [] <<"content-length">> \notin DOMAIN headers /\ <<"transfer-encoding">> \in DOMAIN headers ->
         decode_chunked(s, <<>>, limit)
    [] OTHER -> Read(<<>>, s)

\* Chunks before a declared length, and nothing where there is neither.
Framing == {<<"content-length">>, <<"transfer-encoding">>}
parse_body(s, headers, limit) ==
  LET chunked == <<"transfer-encoding">> \in DOMAIN headers /\ listed(headers[<<"transfer-encoding">>], <<"chunked">>)
      n == number(trim_ascii_ws(headers[<<"content-length">>]), 10, MAX_USIZE)
  IN  CASE chunked -> decode_chunked(s, <<>>, limit)
        [] ~chunked /\ <<"content-length">> \in DOMAIN headers ->
             IF n = -1 THEN Fail("HTTP0002") ELSE read_exact_vec(s, n, limit)
        [] OTHER -> Read(<<>>, s)

\* The three parts of a start line.
splitn(s) ==
  LET i == find(s, " ")
      rest == From(s, i + 1)
      j == find(rest, " ")
  IN  IF i = 0 THEN <<s>>
      ELSE IF j = 0 THEN <<Upto(s, i - 1), rest>> ELSE <<Upto(s, i - 1), Upto(rest, j - 1), From(rest, j + 1)>>
IsVersion(s) == s /= <<>> /\ Head(s) \in {"HTTP/", "HTTP/1.0", "HTTP/1.1"}   \* whatever follows "HTTP/"

Message(start, s, limit) ==
  LET WithBody(h, b) == IF b.ok THEN Read([start |-> start, headers |-> h.v, body |-> b.v], b.rest) ELSE b
      WithHeaders(h) == IF h.ok THEN WithBody(h, parse_body(h.rest, h.v, limit)) ELSE h
  IN  WithHeaders(parse_headers(s, [x \in {} |-> <<>>], 0))

\* A request whose body no header announces.
Announced(r) ==
  IF r.ok /\ r.v.body /= <<>> /\ Framing \cap DOMAIN r.v.headers = {}
  THEN Fail("HTTP0003") ELSE r
request_line(parts, rest, limit) ==
  IF Len(parts) < 3 THEN Fail("HTTP0001")
  ELSE IF ~is_token(parts[1]) \/ parts[2] = <<>> \/ ~IsVersion(parts[3]) THEN Fail("HTTP0001")
  ELSE Announced(Message(parts, rest, limit))
parse_request_with_limit(s, limit) ==
  LET Start(r) == IF ~r.ok THEN r
                  ELSE IF ~is_utf8(r.v) THEN Fail("HTTP0001")
                  ELSE request_line(splitn(r.v), r.rest, limit)
  IN  Start(read_crlf_line(s, MAX_LINE_BYTES))
parse_request(s) == parse_request_with_limit(s, DEFAULT_MAX_BODY_BYTES)

\* The version of a response is dropped; a status is a number of three digits.
status_line(parts, rest, limit) ==
  IF Len(parts) < 2 THEN Fail("HTTP0001")
  ELSE IF ~IsVersion(parts[1]) \/ number(parts[2], 10, MaxU16) \notin 100..999 THEN Fail("HTTP0001")
  ELSE Message(<<number(parts[2], 10, MaxU16), IF Len(parts) = 3 THEN parts[3] ELSE <<>>>>, rest, limit)
parse_response_with_limit(s, limit) ==
  LET Start(r) == IF ~r.ok THEN r
                  ELSE IF ~is_utf8(r.v) THEN Fail("HTTP0001")
                  ELSE status_line(splitn(r.v), r.rest, limit)
  IN  Start(read_crlf_line(s, MAX_LINE_BYTES))
parse_response(s) == parse_response_with_limit(s, DEFAULT_MAX_BODY_BYTES)

\* Headers are written in the order of their names. A declared length is added only
\* where the caller left both framings out.
Alphabetical == << <<"accept">>, <<"connection">>, <<"content-length">>, <<"content-type">>, <<"host">>,
                   <<"transfer-encoding">>, <<"user-agent">>, <<"x">>, <<"y">> >>
write_headers_and_body(headers, body) ==
  LET Present(name) == name \in DOMAIN headers
      names == SelectSeq(Alphabetical, Present)
      added == IF body /= <<>> /\ Framing \cap DOMAIN headers = {}
               THEN <<"content-length", ":", " ">> \o decimal(Len(body)) \o CRLF ELSE <<>>
  IN  FlattenSeq([i \in DOMAIN names |-> names[i] \o <<":", " ">> \o headers[names[i]] \o CRLF])
      \o added \o CRLF \o body
write_request(req) ==
  req.method \o <<" ">> \o req.path \o <<" ">> \o (IF req.version = <<>> THEN <<"HTTP/1.1">> ELSE req.version)
  \o CRLF \o write_headers_and_body(req.headers, req.body)
default_reason(status) ==
  LET known == (100 :> "Continue") @@ (200 :> "OK") @@ (201 :> "Created") @@ (204 :> "No Content")
        @@ (301 :> "Moved Permanently") @@ (302 :> "Found") @@ (304 :> "Not Modified") @@ (400 :> "Bad Request")
        @@ (401 :> "Unauthorized") @@ (403 :> "Forbidden") @@ (404 :> "Not Found") @@ (405 :> "Method Not Allowed")
        @@ (408 :> "Request Timeout") @@ (413 :> "Payload Too Large") @@ (500 :> "Internal Server Error")
        @@ (501 :> "Not Implemented") @@ (502 :> "Bad Gateway") @@ (503 :> "Service Unavailable")
        @@ (504 :> "Gateway Timeout")
  IN  IF status \in DOMAIN known THEN <<known[status]>> ELSE <<>>
write_response(resp) ==
  <<"HTTP/1.1", " ">> \o decimal(resp.status) \o <<" ">>
  \o (IF resp.reason = <<>> THEN default_reason(resp.status) ELSE resp.reason) \o CRLF
  \o write_headers_and_body(resp.headers, resp.body)
----------------------------------------------------------------------------
\* The client. A URL is the sequence of its characters, with a scheme as one element;
\* Wide is a character of two bytes. The scheme is compared in the first 8, then 7,
\* bytes: a URL of as many or more bytes that has a character across that place panics.
Wide == "<wide>"
Bytes(url, k) ==
  LET Add(n, c) == n + (CASE c \in {"https://", "HTTPS://"} -> 8 [] c \in {"http://", "HTTP://"} -> 7
                          [] c = Wide -> 2 [] OTHER -> 1)
  IN  FoldLeft(Add, 0, Upto(url, k))
IsBoundary(url, n) == n > Bytes(url, Len(url)) \/ \E k \in 0..Len(url) : Bytes(url, k) = n
parse_url(url) ==
  LET scheme == IF url = <<>> THEN <<>> ELSE ascii_lower(Upto(url, 1))
      rest == Tail(url)
      slash == find(rest, "/")
      authority == IF slash = 0 THEN rest ELSE Upto(rest, slash - 1)
      IsColon(c) == c = ":"
      colon == SelectLastInSeq(authority, IsColon)
      port == number(From(authority, colon + 1), 10, MaxU16)
      bad == \/ authority = <<>>
             \/ "@" \in Range(authority)
             \/ colon > 0 /\ (colon = 1 \/ port = -1)
  IN  IF ~IsBoundary(url, 8) THEN Fail("panic")
      ELSE IF scheme = <<"https://">> THEN Fail("HTTP0007")
      ELSE IF ~IsBoundary(url, 7) THEN Fail("panic")
      ELSE IF scheme /= <<"http://">> THEN Fail("HTTP0008")
      ELSE IF bad THEN Fail("HTTP0008")
      ELSE Read([host |-> IF colon = 0 THEN authority ELSE Upto(authority, colon - 1),
                 port |-> IF colon = 0 THEN 80 ELSE port], IF slash = 0 THEN <<"/">> ELSE From(rest, slash))

\* HttpClient::new and its with_ methods; the timeout is the one of the reads that fail.
new == [max_body_bytes |-> DEFAULT_MAX_BODY_BYTES, user_agent |-> <<"ori-bootstrap-http/0.1">>]
with_max_body_bytes(client, max) == [client EXCEPT !.max_body_bytes = max]
with_user_agent(client, ua) == [client EXCEPT !.user_agent = ua]

host_header(to) == IF to.port = 80 THEN to.host ELSE to.host \o <<":">> \o decimal(to.port)
client_headers(client, to) ==
  (<<"host">> :> host_header(to)) @@ (<<"user-agent">> :> client.user_agent)
    @@ (<<"accept">> :> <<"*", "/", "*">>) @@ (<<"connection">> :> <<"close">>)

\* The addresses in turn until one connects, which then decides the answer: one that
\* is "broken" fails to set its timeouts or to take the request. A name that does not
\* resolve has no addresses.
RECURSIVE execute(_, _, _)
execute(client, addrs, req) ==
  IF addrs = <<>> THEN Fail("HTTP0006")
  ELSE CASE Head(addrs).kind = "refused" -> execute(client, Tail(addrs), req)
         [] Head(addrs).kind = "broken" -> Fail("HTTP0006")
         [] Head(addrs).kind = "open" ->
              parse_response_with_limit(Head(addrs).answer[write_request(req)], client.max_body_bytes)

Request(method, to, headers, body) ==
  [method |-> method, path |-> to.rest, version |-> <<"HTTP/1.1">>, headers |-> headers, body |-> body]
get_request(client, to) == Request(<<"GET">>, to, client_headers(client, to.v), <<>>)
post_request(client, to, body, content_type) ==
  Request(<<"POST">>, to, (<<"content-type">> :> content_type) @@ (<<"content-length">> :> decimal(Len(body)))
                            @@ client_headers(client, to.v), body)
get(client, url, addrs) ==
  LET Send(to) == IF to.ok THEN execute(client, addrs, get_request(client, to)) ELSE to
  IN  Send(parse_url(url))
post(client, url, body, content_type, addrs) ==
  LET Send(to) == IF to.ok THEN execute(client, addrs, post_request(client, to, body, content_type)) ELSE to
  IN  Send(parse_url(url))
----------------------------------------------------------------------------
\* What was written is read back, with the length that was added, and nothing after it
\* is touched, unless it is more than the caps allow; no part of it that ends early is
\* read as a message.
IsNoPrefix(wire, limit) == \A k \in 0..(Len(wire) - 1) : ~parse_request_with_limit(Upto(wire, k), limit).ok
RoundTrip(req, tail, limit) ==
  LET block == Len(write_headers_and_body(req.headers, req.body)) - Len(req.body)
      IsBack(r) ==
        IF block > MAX_HEADER_BYTES THEN r = Fail("HTTP0002")
        ELSE IF Len(req.body) > limit THEN r = Fail("HTTP0005")
        ELSE /\ r.ok /\ r.rest = tail
             /\ r.v.start[2] = req.path /\ r.v.body = req.body
             /\ \A n \in DOMAIN req.headers : r.v.headers[n] = req.headers[n]
      Survives(wire) == IsBack(parse_request_with_limit(wire \o tail, limit)) /\ IsNoPrefix(wire, limit)
  IN  Survives(write_request(req))

\* A body sent in chunks, with extensions and a trailer, behind a length that is wrong.
Chunk(data, extension) ==
  decimal(Len(data)) \o extension \o CRLF \o data \o CRLF
Chunked(chunks, extension, trailer) ==
  <<"POST", " ", "/", " ", "HTTP/1.0">> \o CRLF
  \o <<"Content-Length", ":", "1">> \o CRLF \o <<"transfer-encoding", ":", "gzip", ",", " ", "Chunked">> \o CRLF \o CRLF
  \o FlattenSeq([i \in DOMAIN chunks |-> Chunk(chunks[i], extension)]) \o <<"0">> \o CRLF \o trailer \o CRLF
ChunksAreJoined(chunks, extension, trailer, tail, limit) ==
  LET body == FlattenSeq(chunks)
      IsBack(r) == IF Len(body) > limit THEN r = Fail("HTTP0005")
                   ELSE r.ok /\ r.v.body = body /\ r.rest = tail
      Survives(wire) == IsBack(parse_request_with_limit(wire \o tail, limit)) /\ IsNoPrefix(wire, limit)
  IN  Survives(Chunked(chunks, extension, trailer))

\* Whatever arrives, a message that is read holds no more than the limit, what is left
\* is the end of what arrived, and no read failed on the way.
ReadingIsBounded(s) ==
  \A r \in {parse_request(s), parse_response(s)} :
    r.ok => /\ Len(r.v.body) <= DEFAULT_MAX_BODY_BYTES /\ IsSuffix(r.rest, s)
            /\ IoError \notin Range(Upto(s, Len(s) - Len(r.rest)))

\* A server that reads the request finds the path and the body the client was given;
\* what it answers is what the client returns. The first address that does not refuse
\* decides, for get and post alike.
ClientIsExact(client, url, body, addrs, resp) ==
  LET to == parse_url(url)
      connects == \A i \in DOMAIN addrs : addrs[i].kind = "refused"
      Serve(wire, path, content) ==
        LET Seen(r) == r.ok /\ r.rest = <<>> /\ r.v.body = content /\ r.v.start[2] = path
        IN  [kind |-> "open",
             answer |-> wire :> IF Seen(parse_request(wire)) THEN write_response(resp) ELSE <<>>]
      IsAnswer(r) ==
        IF ~connects THEN r = Fail("HTTP0006")
        ELSE IF Len(resp.body) > client.max_body_bytes THEN r = Fail("HTTP0005")
        ELSE r.ok /\ r.v.body = resp.body /\ r.v.start[1] = resp.status
               /\ r.v.start[2] = IF resp.reason = <<>> THEN default_reason(resp.status) ELSE resp.reason
  IN  IF ~to.ok THEN get(client, url, addrs) = to /\ post(client, url, body, <<"x">>, addrs) = to
      ELSE /\ IsAnswer(get(client, url,
                           Append(addrs, Serve(write_request(get_request(client, to)), to.rest, <<>>))))
           /\ IsAnswer(post(client, url, body, <<"x">>,
                            Append(addrs, Serve(write_request(post_request(client, to, body, <<"x">>)), to.rest, body))))
=============================================================================
