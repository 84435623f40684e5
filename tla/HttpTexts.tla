----------------------------- MODULE HttpTexts ------------------------------
(***************************************************************************)
(* The messages of the polling HTTP server as texts                        *)
(* (internal/http/client_request.js, internal/http/server_response.js).    *)
(* The text of a request is the sequence of what stands between its CR LF: *)
(* the start line, header lines "name: value", other lines, empty lines.   *)
(* What a program writes is a sequence of characters; Size is the number   *)
(* of bytes of one.  A header may be written in capitals or not.           *)
(***************************************************************************)
EXTENDS Integers, Sequences, SequencesExt, TLC

Start(method, path, protocol) == [is |-> "start", method |-> method, path |-> path, protocol |-> protocol]
Header(name, value) == [is |-> "header", name |-> name, value |-> value]
Line(text) == [is |-> "text", text |-> text]
Empty == Line("")
Nothing == <<"nothing">>

ContentLength == "Content-Length"
NoHeaders == << >>
Set(headers, name, value) == (name :> value) @@ headers

\* data.split('\r\n\r\n')[1]: an empty line separates where another one, empty or not,
\* follows it.
SecondPart(lines) ==
  LET splits(from) == {i \in from..(Len(lines) - 1) : lines[i] = Empty}
      first(set) == CHOOSE i \in set : \A j \in set : i <= j
      head == first(splits(2))
      rest == splits(head + 2)
  IN IF splits(2) = {} THEN Nothing
     ELSE SubSeq(lines, head + 1, IF rest = {} THEN Len(lines) ELSE first(rest) - 1)

Upper(method) == IF method = "get" THEN "GET" ELSE method

\* Header lines are found wherever they are, the last of a name counts.
parseRequestData(lines) ==
  LET start == lines[1]
      headers == FoldLeft(LAMBDA h, l : IF l.is = "header" THEN Set(h, l.name, l.value) ELSE h, NoHeaders, lines)
  IN [method |-> Upper(start.method), path |-> start.path, protocol |-> start.protocol, headers |-> headers,
      body |-> IF ContentLength \in DOMAIN headers /\ headers[ContentLength] # "" THEN SecondPart(lines) ELSE Nothing]

-----------------------------------------------------------------------------
(* A response; it begins with the headers of its request.                  *)

NewResponse(request) == [statusCode |-> 200, headers |-> request.headers, buffer |-> << >>]
setHeader(response, name, value) == [response EXCEPT !.headers = Set(@, name, value)]
removeHeader(response, name) == [response EXCEPT !.headers = [n \in DOMAIN @ \ {name} |-> @[n]]]
hasHeader(response, name) == name \in DOMAIN response.headers /\ response.headers[name] # ""
write(response, content) == [response EXCEPT !.buffer = Append(@, content)]

\* end() without data writes it all the same: it joins as an empty text.
Joined(buffer) ==
  FlattenSeq([i \in DOMAIN buffer |-> (IF i = 1 THEN << >> ELSE <<"CR", "LF">>) \o (IF buffer[i] = Nothing THEN << >> ELSE buffer[i])])
\* The text that is sent; the response is of no use after it (module PollingServer).
commit(response, Size(_)) ==
  LET body == Joined(response.buffer)
      length == FoldLeft(LAMBDA n, c : n + Size(c), 0, body)
  IN [status |-> response.statusCode, headers |-> Set(response.headers, ContentLength, length), body |-> body]

-----------------------------------------------------------------------------
(* What a reader expects.                                                  *)

\* A request comes back as it was sent if its body has no empty line inside and nothing that
\* looks like a header; its body is the beginning of what was sent in any case.
RequestLaws(start, headers, body) ==
  LET request == parseRequestData(<<start>> \o headers \o <<Empty>> \o body)
      named(name) == {i \in DOMAIN headers : headers[i].name = name}
      sized == named(ContentLength) # {}
      plain == \A i \in DOMAIN body : body[i].is # "header"
      sent == [name \in {headers[i].name : i \in DOMAIN headers} |->
                 headers[CHOOSE i \in named(name) : \A j \in named(name) : j <= i].value]
  IN /\ request.method = Upper(start.method) /\ request.path = start.path
     /\ plain => request.headers = sent
     /\ DOMAIN sent \subseteq DOMAIN request.headers
     /\ sized /\ body # << >> => IsPrefix(request.body, body)
     /\ sized /\ body # << >> /\ Empty \notin {body[i] : i \in 2..(Len(body) - 1)} => request.body = body
     /\ plain /\ ~sized => request.body = Nothing

\* The length a response states is that of the body it sends, and it states one, unless the
\* program or the request has another in other letters; the body is all that was written, each
\* part on lines of its own.
ResponseLaws(response, Size(_), lower) ==
  LET text == commit(response, Size)
      lengths == {name \in DOMAIN text.headers : name \in {ContentLength, lower}}
      parts == response.buffer
  IN /\ text.headers[ContentLength] = FoldLeft(LAMBDA n, c : n + Size(c), 0, text.body)
     /\ lengths = {ContentLength} <=> lower \notin DOMAIN response.headers
     /\ \A name \in DOMAIN response.headers \ {ContentLength} : text.headers[name] = response.headers[name]
     /\ SelectSeq(text.body, LAMBDA c : c \notin {"CR", "LF"}) = FlattenSeq(SelectSeq(parts, LAMBDA p : p # Nothing))
     /\ Len(SelectSeq(text.body, LAMBDA c : c = "LF")) = IF parts = << >> THEN 0 ELSE Len(parts) - 1
     /\ \A name \in DOMAIN response.headers :
          /\ ~hasHeader(removeHeader(response, name), name)
          /\ name # ContentLength => name \notin DOMAIN commit(removeHeader(response, name), Size).headers
=============================================================================
