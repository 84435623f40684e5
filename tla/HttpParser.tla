------------------------------ MODULE HttpParser ------------------------------
(***************************************************************************)
(* internal/http_parser.js: the parser of HTTP messages, fed chunk by      *)
(* chunk. A text is a sequence of atoms: "CR", "LF", " ", words (a method, *)
(* a header's name, a status ...), digits and body bytes; no atom is cut   *)
(* by the end of a chunk. The handlers return and do not throw; what       *)
(* onHeadersComplete answers (skipBody: 0, 1 or 2) is given.               *)
(***************************************************************************)
EXTENDS Integers, Sequences, SequencesExt

Null == -1
NaN == -2

Methods == {"GET", "CONNECT"}
HttpVersions == {"1.0", "1.1", "2.0"}
Statuses == {"101", "200", "204", "304"}
HeaderNames == {"transfer-encoding", "content-length", "connection", "upgrade", "x"}
digits == [d \in {"0", "1", "2", "3"} |-> CASE d = "0" -> 0 [] d = "1" -> 1 [] d = "2" -> 2 [] d = "3" -> 3]

HTTPParser(type) ==
  [type |-> type, state |-> "LINE", method |-> "", version |-> "", statusCode |-> "",
   headers |-> << >>, upgrade |-> FALSE, shouldKeepAlive |-> FALSE, trailers |-> << >>,
   line |-> << >>, isChunked |-> FALSE, connection |-> << >>, headerSize |-> 0,
   body_bytes |-> Null, hadError |-> FALSE, error |-> "", events |-> << >>]

Fails(p, code) == [p EXCEPT !.hadError = TRUE, !.error = code]
Calls(p, event) == [p EXCEPT !.events = Append(@, event)]

\* The message is complete; reinitialize is the class itself, called without `new`.
nextRequest(p) == Fails(Calls(p, <<"complete">>), "TypeError")

\* What a value is as a number: unary plus in base 10, parseInt in base 16.
Numeral(s, base) == FoldLeft(LAMBDA n, d : n * base + digits[d], 0, s)
AsNumber(value) == IF \A i \in DOMAIN value : value[i] \in DOMAIN digits THEN Numeral(value, 10) ELSE NaN
ParseHex(line) ==
  LET ends == {i \in 1..Len(line) : line[i] \notin DOMAIN digits}
      n == IF ends = {} THEN Len(line) ELSE (CHOOSE i \in ends : \A j \in ends : i <= j) - 1
  IN IF n = 0 THEN NaN ELSE Numeral(SubSeq(line, 1, n), 16)

-----------------------------------------------------------------------------
(* Lines.                                                                  *)

\* The line that ends in this chunk, the parser without it and what follows it.
HasLine(text) == "LF" \in ToSet(text)
EndOfLine(text) == SelectInSeq(text, LAMBDA c : c = "LF")
consumeLineOnly(p, text) == SubSeq(text, 1, EndOfLine(text) - (IF "CR" \in ToSet(text) THEN 2 ELSE 1))
consumeLine(p, text) ==
  LET line == p.line \o SubSeq(text, 1, EndOfLine(text) - 1)
  IN IF line # << >> /\ line[Len(line)] = "CR" THEN SubSeq(line, 1, Len(line) - 1) ELSE line
AfterLine(text) == SubSeq(text, EndOfLine(text) + 1, Len(text))

\* A header, a continuation of the last one, or a malformed line, which is skipped.
parseHeader(line, headers) ==
  LET last == Len(headers)
      value == SelectSeq(SubSeq(line, 2, Len(line)), LAMBDA c : c # " ")
  IN IF line[1] \in HeaderNames THEN Append(headers, <<line[1], value>>)
     ELSE IF line[1] = " " /\ value # << >> /\ headers # << >>
     THEN [headers EXCEPT ![last][2] = IF @ = << >> THEN value ELSE @ \o <<" ">> \o value]
     ELSE headers

RequestLine(p, line) ==
  CASE line = << >> -> p
    [] ~(Len(line) = 2 /\ line[2] \in HttpVersions) -> Fails(p, "HPE_INVALID_CONSTANT")
    [] line[1] \notin Methods -> Fails(p, "invalid request method")
    [] OTHER -> [p EXCEPT !.method = line[1], !.version = line[2], !.body_bytes = 0, !.state = "HEADER"]

ResponseLine(p, line) ==
  CASE line = << >> -> p
    [] ~(Len(line) = 2 /\ line[1] \in HttpVersions /\ line[2] \in Statuses) ->
         Fails(p, "HPE_INVALID_CONSTANT")
    [] OTHER -> [p EXCEPT !.version = line[1], !.statusCode = line[2], !.state = "HEADER",
                          !.body_bytes = IF line[2] \in {"101", "204", "304"} THEN 0 ELSE @]

-----------------------------------------------------------------------------
(* The end of the headers.                                                 *)

Values(p, name) ==
  FoldLeft(LAMBDA s, h : IF h[1] = name THEN Append(s, h[2]) ELSE s, << >>, p.headers)

shouldKeepAlive(p) ==
  /\ IF p.version = "1.1" THEN "close" \notin ToSet(p.connection)
     ELSE "keep-alive" \in ToSet(p.connection)
  /\ p.body_bytes # Null \/ p.isChunked

\* The last transfer-encoding, the content-length (all of them the same number) and
\* the connection's words; chunked wins over a content-length and an upgrade over chunked.
Framing(p) ==
  LET codings == Values(p, "transfer-encoding")
      lengths == [i \in DOMAIN Values(p, "content-length") |-> AsNumber(Values(p, "content-length")[i])]
      chunked == codings # << >> /\ codings[Len(codings)] = <<"chunked">>
      words == p.connection \o FlattenSeq(Values(p, "connection"))
      upgrade == IF Values(p, "upgrade") # << >> /\ "upgrade" \in ToSet(words)
                 THEN p.type = "REQUEST" \/ p.statusCode = "101"
                 ELSE p.method = "CONNECT"
      bytes == CASE lengths = << >> -> p.body_bytes [] chunked -> Null [] OTHER -> lengths[1]
      q == [p EXCEPT !.connection = words, !.upgrade = upgrade, !.body_bytes = bytes,
                     !.isChunked = chunked /\ ~upgrade]
  IN IF \E i \in 2..Len(lengths) : lengths[i] # lengths[1] \/ lengths[i] = NaN
     THEN Fails(p, "HPE_UNEXPECTED_CONTENT_LENGTH")
     ELSE [q EXCEPT !.shouldKeepAlive = shouldKeepAlive(q)]

HeadersComplete(p, skipBody) ==
  LET q == Calls(p, <<"headers", p.headers, p.upgrade, p.shouldKeepAlive>>)
  IN CASE skipBody = 2 -> nextRequest(q)
       [] skipBody # 2 /\ q.isChunked /\ skipBody = 0 -> [q EXCEPT !.state = "BODY_CHUNKHEAD"]
       [] skipBody = 1 \/ (q.body_bytes = 0 /\ ~q.isChunked) -> nextRequest(q)
       [] OTHER -> [q EXCEPT !.state = IF q.body_bytes = Null THEN "BODY_RAW" ELSE "BODY_SIZED"]

Header(p, line, skipBody) ==
  CASE "CR" \in ToSet(line) -> Fails(p, "HPE_LF_EXPECTED")
    [] line # << >> /\ "CR" \notin ToSet(line) -> [p EXCEPT !.headers = parseHeader(line, @)]
    [] OTHER -> LET q == Framing(p) IN IF q.hadError THEN q ELSE HeadersComplete(q, skipBody)

-----------------------------------------------------------------------------
(* The body.                                                               *)

ChunkHead(p, line) ==
  LET n == ParseHex(line)
  IN [p EXCEPT !.body_bytes = n, !.state = IF n \in {0, NaN} THEN "BODY_CHUNKTRAILERS" ELSE "BODY_CHUNK"]
ChunkEmptyLine(p, line) ==
  IF line # << >> THEN Fails(p, "AssertionError") ELSE [p EXCEPT !.state = "BODY_CHUNKHEAD"]
ChunkTrailers(p, line) ==
  CASE "CR" \in ToSet(line) -> Fails(p, "HPE_LF_EXPECTED")
    [] line # << >> /\ "CR" \notin ToSet(line) -> [p EXCEPT !.trailers = parseHeader(line, @)]
    [] OTHER -> nextRequest(IF p.trailers = << >> THEN p ELSE Calls(p, <<"trailers", p.trailers>>))

\* onBody gets what this chunk holds of the body or of the HTTP chunk.
BodyLength(p, text) == IF p.body_bytes < Len(text) THEN p.body_bytes ELSE Len(text)
BodyPart(p, text) ==
  LET n == BodyLength(p, text)
      q == [Calls(p, <<"body", SubSeq(text, 1, n)>>) EXCEPT !.body_bytes = @ - n]
  IN CASE p.state = "BODY_RAW" -> Calls(p, <<"body", text>>)
       [] p.state # "BODY_RAW" /\ q.body_bytes > 0 -> q
       [] p.state = "BODY_CHUNK" /\ q.body_bytes = 0 -> [q EXCEPT !.state = "BODY_CHUNKEMPTYLINE"]
       [] p.state = "BODY_SIZED" /\ q.body_bytes = 0 -> nextRequest(q)

-----------------------------------------------------------------------------
(* A chunk.                                                                *)

OnLine(p, line, skipBody) ==
  LET q == [p EXCEPT !.line = << >>]
  IN CASE p.state = "LINE" /\ p.type = "REQUEST"  -> RequestLine(q, line)
       [] p.state = "LINE" /\ p.type = "RESPONSE" -> ResponseLine(q, line)
       [] p.state = "HEADER"              -> Header(q, line, skipBody)
       [] p.state = "BODY_CHUNKHEAD"      -> ChunkHead(q, line)
       [] p.state = "BODY_CHUNKEMPTYLINE" -> ChunkEmptyLine(q, line)
       [] p.state = "BODY_CHUNKTRAILERS"  -> ChunkTrailers(q, line)

\* A body whose length is not a number: the offset is NaN, and the rest of the chunk dropped.
RECURSIVE Parse(_, _, _)
Parse(p, text, skipBody) ==
  CASE p.hadError \/ text = << >> -> p
    [] ~p.hadError /\ p.state = "BODY_SIZED" /\ p.body_bytes = NaN -> Calls(p, <<"body", << >> >>)
    [] ~p.hadError /\ p.state = "BODY_RAW" -> BodyPart(p, text)
    [] ~p.hadError /\ p.state \in {"BODY_CHUNK", "BODY_SIZED"} /\ p.body_bytes # NaN ->
         Parse(BodyPart(p, text), SubSeq(text, BodyLength(p, text) + 1, Len(text)), skipBody)
    [] ~p.hadError /\ ~HasLine(text) -> [p EXCEPT !.line = @ \o text]
    [] OTHER -> Parse(OnLine(p, consumeLine(p, text), skipBody), AfterLine(text), skipBody)

\* headerSize counts the chunks that end within the headers.
execute(p, chunk, skipBody, maxHeaderSize) ==
  LET q == Parse(p, chunk, skipBody)
      size == q.headerSize + Len(chunk)
  IN IF q.hadError \/ q.state \notin {"LINE", "HEADER"} THEN q
     ELSE [q EXCEPT !.headerSize = size, !.error = IF size > maxHeaderSize THEN "max header size" ELSE @]

finish(p) ==
  CASE p.hadError -> p
    [] ~p.hadError /\ p.state \notin {"LINE", "BODY_RAW"} -> [p EXCEPT !.error = "invalid state for EOF"]
    [] ~p.hadError /\ p.state = "BODY_RAW" -> Calls(p, <<"complete">>)
    [] OTHER -> p

-----------------------------------------------------------------------------
(* What the parser promises.                                               *)

Feed(type, chunks, skipBody, max) ==
  FoldLeft(LAMBDA p, c : IF p.error # "" THEN p ELSE execute(p, c, skipBody, max), HTTPParser(type), chunks)

\* The events, the body in one piece.
Body(p) == FlattenSeq([i \in DOMAIN p.events |-> IF p.events[i][1] = "body" THEN p.events[i][2] ELSE << >>])
Others(p) == SelectSeq(p.events, LAMBDA e : e[1] # "body")

\* Every way to cut a text in three: the same events, the same state, the same outcome.
CutLaws(type, text, i, j, skipBody) ==
  LET whole == Feed(type, <<text>>, skipBody, 100)
      cut == Feed(type, <<SubSeq(text, 1, i), SubSeq(text, i + 1, j), SubSeq(text, j + 1, Len(text))>>,
                  skipBody, 100)
      same == {"state", "line", "headers", "trailers", "body_bytes", "error"}
  IN /\ Body(cut) = Body(whole) /\ Others(cut) = Others(whole)
     /\ \A f \in same : cut[f] = whole[f]
     /\ finish(cut).error = finish(whole).error

\* A message and how it is written: its lines and its body, as the headers announce it.
Line(l) == l \o <<"CR", "LF">>
Chunks(parts) ==
  FlattenSeq([i \in DOMAIN parts |-> Line(<<CHOOSE d \in DOMAIN digits : digits[d] = Len(parts[i])>>) \o Line(parts[i])])
Wire(start, headers, framing, parts) ==
  LET body == FlattenSeq(parts)
      head == FlattenSeq([i \in DOMAIN headers |-> Line(headers[i])])
  IN Line(start) \o head \o
     CASE framing = "chunked" -> Line(<<"transfer-encoding", "chunked">>) \o Line(<< >>)
                                 \o Chunks(parts) \o Line(<<"0">>) \o Line(<< >>)
       [] framing = "sized" -> Line(<<"content-length", CHOOSE d \in DOMAIN digits : digits[d] = Len(body)>>)
                               \o Line(<< >>) \o body
       [] framing = "raw" -> Line(<< >>) \o body

\* A message comes back as it was sent, its body byte for byte, however it is cut; one
\* with a length is complete at its last byte and not before, one without at the end.
MessageLaws(type, start, headers, framing, parts, i) ==
  LET text == Wire(start, headers, framing, parts)
      p == Feed(type, <<SubSeq(text, 1, i), SubSeq(text, i + 1, Len(text))>>, 0, 100)
      before == Feed(type, <<SubSeq(text, 1, i)>>, 0, 100)
      done(q) == \E k \in DOMAIN q.events : q.events[k][1] = "complete"
      announced == \E k \in DOMAIN p.events : p.events[k][1] = "headers" /\ p.events[k][4]
  IN /\ Body(p) = FlattenSeq(parts)
     /\ SubSeq(p.headers, 1, Len(headers)) = [k \in DOMAIN headers |-> <<headers[k][1], Tail(headers[k])>>]
     /\ IsPrefix(Body(before), Body(p))
     /\ Feed(type, <<SubSeq(text, 1, i), SubSeq(text, i + 1, Len(text))>>, 0,
             Len(text) - Len(FlattenSeq(parts))).error # "max header size"
     /\ framing # "raw" => done(p) /\ (done(before) => i = Len(text))
     /\ framing = "raw" => ~done(p) /\ done(finish(p)) /\ ~announced
=============================================================================
