---------------------------- MODULE HttpMessage -----------------------------
\* The messages of one connection of the HTTP server (libxmirror/lib/httpd.c,
\* http_request.c, http_response.c): a request is put together from the pieces
\* recv returns, handed to raop, and answered; the answer is built header by
\* header and sent in pieces.  The parser between them (llhttp, generated code)
\* is external: it calls back once for each piece of a url, a name, a value or a
\* body that lies in what was read, and with an empty piece when a read begins
\* where the last one ended the url.
\*
\* The bytes of a message are records: what they are part of, and a character.
EXTENDS Integers, Sequences, FiniteSetsExt

CONSTANTS
    Characters,   \* what texts are made of; "/" ends a line
    Numerals,     \* what a length is written as
    Requests,     \* what clients ask: [url, protocol, headers, body]
    Answers,      \* what the handlers answer: [headers, body, disconnect]
    BufferSize,   \* sizeof(buffer) in httpd_thread
    ProtocolSize, \* 8: the bytes of a protocol, and those a message begins with
    Exchanges     \* bound: the messages the client sends

VARIABLES
    wire,       \* bytes the client has sent and the server has not read
    incoming,   \* connection->request, or NoMessage
    outgoing,   \* the bytes of the response still to be sent
    arrived,    \* bytes of the answer that have reached the client
    asked,      \* the request the client sent last
    handed,     \* the request raop was called with last
    replied,    \* the answer its handler made
    torn,       \* a read ended behind the url and before the protocol's end (history)
    linked,     \* the connection is open
    exchanges

messageVars == <<wire, incoming, outgoing, arrived, asked, handed, replied, torn,
                 linked, exchanges>>

NoMessage == [none |-> TRUE]
ASSUME MessageAssumption ==
    /\ BufferSize \in Nat /\ ProtocolSize \in 1..BufferSize /\ Exchanges \in Nat
    /\ Requests \subseteq [url : Seq(Characters), protocol : Seq(Characters),
                           headers : Seq(Seq(Characters)), body : Seq(Characters)]
    \* llhttp refuses a request without a url and a header without a name, and
    \* tells of a value for each name
    /\ \A r \in Requests : /\ r.url # <<>> /\ Len(r.protocol) = ProtocolSize
                           /\ Len(r.headers) % 2 = 0
                           /\ \A i \in 1..Len(r.headers) : i % 2 = 1 => r.headers[i] # <<>>
    \* no header of an answer has a line's end in it
    /\ \A a \in Answers :
         /\ a.headers \in Seq(Seq(Characters \ {"/"}) \X Seq(Characters \ {"/"}))
         /\ a.body \in Seq(Characters)
         /\ Numerals[Len(a.body)] \in Seq(Characters \ {"/"})

Bytes(part, text) == [i \in 1..Len(text) |-> [part |-> part, char |-> text[i]]]
Chars(bytes) == [i \in 1..Len(bytes) |-> bytes[i].char]

\* The first k of some sequences, one behind the other
Joined(parts) ==
    LET joined[k \in 0..Len(parts)] == IF k = 0 THEN <<>> ELSE joined[k - 1] \o parts[k]
    IN joined

-----------------------------------------------------------------------------
\* http_request.c

NewRequest == [url |-> <<>>, protocol |-> <<>>, headers |-> <<>>, index |-> 0,
               body |-> <<>>, reverse |-> FALSE]

\* The string with number idx, which is allocated when it is first written
Extended(headers, idx, text) ==
    IF idx < Len(headers) THEN [headers EXCEPT ![idx + 1] = @ \o text]
                          ELSE Append(headers, text)

\* Names have even numbers and values odd ones.
NameIndex(index) == IF index % 2 = 1 THEN index + 1 ELSE index

\* Mutant: a piece of a value is always a value of its own.
ValueIndexNext(index) == index + 1

ValueIndex(index) == IF index % 2 = 0 THEN index + 1 ELSE index

\* on_url also copies the eight bytes behind the blank that follows; those that
\* were not read yet are what an older read left in the buffer, or lie behind it
OnUrl(req, bytes, at, text) ==
    LET Copied(i) == IF at + Len(text) + i <= Len(bytes) THEN bytes[at + Len(text) + i].char ELSE "?"
    IN [req EXCEPT !.url = @ \o text, !.protocol = [i \in 1..ProtocolSize |-> Copied(i)]]

OnHeaderField(req, text) ==
    [req EXCEPT !.index = NameIndex(@),
                !.headers = Extended(@, NameIndex(req.index), text)]

OnHeaderValue(req, text) ==
    [req EXCEPT !.index = ValueIndex(@),
                !.headers = Extended(@, ValueIndex(req.index), text)]

OnBody(req, text) == [req EXCEPT !.body = @ \o text]

\* Of the bytes read, a piece starts at i; the one that starts at `at` ends at j
Starts(bytes, i) == i = 1 \/ bytes[i - 1].part # bytes[i].part

PieceEnd(bytes, at) ==
    CHOOSE j \in at..Len(bytes) :
        /\ \A k \in at..j : bytes[k].part = bytes[at].part
        /\ j < Len(bytes) => bytes[j + 1].part # bytes[at].part

\* The call of llhttp for the piece of the bytes read that starts at `at`.  The
\* end of a url that was read up to there is told with an empty piece, and so is
\* a value that is empty.
Callback(req, bytes, at) ==
    LET part == bytes[at].part
        text == Chars(SubSeq(bytes, at, PieceEnd(bytes, at)))
    IN CASE part = "url" -> OnUrl(req, bytes, at, text)
         [] part = "blank" /\ at = 1 -> OnUrl(req, bytes, at, <<>>)
         [] part = "name" -> OnHeaderField(req, text)
         [] part = "value" -> OnHeaderValue(req, text)
         [] part = "nothing" -> OnHeaderValue(req, <<>>)
         [] part = "body" -> OnBody(req, text)
         [] OTHER -> req

\* http_request_add_data: what there is after the first i bytes
Parsed(req, bytes) ==
    LET parsed[i \in 0..Len(bytes)] ==
            IF i = 0 THEN req
            ELSE IF Starts(bytes, i) THEN Callback(parsed[i - 1], bytes, i)
            ELSE parsed[i - 1]
    IN parsed

AddData(req, bytes) == Parsed(req, bytes)[Len(bytes)]

\* http_request_get_header: the first header of the name
HeaderOf(headers, name) ==
    LET at == {i \in 1..Len(headers) : i % 2 = 1 /\ headers[i] = name}
    IN IF at = {} THEN <<>> ELSE headers[Min(at) + 1]

\* What the accessors give raop of a request: nothing of a client's answer
Accessed(req) == IF req.reverse THEN NoMessage ELSE req

-----------------------------------------------------------------------------
\* http_response.c

HeaderLine(name, value) ==
    Bytes("name", name) \o Bytes("colon", <<":">>) \o Bytes("value", value) \o Bytes("line", <<"/">>)

AddHeader(data, name, value) == data \o HeaderLine(name, value)

\* http_response_init and the headers of the handler
Response(a) ==
    LET lines == [k \in 1..Len(a.headers) |-> HeaderLine(a.headers[k][1], a.headers[k][2])]
    IN Bytes("status", <<"200", "/">>) \o Joined(lines)[Len(lines)]

ContentType == <<"T">>
ContentLength == <<"L">>
BlankLine == Bytes("line", <<"/">>)

Digits(n) == Numerals[n]

HasType(data) ==
    \E i \in 1..(Len(data) - Len(ContentType)) :
        Chars(SubSeq(data, i, i + Len(ContentType) - 1)) = ContentType

\* http_response_finish: the length is told with a body, and without one only
\* when a Content-Type was set.
FinishResponse(data, body) ==
    IF body = <<>> /\ ~HasType(data) THEN data \o BlankLine
    ELSE AddHeader(data, ContentLength, Digits(Len(body))) \o BlankLine \o Bytes("body", body)

-----------------------------------------------------------------------------
\* The client reads an answer up to the blank line, and then as many characters
\* as it was told; with a Content-Type and no length it reads on until the end
\* of the connection.

HeadEnd(chars) ==
    LET ends == {i \in 1..(Len(chars) - 1) : chars[i] = "/" /\ chars[i + 1] = "/"}
    IN IF ends = {} THEN Len(chars) + 1 ELSE Min(ends)

HeaderIn(head, name, value) ==
    LET line == <<"/">> \o name \o <<":">> \o value \o <<"/">>
    IN \E i \in 1..(Len(head) - Len(line) + 1) : SubSeq(head, i, i + Len(line) - 1) = line

\* What was read is this answer, to its last character
IsAnswer(chars, a) ==
    LET end == HeadEnd(chars)
        head == SubSeq(chars, 1, end)
        body == SubSeq(chars, end + 2, Len(chars))
    IN /\ end <= Len(chars)
       /\ \A i \in 1..Len(a.headers) : HeaderIn(head, a.headers[i][1], a.headers[i][2])
       /\ body = a.body
       /\ \/ HeaderIn(head, ContentLength, Digits(Len(body)))
          \/ body = <<>> /\ \A i \in 1..Len(a.headers) : a.headers[i][1] # ContentType

\* The bytes of a request: its first line, its headers, a blank line and its body
RequestLine(r) ==
    Bytes("method", <<"G", " ">>) \o Bytes("url", r.url) \o Bytes("blank", <<" ">>)
      \o Bytes("protocol", r.protocol) \o BlankLine

HeaderPart(k, text) ==
    IF k % 2 = 1 THEN Bytes("name", text) \o Bytes("colon", <<":">>)
    ELSE IF text = <<>> THEN Bytes("nothing", <<"/">>)
    ELSE Bytes("value", text) \o BlankLine

RequestBytes(r) ==
    LET parts == [k \in 1..Len(r.headers) |-> HeaderPart(k, r.headers[k])]
    IN RequestLine(r) \o Joined(parts)[Len(parts)] \o BlankLine \o Bytes("body", r.body)

MessageInit ==
    /\ wire = <<>>
    /\ incoming = NoMessage
    /\ outgoing = <<>>
    /\ arrived = <<>>
    /\ asked = NoMessage
    /\ handed = NoMessage
    /\ replied = NoMessage
    /\ torn = FALSE
    /\ linked = TRUE
    /\ exchanges = 0

\* The client sends a request when it has read the answer to the last one
ClientSends ==
    /\ linked /\ wire = <<>> /\ outgoing = <<>> /\ incoming = NoMessage
    /\ exchanges < Exchanges
    /\ \E r \in Requests : asked' = r /\ wire' = RequestBytes(r)
    /\ arrived' = <<>>
    /\ handed' = NoMessage
    /\ replied' = NoMessage
    /\ torn' = FALSE
    /\ exchanges' = exchanges + 1
    /\ UNCHANGED <<incoming, outgoing, linked>>

\* ... or, on a connection that was turned around, the answer to an event
ClientReplies ==
    /\ linked /\ wire = <<>> /\ outgoing = <<>>
    /\ incoming # NoMessage => incoming.reverse
    /\ exchanges < Exchanges
    /\ wire' = Bytes("reply", [i \in 1..(ProtocolSize + 1) |-> "r"])
    /\ exchanges' = exchanges + 1
    /\ UNCHANGED <<incoming, outgoing, arrived, asked, handed, replied, torn, linked>>

\* Where the next read ends, counted from the start of the request
Position(n) == Len(RequestBytes(asked)) - Len(wire) + n

\* recv returned n bytes
Read(n) == wire' = SubSeq(wire, n + 1, Len(wire))

\* The request is parsed as far as it goes; when it is whole, raop is called
\* with it and its answer is sent.
Parse(req, n) ==
    LET parsed == AddData(req, SubSeq(wire, 1, n))
        urlEnd == 2 + Len(asked.url)
    IN /\ torn' = (torn \/ Position(n) \in (urlEnd + 1)..(urlEnd + ProtocolSize))
       /\ IF n < Len(wire)
          THEN incoming' = parsed /\ UNCHANGED <<handed, replied, outgoing>>
          ELSE /\ incoming' = NoMessage
               /\ handed' = Accessed(parsed)
               /\ \E a \in Answers : /\ replied' = a
                                     /\ outgoing' = FinishResponse(Response(a), a.body)

\* The first read of a message goes on until there are enough bytes to tell a
\* client's answer from a request; an answer is not parsed, and its request stays.
ReadFirst ==
    /\ linked /\ incoming = NoMessage
    /\ \E n \in ProtocolSize..Min({BufferSize, Len(wire)}) :
         /\ Read(n)
         /\ IF wire[1].part = "reply"
            THEN /\ incoming' = [NewRequest EXCEPT !.reverse = TRUE]
                 /\ UNCHANGED <<handed, replied, outgoing, torn>>
            ELSE Parse(NewRequest, n)
    /\ UNCHANGED <<arrived, asked, linked, exchanges>>

ReadMore ==
    /\ linked /\ incoming # NoMessage
    /\ \E n \in 1..Min({BufferSize, Len(wire)}) :
         /\ Read(n)
         /\ IF incoming.reverse THEN UNCHANGED <<incoming, handed, replied, outgoing, torn>>
                                ELSE Parse(incoming, n)
    /\ UNCHANGED <<arrived, asked, linked, exchanges>>

\* http_response_get_data and get_disconnect: the last of the response's bytes
\* goes, and the handler wants the connection closed behind it.
EndsConnection(n) == n = Len(outgoing) /\ replied.disconnect

\* send takes a part of the answer; the last one may end the connection
Send ==
    /\ linked /\ outgoing # <<>>
    /\ \E n \in 1..Len(outgoing) :
         /\ arrived' = arrived \o Chars(SubSeq(outgoing, 1, n))
         /\ outgoing' = SubSeq(outgoing, n + 1, Len(outgoing))
         /\ linked' = ~EndsConnection(n)
    /\ UNCHANGED <<wire, incoming, asked, handed, replied, torn, exchanges>>

\* httpd_remove_connection: the request goes with its connection
RemoveConnection ==
    /\ linked' = FALSE
    /\ incoming' = NoMessage

\* The client is gone: send or recv says so, and the connection is removed
Lost ==
    /\ linked
    /\ RemoveConnection
    /\ wire' = <<>>
    /\ outgoing' = <<>>
    /\ replied' = NoMessage
    /\ UNCHANGED <<arrived, asked, handed, torn, exchanges>>

MessageNext == ClientSends \/ ClientReplies \/ ReadFirst \/ ReadMore \/ Send \/ Lost

MessageSpec == MessageInit /\ [][MessageNext]_messageVars

-----------------------------------------------------------------------------
\* However recv cuts a request, raop gets the url, the headers and the body the
\* client sent, and, unless a read ended between the url and the protocol's end,
\* its protocol.
RequestsArriveWhole ==
    handed # NoMessage =>
        /\ handed.url = asked.url
        /\ \A i \in 1..Len(asked.headers) :
             i % 2 = 1 => HeaderOf(handed.headers, asked.headers[i]) = HeaderOf(asked.headers, asked.headers[i])
        /\ Len(handed.headers) = Len(asked.headers)
        /\ handed.body = asked.body
        /\ ~torn => handed.protocol = asked.protocol

\* However send cuts an answer, the client reads the one the handler made, and
\* knows where it ends.
AnswersArriveWhole ==
    (replied # NoMessage /\ outgoing = <<>>) => IsAnswer(arrived, replied)

MessagesArriveWhole == RequestsArriveWhole /\ AnswersArriveWhole

=============================================================================
