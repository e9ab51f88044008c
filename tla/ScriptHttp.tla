----------------------------- MODULE ScriptHttp -----------------------------
(***************************************************************************)
(* A script's HTTP request (modules/http.cc): DoHttpRequest connects,      *)
(* writes the request and reads the response, in whatever pieces it comes. *)
(*                                                                         *)
(* The response is parsed twice: http_parser follows header and body, and  *)
(* StreamSearch looks for the blank line, because RawHeader and the status *)
(* are cut out of what was read up to there.  Bytes are symbols.           *)
(***************************************************************************)
EXTENDS Integers, Sequences, SequencesExt, FiniteSetsExt

CONSTANTS
    BufferSize,     \* of the buffer that is read into: 8192
    Addresses       \* how the addresses of the name answer a connect

VARIABLES
    addresses,      \* those not tried yet
    peer,           \* the server: what it answers with
    taken, arrives, \* of the stream: symbols read; those that ever arrive
    ended,          \* the server has closed the connection
    hpc,            \* dial, write, read, decode, done
    resp,           \* the HTTPResponse
    search,         \* StreamSearch, and the position it has found (0: none)
    buffer,         \* of DoReadHttpResponse
    answered,       \* what the script gets: nil, response
    reads, trouble  \* history: reads up to the blank line; what went wrong outside

httpVars == <<addresses, peer, taken, arrives, ended, hpc, resp, search, buffer,
              answered, reads, trouble>>

Keyword == <<"cr", "lf", "cr", "lf">>

StatusLine == <<"version", "status">>

\* A server may end its lines with a line feed only: http_parser takes that.
Header ==
    IF peer.lines = "crlf"
    THEN StatusLine \o <<"cr", "lf", "field">> \o Keyword
    ELSE StatusLine \o <<"lf", "field", "lf", "lf">>

\* What the server means to say, and how that looks on the wire.
Content == <<"text">> \o Keyword

Encoded == IF peer.coding = "identity" THEN Content ELSE <<"packed", "packed">>

Stream == Header \o Encoded \o (IF peer.surplus THEN <<"more">> ELSE <<>>)

\* length: a body of known length; close: one that ends with the connection.
\* padded: the compressed body goes on after its end; corrupt: it is not one.
\* How a body is encoded matters only if it is received, and alone.
ServerKind ==
    LET kinds == [lines : {"crlf", "lf"}, framing : {"length", "close"},
                  coding : {"identity", "deflate", "padded", "corrupt", "br"},
                  surplus : BOOLEAN]
    IN  {s \in kinds : /\ s.coding # "identity" => s.framing = "length" /\ ~s.surplus
                       /\ s.surplus => s.framing = "length"}

Init ==
    /\ addresses \in Addresses
    /\ peer \in ServerKind
    /\ taken = 0 /\ arrives = Len(Stream) /\ ended = FALSE
    /\ hpc = "dial"
    /\ resp = [RawHeader |-> <<>>, Line |-> <<>>, Body |-> <<>>]
    /\ search = [pos |-> 0, skiped |-> 0, found |-> 0]
    /\ buffer = [i \in 1..BufferSize |-> "zero"]
    /\ answered = "nothing" /\ reads = 0 /\ trouble = FALSE

Nil(what) ==
    /\ hpc' = "done" /\ answered' = "nil" /\ trouble' = (trouble \/ what)

-----------------------------------------------------------------------------
(* Connecting and writing.                                                 *)

\* DialTCP: only a connect that fails at once leads to the next address; one
\* that was refused or has timed out (-2, -3, -4) is taken for a connection.
Dial ==
    /\ hpc = "dial"
    /\ IF addresses = <<>>
       THEN Nil(FALSE) /\ UNCHANGED addresses
       ELSE IF Head(addresses) = "unreachable"
            THEN addresses' = Tail(addresses) /\ UNCHANGED <<hpc, answered, trouble>>
            ELSE hpc' = "write" /\ UNCHANGED <<addresses, answered, trouble>>
    /\ UNCHANGED <<peer, taken, arrives, ended, resp, search, buffer, reads>>

\* The handshake of https may fail; a dead socket takes nothing; the socket does
\* not block, so that it may take a part only, which is an error too.
Write ==
    /\ hpc = "write"
    /\ \/ Head(addresses) = "open" /\ hpc' = "read" /\ UNCHANGED <<answered, trouble>>
       \/ Nil(Head(addresses) = "open")
    /\ UNCHANGED <<addresses, peer, taken, arrives, ended, resp, search, buffer, reads>>

-----------------------------------------------------------------------------
(* Reading.                                                                *)

\* A symbol that does not match is not tried again as the first of the keyword.
Advance(s, c) ==
    IF s.found > 0 THEN s
    ELSE IF Keyword[s.pos + 1] # c
         THEN [s EXCEPT !.pos = 0, !.skiped = @ + 1]
         ELSE IF s.pos + 1 = Len(Keyword)
              THEN [s EXCEPT !.pos = @ + 1, !.found = s.skiped]
              ELSE [s EXCEPT !.pos = @ + 1, !.skiped = @ + 1]

\* Faulty: every chunk is searched from the beginning of the keyword.
ProcessAfresh(s, chunk) ==
    LET state[n \in 0..Len(chunk)] ==
            IF n = 0 THEN [s EXCEPT !.pos = 0] ELSE Advance(state[n - 1], chunk[n])
    IN  state[Len(chunk)]

\* StreamSearch::process; the position found is one of the stream, not of the chunk.
Process(s, chunk) ==
    LET state[n \in 0..Len(chunk)] ==
            IF n = 0 THEN s ELSE Advance(state[n - 1], chunk[n])
    IN  state[Len(chunk)]

Filled(chunk) == [i \in 1..BufferSize |-> IF i <= Len(chunk) THEN chunk[i] ELSE buffer[i]]

\* The first n symbols of the buffer, which holds older ones behind the chunk, and
\* of the memory behind it.
Cut(chunk, n) == [i \in 1..n |-> IF i <= BufferSize THEN Filled(chunk)[i] ELSE "beyond"]

\* ParserFirstLine.
FirstLine(raw) ==
    LET ends == {i \in 1..(Len(raw) - 1) : raw[i] = "cr" /\ raw[i + 1] = "lf"}
    IN  IF ends = {} THEN raw ELSE SubSeq(raw, 1, Min(ends) - 1)

\* http_parser_execute: the symbols of the body among the first n.
BodyOf(n) == SubSeq(Encoded, 1, Min({Max({0, n - Len(Header)}), Len(Encoded)}))

Complete(n) == peer.framing = "length" /\ n >= Len(Header) + Len(Encoded)

\* What follows a message in a chunk is parsed as the beginning of another.
ParserError(n) == peer.surplus /\ n = Len(Stream)

Found(chunk) ==
    LET s == Process(search, chunk)
        raw == resp.RawHeader \o Cut(chunk, s.found)
    IN  /\ search' = s
        /\ buffer' = Filled(chunk)
        /\ reads' = reads + 1
        /\ IF s.found > 0
           THEN resp' = [resp EXCEPT !.RawHeader = raw, !.Line = FirstLine(raw)]
           ELSE resp' = [resp EXCEPT !.RawHeader = @ \o chunk]

\* Faulty: the response is expected to come in one piece.
ReadOnce ==
    /\ hpc = "read" /\ taken < arrives
    /\ \E n \in (taken + 1)..Min({arrives, taken + BufferSize}) :
        /\ taken' = n
        /\ Found(SubSeq(Stream, taken + 1, n))
        /\ IF Complete(n) /\ ~ParserError(n)
           THEN hpc' = "decode" /\ UNCHANGED <<answered, trouble>>
           ELSE Nil(FALSE)
    /\ UNCHANGED <<addresses, peer, arrives, ended>>

Read ==
    /\ hpc = "read" /\ taken < arrives
    /\ \E n \in (taken + 1)..Min({arrives, taken + BufferSize}) :
        /\ taken' = n
        /\ IF search.found = 0 THEN Found(SubSeq(Stream, taken + 1, n))
                               ELSE UNCHANGED <<search, buffer, reads, resp>>
        /\ IF ParserError(n) THEN Nil(FALSE)
           ELSE /\ hpc' = IF Complete(n) THEN "decode" ELSE "read"
                /\ UNCHANGED <<answered, trouble>>
    /\ UNCHANGED <<addresses, peer, arrives, ended>>

\* The connection has ended; or nothing has come for twenty seconds.
ReadFail ==
    /\ hpc = "read"
    /\ \/ ended /\ taken = arrives /\ Nil(taken < Len(Stream))
       \/ Nil(TRUE)
    /\ UNCHANGED <<addresses, peer, taken, arrives, ended, resp, search, buffer, reads>>

\* DeflateStream goes on while there is input, which after the end of the
\* compressed data is never taken; BrotliDecompress copies from behind what it
\* has just decoded.
Decode ==
    /\ hpc = "decode"
    /\ peer.coding # "padded"
    /\ IF peer.coding = "corrupt"
       THEN Nil(FALSE) /\ UNCHANGED resp
       ELSE /\ resp' = [resp EXCEPT !.Body =
                    IF peer.coding = "deflate" THEN Content
                    ELSE IF peer.coding = "br" THEN <<"zero">> ELSE BodyOf(taken)]
            /\ hpc' = "done" /\ answered' = "response" /\ UNCHANGED trouble
    /\ UNCHANGED <<addresses, peer, taken, arrives, ended, search, buffer, reads>>

DoHttpRequest == Dial \/ Write \/ Read \/ ReadFail \/ Decode

\* The server ends the connection; of what is under way, any part still arrives.
ServerClose ==
    /\ ~ended /\ ended' = TRUE
    /\ arrives' \in taken..arrives
    /\ UNCHANGED <<addresses, peer, taken, hpc, resp, search, buffer, answered, reads, trouble>>

Next == DoHttpRequest \/ ServerClose

-----------------------------------------------------------------------------
(* What a script may rely on.                                              *)

\* A response that a script is given is the server's, whole, in whatever pieces
\* it came: status, body and raw_header (ToValue) are those of one response.
\* raw_header is the header, less its last symbol, only if that came in one read;
\* after several it has more behind it.  Lines without a carriage return leave
\* status and raw_header undefined, and a brotli body is never what was sent.
ResponseWhole ==
    answered = "response" =>
        /\ peer.lines = "crlf" =>
            /\ resp.Line = StatusLine
            /\ IsPrefix(Front(Header), resp.RawHeader)
            /\ reads = 1 => resp.RawHeader = Front(Header)
        /\ peer.coding # "br" => resp.Body = Content

\* A script is given nil only if something went wrong outside, the first address
\* that did not fail at once was dead (DialTCP), or the response was one that is
\* never taken: ended by the connection, followed by more, or corrupt
\* (DoReadHttpResponse).
NilJustified ==
    answered = "nil" =>
        \/ trouble
        \/ addresses = <<>> \/ Head(addresses) = "dead"
        \/ peer.framing = "close" \/ peer.surplus \/ peer.coding = "corrupt"

\* Every request returns, whatever the server does, unless it pads a compressed
\* body (DeflateStream).
RequestEnds == <>(hpc = "done" \/ (hpc = "decode" /\ peer.coding = "padded"))

=============================================================================
