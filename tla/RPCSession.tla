----------------------------- MODULE RPCSession -----------------------------
(***************************************************************************)
(* One connection of the RPC server (manger.cc): OnNewConnection reads a   *)
(* request, answers it and reads the next, until something fails.          *)
(*                                                                         *)
(* A client sends requests over a stream that delivers them in pieces of   *)
(* any size; it waits for each answer, or it does not (pipelining).  The   *)
(* fields of HttpRequest are not initialised: whether a new request starts *)
(* out as complete is a choice.                                            *)
(***************************************************************************)
EXTENDS Integers, Sequences, SequencesExt

CONSTANT MaxRequests    \* bound on the requests of a client

VARIABLES
    pipelines,      \* the client does not wait for answers
    sent,           \* the kinds of the requests sent so far
    wire,           \* pieces sent and not yet read
    gone,           \* the client has closed the connection
    spc,            \* OnNewConnection: new, read, answer, closed
    req,            \* the HttpRequest being read
    parser,         \* http_parser: the piece of a request seen last, or Between
    executed,       \* bodies of the calls that were given to a handler
    responses,      \* responses written: what was answered, and how
    cut, merged, late   \* history: see the actions that set them

clientVars == <<pipelines, sent, gone>>
readVars == <<req, parser>>
answerVars == <<executed, responses>>
history == <<cut, merged, late>>
vars == <<clientVars, wire, spc, readVars, answerVars, history>>

\* DispatchRequest (jsonrpc.hpp): a call of a handler with as many parameters as
\* it takes, and three requests that no handler gets.
Dispatch == [call |-> "result", version |-> "Invalid request",
             method |-> "Method not found", params |-> "Invalid params"]

\* bad: a body that is no JSON object; get: a request without a body.
Kind == {"OPTIONS", "bad", "get"} \cup DOMAIN Dispatch

Parts(kind) == IF kind \in {"OPTIONS", "get"} THEN 2 ELSE 4

\* The request line, the rest of the header, and a body in two pieces.
Piece(k, n) == [of |-> k, part |-> n]
Pieces(k, kind) == [n \in 1..Parts(kind) |-> Piece(k, n)]

Between == Piece(0, 0)

IsBody(piece) == piece.part > 2
IsLast(piece) == piece.part = Parts(sent[piece.of])

\* The body of request k, whole.
Body(k) == SubSeq(Pieces(k, sent[k]), 3, Parts(sent[k]))

\* What on_body_cb collects of a chunk.
BodyParts(chunk) ==
    LET taken[n \in 0..Len(chunk)] ==
            IF n = 0 THEN <<>>
            ELSE IF IsBody(chunk[n]) THEN Append(taken[n - 1], chunk[n]) ELSE taken[n - 1]
    IN  taken[Len(chunk)]

\* What `HttpRequest req` leaves: empty strings, and a flag nobody has set.
NewHttpRequest(flag) ==
    [line |-> 0, Body |-> <<>>, IsMessageCompleteCalled |-> flag]

Init ==
    /\ pipelines \in BOOLEAN /\ sent = <<>> /\ wire = <<>> /\ gone = FALSE
    /\ spc = "new" /\ req = NewHttpRequest(FALSE) /\ parser = Between
    /\ executed = <<>> /\ responses = <<>>
    /\ cut = FALSE /\ merged = FALSE /\ late = FALSE

-----------------------------------------------------------------------------
(* The client and the network.                                             *)

Send ==
    /\ ~gone /\ spc # "closed" /\ Len(sent) < MaxRequests
    /\ pipelines \/ Len(responses) = Len(sent)
    /\ \E kind \in Kind :
        /\ sent' = Append(sent, kind)
        /\ wire' = wire \o Pieces(Len(sent) + 1, kind)
    /\ UNCHANGED <<pipelines, gone, spc, readVars, answerVars, history>>

\* The connection ends; of what is under way, any part still arrives.
Close ==
    /\ ~gone /\ gone' = TRUE
    /\ \E n \in 0..Len(wire) : wire' = SubSeq(wire, 1, n)
    /\ UNCHANGED <<pipelines, sent, spc, readVars, answerVars, history>>

-----------------------------------------------------------------------------
(* Reading.                                                                *)

NewRequest ==
    /\ spc = "new"
    /\ \E flag \in BOOLEAN : req' = NewHttpRequest(flag)
    /\ parser' = Between /\ spc' = "read"
    /\ UNCHANGED <<clientVars, wire, answerVars, history>>

\* http_parser_execute on one more piece: it goes on to the next request of the
\* same chunk, whose body is appended to the same string.  A parser that starts
\* in the middle of a request fails.
Expected(seen) ==
    IF seen = Between \/ IsLast(seen) THEN {1} ELSE {seen.part + 1}

Parses(chunk) ==
    \A j \in DOMAIN chunk :
        chunk[j].part \in Expected(IF j = 1 THEN parser ELSE chunk[j - 1])

Parsed(chunk) ==
    [line |-> IF req.line = 0 THEN Head(chunk).of ELSE req.line,
     Body |-> req.Body \o BodyParts(chunk),
     IsMessageCompleteCalled |->
        req.IsMessageCompleteCalled \/ \E j \in DOMAIN chunk : IsLast(chunk[j])]

\* ReadHttpRequest: some bytes have come.  cut: the request was taken for
\* complete in its middle, because its flag said so from the start, or a piece of
\* the next one came with it.  merged: a chunk held pieces of two requests.
Read ==
    /\ spc = "read" /\ wire # <<>>
    /\ \E n \in 1..Len(wire) :
        LET chunk == SubSeq(wire, 1, n) IN
        /\ wire' = SubSeq(wire, n + 1, Len(wire))
        /\ IF Parses(chunk)
           THEN /\ req' = Parsed(chunk)
                /\ parser' = Last(chunk)
                /\ spc' = IF req'.IsMessageCompleteCalled THEN "answer" ELSE "read"
                /\ cut' = (cut \/ (spc' = "answer" /\ ~IsLast(Last(chunk))))
                /\ merged' = (merged \/ \E j \in DOMAIN chunk : chunk[j].of # req'.line)
           ELSE spc' = "closed" /\ UNCHANGED <<readVars, cut, merged>>
    /\ UNCHANGED <<clientVars, answerVars, late>>

\* The client has closed the connection.
ReadEnd ==
    /\ spc = "read" /\ wire = <<>> /\ gone
    /\ spc' = "closed"
    /\ UNCHANGED <<clientVars, wire, readVars, answerVars, history>>

\* Faulty: no SetReadTimeout.
TimeoutNever ==
    /\ spc = "read" /\ wire = <<>> /\ gone
    /\ spc' = "closed" /\ late' = TRUE
    /\ UNCHANGED <<clientVars, wire, readVars, answerVars, cut, merged>>

\* Two minutes without a byte; late: there was a request under way, or half read.
Timeout ==
    /\ spc = "read"
    /\ spc' = "closed"
    /\ late' = (late \/ wire # <<>> \/ req.line # 0)
    /\ UNCHANGED <<clientVars, wire, readVars, answerVars, cut, merged>>

-----------------------------------------------------------------------------
(* Answering.                                                              *)

\* HttpWriteResponse may fail when the client is gone.
Respond(of, how, next) ==
    \/ responses' = Append(responses, [of |-> of, how |-> how]) /\ spc' = next
    \/ gone /\ spc' = "closed" /\ UNCHANGED responses

\* Faulty: ParseJSON reads a value from a body that has not come whole.
ParsesToMapEarly(body) ==
    \E k \in DOMAIN sent :
        sent[k] \in DOMAIN Dispatch /\ body # <<>> /\ IsPrefix(body, Body(k))

\* ParseJSON gives an object: a prefix of one is none, nor are two in a row.
ParsesToMap(body) ==
    \E k \in DOMAIN sent : sent[k] \in DOMAIN Dispatch /\ body = Body(k)

\* Faulty: after the answer to OPTIONS the loop goes on with the same request.
AnswerOptionsTwice ==
    /\ spc = "answer" /\ sent[req.line] = "OPTIONS"
    /\ \/ /\ responses' = responses \o <<[of |-> req.line, how |-> "empty"],
                                         [of |-> req.line, how |-> "error"]>>
          /\ spc' = "closed"
       \/ gone /\ spc' = "closed" /\ UNCHANGED responses
    /\ UNCHANGED <<clientVars, wire, readVars, executed, history>>

AnswerOptions ==
    /\ spc = "answer" /\ sent[req.line] = "OPTIONS"
    /\ Respond(req.line, "empty", "new")
    /\ UNCHANGED <<clientVars, wire, readVars, executed, history>>

\* No body, or no JSON object: Parse error, and the connection is closed.
Refuse ==
    /\ spc = "answer" /\ sent[req.line] # "OPTIONS" /\ ~ParsesToMap(req.Body)
    /\ Respond(req.line, "error", "closed")
    /\ UNCHANGED <<clientVars, wire, readVars, executed, history>>

\* ProcessRequest; an error of JSON-RPC leaves the connection open.
ProcessRequest ==
    /\ spc = "answer" /\ sent[req.line] # "OPTIONS" /\ ParsesToMap(req.Body)
    /\ LET k == Head(req.Body).of IN
       /\ executed' = IF sent[k] = "call" THEN Append(executed, req.Body) ELSE executed
       /\ Respond(k, Dispatch[sent[k]], "new")
    /\ UNCHANGED <<clientVars, wire, readVars, history>>

Server == NewRequest \/ Read \/ ReadEnd \/ Timeout \/ AnswerOptions \/ Refuse \/ ProcessRequest

Next == Send \/ Close \/ Server

Spec == Init /\ [][Next]_vars

-----------------------------------------------------------------------------
(* What a session promises.                                                *)

\* The handlers are given nothing but calls the client has sent, each whole, at
\* most once and in the order they were sent - however requests are cut into
\* pieces or meet in a chunk, and wherever reading starts again (ReadHttpRequest).
ExecutedWhole ==
    /\ \A n \in DOMAIN executed : \E k \in DOMAIN sent :
            sent[k] = "call" /\ executed[n] = Body(k)
    /\ \A m, n \in DOMAIN executed : m < n => Head(executed[m]).of < Head(executed[n]).of

\* The n-th response answers the n-th request, and as that request deserves, and
\* the server closes a connection only when it owes nothing - unless requests met
\* in a chunk, or one was taken for complete in its middle.  A request has no
\* answer at the end only if the client went away, the network was late, or the
\* request before it was refused (OnNewConnection).
AnswersPair ==
    merged \/ cut \/
        /\ \A n \in DOMAIN responses :
            /\ responses[n].of = n
            /\ responses[n].how = IF sent[n] \in DOMAIN Dispatch THEN Dispatch[sent[n]]
                                  ELSE IF sent[n] = "OPTIONS" THEN "empty" ELSE "error"
        /\ spc = "closed" =>
            \/ Len(responses) = Len(sent)
            \/ gone \/ late
            \/ \E n \in DOMAIN responses : responses[n].how = "error"

\* Every session ends (the read timeout of manger.cc:210): a client that keeps a
\* connection open and says nothing does not keep its thread.
SessionEnds == <>(spc = "closed")

-----------------------------------------------------------------------------
(* The invariants that ExecutedWhole and AnswersPair rest on.              *)

AnyPiece == [of : Nat, part : Nat]

Outcome == {"empty", "error"} \cup {Dispatch[kind] : kind \in DOMAIN Dispatch}

\* A piece of a request sent; where a piece stands in the stream.
OfStream(piece) == piece.of \in DOMAIN sent /\ piece.part \in 1..Parts(sent[piece.of])

Earlier(p, q) == p.of < q.of \/ (p.of = q.of /\ p.part < q.part)

After(piece) ==
    IF IsLast(piece) THEN Piece(piece.of + 1, 1) ELSE Piece(piece.of, piece.part + 1)

SessionTypeOK ==
    /\ pipelines \in BOOLEAN /\ gone \in BOOLEAN
    /\ sent \in Seq(Kind)
    /\ wire \in Seq(AnyPiece)
    /\ spc \in {"new", "read", "answer", "closed"}
    /\ req \in [line : Nat, Body : Seq(AnyPiece),
                IsMessageCompleteCalled : BOOLEAN]
    /\ req.line \in 0..Len(sent)
    /\ spc = "answer" => req.line # 0
    /\ parser \in AnyPiece
    /\ executed \in Seq(Seq(AnyPiece))
    /\ responses \in Seq([of : Nat, how : Outcome])
    /\ cut \in BOOLEAN /\ merged \in BOOLEAN /\ late \in BOOLEAN

\* The wire holds the stream from some piece on: to its end while the client is there.
WireInv ==
    /\ \A i \in DOMAIN wire : OfStream(wire[i])
    /\ \A i, j \in DOMAIN wire : i < j => Earlier(wire[i], wire[j])
    /\ \A i \in 1..(Len(wire) - 1) : wire[i + 1] = After(wire[i])
    /\ ~gone /\ wire # <<>> => After(wire[Len(wire)]) = Piece(Len(sent) + 1, 1)

\* What has been collected comes before what is on the wire, and what has been
\* executed before both.
CollectedInv ==
    \A i \in DOMAIN req.Body :
        /\ OfStream(req.Body[i])
        /\ \A j \in DOMAIN wire : Earlier(req.Body[i], wire[j])

ExecutedInv ==
    \A n \in DOMAIN executed :
        /\ \A j \in DOMAIN wire : Head(executed[n]).of < wire[j].of
        /\ spc \in {"read", "answer"} =>
            \A i \in DOMAIN req.Body : Head(executed[n]).of < req.Body[i].of

\* The stream goes on with this piece.
GoesOn(piece) ==
    IF wire = <<>> THEN gone \/ piece = Piece(Len(sent) + 1, 1) ELSE wire[1] = piece

\* What a parser has collected of the body of request k when it has seen a part.
Collected(k, part) == IF part < 3 THEN <<>> ELSE SubSeq(Pieces(k, sent[k]), 3, part)

\* As long as no requests met, and none was cut, reading stands in the request after
\* the one answered last.
PairInv ==
    merged \/ cut \/ spc = "closed" \/
        LET k == Len(responses) + 1 IN
        /\ spc = "new" => GoesOn(Piece(k, 1))
        /\ spc = "read" =>
            IF parser = Between
            THEN req.line = 0 /\ req.Body = <<>> /\ GoesOn(Piece(k, 1))
            ELSE /\ parser.of = k /\ OfStream(parser) /\ ~IsLast(parser)
                 /\ req.line = k /\ req.Body = Collected(k, parser.part)
                 /\ ~req.IsMessageCompleteCalled
                 /\ GoesOn(After(parser))
        /\ spc = "answer" =>
            /\ req.line = k /\ req.Body = Body(k)
            /\ GoesOn(Piece(k + 1, 1))

SessionInv ==
    /\ SessionTypeOK /\ WireInv /\ CollectedInv /\ ExecutedInv /\ ExecutedWhole
    /\ PairInv /\ AnswersPair
    /\ merged \/ cut \/ Len(responses) <= Len(sent)

=============================================================================
