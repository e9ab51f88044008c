--------------------------- MODULE HttpConnection ---------------------------
(***************************************************************************)
(* The two users of http_parser: the RPC server, which reads requests and  *)
(* keeps the connection (RPCSession), and a script, which makes a request  *)
(* and reads one response (ScriptHttp).  They share code and no state, so  *)
(* that a behaviour is that of one connection, of either kind.             *)
(***************************************************************************)
EXTENDS Integers, Sequences

CONSTANTS
    MaxRequests,    \* bound on the requests of a client
    BufferSize,     \* see ScriptHttp
    Addresses

ASSUME ConnectionAssumption ==
    /\ MaxRequests \in Nat
    /\ BufferSize \in Nat \ {0}
    /\ \A a \in Addresses : a \in Seq({"open", "dead", "unreachable"})

VARIABLES
    role,       \* whose connection this is: server, script
    pipelines, sent, wire, gone, spc, req, parser, executed, responses, cut,
    merged, late,                               \* see RPCSession
    addresses, peer, taken, arrives, ended, hpc, resp, search, buffer,
    answered, reads, trouble                    \* see ScriptHttp

Session == INSTANCE RPCSession

Request == INSTANCE ScriptHttp

sessionVars == <<pipelines, sent, gone, wire, spc, req, parser, executed,
                 responses, cut, merged, late>>

requestVars == <<addresses, peer, taken, arrives, ended, hpc, resp, search,
                 buffer, answered, reads, trouble>>

connectionVars == <<role, sessionVars, requestVars>>

\* What the other kind of connection would use has one value.
ConnectionInit ==
    /\ role \in {"server", "script"}
    /\ Session!Init /\ (role = "script" => pipelines = FALSE)
    /\ Request!Init /\ (role = "server" =>
            /\ addresses = CHOOSE a \in Addresses : TRUE
            /\ peer = CHOOSE s \in Request!ServerKind : s.framing = "length")

OnNewConnection ==
    /\ role = "server" /\ Session!Next
    /\ UNCHANGED <<role, requestVars>>

HttpRequest ==
    /\ role = "script" /\ Request!Next
    /\ UNCHANGED <<role, sessionVars>>

ConnectionNext == OnNewConnection \/ HttpRequest

\* The thread runs, and its reads time out; neither peer has to act.
ThreadStep ==
    \/ role = "server" /\ Session!Server /\ UNCHANGED <<role, requestVars>>
    \/ role = "script" /\ Request!DoHttpRequest /\ UNCHANGED <<role, sessionVars>>

FairConnectionSpec ==
    ConnectionInit /\ [][ConnectionNext]_connectionVars /\ WF_connectionVars(ThreadStep)

-----------------------------------------------------------------------------
(* Properties: those of the parts.                                         *)

\* See RPCSession.
ExecutedWhole == Session!ExecutedWhole
AnswersPair == Session!AnswersPair

\* See ScriptHttp.
ResponseWhole == Request!ResponseWhole
NilJustified == Request!NilJustified

\* Every connection ends, though its peer keeps it open and says nothing
\* (SessionEnds, RequestEnds).
ConnectionEnds ==
    /\ role = "server" => Session!SessionEnds
    /\ role = "script" => Request!RequestEnds

=============================================================================
