------------------------------ MODULE Connection ------------------------------
(***************************************************************************)
(* One connection, from SimpleWorkTask::Run to its end: the blocks that    *)
(* are read from the socket, the request that http_handler finds in them,  *)
(* its answer, and whether the connection is kept for another round.       *)
(*                                                                         *)
(* The client's requests are one stream, which the network cuts where it   *)
(* likes. Its unit here is a line, and a half of the line that begins a    *)
(* request; lengths are counted in these units.                            *)
(***************************************************************************)
EXTENDS Integers, Sequences

CONSTANTS Block,    \* what one buffer_read asks for: 4096
          Clients   \* what clients may ask: sequences of requests, each a
                    \* record of its path, version and sequence of headers

ASSUME ConnectionAssumption == Block \in Nat \ {0}

VARIABLES asks,     \* the requests of this client
          polite,   \* its requests arrive in one piece, each after the last answer
          unsent,   \* the part of its stream that it did not send yet
          wire,     \* the part that was sent and not read
          peer,     \* "open", or "gone" when the client closed the connection
          pc,       \* what the worker does: "read", "handle", "ask" (in searchd's hands),
                    \* "write", "close" (leave the loop), "closed"; "crashed" is the end
                    \* of the process
          inbuf,    \* conn->inbuf
          size,     \* read_size
          keep,     \* keep_alive
          out,      \* conn->outbuf: the answer about to be sent
          log       \* the rounds, each with the request whose bytes came first

vars == <<asks, polite, unsent, wire, peer, pc, inbuf, size, keep, out, log>>

Version == {"HTTP/1.0", "HTTP/1.1"}
Header == {"Host", "Connection: keep-alive", "User-Agent"}
Unit == {"GET", ""} \cup Version \cup Header

\* The units of request i: "GET uri", the version, the headers, an empty line.
Text(i, r) ==
  LET units == <<"GET", r.version>> \o r.headers \o <<"">>
  IN [k \in 1..Len(units) |-> [req |-> i, is |-> units[k]]]

\* The stream of a client up to its i-th request, and the whole of it.
Upto(c) ==
  LET upto[i \in 0..Len(c)] == IF i = 0 THEN <<>> ELSE upto[i - 1] \o Text(i, c[i])
  IN upto

Stream(c) == Upto(c)[Len(c)]

\* The paths that the program knows.
Paths == {"/search", "/status", "/statistic", "file"}

Request == [path : Paths, version : Version, headers : Seq(Header)]

ASSUME ClientsAssumption == Clients \subseteq Seq(Request)

\* The beginning of a request's line is the only unit that does not end one.
EndsLine(u) == u.is # "GET"

\* The words of a unit, as strtok_r counts them.
Words(u) == CASE u.is = "GET" -> 2
              [] u.is = "" -> 0
              [] u.is \in Version -> 1
              [] u.is \in {"Host", "Connection: keep-alive"} -> 2
              [] u.is = "User-Agent" -> 3

None == [status |-> 0, keep |-> FALSE]
Answer(status, k) == [status |-> status, keep |-> k]

Init == /\ asks \in Clients
        /\ polite \in BOOLEAN
        /\ unsent = Stream(asks)
        /\ wire = <<>>
        /\ peer = "open"
        /\ pc = "read" /\ inbuf = <<>> /\ size = 0 /\ keep = FALSE
        /\ out = None
        /\ log = <<>>

-------------------------------------------------------------------------------
(* The client *)

\* The first n units that are left go out as one segment.
SendSegment(n) ==
  /\ peer = "open" /\ pc \notin {"closed", "crashed"}
  /\ n \in 1..Len(unsent)
  /\ wire' = wire \o SubSeq(unsent, 1, n)
  /\ unsent' = SubSeq(unsent, n + 1, Len(unsent))
  /\ UNCHANGED <<asks, polite, peer, pc, inbuf, size, keep, out, log>>

Answered(i) == i \in DOMAIN log /\ log[i].sent = "whole"

Send ==
  /\ unsent # <<>>
  /\ IF polite
       THEN LET i == unsent[1].req
            IN /\ i > 1 => Answered(i - 1)
               /\ SendSegment(Len(Text(i, asks[i])))
       ELSE \E n \in 1..Len(unsent) : SendSegment(n)

Leave ==
  /\ peer = "open" /\ pc \notin {"closed", "crashed"}
  /\ peer' = "gone"
  /\ UNCHANGED <<asks, polite, unsent, wire, pc, inbuf, size, keep, out, log>>

-------------------------------------------------------------------------------
(* SimpleWorkTask::Run: the read loop *)

\* Mistake: keep_alive is declared outside of the for loop.
NewRoundKeeping ==
  /\ inbuf' = <<>> /\ size' = 0 /\ out' = None
  /\ keep' = keep

\* A round begins with new buffers, and with keep_alive and read_size reset.
NewRound ==
  /\ inbuf' = <<>> /\ size' = 0 /\ out' = None
  /\ keep' = FALSE

\* Mistake: a connection that was closed without a request is handled too.
HandledAnyway(n) == n >= 0

Handled(n) == n > 0

\* Mistakes: the loop reads until the connection ends; until there is an error.
ReadsToEnd(ret) == ret > 0

ReadsToError(ret) == ret >= 0

\* After a full block, buffer_read is called again.
ReadsOn(ret) == ret = Block

\* What follows a buffer_read; a round without a request is the connection's last.
AfterRead(ret, n) ==
  IF ReadsOn(ret) THEN "read" ELSE IF Handled(n) THEN "handle" ELSE "close"

\* buffer_read takes what has arrived, at most a block.
ReadBlock ==
  LET n == IF Len(wire) < Block THEN Len(wire) ELSE Block
  IN /\ pc = "read" /\ n > 0
     /\ inbuf' = inbuf \o SubSeq(wire, 1, n)
     /\ wire' = SubSeq(wire, n + 1, Len(wire))
     /\ size' = size + n
     /\ pc' = AfterRead(n, size')
     /\ UNCHANGED <<asks, polite, unsent, peer, keep, out, log>>

\* buffer_read returns 0: the client has closed the connection.
ReadEnd ==
  /\ pc = "read" /\ wire = <<>> /\ peer = "gone"
  /\ pc' = AfterRead(0, size)
  /\ UNCHANGED <<asks, polite, unsent, wire, peer, inbuf, size, keep, out, log>>

\* Mistake: -1 is added to what was read.
SizeAfterErrorAdded == size - 1

SizeAfterError == -1

\* buffer_read returns -1: the connection was reset, or there is no memory.
ReadError ==
  /\ pc = "read"
  /\ size' = SizeAfterError
  /\ pc' = AfterRead(-1, size')
  /\ UNCHANGED <<asks, polite, unsent, wire, peer, inbuf, keep, out, log>>

-------------------------------------------------------------------------------
(* http_request_parse *)

\* buffer_readline finds the end of a first line.
HasLine == \E k \in DOMAIN inbuf : EndsLine(inbuf[k])

\* Its words; parse_init_line passes the missing ones, NULL, to strlen and strcmp.
FirstLineWords ==
  IF EndsLine(inbuf[1]) THEN Words(inbuf[1]) ELSE Words(inbuf[1]) + Words(inbuf[2])

\* The headers: the complete lines before an empty one.
Headers ==
  {inbuf[k].is : k \in {j \in 2..Len(inbuf) :
                          /\ inbuf[j].is \in Header
                          /\ \A i \in 2..j : inbuf[i].is # ""}}

\* http_request_parse returns NULL: no line is complete. It frees the request with
\* http_request_free, whose pointers memset did not reach (sizeof of a pointer).
ParseFails ==
  /\ ~HasLine
  /\ out' = Answer(400, FALSE)
  /\ pc' \in {"write", "crashed"}
  /\ keep' = keep

ParseCrashes ==
  /\ HasLine /\ FirstLineWords < 3
  /\ pc' = "crashed"
  /\ UNCHANGED <<out, keep>>

-------------------------------------------------------------------------------
(* http_handler *)

Respond(status, k) ==
  /\ out' = Answer(status, k)
  /\ keep' = k
  /\ pc' = "write"

\* Mistake: what is not HEAD is GET.
ImplementsAny == TRUE

\* The method that parse_init_line found.
Implements == inbuf[1].is = "GET"

\* HTTP/1.1, the third word of the line, requires a Host.
NoHost == ~EndsLine(inbuf[1]) /\ inbuf[2].is = "HTTP/1.1" /\ "Host" \notin Headers

Path == asks[inbuf[1].req].path

\* Statuses of the answers that need no searchd; a search may have a bad query, and a
\* file may be missing.
Statuses(path) == CASE path = "/search" -> {400}
                    [] path = "/status" -> {}
                    [] path = "/statistic" -> {200}
                    [] path = "file" -> {200, 404}

\* deal_search_handler and deal_status_handler wait for the mutex of the clients and for
\* what searchd sends, neither with a timeout.
Ask(k) ==
  /\ Path \in {"/search", "/status"}
  /\ keep' = k
  /\ pc' = "ask"
  /\ out' = out

Serve(k) ==
  \/ ~Implements /\ Respond(501, k)
  \/ Implements /\ NoHost /\ Respond(400, k)
  \/ /\ Implements /\ ~NoHost
     /\ \/ \E status \in Statuses(Path) : Respond(status, k)
        \/ Respond(400, k)                     \* buffer_new returns NULL
        \/ Ask(k)

\* The end of a round: what became of its answer, and whether another one begins.
EndRound(sent, k) ==
  /\ log' = Append(log, [req |-> inbuf[1].req, begins |-> inbuf[1].is = "GET",
                         status |-> out.status, keep |-> out.keep, sent |-> sent])
  /\ NewRound
  /\ pc' = IF k THEN "read" ELSE "close"

Handle ==
  /\ pc = "handle"
  /\ \/ ParseFails
     \/ ParseCrashes
     \/ HasLine /\ FirstLineWords >= 3 /\ Serve("Connection: keep-alive" \in Headers)
  /\ UNCHANGED <<asks, polite, unsent, wire, peer, inbuf, size, log>>

\* They come back with the answer's JSON; if is_ok is false, it is an error, with 200,
\* and the connection is closed.
Asked ==
  /\ pc = "ask"
  /\ Respond(200, keep) \/ Respond(200, FALSE)
  /\ UNCHANGED <<asks, polite, unsent, wire, peer, inbuf, size, log>>

\* An exception: there is no answer, and the connection is as the request wanted it.
Throw ==
  /\ pc \in {"handle", "ask"} /\ HasLine /\ FirstLineWords >= 3
  /\ EndRound("none", "Connection: keep-alive" \in Headers)
  /\ UNCHANGED <<asks, polite, unsent, wire, peer>>

\* The client takes the whole answer.
Write ==
  /\ pc = "write" /\ peer = "open"
  /\ EndRound("whole", keep)
  /\ UNCHANGED <<asks, polite, unsent, wire, peer>>

\* write(2) fails, or a signal ends it after a part; nobody looks at its result.
WriteFails ==
  /\ pc = "write"
  /\ \E sent \in {"part", "none"} : EndRound(sent, keep)
  /\ UNCHANGED <<asks, polite, unsent, wire, peer>>

\* After the loop: disconnect_conn.
Disconnect ==
  /\ pc = "close"
  /\ NewRound
  /\ pc' = "closed"
  /\ UNCHANGED <<asks, polite, unsent, wire, peer, log>>

\* Nothing is left to happen.
Over == pc \in {"closed", "crashed"} /\ UNCHANGED vars

Next == \/ Send \/ Leave
        \/ ReadBlock \/ ReadEnd \/ ReadError
        \/ Handle \/ Asked \/ Throw
        \/ Write \/ WriteFails
        \/ Disconnect
        \/ Over

Spec == Init /\ [][Next]_vars

\* The worker goes on whenever it can: recv returns when there is data or an end, write
\* when the client is gone. A polite client reads its answer. Asked is not fair: nothing
\* makes searchd answer, and a worker that waits for it may hold the clients' mutex.
FairSpec == /\ Spec
            /\ WF_vars(ReadBlock \/ ReadEnd)
            /\ WF_vars(Handle)
            /\ WF_vars(peer = "gone" /\ WriteFails)
            /\ WF_vars(polite /\ Write)
            /\ WF_vars(Disconnect)

-------------------------------------------------------------------------------
(* Properties *)

UnitOf == [req : DOMAIN asks, is : Unit]

\* The type invariant; read_size counts what is in inbuf, or says that there was an error.
ConnTypeOK ==
  /\ asks \in Clients
  /\ polite \in BOOLEAN
  /\ unsent \in Seq(UnitOf) /\ wire \in Seq(UnitOf) /\ inbuf \in Seq(UnitOf)
  /\ peer \in {"open", "gone"}
  /\ pc \in {"read", "handle", "ask", "write", "close", "closed", "crashed"}
  /\ (size = Len(inbuf)) \/ (size = -1 /\ pc = "close")
  /\ keep \in BOOLEAN
  /\ out \in [status : {0, 200, 400, 404, 501}, keep : BOOLEAN]
  /\ log \in Seq([req : DOMAIN asks, begins : BOOLEAN, status : {0, 200, 400, 404, 501},
                  keep : BOOLEAN, sent : {"whole", "part", "none"}])

\* A client each of whose requests arrives in one piece (one segment, which TCP does not
\* promise), after the answer to the one before, gets the answers in the order of its
\* requests, and stops nobody else's.
AnswersInTurn ==
  polite => /\ pc # "crashed"
            /\ \A k \in DOMAIN log : log[k].req = k /\ log[k].begins

\* Run keeps a connection if and only if the answer's header Connection said so, whatever
\* the requests before it asked for.
KeepsItsWord ==
  [][log' # log /\ out # None => (out.keep <=> pc' = "read")]_vars

\* However the stream is cut, what is served (200, 404) is the beginning of a request,
\* in the order of the requests, and none twice: the rest of one whose headers were cut
\* off is not taken for another. (A cut inside of a header is not in the model: the rest
\* of one whose value looks like a request's line would be.)
ServesRequestsOnce ==
  LET served == {k \in DOMAIN log : log[k].status \in {200, 404}}
  IN /\ \A k \in served : log[k].begins
     /\ \A j, k \in served : j < k => log[j].req < log[k].req

\* A worker does not stay with a client that has closed its connection, unless searchd
\* keeps it for ever: then nobody looks at the connection.
PeerGoneEnds ==
  []<>(pc # "ask") => (peer = "gone" ~> pc \in {"closed", "crashed"})

IsSent(i) == i \in DOMAIN asks /\ \A k \in DOMAIN unsent : unsent[k].req > i

\* A request that a polite client sent is handled, unless the connection ends, searchd
\* keeps the worker for ever, or the request is a number of whole blocks long: then the
\* loop waits for more.
PoliteServed ==
  []<>(pc # "ask") =>
    \A i \in UNION {DOMAIN c : c \in Clients} :
      (polite /\ IsSent(i) /\ Len(Text(i, asks[i])) % Block # 0)
      ~> (Len(log) >= i \/ pc = "closed")

\* What main.cc:805 says of http_handler: it does not fail, short of a crash of the system.
HandlerSurvives == pc # "crashed"
===============================================================================
