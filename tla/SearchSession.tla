---------------------------- MODULE SearchSession ----------------------------
(***************************************************************************)
(* One worker and its sphinx client over many requests: the settings that  *)
(* search() leaves in the client (src/main.cc) and the persistent          *)
(* connection to searchd that the client keeps (libsphinxclient), which    *)
(* searchd may close at any time.                                          *)
(*                                                                         *)
(* Requests are numbered.  A setting is represented by the number of the   *)
(* request that set it, a message by the number of the request it answers. *)
(* SphinxClients shows that no other thread uses the client; here the      *)
(* other workers only lock and unlock g_sphinx_client_mutex.               *)
(***************************************************************************)
EXTENDS Integers, Sequences

CONSTANTS MaxRequest,  \* bound: how many requests the worker gets
          Optional,    \* the settings that a search may leave alone
          Skippable    \* the settings that a search may give in vain

ASSUME RequestAssumption == MaxRequest \in Nat

VARIABLES number,    \* the number of the current, or the last, request
          request,   \* what kind it is, what it gives and what of that is passed over
          at,        \* where the worker is
          held,      \* another worker holds g_sphinx_client_mutex
          alive,     \* g_sphinx_client_map has a client for the worker
          born,      \* the request for which that client was created
          settings,  \* of each setting: who made it; 0: sphinx_create or a reset
          sock,      \* client->sock >= 0
          peer,      \* searchd has the other end open
          up,        \* the request that searchd has read or will read; 0: none
          wire,      \* what searchd sent and the client has not read
          reply      \* the request the last good response was an answer to

sessionVars == <<number, request, at, held, alive, born, settings>>
netVars == <<sock, peer, up, wire>>
vars == <<sessionVars, netVars, reply>>

At == {"idle", "get", "greet", "set", "connect", "regreet", "send", "wait", "failed", "dead"}

\* The settings, in the order in which search() makes them.  The weights are
\* those that are made: of all the fields but the last.
Order == <<"filters", "idRange", "limits", "weights", "retries", "queryTime", "connectTimeout",
           "groupBy", "matchMode", "rankingMode", "sortMode", "select">>
Setting == {Order[i] : i \in 1..Len(Order)}
Place(f) == CHOOSE i \in 1..Len(Order) : Order[i] = f

\* Given on every request: by the request itself or as SphinxQueryData's default.
Always == {"limits", "retries", "queryTime", "connectTimeout",
           "matchMode", "rankingMode", "sortMode"}

\* What search() passes over although it is given: ids from 0, a single field
\* weight (the commas are counted, not the fields), times and retries of 0, a
\* grouping without its function.
InVain == {"idRange", "weights", "retries", "queryTime", "connectTimeout", "groupBy"}

ASSUME SettingAssumption == Optional \subseteq Setting /\ Skippable \subseteq InVain

\* sphinx_reset_filters and sphinx_reset_groupby.
Cleared == {"filters", "groupBy"}

\* What may be refused: ids out of order, no rows, more than 1000 retries, a
\* sort mode without its clause.
Refusable == {"idRange", "limits", "retries", "sortMode"}

Search == [kind : {"search"}, gives : {Always \cup s : s \in SUBSET Optional},
           skips : SUBSET (Skippable \cup {"filters"})]
Status == [kind |-> "status", gives |-> {}, skips |-> {}]

\* Requests as they come: of what they give, something may be given in vain.
Incoming == {r \in Search : r.skips \subseteq r.gives \cap Skippable} \cup {Status}

Message == [req : 1..MaxRequest, says : {"version", "ok", "error", "large", "body", "part"}]

Fresh == [f \in Setting |-> 0]

Init ==
  /\ number = 0
  /\ request = Status
  /\ at = "idle"
  /\ held = FALSE
  /\ alive = FALSE
  /\ born = 0
  /\ settings = Fresh
  /\ sock = FALSE
  /\ peer = FALSE
  /\ up = 0
  /\ wire = <<>>
  /\ reply = 0

Goto(place) == at' = place

-------------------------------------------------------------------------------
(* The worker: get_sphinx_client *)

Request(r) ==
  /\ at = "idle"
  /\ number < MaxRequest
  /\ number' = number + 1
  /\ request' = r
  /\ Goto("get")
  /\ UNCHANGED <<held, alive, born, settings, netVars, reply>>

\* The mutex is free, and the worker has a client.
GetKnown ==
  /\ at = "get"
  /\ ~held
  /\ alive
  /\ Goto("set")
  /\ UNCHANGED <<number, request, held, alive, born, settings, netVars, reply>>

\* net_connect_get: select() finds the socket writable.  Whatever was on the way
\* on an old connection is gone; the version of searchd's protocol is awaited.
NewConnection == sock' = FALSE /\ peer' = TRUE /\ up' = 0 /\ wire' = <<>>

\* No client: one is made and connected, the mutex is kept over "greet".
Create ==
  /\ at = "get"
  /\ ~held
  /\ ~alive
  /\ NewConnection
  /\ Goto("greet")
  /\ UNCHANGED <<number, request, held, alive, born, settings, reply>>

\* sphinx_create fails, or there is no connection within select()'s time.
CreateFails ==
  /\ at = "get"
  /\ ~held
  /\ ~alive
  /\ Goto("idle")
  /\ UNCHANGED <<number, request, held, alive, born, settings, netVars, reply>>

\* searchd's version has come, which net_read waits for without a timeout.
Greeted == wire # <<>> /\ Head(wire).says = "version"

\* The connection ends before; or the version is 0; or the write of the command
\* that makes the connection persistent fails.
GreetingFails == wire # <<>> \/ ~peer

Disconnected == sock' = FALSE /\ peer' = FALSE /\ up' = 0 /\ wire' = <<>>

\* The client is entered in the map.
Created ==
  /\ at = "greet"
  /\ Greeted
  /\ alive' = TRUE
  /\ born' = number
  /\ settings' = Fresh
  /\ sock' = TRUE
  /\ wire' = Tail(wire)
  /\ Goto("set")
  /\ UNCHANGED <<number, request, held, peer, up, reply>>

\* The client is destroyed, the request answered with an error.
NotCreated ==
  /\ at = "greet"
  /\ GreetingFails
  /\ Disconnected
  /\ Goto("idle")
  /\ UNCHANGED <<number, request, held, alive, born, settings, reply>>

-------------------------------------------------------------------------------
(* The worker: search's settings *)

\* Made in the first k steps of search().
Made(k) == {f \in request.gives \ request.skips : Place(f) <= k}

\* Mistake: the filters and the grouping of the request before are kept.
UnclearedUpTo(k) ==
  [f \in Setting |-> IF f \in Made(k) THEN number ELSE settings[f]]

\* The settings after the first k steps of search().
SettingsUpTo(k) ==
  [f \in Setting |-> IF f \in Made(k) THEN number
                     ELSE IF f \in Cleared THEN 0
                     ELSE settings[f]]

\* realloc fails for the first filter: that only ends the loop over the
\* filters, the search goes on without any.
FilterRefused ==
  /\ at = "set"
  /\ "filters" \in request.gives \ request.skips
  /\ request' = [request EXCEPT !.skips = @ \cup {"filters"}]
  /\ UNCHANGED <<number, at, held, alive, born, settings, netVars, reply>>

\* realloc fails for a later filter: client->filters is NULL and num_filters
\* is not 0, so that sphinx_add_query ends the process.
FiltersLost ==
  /\ at = "set"
  /\ "filters" \in request.gives \ request.skips
  /\ Goto("dead")
  /\ UNCHANGED <<number, request, held, alive, born, settings, netVars, reply>>

\* Mistake: the client is not compared with NULL.
PrepareUnchecked ==
  /\ at \in {"set", "get"}
  /\ settings' = IF request.kind = "search" THEN SettingsUpTo(Len(Order)) ELSE settings
  /\ Goto("connect")
  /\ UNCHANGED <<number, request, held, alive, born, netVars, reply>>

Prepare ==
  /\ at = "set"
  /\ settings' = IF request.kind = "search" THEN SettingsUpTo(Len(Order)) ELSE settings
  /\ Goto("connect")
  /\ UNCHANGED <<number, request, held, alive, born, netVars, reply>>

\* A setting is refused: those behind it are not made, the client is kept.
Refused ==
  /\ at = "set"
  /\ \E f \in Refusable \cap (request.gives \ request.skips) :
       settings' = SettingsUpTo(Place(f) - 1)
  /\ Goto("idle")
  /\ UNCHANGED <<number, request, held, alive, born, netVars, reply>>

-------------------------------------------------------------------------------
(* The worker: the exchange with searchd *)

\* net_sock_eof: nothing to read, and searchd has closed the connection.
Eof == ~peer /\ wire = <<>>

\* net_connect_ex: the connection is there; or it is opened once more.
StillOpen ==
  /\ at = "connect"
  /\ sock /\ ~Eof
  /\ Goto("send")
  /\ UNCHANGED <<number, request, held, alive, born, settings, netVars, reply>>

Reopen ==
  /\ at = "connect"
  /\ ~sock \/ Eof
  /\ NewConnection
  /\ Goto("regreet")
  /\ UNCHANGED <<number, request, held, alive, born, settings, reply>>

ReopenFails ==
  /\ at = "connect"
  /\ ~sock \/ Eof
  /\ Disconnected
  /\ Goto("failed")
  /\ UNCHANGED <<number, request, held, alive, born, settings, reply>>

Reopened ==
  /\ at = "regreet"
  /\ Greeted
  /\ sock' = TRUE
  /\ wire' = Tail(wire)
  /\ Goto("send")
  /\ UNCHANGED <<number, request, held, alive, born, settings, peer, up, reply>>

NotReopened ==
  /\ at = "regreet"
  /\ GreetingFails
  /\ Disconnected
  /\ Goto("failed")
  /\ UNCHANGED <<number, request, held, alive, born, settings, reply>>

\* net_write succeeds: the kernel took it, which does not mean that searchd will.
Send ==
  /\ at = "send"
  /\ up' = IF peer THEN number ELSE 0
  /\ Goto("wait")
  /\ UNCHANGED <<number, request, held, alive, born, settings, sock, peer, wire, reply>>

SendFails ==
  /\ at = "send"
  /\ ~peer
  /\ Goto("failed")
  /\ UNCHANGED <<number, request, held, alive, born, settings, netVars, reply>>

\* The rest of a response of which only the header was read is taken for a
\* response of its own.
TakenFor(m) == IF m.says = "body" THEN {"ok", "error"} ELSE {m.says}

\* net_get_response: a whole response.
Receive ==
  /\ at = "wait"
  /\ wire # <<>>
  /\ wire' = Tail(wire)
  /\ \/ /\ "ok" \in TakenFor(Head(wire))
        /\ reply' = Head(wire).req
        /\ Goto("idle")
     \/ /\ "error" \in TakenFor(Head(wire))
        /\ Goto("failed")
        /\ UNCHANGED reply
  /\ UNCHANGED <<number, request, held, alive, born, settings, sock, peer, up>>

\* A response longer than MAX_PACKET_LEN: only its header is read.
TooLong ==
  /\ at = "wait"
  /\ wire # <<>>
  /\ Head(wire).says = "large"
  /\ wire' = <<[Head(wire) EXCEPT !.says = "body"]>> \o Tail(wire)
  /\ Goto("failed")
  /\ UNCHANGED <<number, request, held, alive, born, settings, sock, peer, up, reply>>

\* Mistake: the end of the connection is taken for a read to be repeated.
ReceiveAgain ==
  /\ at = "wait"
  /\ ~peer /\ wire # <<>> /\ Head(wire).says = "part"
  /\ Disconnected
  /\ Goto("failed")
  /\ UNCHANGED <<number, request, held, alive, born, settings, reply>>

\* recv fails, or the connection ends before the response does.
ReceiveFails ==
  /\ at = "wait"
  /\ \/ Eof
     \/ ~peer /\ wire # <<>> /\ Head(wire).says = "part"
  /\ Disconnected
  /\ Goto("failed")
  /\ UNCHANGED <<number, request, held, alive, born, settings, reply>>

\* Mistake: the client is kept after a failed query, as after a failed status.
GiveUpKeeping ==
  /\ at = "failed"
  /\ Goto("idle")
  /\ UNCHANGED <<number, request, held, alive, born, settings, netVars, reply>>

\* search() releases the client, and with it the connection, which takes the
\* mutex; deal_status_handler keeps it.
GiveUp ==
  /\ at = "failed"
  /\ Goto("idle")
  /\ IF request.kind = "search" THEN ~held /\ alive' = FALSE /\ Disconnected
                                ELSE UNCHANGED <<alive, netVars>>
  /\ UNCHANGED <<number, request, held, born, settings, reply>>

-------------------------------------------------------------------------------
(* searchd, and the other workers *)

\* Once on each connection: the worker is in the greeting until it has read it.
Greet ==
  /\ at \in {"greet", "regreet"}
  /\ peer
  /\ wire = <<>>
  /\ wire' = <<[req |-> number, says |-> "version"]>>
  /\ UNCHANGED <<sessionVars, sock, peer, up, reply>>

\* The answer to a search may be of any length; that to status is short.
Answer ==
  /\ peer
  /\ up # 0
  /\ \E says \in {"ok", "error"} \cup (IF request.kind = "search" THEN {"large"} ELSE {}) :
       wire' = Append(wire, [req |-> up, says |-> says])
  /\ up' = 0
  /\ UNCHANGED <<sessionVars, sock, peer, reply>>

\* searchd ends the connection, perhaps in the middle of an answer.
Close ==
  /\ peer
  /\ peer' = FALSE
  /\ up' = 0
  /\ \/ UNCHANGED wire
     \/ up # 0 /\ wire' = Append(wire, [req |-> up, says |-> "part"])
  /\ UNCHANGED <<sessionVars, sock, reply>>

\* Another worker gets the mutex and keeps it while it waits for its greeting.
OthersLock ==
  /\ ~held
  /\ at # "greet"
  /\ held' = TRUE
  /\ UNCHANGED <<number, request, at, alive, born, settings, netVars, reply>>

OthersUnlock ==
  /\ held
  /\ held' = FALSE
  /\ UNCHANGED <<number, request, at, alive, born, settings, netVars, reply>>

-------------------------------------------------------------------------------

WorkerStep ==
  \/ GetKnown \/ Create \/ CreateFails \/ Created \/ NotCreated
  \/ FilterRefused \/ FiltersLost \/ Prepare \/ Refused
  \/ StillOpen \/ Reopen \/ ReopenFails \/ Reopened \/ NotReopened
  \/ Send \/ SendFails
  \/ Receive \/ TooLong \/ ReceiveFails
  \/ GiveUp

\* The worker has had all its requests, or the process is gone.
Done ==
  /\ at = "dead" \/ (at = "idle" /\ number = MaxRequest)
  /\ UNCHANGED vars

Next == \/ \E r \in Incoming : Request(r)
        \/ WorkerStep
        \/ Greet \/ Answer \/ Close
        \/ OthersLock \/ OthersUnlock
        \/ Done

Spec == Init /\ [][Next]_vars

\* The worker runs when it can.  Nothing makes searchd greet, answer or close,
\* and nothing makes another worker unlock the mutex, as it waits for searchd.
FairSpec == Spec /\ WF_vars(WorkerStep)

-------------------------------------------------------------------------------
(* What it is to keep *)

\* The type invariant; a client that is used is there, and only a client has
\* a connection.
SessionTypeOK ==
  /\ number \in 0..MaxRequest
  /\ request \in Search \cup {Status}
  /\ at \in At
  /\ held \in BOOLEAN
  /\ alive \in BOOLEAN
  /\ born \in 0..number
  /\ settings \in [Setting -> 0..number]
  /\ sock \in BOOLEAN
  /\ peer \in BOOLEAN
  /\ up \in 0..number
  /\ wire \in Seq(Message)
  /\ reply \in 0..number
  /\ at \in {"set", "connect", "regreet", "send", "wait"} => alive
  /\ at = "greet" => ~held
  /\ sock => alive

\* The connection is kept over requests that fail, over the rest of answers
\* that were not read and over an end that searchd closed, and the protocol
\* has no request numbers: still no request is answered with the response to
\* an earlier one.
AnswersItsRequest == [][reply' # reply => reply' = number]_vars

\* A search on its way to searchd, or sent.
Sent == at \in {"connect", "regreet", "send", "wait"} /\ request.kind = "search"

\* What a query is sent with.  Each setting that the request gives is its own,
\* unless search() passed over it: it was given in vain, or it is the filters
\* and there was no memory for the first.  Of the filters and the grouping
\* nothing else is in it; of the other settings only what requests since the
\* client was made have left, where this one makes none.
OwnSettings ==
  Sent => \A f \in Setting :
    settings[f] \in IF f \in request.gives \ request.skips THEN {number}
                    ELSE IF f \in Cleared THEN {0}
                    ELSE {0} \cup (born..(number - 1))

\* A worker that never comes back from a request waits for a searchd that holds
\* the connection open and says nothing, no version or no answer; or for the
\* mutex, which other workers hold, for ever or again and again; or a filter
\* that could not be stored has ended the process.  Whenever searchd answers or
\* closes, in the middle of an answer too, the worker goes on.
StuckOnlyOnSilence ==
  <>[](at # "idle") =>
    \/ <>[](at \in {"greet", "regreet", "wait"} /\ peer /\ wire = <<>>)
    \/ <>[](at \in {"get", "failed"}) /\ []<>held
    \/ <>[](at = "dead")
==============================================================================
