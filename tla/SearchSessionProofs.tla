------------------------- MODULE SearchSessionProofs -------------------------
(***************************************************************************)
(* Proofs about SearchSession for any number of requests and any set of    *)
(* optional settings.  The protocol has no request numbers, so that the    *)
(* client can only pair requests and responses by their order; what makes  *)
(* that work is InStep: outside of an exchange nothing is on the way, and  *)
(* in one there is at most one message, about the current request.         *)
(***************************************************************************)
EXTENDS SearchSession, TLAPS

\* Whatever searchd has still to answer is the request the worker waits for.
Asked == up # 0 => up = number /\ at = "wait" /\ peer

\* At most one message is unread, it is for the current request, searchd's
\* version belongs to the greeting, and after a failed exchange it can only be
\* the rest of an answer to a search, which is about to be released with its
\* connection.
InStep ==
  wire # <<>> =>
    /\ up = 0
    /\ at \in {"greet", "regreet", "wait", "failed"}
    /\ \E m \in Message :
         /\ wire = <<m>>
         /\ m.req = number
         /\ (m.says = "version") = (at \in {"greet", "regreet"})
         /\ m.says = "body" => at = "failed"
         /\ m.says = "large" \/ at = "failed" => request.kind = "search"

\* No request is number 0.
Numbered == at # "idle" => number > 0

IInv == SessionTypeOK /\ Asked /\ InStep /\ Numbered

\* Every setting has its place among the steps of search().
LEMMA Places == \A f \in Setting : Place(f) \in 1..Len(Order)
<1> SUFFICES ASSUME NEW f \in Setting PROVE Place(f) \in 1..Len(Order)
  OBVIOUS
<1>1. \E i \in 1..Len(Order) : Order[i] = f
  BY DEF Setting
<1> QED BY <1>1 DEF Place

\* After any number of steps of search() every setting is one of before, one
\* of the current request, or cleared.
LEMMA SettingsRange ==
  ASSUME number \in Nat, settings \in [Setting -> 0..number], NEW k
  PROVE  SettingsUpTo(k) \in [Setting -> 0..number]
<1>1. ASSUME NEW f \in Setting
      PROVE  (IF f \in Made(k) THEN number
              ELSE IF f \in Cleared THEN 0 ELSE settings[f]) \in 0..number
  <2>1. settings[f] \in 0..number
    OBVIOUS
  <2> QED BY <2>1
<1> QED BY <1>1 DEF SettingsUpTo

\* The session starts in step with searchd.
LEMMA InitIInv == Init => IInv
<1> SUFFICES ASSUME Init PROVE IInv
  OBVIOUS
<1>1. 0 \in 0..MaxRequest
  BY RequestAssumption
<1>2. Fresh \in [Setting -> 0..0]
  BY DEF Fresh
<1>3. <<>> \in Seq(Message)
  OBVIOUS
<1>4. settings \in [Setting -> 0..number] /\ wire \in Seq(Message)
  BY <1>2, <1>3 DEF Init
<1>5. SessionTypeOK
  <2>1. number \in 0..MaxRequest /\ born \in 0..number /\ up \in 0..number /\ reply \in 0..number
    BY <1>1 DEF Init
  <2>2. request \in Search \cup {Status}
    BY DEF Init
  <2>3. at \in At /\ held \in BOOLEAN /\ alive \in BOOLEAN /\ sock \in BOOLEAN /\ peer \in BOOLEAN
    BY DEF Init, At
  <2>4. at = "idle" /\ ~sock
    BY DEF Init
  <2> QED BY <1>4, <2>1, <2>2, <2>3, <2>4 DEF SessionTypeOK
<1>6. Asked /\ InStep /\ Numbered
  BY DEF Init, Asked, InStep, Numbered
<1> QED BY <1>5, <1>6 DEF IInv

\* No step of the worker or of searchd loses the step.
LEMMA StepIInv == IInv /\ [Next]_vars => IInv'
<1> SUFFICES ASSUME IInv, [Next]_vars PROVE IInv'
  OBVIOUS
<1> USE DEF IInv, SessionTypeOK, Asked, InStep, Numbered, At, Goto
<1>0. /\ MaxRequest \in Nat /\ number \in Nat /\ settings \in [Setting -> 0..number]
      /\ <<>> \in Seq(Message)
  BY RequestAssumption
<1>1. ASSUME NEW r \in Incoming, Request(r) PROVE IInv'
  <2>1. settings' \in [Setting -> 0..number']
    <3>1. 0..number \subseteq 0..number'
      BY <1>0, <1>1 DEF Request
    <3> QED BY <3>1, <1>1 DEF Request
  <2>2. wire = <<>> /\ up = 0
    BY <1>1 DEF Request
  <2>3. r \in Search \cup {Status}
    BY DEF Incoming
  <2> QED BY <1>0, <1>1, <2>1, <2>2, <2>3 DEF Request, netVars
<1>2. CASE GetKnown \/ CreateFails \/ FiltersLost \/ StillOpen
  BY <1>0, <1>2 DEF GetKnown, CreateFails, FiltersLost, StillOpen, netVars
<1>3. CASE Create \/ Reopen
  <2>1. /\ at' \in {"greet", "regreet"} /\ wire' = <<>> /\ up' = 0 /\ sock' = FALSE /\ peer' = TRUE
        /\ UNCHANGED <<number, request, held, alive, born, settings, reply>>
    BY <1>3 DEF Create, Reopen, NewConnection
  <2>2. at' = "greet" => ~held
    BY <1>3 DEF Create, Reopen
  <2>3. at' = "regreet" => alive
    BY <1>3 DEF Create, Reopen
  <2>4. number > 0
    BY <1>3 DEF Create, Reopen
  <2>5. SessionTypeOK'
    <3>1. settings' \in [Setting -> 0..number']
      BY <1>0, <2>1
    <3>2. wire' \in Seq(Message) /\ up' \in 0..number' /\ at' \in At
      BY <1>0, <2>1
    <3>3. held' = held /\ alive' = alive /\ born' = born /\ reply' = reply /\ request' = request
      BY <2>1
    <3>4. /\ at' \in {"set", "connect", "regreet", "send", "wait"} => alive'
          /\ at' = "greet" => ~held'
          /\ sock' => alive'
      BY <2>1, <2>2, <2>3
    <3> QED BY <2>1, <3>1, <3>2, <3>3, <3>4
  <2>6. Asked' /\ InStep' /\ Numbered'
    BY <1>0, <2>1, <2>4
  <2> QED BY <2>5, <2>6
<1>4. CASE NotCreated \/ NotReopened \/ ReopenFails
  BY <1>0, <1>4 DEF NotCreated, NotReopened, ReopenFails, Disconnected
<1>5. CASE Created \/ Reopened
  <2>1. PICK m \in Message : wire = <<m>>
    BY <1>5 DEF Created, Reopened, Greeted
  <2>2. wire' = <<>> /\ up' = 0 /\ at' \in {"set", "send"} /\ alive' = TRUE
    BY <1>5, <2>1 DEF Created, Reopened
  <2>3. settings' \in [Setting -> 0..number] /\ born' \in 0..number
    <3>1. Fresh \in [Setting -> 0..number]
      BY <1>0 DEF Fresh
    <3> QED BY <1>0, <1>5, <3>1 DEF Created, Reopened
  <2>4. sock' = TRUE /\ UNCHANGED <<number, request, held, peer, reply>>
    BY <1>5 DEF Created, Reopened
  <2>5. number > 0
    BY <1>5 DEF Created, Reopened
  <2> QED BY <1>0, <2>2, <2>3, <2>4, <2>5
<1>6. CASE FilterRefused
  <2>1. request' \in Search /\ request'.kind = request.kind
    <3>1. request \in Search
      BY <1>6 DEF FilterRefused, Status
    <3> QED BY <1>6, <3>1 DEF FilterRefused, Search
  <2> QED BY <1>0, <1>6, <2>1 DEF FilterRefused, netVars
<1>7. CASE Prepare
  <2>1. settings' \in [Setting -> 0..number]
    BY <1>0, <1>7, SettingsRange DEF Prepare
  <2> QED BY <1>0, <1>7, <2>1 DEF Prepare, netVars
<1>8. CASE Refused
  <2>1. settings' \in [Setting -> 0..number]
    BY <1>0, <1>8, SettingsRange DEF Refused
  <2> QED BY <1>0, <1>8, <2>1 DEF Refused, netVars
<1>9. CASE Send
  BY <1>0, <1>9 DEF Send
<1>10. CASE SendFails
  BY <1>0, <1>10 DEF SendFails, netVars
<1>11. CASE Receive
  <2>1. PICK m \in Message : wire = <<m>> /\ m.req = number
    BY <1>11 DEF Receive
  <2>2. wire' = <<>> /\ Head(wire) = m /\ up = 0
    BY <1>11, <2>1 DEF Receive
  <2>3. reply' \in 0..number
    <3>1. m.req \in 0..number
      BY <1>0, <2>1
    <3> QED BY <1>11, <2>2, <3>1 DEF Receive
  <2> QED BY <1>0, <1>11, <2>2, <2>3 DEF Receive
<1>12. CASE TooLong
  <2>1. PICK m \in Message : /\ wire = <<m>> /\ m.req = number
                             /\ m.says = "large" => request.kind = "search"
    BY <1>12 DEF TooLong
  <2> DEFINE rest == [m EXCEPT !.says = "body"]
  <2>2. rest \in Message /\ rest.req = number /\ rest.says = "body"
    BY <2>1 DEF Message
  <2>3. wire' = <<rest>> /\ m.says = "large" /\ up = 0
    BY <1>12, <2>1 DEF TooLong
  <2>4. wire' \in Seq(Message)
    BY <2>2, <2>3
  <2> HIDE DEF rest
  <2> QED BY <1>0, <1>12, <2>1, <2>2, <2>3, <2>4 DEF TooLong
<1>13. CASE ReceiveFails
  <2>1. /\ at = "wait" /\ at' = "failed" /\ wire' = <<>> /\ up' = 0
        /\ sock' \in BOOLEAN /\ peer' \in BOOLEAN
        /\ UNCHANGED <<number, request, held, alive, born, settings, reply>>
    BY <1>13 DEF ReceiveFails, Disconnected
  <2> QED BY <1>0, <2>1
<1>14. CASE GiveUp
  <2>1. /\ wire' = <<>> /\ up' = 0 /\ sock' \in BOOLEAN /\ peer' \in BOOLEAN
        /\ alive' \in BOOLEAN /\ (sock' => alive')
    <3>1. CASE request.kind = "search"
      BY <1>14, <3>1 DEF GiveUp, Disconnected
    <3>2. CASE request.kind # "search"
      BY <1>14, <3>2 DEF GiveUp, netVars
    <3> QED BY <3>1, <3>2
  <2> QED BY <1>0, <1>14, <2>1 DEF GiveUp
<1>15. CASE Answer
  <2>1. wire = <<>> /\ up = number /\ at = "wait" /\ number > 0
    BY <1>15 DEF Answer
  <2>2. PICK says \in {"ok", "error", "large"} :
          /\ wire' = <<[req |-> up, says |-> says]>>
          /\ says = "large" => request.kind = "search"
    BY <1>15, <2>1 DEF Answer
  <2> DEFINE m == [req |-> up, says |-> says]
  <2>3. m \in Message /\ m.req = number /\ m.says = says
    BY <1>0, <2>1 DEF Message
  <2>4. wire' = <<m>> /\ wire' \in Seq(Message)
    BY <2>2, <2>3
  <2> HIDE DEF m
  <2> QED BY <1>0, <1>15, <2>1, <2>2, <2>3, <2>4 DEF Answer, sessionVars
<1>16. CASE Close
  <2>0. at' = at /\ up' = 0 /\ number' = number /\ request' = request /\ ~peer'
    BY <1>16 DEF Close, sessionVars
  <2>1. wire' \in Seq(Message) /\ InStep'
    <3>1. CASE UNCHANGED wire
      BY <1>0, <2>0, <3>1
    <3>2. CASE up # 0 /\ wire' = Append(wire, [req |-> up, says |-> "part"])
      <4> DEFINE m == [req |-> up, says |-> "part"]
      <4>1. wire = <<>> /\ up = number /\ at = "wait" /\ number > 0
        BY <3>2
      <4>2. m \in Message /\ m.req = number /\ m.says = "part"
        BY <1>0, <4>1 DEF Message
      <4>3. wire' = <<m>> /\ wire' \in Seq(Message)
        BY <3>2, <4>1, <4>2
      <4> HIDE DEF m
      <4> QED BY <2>0, <4>1, <4>2, <4>3
    <3> QED BY <1>16, <3>1, <3>2 DEF Close
  <2>2. peer' \in BOOLEAN /\ UNCHANGED <<held, alive, born, settings, sock, reply>>
    BY <1>16 DEF Close, sessionVars
  <2> QED BY <1>0, <2>0, <2>1, <2>2
<1>18. CASE Greet
  <2> DEFINE m == [req |-> number, says |-> "version"]
  <2>1. m \in Message /\ m.req = number /\ m.says = "version"
    BY <1>0, <1>18 DEF Message, Greet
  <2>2. wire' = <<m>> /\ wire' \in Seq(Message) /\ up = 0
    BY <1>18, <2>1 DEF Greet
  <2> HIDE DEF m
  <2> QED BY <1>0, <1>18, <2>1, <2>2 DEF Greet, sessionVars
<1>19. CASE OthersLock \/ OthersUnlock
  <2>1. /\ held' \in BOOLEAN /\ (at = "greet" => ~held')
        /\ UNCHANGED <<number, request, at, alive, born, settings, sock, peer, up, wire, reply>>
    BY <1>19 DEF OthersLock, OthersUnlock, netVars
  <2> QED BY <1>0, <2>1
<1>17. CASE UNCHANGED vars
  BY <1>0, <1>17 DEF vars, sessionVars, netVars
<1> QED
  BY <1>1, <1>2, <1>3, <1>4, <1>5, <1>6, <1>7, <1>8, <1>9, <1>10, <1>11, <1>12, <1>13,
     <1>14, <1>15, <1>16, <1>17, <1>18, <1>19
  DEF Next, WorkerStep, Done

-------------------------------------------------------------------------------

\* One worker's requests, client and connection keep their types.
THEOREM SessionTypes == Spec => []SessionTypeOK
<1>1. IInv => SessionTypeOK
  BY DEF IInv
<1> QED BY <1>1, InitIInv, StepIInv, PTL DEF Spec

\* Only Receive changes reply, and what it reads is about the current request.
LEMMA ReceiveOwn == IInv /\ [Next]_vars => (reply' # reply => reply' = number)
<1> SUFFICES ASSUME IInv, [Next]_vars, reply' # reply PROVE reply' = number
  OBVIOUS
<1>1. Receive
  BY DEF Next, WorkerStep, Done, Request, GetKnown, Create, CreateFails, Created, NotCreated,
         FilterRefused, FiltersLost, Prepare, Refused, StillOpen, Reopen, ReopenFails,
         Reopened, NotReopened, Send, SendFails, TooLong, ReceiveFails, GiveUp,
         Greet, Answer, Close, OthersLock, OthersUnlock, vars
<1>2. PICK m \in Message : wire = <<m>> /\ m.req = number
  BY <1>1 DEF Receive, IInv, InStep
<1> QED BY <1>1, <1>2 DEF Receive

\* However requests fail and connections end, no request is answered with the
\* response to an earlier one.
THEOREM SessionAnswersItsRequest == Spec => AnswersItsRequest
<1>1. IInv /\ [Next]_vars => [reply' # reply => reply' = number]_vars
  BY ReceiveOwn
<1> QED BY <1>1, InitIInv, StepIInv, PTL DEF Spec, AnswersItsRequest

-------------------------------------------------------------------------------
(* Whose settings a query is sent with *)

\* What a living client has in it, it has from requests since it was made, and
\* before search() starts, from earlier ones than the current.
Since ==
  alive => \A f \in Setting :
    \/ settings[f] = 0
    \/ settings[f] \in born..number /\ (at \in {"get", "set"} => settings[f] < number)

SInv == IInv /\ Since /\ OwnSettings

\* No step leaves a setting that is neither from a reset nor from this client,
\* and none but Prepare, which makes them, lets a search begin its exchange.
LEMMA StepSInv == SInv /\ [Next]_vars => SInv'
<1> SUFFICES ASSUME SInv, [Next]_vars PROVE SInv'
  OBVIOUS
<1>0. /\ IInv' /\ number \in Nat /\ born \in 0..number /\ settings \in [Setting -> 0..number]
      /\ number' \in Nat /\ MaxRequest \in Nat
  BY StepIInv, RequestAssumption DEF SInv, IInv, SessionTypeOK
<1>1. CASE \E r \in Incoming : Request(r)
  <2>1. at' = "get" /\ number' = number + 1 /\ UNCHANGED <<alive, born, settings>>
    BY <1>1 DEF Request, Goto
  <2>2. \A f \in Setting : settings[f] \in 0..number
    BY <1>0
  <2> QED BY <1>0, <2>1, <2>2 DEF SInv, Since, OwnSettings, Sent
<1>2. CASE Created
  <2>1. \A f \in Setting : settings'[f] = 0
    BY <1>2 DEF Created, Fresh
  <2>2. at' = "set"
    BY <1>2 DEF Created, Goto
  <2> QED BY <1>0, <2>1, <2>2 DEF SInv, Since, OwnSettings, Sent
<1>3. CASE Prepare
  <2>1. /\ at = "set" /\ at' = "connect" /\ alive
        /\ UNCHANGED <<number, request, alive, born>>
    BY <1>3 DEF Prepare, Goto, SInv, IInv, SessionTypeOK
  <2>2. CASE request.kind = "search"
    <3>1. ASSUME NEW f \in Setting
          PROVE  settings'[f] = IF f \in request.gives \ request.skips THEN number
                                ELSE IF f \in Cleared THEN 0 ELSE settings[f]
      <4>1. Place(f) <= Len(Order)
        BY Places
      <4>2. f \in Made(Len(Order)) <=> f \in request.gives \ request.skips
        BY <4>1 DEF Made
      <4> QED BY <1>3, <2>2, <4>2 DEF Prepare, SettingsUpTo
    <3>2. ASSUME NEW f \in Setting
          PROVE  settings[f] = 0 \/ settings[f] \in born..(number - 1)
      <4>1. settings[f] \in 0..number
        BY <1>0
      <4> QED BY <1>0, <2>1, <4>1 DEF SInv, Since
    <3>3. OwnSettings'
      BY <2>1, <3>1, <3>2 DEF OwnSettings, Sent
    <3>4. ASSUME NEW f \in Setting PROVE settings'[f] = 0 \/ settings'[f] \in born..number
      BY <1>0, <3>1, <3>2
    <3> QED BY <1>0, <2>1, <3>3, <3>4 DEF SInv, Since
  <2>3. CASE request.kind # "search"
    <3>1. settings' = settings
      BY <1>3, <2>3 DEF Prepare
    <3> QED BY <1>0, <2>1, <2>3, <3>1 DEF SInv, Since, OwnSettings, Sent
  <2> QED BY <2>2, <2>3
<1>4. CASE Refused
  <2>1. alive /\ at = "set" /\ at' = "idle" /\ UNCHANGED <<number, alive, born>>
    BY <1>4 DEF Refused, Goto, SInv, IInv, SessionTypeOK
  <2>2. PICK k : settings' = SettingsUpTo(k)
    BY <1>4 DEF Refused
  <2>3. ASSUME NEW f \in Setting
        PROVE  settings'[f] \in {0, number, settings[f]}
    BY <2>2 DEF SettingsUpTo
  <2>4. \A f \in Setting : settings[f] \in 0..number
    BY <1>0
  <2> QED BY <1>0, <2>1, <2>3, <2>4 DEF SInv, Since, OwnSettings, Sent
<1>5. CASE StillOpen \/ Reopen \/ Reopened \/ Send
  <2>1. /\ at \in {"connect", "regreet", "send"} /\ at' \in {"regreet", "send", "wait"}
        /\ UNCHANGED <<number, request, alive, born, settings>>
    BY <1>5 DEF StillOpen, Reopen, Reopened, Send, Goto
  <2> QED BY <1>0, <2>1 DEF SInv, Since, OwnSettings, Sent
<1>6. CASE \/ GetKnown \/ FilterRefused
  <2>1. /\ at \in {"get", "set"} /\ at' = "set"
        /\ UNCHANGED <<number, alive, born, settings>>
    BY <1>6 DEF GetKnown, FilterRefused, Goto
  <2> QED BY <1>0, <2>1 DEF SInv, Since, OwnSettings, Sent
<1>7. CASE \/ Create \/ CreateFails \/ NotCreated \/ FiltersLost \/ ReopenFails \/ NotReopened
           \/ SendFails \/ Receive \/ TooLong \/ ReceiveFails
  <2>1. /\ at' \in {"greet", "idle", "dead", "failed"}
        /\ UNCHANGED <<number, request, alive, born, settings>>
    BY <1>7 DEF Create, CreateFails, NotCreated, FiltersLost, ReopenFails, NotReopened,
                SendFails, Receive, TooLong, ReceiveFails, Goto
  <2> QED BY <1>0, <2>1 DEF SInv, Since, OwnSettings, Sent
<1>8. CASE GiveUp
  <2>1. at' = "idle" /\ (alive' => alive) /\ UNCHANGED <<number, request, born, settings>>
    BY <1>8 DEF GiveUp, Goto
  <2> QED BY <1>0, <2>1 DEF SInv, Since, OwnSettings, Sent
<1>9. CASE Greet \/ Answer \/ Close \/ OthersLock \/ OthersUnlock \/ UNCHANGED vars
  <2>1. UNCHANGED <<number, request, at, alive, born, settings>>
    BY <1>9 DEF Greet, Answer, Close, OthersLock, OthersUnlock, vars, sessionVars
  <2> QED BY <1>0, <2>1 DEF SInv, Since, OwnSettings, Sent
<1> QED
  BY <1>1, <1>2, <1>3, <1>4, <1>5, <1>6, <1>7, <1>8, <1>9 DEF Next, WorkerStep, Done

\* A query is sent with every setting its request gives but those search()
\* passed over, with no earlier request's filters or grouping, and with nothing
\* that was set before the client was made; where the request makes none,
\* settings of earlier requests may be in it.
THEOREM SessionOwnSettings == Spec => []OwnSettings
<1>1. Init => SInv
  BY InitIInv DEF SInv, Since, OwnSettings, Sent, Init
<1>2. SInv => OwnSettings
  BY DEF SInv
<1> QED BY <1>1, <1>2, StepSInv, PTL DEF Spec
==============================================================================
