---------------------------------- MODULE Agent ----------------------------------
(***************************************************************************)
(* The elac-board agent process (Go): main(), App and WebSocketClient, the *)
(* listener goroutine that answers the server's requests, and the server   *)
(* at the other end of the WebSocket.                                      *)
(*                                                                         *)
(* main connects, starts a listener, then waits for SIGINT or for the      *)
(* listener to end; in the second case it redials a bounded number of      *)
(* times, starts a second listener and from then on waits for SIGINT only. *)
(* Links are numbered in the order they are dialled and listener g is the  *)
(* goroutine started after link g came up; both reach the connection       *)
(* through the shared field conn, as the code does.                        *)
(***************************************************************************)
EXTENDS Integers, Sequences, FiniteSets

CONSTANTS
  MaxRetries,   \* reconnect_max_retries of the configuration
  MaxRequests,  \* bound: requests the server sends on one link
  Kinds         \* the kinds of request the server sends, a subset of AllKinds

\* What handleMessage distinguishes in a request.
AllKinds == {"garbage", "ping", "collect", "badCollect", "other"}

ASSUME AgentAssumption ==
  /\ MaxRetries \in Nat
  /\ MaxRequests \in Nat
  /\ Kinds \subseteq AllKinds

VARIABLES
  proc,      \* the process: running, or how it ended
  main,      \* where the main goroutine is
  attempt,   \* dials WebSocketClient.Reconnect has made
  sig,       \* the interrupt channel (capacity 1) holds a signal
  conn,      \* c.conn: the link in use, 0 when nil
  link,      \* each link as the agent's TCP stack sees it
  listener,  \* where each listener goroutine is
  reply,     \* the response a listener is about to send
  sent,      \* requests the server has sent on each link
  taken,     \* how many of them ReadMessage has returned
  answers,   \* responses the server has received on each link
  wsDone,    \* c.done is closed
  appDone,   \* the done channel of App of each generation is closed
  mu         \* holder of c.mu: Nobody, MainThread, or a listener

vars == <<proc, main, attempt, sig, conn, link, listener, reply, sent, taken,
          answers, wsDone, appDone, mu>>

Links == 1..2

Nobody == 0
MainThread == 3

NoId == 0        \* the literal id "error" of an error response
NoSession == 0   \* the empty session id

Requests == [id : 1..MaxRequests, session : Links, kind : Kinds]
Responses == [id : 0..MaxRequests, session : 0..2, status : {"ok", "error"}]
NoReply == [id |-> NoId, session |-> NoSession, status |-> "none"]

-----------------------------------------------------------------------------
(* The protocol package and the message handler.                           *)

NewResponse(req) == [id |-> req.id, session |-> req.session, status |-> "ok"]

NewErrorResponse(session) ==
  [id |-> NoId, session |-> session, status |-> "error"]

\* The responses handleMessage may give: a collect that names a known collector
\* still fails when its file cannot be read.
HandleMessage(req) ==
  CASE req.kind = "garbage"    -> {NewErrorResponse(NoSession)}
    [] req.kind = "badCollect" -> {NewErrorResponse(req.session)}
    [] req.kind = "collect"    -> {NewResponse(req), NewErrorResponse(req.session)}
    [] OTHER                   -> {NewResponse(req)}

-----------------------------------------------------------------------------
(* main, App.Start, App.Reconnect, App.Stop                                *)

Init ==
  /\ proc = "running"
  /\ main = "connect"
  /\ attempt = 0
  /\ sig = FALSE
  /\ conn = 0
  /\ link = [c \in Links |-> "none"]
  /\ listener = [g \in Links |-> "none"]
  /\ reply = [g \in Links |-> NoReply]
  /\ sent = [c \in Links |-> <<>>]
  /\ taken = [c \in Links |-> 0]
  /\ answers = [c \in Links |-> <<>>]
  /\ wsDone = FALSE
  /\ appDone = [g \in Links |-> FALSE]
  /\ mu = Nobody

network == <<sent, taken, answers>>
goroutines == <<listener, reply, wsDone, appDone>>

\* A dial that succeeds: c.conn is overwritten and a listener is started.
LinkUp(c) ==
  /\ conn' = c
  /\ link' = [link EXCEPT ![c] = "open"]
  /\ listener' = [listener EXCEPT ![c] = "read"]

\* App.Start connects and spawns the first listener.
StartOk ==
  /\ proc = "running" /\ main = "connect"
  /\ LinkUp(1)
  /\ main' = "notify"
  /\ UNCHANGED <<proc, attempt, sig, reply, wsDone, appDone, mu, network>>

\* App.Start fails: logger.Fatal ends the process.
StartFails ==
  /\ proc = "running" /\ main = "connect"
  /\ proc' = "fatal"
  /\ UNCHANGED <<main, attempt, sig, conn, link, goroutines, mu, network>>

\* signal.Notify: before it, SIGINT has its default disposition.
Notify ==
  /\ proc = "running" /\ main = "notify"
  /\ main' = "select"
  /\ UNCHANGED <<proc, attempt, sig, conn, link, goroutines, mu, network>>

\* The user presses Ctrl+C.
Interrupt ==
  /\ proc = "running"
  /\ IF main \in {"connect", "notify"}
     THEN proc' = "killed" /\ UNCHANGED sig
     ELSE sig' = TRUE /\ UNCHANGED proc
  /\ UNCHANGED <<main, attempt, conn, link, goroutines, mu, network>>

\* case <-interrupt of the select, and the later plain <-interrupt.
TakeSignal ==
  /\ proc = "running" /\ main \in {"select", "signal"}
  /\ sig
  /\ sig' = FALSE
  /\ main' = "stop"
  /\ UNCHANGED <<proc, attempt, conn, link, goroutines, mu, network>>

\* Mutant: main looks at the link, not at the channel the listener closes.
SelectLinkDown ==
  /\ proc = "running" /\ main = "select"
  /\ link[1] # "open"
  /\ main' = "dial"
  /\ UNCHANGED <<proc, attempt, sig, conn, link, goroutines, mu, network>>

\* case <-application.Done() of the select: the first listener has ended.
SelectDone ==
  /\ proc = "running" /\ main = "select"
  /\ appDone[1]
  /\ main' = "dial"
  /\ UNCHANGED <<proc, attempt, sig, conn, link, goroutines, mu, network>>

\* The loop condition of WebSocketClient.Reconnect after n dials.
MayRedial(n) == n < MaxRetries

\* A dial of Reconnect succeeds: App.Reconnect makes a new a.done and starts the
\* second listener; main goes on to its last wait.
RedialOk ==
  /\ proc = "running" /\ main = "dial"
  /\ MayRedial(attempt)
  /\ attempt' = attempt + 1
  /\ LinkUp(2)
  /\ main' = "signal"
  /\ UNCHANGED <<proc, sig, reply, wsDone, appDone, mu, network>>

\* A dial of Reconnect fails, the last one included: sleep, then loop.
RedialFails ==
  /\ proc = "running" /\ main = "dial"
  /\ MayRedial(attempt)
  /\ attempt' = attempt + 1
  /\ main' = "sleep"
  /\ UNCHANGED <<proc, sig, conn, link, goroutines, mu, network>>

WakeUp ==
  /\ proc = "running" /\ main = "sleep"
  /\ main' = "dial"
  /\ UNCHANGED <<proc, attempt, sig, conn, link, goroutines, mu, network>>

\* Reconnect gives up and main returns: the deferred Stop runs.
GiveUp ==
  /\ proc = "running" /\ main = "dial"
  /\ ~MayRedial(attempt)
  /\ main' = "stop"
  /\ UNCHANGED <<proc, attempt, sig, conn, link, goroutines, mu, network>>

\* Mutant: Close takes no lock.
LockCloseUnguarded ==
  /\ proc = "running" /\ main = "stop"
  /\ mu' = MainThread
  /\ main' = "close"
  /\ UNCHANGED <<proc, attempt, sig, conn, link, goroutines, network>>

\* Close: c.mu.Lock().
LockClose ==
  /\ proc = "running" /\ main = "stop"
  /\ mu = Nobody
  /\ mu' = MainThread
  /\ main' = "close"
  /\ UNCHANGED <<proc, attempt, sig, conn, link, goroutines, network>>

\* Close: the close message is written, the connection closed, the lock released.
Close ==
  /\ proc = "running" /\ main = "close"
  /\ link' = [link EXCEPT ![conn] = "closed"]
  /\ mu' = Nobody
  /\ main' = "returned"
  /\ UNCHANGED <<proc, attempt, sig, conn, goroutines, network>>

\* main returns from its deferred call: the process ends with its goroutines.
Exit ==
  /\ proc = "running" /\ main = "returned"
  /\ proc' = "exited"
  /\ UNCHANGED <<main, attempt, sig, conn, link, goroutines, mu, network>>

-----------------------------------------------------------------------------
(* The listener goroutine: Listen, send and the deferred closes            *)

\* Mutant: an error response is taken for an error and skipped with continue.
ReadSkippingErrors(g) ==
  /\ proc = "running" /\ listener[g] = "read"
  /\ link[conn] # "lost"
  /\ taken[conn] < Len(sent[conn])
  /\ taken' = [taken EXCEPT ![conn] = @ + 1]
  /\ \E r \in HandleMessage(sent[conn][taken[conn] + 1]) :
       IF r.status = "error"
       THEN UNCHANGED <<reply, listener>>
       ELSE /\ reply' = [reply EXCEPT ![g] = r]
            /\ listener' = [listener EXCEPT ![g] = "send"]
  /\ UNCHANGED <<proc, main, attempt, sig, conn, link, sent, answers, wsDone,
                 appDone, mu>>

\* ReadMessage returns a request and the handler makes the response to it. What
\* has arrived before the peer closed is still read.
ReadRequest(g) ==
  /\ proc = "running" /\ listener[g] = "read"
  /\ link[conn] # "lost"
  /\ taken[conn] < Len(sent[conn])
  /\ taken' = [taken EXCEPT ![conn] = @ + 1]
  /\ \E r \in HandleMessage(sent[conn][taken[conn] + 1]) :
       reply' = [reply EXCEPT ![g] = r]
  /\ listener' = [listener EXCEPT ![g] = "send"]
  /\ UNCHANGED <<proc, main, attempt, sig, conn, link, sent, answers, wsDone,
                 appDone, mu>>

\* ReadMessage fails: closed by either side (after what was buffered) or lost.
ReadError(g) ==
  /\ proc = "running" /\ listener[g] = "read"
  /\ \/ link[conn] \in {"lost", "closed"}
     \/ link[conn] = "peerClosed" /\ taken[conn] = Len(sent[conn])
  /\ listener' = [listener EXCEPT ![g] = "closeWs"]
  /\ UNCHANGED <<proc, main, attempt, sig, conn, link, reply, wsDone, appDone,
                 mu, network>>

\* send: c.mu.Lock().
LockSend(g) ==
  /\ proc = "running" /\ listener[g] = "send"
  /\ mu = Nobody
  /\ mu' = g
  /\ listener' = [listener EXCEPT ![g] = "write"]
  /\ UNCHANGED <<proc, main, attempt, sig, conn, link, reply, wsDone, appDone,
                 network>>

\* send: the response is written, the lock released. On a link the peer has left
\* the write may still succeed, into a buffer nobody reads.
WriteOk(g) ==
  /\ proc = "running" /\ listener[g] = "write"
  /\ link[conn] # "closed"
  /\ answers' = IF link[conn] = "open"
                THEN [answers EXCEPT ![conn] = Append(@, reply[g])]
                ELSE answers
  /\ reply' = [reply EXCEPT ![g] = NoReply]
  /\ mu' = Nobody
  /\ listener' = [listener EXCEPT ![g] = "read"]
  /\ UNCHANGED <<proc, main, attempt, sig, conn, link, sent, taken, wsDone,
                 appDone>>

\* Mutant: the error path of send returns without unlocking.
WriteErrorKeepsLock(g) ==
  /\ proc = "running" /\ listener[g] = "write"
  /\ link[conn] # "open"
  /\ reply' = [reply EXCEPT ![g] = NoReply]
  /\ listener' = [listener EXCEPT ![g] = "closeWs"]
  /\ UNCHANGED <<proc, main, attempt, sig, conn, link, wsDone, appDone, mu,
                 network>>

\* send: the write fails, Listen returns.
WriteError(g) ==
  /\ proc = "running" /\ listener[g] = "write"
  /\ link[conn] # "open"
  /\ reply' = [reply EXCEPT ![g] = NoReply]
  /\ mu' = Nobody
  /\ listener' = [listener EXCEPT ![g] = "closeWs"]
  /\ UNCHANGED <<proc, main, attempt, sig, conn, link, wsDone, appDone, network>>

\* defer close(c.done) of Listen. c.done is made once, by NewWebSocketClient:
\* closing it a second time panics and takes the process down.
CloseWsDone(g) ==
  /\ proc = "running" /\ listener[g] = "closeWs"
  /\ IF wsDone
     THEN proc' = "panicked" /\ UNCHANGED <<wsDone, listener>>
     ELSE /\ wsDone' = TRUE
          /\ listener' = [listener EXCEPT ![g] = "closeApp"]
          /\ UNCHANGED proc
  /\ UNCHANGED <<main, attempt, sig, conn, link, reply, appDone, mu, network>>

\* Mutant: the goroutine ends without closing a.done.
EndSilently(g) ==
  /\ proc = "running" /\ listener[g] = "closeApp"
  /\ listener' = [listener EXCEPT ![g] = "ended"]
  /\ UNCHANGED <<proc, main, attempt, sig, conn, link, reply, wsDone, appDone,
                 mu, network>>

\* defer close(a.done) of the goroutine App started.
CloseAppDone(g) ==
  /\ proc = "running" /\ listener[g] = "closeApp"
  /\ appDone' = [appDone EXCEPT ![g] = TRUE]
  /\ listener' = [listener EXCEPT ![g] = "ended"]
  /\ UNCHANGED <<proc, main, attempt, sig, conn, link, reply, wsDone, mu, network>>

-----------------------------------------------------------------------------
(* The server and the network, for as long as the process runs.            *)

agentState == <<proc, main, attempt, sig, conn, goroutines, mu>>

\* The server sends the next request of the session on link c.
ServerSend(c, kind) ==
  /\ proc = "running"
  /\ link[c] = "open"
  /\ Len(sent[c]) < MaxRequests
  /\ sent' = [sent EXCEPT ![c] =
                Append(@, [id |-> Len(@) + 1, session |-> c, kind |-> kind])]
  /\ UNCHANGED <<agentState, link, taken, answers>>

\* The server ends its handler and closes the connection.
ServerClose(c) ==
  /\ proc = "running"
  /\ link[c] = "open"
  /\ link' = [link EXCEPT ![c] = "peerClosed"]
  /\ UNCHANGED <<agentState, network>>

\* The connection breaks (also: no pong within the server's ping timeout while
\* the listener is busy): what was in transit is gone.
LinkLost(c) ==
  /\ proc = "running"
  /\ link[c] \in {"open", "peerClosed"}
  /\ link' = [link EXCEPT ![c] = "lost"]
  /\ UNCHANGED <<agentState, network>>

-----------------------------------------------------------------------------
MainStep ==
  \/ StartOk \/ StartFails \/ Notify \/ TakeSignal \/ SelectDone
  \/ RedialOk \/ RedialFails \/ WakeUp \/ GiveUp \/ LockClose \/ Close \/ Exit

ListenerStep(g) ==
  \/ ReadRequest(g) \/ ReadError(g) \/ LockSend(g) \/ WriteOk(g)
  \/ WriteError(g) \/ CloseWsDone(g) \/ CloseAppDone(g)

Server(c) ==
  \/ \E k \in Kinds : ServerSend(c, k)
  \/ ServerClose(c) \/ LinkLost(c)

Next ==
  \/ MainStep
  \/ Interrupt
  \/ \E g \in Links : ListenerStep(g)
  \/ \E c \in Links : Server(c)

\* The Go scheduler runs every runnable goroutine, dials and writes return, and a
\* goroutine blocked on c.mu gets it. The server and the user owe nothing.
Fairness == WF_vars(MainStep) /\ \A g \in Links : WF_vars(ListenerStep(g))

Spec == Init /\ [][Next]_vars /\ Fairness

-----------------------------------------------------------------------------
(* Properties                                                              *)

\* The type invariant: main redials at most MaxRetries times (the loop of
\* WebSocketClient.Reconnect), and no response has an id the server did not use.
TypeOK ==
  /\ proc \in {"running", "fatal", "killed", "panicked", "exited"}
  /\ main \in {"connect", "notify", "select", "dial", "sleep", "signal", "stop",
               "close", "returned"}
  /\ attempt \in 0..MaxRetries
  /\ sig \in BOOLEAN
  /\ conn \in 0..2
  /\ link \in [Links -> {"none", "open", "peerClosed", "lost", "closed"}]
  /\ listener \in [Links -> {"none", "read", "send", "write", "closeWs",
                             "closeApp", "ended"}]
  /\ reply \in [Links -> Responses \cup {NoReply}]
  /\ sent \in [Links -> Seq(Requests)]
  /\ taken \in [Links -> Nat]
  /\ answers \in [Links -> Seq(Responses)]
  /\ wsDone \in BOOLEAN
  /\ appDone \in [Links -> BOOLEAN]
  /\ mu \in {Nobody, MainThread} \cup Links

\* A listener that still uses the connection.
Active(g) == listener[g] \in {"read", "send", "write"}

\* c.conn, a field shared without a lock, is only ever used by the listener started for
\* that link.
OneReader == \A g \in Links : Active(g) => conn = g

\* The close message of Stop and a response of a listener are never written at the same
\* time (c.mu).
OneWriter ==
  /\ main = "close" => \A g \in Links : listener[g] # "write"
  /\ \A g, h \in Links : listener[g] = "write" /\ listener[h] = "write" => g = h

\* The WebSocket library allows one concurrent reader and one concurrent writer of a
\* connection: Connect, Listen, send and Close keep to that, through redials and signals.
ConnUsedByOne == OneReader /\ OneWriter

\* A response belongs to a request when it is of its session, and has its id if it was
\* served.  Error responses have the literal id "error" (NewErrorResponse), and none
\* knows the session of a message that could not be parsed.
BelongsTo(response, req) ==
  /\ response.session = req.session \/ req.kind = "garbage"
  /\ response.id = req.id \/ response.status = "error"

\* The i-th response the server gets on a link belongs to the i-th request it sent on
\* that same link (Listen, send): none is skipped, doubled, swapped or, when the
\* connection was replaced while a response was being made, sent to the next one.
InOrderAnswers ==
  \A c \in Links :
    /\ Len(answers[c]) =< Len(sent[c])
    /\ \A i \in 1..Len(answers[c]) : BelongsTo(answers[c][i], sent[c][i])

\* What validate_response of the test server demands of every response: the id of the
\* request it answers.  A collect that fails is answered by NewErrorResponse.
IdOfTheRequest ==
  \A c \in Links : \A i \in 1..Len(answers[c]) : answers[c][i].id = sent[c][i].id

\* The process panics only when a reconnected link has ended as well: c.done, made
\* once, is then closed for the second time.
PanicOnlyAfterReconnect ==
  proc = "panicked" =>
    conn = 2 /\ listener[1] = "ended" /\ listener[2] = "closeWs"

\* Redialling starts only after the previous listener has left the connection for
\* good, and the number of dials is bounded by the configuration.
RedialAfterListener ==
  [][main' \in {"dial", "sleep"} =>
       listener[1] = "ended" /\ attempt' =< MaxRetries]_vars

\* Ctrl+C ends the process: nothing main or the listener does, a redial in
\* progress or a response being written included, can keep it alive.
InterruptStops == sig ~> proc # "running"

\* The end of a link is acted upon: the first by a redial or the end of the
\* process, the second by the end of the process, whatever the server does.
LinkEndNoticed ==
  /\ (conn = 1 /\ link[1] \in {"peerClosed", "lost"})
       ~> (main = "dial" \/ proc # "running")
  /\ (conn = 2 /\ link[2] \in {"peerClosed", "lost"}) ~> proc # "running"

\* Every request on a link that stays up is answered while the process lives.
RequestAnswered ==
  \A c \in Links : \A i \in 1..MaxRequests :
    Len(sent[c]) >= i ~> (Len(answers[c]) >= i \/ link[c] # "open"
                            \/ proc # "running")
=============================================================================
