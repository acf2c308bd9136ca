------------------------------- MODULE Agent_proofs -------------------------------
(***************************************************************************)
(* Proofs about Agent, for any number of redials and of requests and any   *)
(* kinds of request.                                                       *)
(***************************************************************************)
EXTENDS Agent, TLAPS

\* Which listeners exist at which point of main, and which link c.conn is: the
\* second listener is started only when the first has ended.
Generations ==
  /\ conn = 0 => main = "connect" /\ \A g \in Links : listener[g] = "none" /\ link[g] = "none"
  /\ main = "connect" => conn = 0
  /\ conn = 1 => listener[1] # "none" /\ listener[2] = "none" /\ link[2] = "none"
  /\ conn = 2 => listener[1] = "ended" /\ main \in {"signal", "stop", "close", "returned"}
  /\ main \in {"dial", "sleep"} => conn = 1 /\ listener[1] = "ended"

\* The channels are closed by the listeners, at their end.
ChannelsClosedLast ==
  /\ appDone[1] => listener[1] = "ended"
  /\ wsDone => listener[1] \in {"closeApp", "ended"}

\* c.mu is held by exactly those who write.
MutexHeldToWrite ==
  /\ mu = MainThread <=> main = "close"
  /\ \A g \in Links : mu = g <=> listener[g] = "write"

\* Each response received is one that handleMessage makes of the request in its place.
HandledInOrder ==
  \A c \in Links :
    /\ Len(answers[c]) =< Len(sent[c])
    /\ \A i \in 1..Len(answers[c]) : answers[c][i] \in HandleMessage(sent[c][i])

Owed(c) == IF listener[c] \in {"send", "write"} THEN 1 ELSE 0

\* The requests taken are answered one by one; on a link that is up all but the one
\* in hand have been answered.
AnswersInStepOf(c) ==
  /\ link[c] = "none" => sent[c] = <<>> /\ taken[c] = 0 /\ answers[c] = <<>>
  /\ Len(answers[c]) + Owed(c) =< taken[c] /\ taken[c] =< Len(sent[c])
  /\ link[c] = "open" => Len(answers[c]) + Owed(c) = taken[c]
  /\ Owed(c) = 1 => reply[c] \in HandleMessage(sent[c][taken[c]])

AnswersInStep == \A c \in Links : AnswersInStepOf(c)

IInv ==
  /\ TypeOK /\ Generations /\ ChannelsClosedLast /\ OneReader
  /\ MutexHeldToWrite /\ OneWriter /\ AnswersInStep /\ HandledInOrder
  /\ PanicOnlyAfterReconnect

-----------------------------------------------------------------------------
LEMMA HandleMessageType ==
  ASSUME NEW req \in Requests, NEW r \in HandleMessage(req)
  PROVE  r \in Responses
  BY AgentAssumption DEF Requests, Responses, HandleMessage, NewResponse, NewErrorResponse,
     NoId, NoSession, Links, AllKinds

\* Whatever handleMessage returns belongs to the request it was called with.
LEMMA HandlersResponse ==
  ASSUME NEW req \in Requests, NEW r \in HandleMessage(req)
  PROVE  BelongsTo(r, req)
  BY DEF Requests, HandleMessage, NewResponse, NewErrorResponse, BelongsTo

LEMMA InitIInv == Init => IInv
<1> SUFFICES ASSUME Init PROVE IInv
  OBVIOUS
<1> USE AgentAssumption DEF Init
<1>1. TypeOK
  <2>1. sent \in [Links -> Seq(Requests)] /\ answers \in [Links -> Seq(Responses)]
    OBVIOUS
  <2>2. sig \in BOOLEAN /\ wsDone \in BOOLEAN /\ appDone \in [Links -> BOOLEAN]
    BY Zenon
  <2> QED
    BY <2>1, <2>2 DEF TypeOK, Links, Nobody
<1>2. AnswersInStep /\ HandledInOrder
  BY DEF AnswersInStep, AnswersInStepOf, HandledInOrder, Owed
<1> QED
  BY <1>1, <1>2 DEF IInv, Generations, ChannelsClosedLast, OneReader, Active,
     MutexHeldToWrite, OneWriter, PanicOnlyAfterReconnect, Links, Nobody, MainThread

LEMMA NextIInv == IInv /\ [Next]_vars => IInv'
<1> SUFFICES ASSUME IInv, [Next]_vars PROVE IInv'
  OBVIOUS
<1> USE AgentAssumption DEF IInv, TypeOK, Generations, ChannelsClosedLast, OneReader,
        Active, MutexHeldToWrite, OneWriter, AnswersInStep, AnswersInStepOf, Owed,
        HandledInOrder,
        PanicOnlyAfterReconnect, Links, Nobody, MainThread, network, goroutines,
        agentState, LinkUp
<1>1. CASE StartOk
  BY <1>1 DEF StartOk
<1>2. CASE StartFails
  BY <1>2 DEF StartFails
<1>3. CASE Notify
  BY <1>3 DEF Notify
<1>4. CASE TakeSignal
  BY <1>4 DEF TakeSignal
<1>5. CASE SelectDone
  BY <1>5 DEF SelectDone
<1>6. CASE RedialOk
  BY <1>6 DEF RedialOk, MayRedial
<1>7. CASE RedialFails
  BY <1>7 DEF RedialFails, MayRedial
<1>8. CASE WakeUp
  BY <1>8 DEF WakeUp
<1>9. CASE GiveUp
  BY <1>9 DEF GiveUp, MayRedial
<1>10. CASE LockClose
  BY <1>10 DEF LockClose
<1>11. CASE Close
  BY <1>11 DEF Close
<1>12. CASE Exit
  BY <1>12 DEF Exit
<1>13. CASE Interrupt
  BY <1>13 DEF Interrupt
<1>14. ASSUME NEW g \in Links, ReadRequest(g) PROVE IInv'
  <2>1. conn = g
    BY <1>14 DEF ReadRequest
  <2>2. PICK r \in HandleMessage(sent[g][taken[g] + 1]) :
          /\ reply' = [reply EXCEPT ![g] = r]
          /\ taken' = [taken EXCEPT ![g] = @ + 1]
          /\ listener' = [listener EXCEPT ![g] = "send"]
          /\ listener[g] = "read" /\ proc = "running" /\ taken[g] < Len(sent[g])
          /\ UNCHANGED <<proc, main, attempt, sig, conn, link, sent, answers, wsDone,
                         appDone, mu>>
    BY <1>14, <2>1 DEF ReadRequest
  <2>3. r \in Responses
    BY <2>2, HandleMessageType
  <2>4. TypeOK'
    BY <2>2, <2>3
  <2>5. Generations' /\ ChannelsClosedLast' /\ OneReader' /\ MutexHeldToWrite' /\ OneWriter'
    BY <2>1, <2>2
  <2>6. AnswersInStep'
    <3>1. Owed(g) = 0 /\ Owed(g)' = 1
      BY <2>2
    <3>2. \A c \in Links : c # g => /\ Owed(c)' = Owed(c) /\ reply'[c] = reply[c]
                                  /\ taken'[c] = taken[c]
      BY <2>2
    <3>3. reply'[g] = r /\ taken'[g] = taken[g] + 1
      BY <2>2
    <3> HIDE DEF Owed
    <3>4. \A c \in Links : c # g => AnswersInStepOf(c)'
      BY <2>2, <3>2 DEF AnswersInStepOf
    <3>5. AnswersInStepOf(g)'
      BY <2>2, <3>1, <3>3 DEF AnswersInStepOf
    <3> QED
      BY <3>4, <3>5
  <2>7. HandledInOrder' /\ PanicOnlyAfterReconnect'
    BY <2>2
  <2> QED
    BY <2>4, <2>5, <2>6, <2>7
<1>15. ASSUME NEW g \in Links, ReadError(g) PROVE IInv'
  BY <1>15 DEF ReadError
<1>16. ASSUME NEW g \in Links, LockSend(g) PROVE IInv'
  BY <1>16 DEF LockSend
<1>17. ASSUME NEW g \in Links, WriteOk(g) PROVE IInv'
  <2>1. conn = g /\ Owed(g) = 1
    BY <1>17 DEF WriteOk
  <2>2. reply[g] \in Responses /\ reply[g] \in HandleMessage(sent[g][taken[g]])
    BY <2>1, HandleMessageType
  <2>3. TypeOK'
    BY <1>17, <2>1, <2>2 DEF WriteOk
  <2>4. Generations' /\ ChannelsClosedLast' /\ OneReader' /\ MutexHeldToWrite' /\ OneWriter'
        /\ PanicOnlyAfterReconnect'
    BY <1>17, <2>1 DEF WriteOk
  <2>5. AnswersInStep'
    <3>1. \A c \in Links : c # g => AnswersInStepOf(c)'
      BY <1>17, <2>1 DEF WriteOk
    <3>2. Owed(g)' = 0 /\ taken' = taken /\ sent' = sent /\ link' = link
      BY <1>17 DEF WriteOk
    <3>3. Len(answers'[g]) = IF link[g] = "open" THEN Len(answers[g]) + 1 ELSE Len(answers[g])
      BY <1>17, <2>1 DEF WriteOk
    <3>4. link[g] # "none"
      BY <2>1
    <3> HIDE DEF Owed
    <3>5. AnswersInStepOf(g)'
      BY <2>1, <3>2, <3>3, <3>4
    <3> QED
      BY <3>1, <3>5
  <2>6. HandledInOrder'
    BY <1>17, <2>1, <2>2 DEF WriteOk
  <2> QED
    BY <2>3, <2>4, <2>5, <2>6
<1>18. ASSUME NEW g \in Links, WriteError(g) PROVE IInv'
  BY <1>18 DEF WriteError
<1>19. ASSUME NEW g \in Links, CloseWsDone(g) PROVE IInv'
  <2>1. CASE wsDone
    BY <1>19, <2>1 DEF CloseWsDone
  <2>2. CASE ~wsDone
    <3>1. /\ wsDone' \in BOOLEAN /\ UNCHANGED proc
          /\ listener[g] = "closeWs" /\ listener' = [listener EXCEPT ![g] = "closeApp"]
      BY <1>19, <2>2, Zenon DEF CloseWsDone
    <3> QED
      BY <1>19, <2>2, <3>1 DEF CloseWsDone
  <2> QED
    BY <2>1, <2>2
<1>20. ASSUME NEW g \in Links, CloseAppDone(g) PROVE IInv'
  BY <1>20 DEF CloseAppDone
<1>21. ASSUME NEW c \in Links, NEW k \in Kinds, ServerSend(c, k) PROVE IInv'
  <2> DEFINE req == [id |-> Len(sent[c]) + 1, session |-> c, kind |-> k]
  <2>1. req \in Requests
    BY <1>21 DEF ServerSend, Requests
  <2>2. sent' = [sent EXCEPT ![c] = Append(@, req)]
    BY <1>21 DEF ServerSend
  <2> HIDE DEF req
  <2>3. TypeOK'
    BY <1>21, <2>1, <2>2 DEF ServerSend
  <2>4. Generations' /\ ChannelsClosedLast' /\ OneReader' /\ MutexHeldToWrite' /\ OneWriter'
        /\ PanicOnlyAfterReconnect'
    BY <1>21 DEF ServerSend
  <2>5. \A d \in Links : /\ Len(sent'[d]) >= Len(sent[d])
                         /\ \A i \in 1..Len(sent[d]) : sent'[d][i] = sent[d][i]
    BY <2>1, <2>2
  <2>6. /\ link[c] # "none"
        /\ UNCHANGED <<link, listener, taken, reply, answers>>
    BY <1>21 DEF ServerSend
  <2>7. AnswersInStep'
    <3> SUFFICES ASSUME NEW d \in Links PROVE AnswersInStepOf(d)'
      OBVIOUS
    <3>1. Owed(d)' = Owed(d)
      BY <2>6
    <3>2. Owed(d) = 1 => taken[d] \in 1..Len(sent[d])
      OBVIOUS
    <3>3. link[d] = "none" => sent'[d] = sent[d]
      BY <2>2, <2>6
    <3> HIDE DEF Owed
    <3> QED
      BY <2>5, <2>6, <3>1, <3>2, <3>3
  <2>8. HandledInOrder'
    <3> SUFFICES ASSUME NEW d \in Links
                 PROVE  /\ Len(answers'[d]) =< Len(sent'[d])
                        /\ \A i \in 1..Len(answers'[d]) :
                             answers'[d][i] \in HandleMessage(sent'[d][i])
      OBVIOUS
    <3>1. Len(answers'[d]) =< Len(sent'[d])
      BY <2>3, <2>5, <2>6
    <3>2. ASSUME NEW i \in 1..Len(answers'[d])
          PROVE  answers'[d][i] \in HandleMessage(sent'[d][i])
      <4>1. i \in 1..Len(answers[d]) /\ i \in 1..Len(sent[d])
        BY <2>6
      <4>2. sent'[d][i] = sent[d][i] /\ answers'[d][i] = answers[d][i]
        BY <2>5, <2>6, <4>1
      <4> QED
        BY <4>1, <4>2
    <3> QED
      BY <3>1, <3>2
  <2> QED
    BY <2>3, <2>4, <2>7, <2>8
<1>22. ASSUME NEW c \in Links, ServerClose(c) PROVE IInv'
  BY <1>22 DEF ServerClose
<1>23. ASSUME NEW c \in Links, LinkLost(c) PROVE IInv'
  BY <1>23 DEF LinkLost
<1>24. CASE UNCHANGED vars
  BY <1>24 DEF vars
<1> QED
  BY <1>1, <1>2, <1>3, <1>4, <1>5, <1>6, <1>7, <1>8, <1>9, <1>10, <1>11, <1>12, <1>13, <1>14, <1>15, <1>16, <1>17, <1>18, <1>19, <1>20, <1>21, <1>22, <1>23, <1>24
     DEF Next, MainStep, ListenerStep, Server

LEMMA Invariance == Spec => []IInv
  BY InitIInv, NextIInv, PTL DEF Spec

-----------------------------------------------------------------------------
\* The type invariant; in it, that Reconnect dials at most MaxRetries times.
THEOREM TypeCorrect == Spec => []TypeOK
<1>1. IInv => TypeOK
  BY DEF IInv
<1> QED
  BY <1>1, Invariance, PTL

\* The unlocked field c.conn is read by one goroutine, the one started for it, and send and
\* Close never write to the connection at the same time.
THEOREM SingleUser == Spec => []ConnUsedByOne
<1>1. IInv => ConnUsedByOne
  BY DEF IInv, ConnUsedByOne
<1> QED
  BY <1>1, Invariance, PTL

\* The server receives, on each link, answers to the requests of that link, in order.
THEOREM AnswersInOrder == Spec => []InOrderAnswers
<1>1. IInv => InOrderAnswers
  <2> SUFFICES ASSUME IInv, NEW c \in Links, NEW i \in 1..Len(answers[c])
               PROVE  BelongsTo(answers[c][i], sent[c][i])
    BY DEF IInv, HandledInOrder, InOrderAnswers
  <2>1. sent[c][i] \in Requests
    BY DEF IInv, HandledInOrder, TypeOK
  <2>2. answers[c][i] \in HandleMessage(sent[c][i])
    BY DEF IInv, HandledInOrder
  <2> QED
    BY <2>1, <2>2, HandlersResponse
<1> QED
  BY <1>1, Invariance, PTL

\* The double close of c.done happens after a reconnect or not at all.
THEOREM PanicCause == Spec => []PanicOnlyAfterReconnect
<1>1. IInv => PanicOnlyAfterReconnect
  BY DEF IInv
<1> QED
  BY <1>1, Invariance, PTL

\* App.Reconnect runs only when the listener before it has ended.
THEOREM RedialOrder == Spec => RedialAfterListener
<1> DEFINE Redials == main' \in {"dial", "sleep"} =>
                        listener[1] = "ended" /\ attempt' =< MaxRetries
<1>1. IInv /\ IInv' /\ [Next]_vars => [Redials]_vars
  <2> SUFFICES ASSUME IInv, IInv', [Next]_vars, main' \in {"dial", "sleep"}
               PROVE  listener[1] = "ended" /\ attempt' =< MaxRetries
    OBVIOUS
  <2>1. attempt' =< MaxRetries
    BY AgentAssumption DEF IInv, TypeOK
  <2>2. main \in {"dial", "sleep"} \/ SelectDone
    BY DEF Next, vars, MainStep, ListenerStep, Server, StartOk, StartFails, Notify,
       TakeSignal, RedialOk, RedialFails, WakeUp, GiveUp, LockClose, Close, Exit,
       Interrupt, ReadRequest, ReadError, LockSend, WriteOk, WriteError, CloseWsDone,
       CloseAppDone, ServerSend, ServerClose, LinkLost, agentState
  <2> QED
    BY <2>1, <2>2 DEF SelectDone, IInv, Generations, ChannelsClosedLast
<1> QED
  BY <1>1, Invariance, PTL DEF Spec, RedialAfterListener
=============================================================================
