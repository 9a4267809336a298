---------------------------- MODULE Phone_proofs ----------------------------
(***************************************************************************)
(* The dial thread, the server and main never get in each other's way, for *)
(* any number of connections.  NoDialDuringCall and DialHandle are not     *)
(* inductive by themselves: that the server joins the right thread depends *)
(* on the order in which main starts and stops the services (MainOrder),   *)
(* on how dial threads are numbered (Numbered, LinesInOrder), on what      *)
(* "suspended" says about the threads (Suspension), and, for               *)
(* CallsAreHandled, on a connection being on one stack only (Conns).       *)
(***************************************************************************)
EXTENDS Phone, FiniteSetTheorems, TLAPS

\* TypeOK in three parts, the Boolean variables apart.
FlagsOK == {keypad, serviceSuspended, dialStop, serverStop, started, dead} \subseteq BOOLEAN

StepsOK ==
    /\ pc[Main] \in {"dial", "serve", "wait", "joinServer", "stopDial", "joinDial",
                     "stopTest", "stopping", "teardown", "exit"}
    /\ pc[Server] \in {"none", "loop", "accept", "suspend", "joinDial", "ask", "drain",
                       "resume", "ended", "joined"} \cup InCall
    /\ \A d \in DialIds : pc[d] \in {"none", "loop", "read", "pad", "connect", "ended",
                                     "joined"} \cup InCall
    /\ DOMAIN pc = {Main} \cup Handlers

RestOK ==
    /\ conn \in [Handlers -> {0} \cup CallIds]
    /\ cancelled \subseteq Handlers
    /\ dialServiceThread \in {0} \cup DialIds
    /\ line \in [CallIds -> {"unused", "open", "peerDown", "down"}]
    /\ answer \in [CallIds -> {"none", "CALL_ACCEPT", "CALL_REJECT"}]
    /\ call \in [CallIds -> {"none", "start", "starting", "poll", "ended"}]

\* The server has accepted a connection and not let go of it.
ServerHas == {"suspend", "joinDial", "ask", "drain", "resume"} \cup InCall

\* Main has passed VoiceServer_stop.
Stopping == {"stopDial", "joinDial", "stopTest", "stopping", "teardown", "exit"}

\* The services are started in order, and the server is joined before anything
\* else is stopped.
MainOrder ==
    /\ pc[Main] = "dial" <=> dialServiceThread = 0
    /\ pc[Main] \in {"dial", "serve"} => pc[Server] = "none"
    /\ pc[Main] \in Stopping => pc[Server] = "joined"

\* Dial threads are numbered as they come; each but the first has come after a
\* connection of its own.
Numbered ==
    /\ \A d \in DialIds : pc[d] = "none" <=> d > dialServiceThread
    /\ dialServiceThread > 1 => line[dialServiceThread - 1] # "unused"
    /\ pc[Server] \in ServerHas =>
          dialServiceThread \in CallIds /\ line[dialServiceThread] # "unused"

LinesInOrder ==
    \A k \in CallIds : line[k] # "unused" => \A j \in 1 .. k - 1 : line[j] # "unused"

\* The server suspends the service if it is not suspended, and has joined its
\* thread when it talks to the user; a suspended service has no thread that
\* was not cancelled.
Suspension ==
    /\ pc[Server] \in {"none", "loop", "accept", "suspend"} => ~serviceSuspended
    /\ serviceSuspended => \A d \in DialIds : Alive(d) => d \in cancelled
    /\ pc[Server] \in ServerHas \ {"suspend", "joinDial"} =>
          \A d \in DialIds : pc[d] \in {"none", "joined"}

\* A connection is on the stack of one handler at most, which begins a call on it
\* once and hangs up before it lets go of it.
Conns ==
    /\ \A t \in Handlers : pc[t] \in InCall => conn[t] # 0
    /\ pc[Server] \in ServerHas => conn[Server] # 0
    /\ \A t \in Handlers : pc[t] = "none" => conn[t] = 0
    /\ \A t \in Handlers : conn[t] # 0 => line[conn[t]] # "unused"
    /\ \A t, u \in Handlers : conn[t] # 0 /\ conn[t] = conn[u] => t = u
    /\ \A k \in CallIds : line[k] = "unused" => call[k] = "none"
    /\ \A t \in Handlers : pc[t] = "begin" => call[conn[t]] = "none"
    /\ pc[Server] \in {"suspend", "joinDial", "ask", "drain"} => call[conn[Server]] = "none"
    /\ \A t \in Handlers : pc[t] \in {"stopTest", "stopping"} => line[conn[t]] = "down"

PhoneIInv ==
    /\ FlagsOK /\ StepsOK /\ RestOK /\ MainOrder /\ Numbered /\ LinesInOrder
    /\ Suspension /\ Conns /\ NoDialDuringCall /\ DialHandle
    /\ StoppedMeansCancelled /\ CallsAreHandled
-----------------------------------------------------------------------------
USE CallsAssumption, ThreadsAssumption
    DEF Handlers, DialIds, CallIds, At, Goto, Gone, Alive, InCall, Stopping, services,
        network, AfterDial, AfterStop, CancelPoints, CallAt, ServerHas

\* VoiceServer_start.
LEMMA ServeKeeps ==
  ASSUME PhoneIInv, Serve
  PROVE  PhoneIInv'
<1>1. FlagsOK'
  BY Zenon DEF PhoneIInv, FlagsOK, Serve
<1>2. StepsOK'
  BY DEF PhoneIInv, StepsOK, RestOK, MainOrder, Serve
<1>3. RestOK'
  BY DEF PhoneIInv, StepsOK, RestOK, MainOrder, Serve
<1>4. MainOrder' /\ LinesInOrder'
  BY DEF PhoneIInv, StepsOK, RestOK, MainOrder, LinesInOrder, DialHandle, Serve
<1>5. Numbered'
  BY DEF PhoneIInv, StepsOK, RestOK, MainOrder, LinesInOrder, Numbered, DialHandle,
         Serve
<1>6. Suspension' /\ DialHandle' /\ StoppedMeansCancelled'
  BY DEF PhoneIInv, StepsOK, RestOK, MainOrder, Numbered, Suspension, DialHandle,
         StoppedMeansCancelled, Serve
<1>7. Conns'
  BY DEF PhoneIInv, StepsOK, RestOK, MainOrder, Conns, Serve
<1>8. CallsAreHandled'
  BY DEF PhoneIInv, StepsOK, RestOK, MainOrder, Conns, CallsAreHandled, Serve
<1> QED
  BY <1>1, <1>2, <1>3, <1>4, <1>5, <1>6, <1>7, <1>8
     DEF PhoneIInv, Suspension, NoDialDuringCall

\* The end of VoiceServer_stop.
LEMMA JoinServerKeeps ==
  ASSUME PhoneIInv, JoinServer
  PROVE  PhoneIInv'
<1>1. FlagsOK'
  BY Zenon DEF PhoneIInv, FlagsOK, JoinServer
<1>2. StepsOK'
  BY DEF PhoneIInv, StepsOK, RestOK, MainOrder, JoinServer
<1>3. RestOK'
  BY DEF PhoneIInv, StepsOK, RestOK, MainOrder, JoinServer
<1>4. MainOrder' /\ LinesInOrder'
  BY DEF PhoneIInv, StepsOK, RestOK, MainOrder, LinesInOrder, DialHandle, JoinServer
<1>5. Numbered'
  BY DEF PhoneIInv, StepsOK, RestOK, MainOrder, LinesInOrder, Numbered, DialHandle,
         JoinServer
<1>6. Suspension' /\ DialHandle' /\ StoppedMeansCancelled'
  BY DEF PhoneIInv, StepsOK, RestOK, MainOrder, Numbered, Suspension, DialHandle,
         StoppedMeansCancelled, JoinServer
<1>7. Conns'
  BY DEF PhoneIInv, StepsOK, RestOK, MainOrder, Conns, JoinServer
<1>8. CallsAreHandled'
  BY DEF PhoneIInv, StepsOK, RestOK, MainOrder, Conns, CallsAreHandled, JoinServer
<1> QED
  BY <1>1, <1>2, <1>3, <1>4, <1>5, <1>6, <1>7, <1>8
     DEF PhoneIInv, Suspension, NoDialDuringCall

\* DialService_stop.
LEMMA StopDialKeeps ==
  ASSUME PhoneIInv, StopDial
  PROVE  PhoneIInv'
<1>1. FlagsOK'
  BY Zenon DEF PhoneIInv, FlagsOK, StopDial, Suspend
<1>2. StepsOK'
  BY DEF PhoneIInv, StepsOK, RestOK, MainOrder, StopDial, Suspend
<1>3. RestOK'
  BY DEF PhoneIInv, StepsOK, RestOK, MainOrder, StopDial, Suspend
<1>4. MainOrder' /\ LinesInOrder'
  BY DEF PhoneIInv, StepsOK, RestOK, MainOrder, LinesInOrder, DialHandle, StopDial,
         Suspend
<1>5. Numbered'
  <2>1. \E s \in {"stopTest", "joinDial"} : pc' = [pc EXCEPT ![Main] = s]
    BY Zenon DEF StopDial, Suspend
  <2>2. dialServiceThread' = dialServiceThread /\ line' = line
    BY DEF StopDial
  <2> QED
    BY <2>1, <2>2 DEF PhoneIInv, StepsOK, RestOK, MainOrder, Numbered, StopDial
<1>6. Suspension' /\ DialHandle' /\ StoppedMeansCancelled'
  <2>1. dialServiceThread' = dialServiceThread /\ \A d \in DialIds : pc'[d] = pc[d]
    BY DEF PhoneIInv, StepsOK, StopDial, Suspend
  <2>2. DialHandle'
    BY <2>1 DEF PhoneIInv, DialHandle
  <2>3. \A d \in DialIds : Alive(d) => d \in cancelled'
    BY DEF PhoneIInv, Suspension, DialHandle, StopDial, Suspend
  <2>4. Suspension'
    BY <2>1, <2>3
       DEF PhoneIInv, StepsOK, RestOK, MainOrder, Suspension, StopDial, Suspend
  <2>5. StoppedMeansCancelled'
    BY <2>1, <2>3
       DEF PhoneIInv, StepsOK, RestOK, MainOrder, StoppedMeansCancelled, StopDial,
           Suspend
  <2> QED
    BY <2>2, <2>4, <2>5
<1>7. Conns'
  BY DEF PhoneIInv, StepsOK, RestOK, MainOrder, Conns, StopDial, Suspend
<1>8. CallsAreHandled'
  BY DEF PhoneIInv, StepsOK, RestOK, MainOrder, Conns, CallsAreHandled, StopDial,
         Suspend
<1> QED
  BY <1>1, <1>2, <1>3, <1>4, <1>5, <1>6, <1>7, <1>8
     DEF PhoneIInv, Suspension, NoDialDuringCall

\* pthread_join in DialService_stop.
LEMMA JoinDialMainKeeps ==
  ASSUME PhoneIInv, JoinDial(Main, "stopTest")
  PROVE  PhoneIInv'
<1>1. FlagsOK'
  BY Zenon DEF PhoneIInv, FlagsOK, JoinDial
<1>2. StepsOK'
  BY DEF PhoneIInv, StepsOK, RestOK, MainOrder, JoinDial
<1>3. RestOK'
  BY DEF PhoneIInv, StepsOK, RestOK, MainOrder, JoinDial
<1>4. MainOrder' /\ LinesInOrder'
  BY DEF PhoneIInv, StepsOK, RestOK, MainOrder, LinesInOrder, DialHandle, JoinDial
<1>5. Numbered'
  BY DEF PhoneIInv, StepsOK, RestOK, MainOrder, LinesInOrder, Numbered, DialHandle,
         JoinDial
<1>6. Suspension' /\ DialHandle' /\ StoppedMeansCancelled'
  BY DEF PhoneIInv, StepsOK, RestOK, MainOrder, Numbered, Suspension, DialHandle,
         StoppedMeansCancelled, JoinDial
<1>7. Conns'
  BY DEF PhoneIInv, StepsOK, RestOK, MainOrder, Conns, JoinDial
<1>8. CallsAreHandled'
  BY DEF PhoneIInv, StepsOK, RestOK, MainOrder, Conns, CallsAreHandled, JoinDial
<1> QED
  BY <1>1, <1>2, <1>3, <1>4, <1>5, <1>6, <1>7, <1>8
     DEF PhoneIInv, Suspension, NoDialDuringCall

\* The server looks at stop.
LEMMA ServerLoopKeeps ==
  ASSUME PhoneIInv, ServerLoop
  PROVE  PhoneIInv'
<1>1. FlagsOK'
  BY Zenon DEF PhoneIInv, FlagsOK, ServerLoop
<1>2. StepsOK'
  <2>1. PICK s \in {"ended", "accept"} : pc' = [pc EXCEPT ![Server] = s]
    BY Zenon DEF ServerLoop
  <2> QED
    BY <2>1 DEF PhoneIInv, StepsOK
<1>3. RestOK'
  BY DEF PhoneIInv, StepsOK, RestOK, MainOrder, ServerLoop
<1>4. MainOrder' /\ LinesInOrder'
  BY DEF PhoneIInv, StepsOK, RestOK, MainOrder, LinesInOrder, DialHandle, ServerLoop
<1>5. Numbered'
  BY DEF PhoneIInv, StepsOK, RestOK, MainOrder, LinesInOrder, Numbered, DialHandle,
         ServerLoop
<1>6. Suspension' /\ DialHandle' /\ StoppedMeansCancelled'
  BY DEF PhoneIInv, StepsOK, RestOK, MainOrder, Numbered, Suspension, DialHandle,
         StoppedMeansCancelled, ServerLoop
<1>7. Conns'
  BY DEF PhoneIInv, StepsOK, RestOK, MainOrder, Conns, ServerLoop
<1>8. CallsAreHandled'
  BY DEF PhoneIInv, StepsOK, RestOK, MainOrder, Conns, CallsAreHandled, ServerLoop
<1> QED
  BY <1>1, <1>2, <1>3, <1>4, <1>5, <1>6, <1>7, <1>8
     DEF PhoneIInv, Suspension, NoDialDuringCall

\* The server suspends the dial service.
LEMMA ServerSuspendKeeps ==
  ASSUME PhoneIInv, ServerSuspend
  PROVE  PhoneIInv'
<1>1. FlagsOK'
  BY Zenon DEF PhoneIInv, FlagsOK, ServerSuspend, Suspend
<1>2. StepsOK'
  BY DEF PhoneIInv, StepsOK, RestOK, MainOrder, ServerSuspend, Suspend
<1>3. RestOK'
  BY DEF PhoneIInv, StepsOK, RestOK, MainOrder, ServerSuspend, Suspend
<1>4. MainOrder' /\ LinesInOrder'
  BY DEF PhoneIInv, StepsOK, RestOK, MainOrder, LinesInOrder, DialHandle,
         ServerSuspend, Suspend
<1>5. Numbered'
  BY DEF PhoneIInv, StepsOK, RestOK, MainOrder, LinesInOrder, Numbered, DialHandle,
         ServerSuspend, Suspend
<1>6. Suspension' /\ DialHandle' /\ StoppedMeansCancelled'
  <2>1. dialServiceThread' = dialServiceThread /\ \A d \in DialIds : pc'[d] = pc[d]
    BY DEF PhoneIInv, StepsOK, ServerSuspend, Suspend
  <2>2. DialHandle'
    BY <2>1 DEF PhoneIInv, DialHandle
  <2>3. \A d \in DialIds : Alive(d) => d \in cancelled'
    BY DEF PhoneIInv, Suspension, DialHandle, ServerSuspend, Suspend
  <2>4. Suspension'
    BY <2>1, <2>3
       DEF PhoneIInv, StepsOK, RestOK, MainOrder, Suspension, ServerSuspend, Suspend
  <2>5. StoppedMeansCancelled'
    BY <2>1, <2>3
       DEF PhoneIInv, StepsOK, RestOK, MainOrder, StoppedMeansCancelled,
           ServerSuspend, Suspend
  <2> QED
    BY <2>2, <2>4, <2>5
<1>7. Conns'
  BY DEF PhoneIInv, StepsOK, RestOK, MainOrder, Conns, ServerSuspend, Suspend
<1>8. CallsAreHandled'
  BY DEF PhoneIInv, StepsOK, RestOK, MainOrder, Conns, CallsAreHandled, ServerSuspend,
         Suspend
<1> QED
  BY <1>1, <1>2, <1>3, <1>4, <1>5, <1>6, <1>7, <1>8
     DEF PhoneIInv, Suspension, NoDialDuringCall

\* pthread_join in DialService_suspend.
LEMMA JoinDialServerKeeps ==
  ASSUME PhoneIInv, JoinDial(Server, "ask")
  PROVE  PhoneIInv'
<1>1. FlagsOK'
  BY Zenon DEF PhoneIInv, FlagsOK, JoinDial
<1>2. StepsOK'
  BY DEF PhoneIInv, StepsOK, RestOK, MainOrder, JoinDial
<1>3. RestOK'
  BY DEF PhoneIInv, StepsOK, RestOK, MainOrder, JoinDial
<1>4. MainOrder' /\ LinesInOrder'
  BY DEF PhoneIInv, StepsOK, RestOK, MainOrder, LinesInOrder, DialHandle, JoinDial
<1>5. Numbered'
  BY DEF PhoneIInv, StepsOK, RestOK, MainOrder, LinesInOrder, Numbered, DialHandle,
         JoinDial
<1>6. Suspension' /\ DialHandle' /\ StoppedMeansCancelled'
  BY DEF PhoneIInv, StepsOK, RestOK, MainOrder, Numbered, Suspension, DialHandle,
         StoppedMeansCancelled, JoinDial
<1>7. Conns'
  BY DEF PhoneIInv, StepsOK, RestOK, MainOrder, Conns, JoinDial
<1>8. CallsAreHandled'
  BY DEF PhoneIInv, StepsOK, RestOK, MainOrder, Conns, CallsAreHandled, JoinDial
<1> QED
  BY <1>1, <1>2, <1>3, <1>4, <1>5, <1>6, <1>7, <1>8
     DEF PhoneIInv, Suspension, NoDialDuringCall

\* VoiceServer_stop up to its join.
LEMMA StopServerKeeps ==
  ASSUME PhoneIInv, StopServer
  PROVE  PhoneIInv'
<1>1. FlagsOK'
  BY Zenon DEF PhoneIInv, FlagsOK, StopServer
<1>2. StepsOK'
  BY DEF PhoneIInv, StepsOK, RestOK, MainOrder, StopServer
<1>3. RestOK'
  BY DEF PhoneIInv, StepsOK, RestOK, MainOrder, StopServer
<1>4. MainOrder' /\ LinesInOrder'
  BY DEF PhoneIInv, StepsOK, RestOK, MainOrder, LinesInOrder, DialHandle, StopServer
<1>5. Numbered'
  BY DEF PhoneIInv, StepsOK, RestOK, MainOrder, LinesInOrder, Numbered, DialHandle,
         StopServer
<1>6. Suspension' /\ DialHandle' /\ StoppedMeansCancelled'
  BY DEF PhoneIInv, StepsOK, RestOK, MainOrder, Numbered, Suspension, DialHandle,
         StoppedMeansCancelled, StopServer
<1>7. Conns'
  BY DEF PhoneIInv, StepsOK, RestOK, MainOrder, Conns, StopServer
<1>8. CallsAreHandled'
  BY DEF PhoneIInv, StepsOK, RestOK, MainOrder, Conns, CallsAreHandled, StopServer
<1> QED
  BY <1>1, <1>2, <1>3, <1>4, <1>5, <1>6, <1>7, <1>8
     DEF PhoneIInv, Suspension, NoDialDuringCall

\* The user says yes or no.
LEMMA AnswerKeeps ==
  ASSUME PhoneIInv, Answer
  PROVE  PhoneIInv'
<1>1. FlagsOK'
  BY Zenon DEF PhoneIInv, FlagsOK, Answer
<1>2. StepsOK'
  BY DEF PhoneIInv, StepsOK, RestOK, MainOrder, Answer
<1>3. RestOK'
  BY DEF PhoneIInv, StepsOK, RestOK, MainOrder, Answer
<1>4. MainOrder' /\ LinesInOrder'
  BY DEF PhoneIInv, StepsOK, RestOK, MainOrder, LinesInOrder, DialHandle, Answer
<1>5. Numbered'
  BY DEF PhoneIInv, StepsOK, RestOK, MainOrder, LinesInOrder, Numbered, DialHandle,
         Answer
<1>6. Suspension' /\ DialHandle' /\ StoppedMeansCancelled'
  BY DEF PhoneIInv, StepsOK, RestOK, MainOrder, Numbered, Suspension, DialHandle,
         StoppedMeansCancelled, Answer
<1>7. Conns'
  BY DEF PhoneIInv, StepsOK, RestOK, MainOrder, Conns, Answer
<1>8. CallsAreHandled'
  BY DEF PhoneIInv, StepsOK, RestOK, MainOrder, Conns, CallsAreHandled, Answer
<1> QED
  BY <1>1, <1>2, <1>3, <1>4, <1>5, <1>6, <1>7, <1>8
     DEF PhoneIInv, Suspension, NoDialDuringCall

\* The rest of the user's line.
LEMMA DrainKeeps ==
  ASSUME PhoneIInv, Drain
  PROVE  PhoneIInv'
<1>1. FlagsOK'
  BY Zenon DEF PhoneIInv, FlagsOK, Drain
<1>2. StepsOK'
  BY DEF PhoneIInv, StepsOK, RestOK, MainOrder, Drain
<1>3. RestOK'
  BY DEF PhoneIInv, StepsOK, RestOK, MainOrder, Drain
<1>4. MainOrder' /\ LinesInOrder'
  BY DEF PhoneIInv, StepsOK, RestOK, MainOrder, LinesInOrder, DialHandle, Drain
<1>5. Numbered'
  BY DEF PhoneIInv, StepsOK, RestOK, MainOrder, LinesInOrder, Numbered, DialHandle,
         Drain
<1>6. Suspension' /\ DialHandle' /\ StoppedMeansCancelled'
  BY DEF PhoneIInv, StepsOK, RestOK, MainOrder, Numbered, Suspension, DialHandle,
         StoppedMeansCancelled, Drain
<1>7. Conns'
  BY DEF PhoneIInv, StepsOK, RestOK, MainOrder, Conns, Drain
<1>8. CallsAreHandled'
  BY DEF PhoneIInv, StepsOK, RestOK, MainOrder, Conns, CallsAreHandled, Drain
<1> QED
  BY <1>1, <1>2, <1>3, <1>4, <1>5, <1>6, <1>7, <1>8
     DEF PhoneIInv, Suspension, NoDialDuringCall

\* The user dials a name.
LEMMA DialReadKeeps ==
  ASSUME PhoneIInv, NEW d \in DialIds, DialRead(d)
  PROVE  PhoneIInv'
<1>1. FlagsOK'
  BY Zenon DEF PhoneIInv, FlagsOK, DialRead
<1>2. StepsOK'
  BY DEF PhoneIInv, StepsOK, RestOK, MainOrder, DialRead
<1>3. RestOK'
  BY DEF PhoneIInv, StepsOK, RestOK, MainOrder, DialRead
<1>4. MainOrder' /\ LinesInOrder'
  BY DEF PhoneIInv, StepsOK, RestOK, MainOrder, LinesInOrder, DialHandle, DialRead
<1>5. Numbered'
  BY DEF PhoneIInv, StepsOK, RestOK, MainOrder, LinesInOrder, Numbered, DialHandle,
         DialRead
<1>6. Suspension' /\ DialHandle' /\ StoppedMeansCancelled'
  BY DEF PhoneIInv, StepsOK, RestOK, MainOrder, Numbered, Suspension, DialHandle,
         StoppedMeansCancelled, DialRead
<1>7. Conns'
  BY DEF PhoneIInv, StepsOK, RestOK, MainOrder, Conns, DialRead
<1>8. CallsAreHandled'
  BY DEF PhoneIInv, StepsOK, RestOK, MainOrder, Conns, CallsAreHandled, DialRead
<1> QED
  BY <1>1, <1>2, <1>3, <1>4, <1>5, <1>6, <1>7, <1>8
     DEF PhoneIInv, Suspension, NoDialDuringCall

\* The user dials on the keypad.
LEMMA DialPadKeeps ==
  ASSUME PhoneIInv, NEW d \in DialIds, DialPad(d)
  PROVE  PhoneIInv'
<1>1. FlagsOK'
  BY Zenon DEF PhoneIInv, FlagsOK, DialPad
<1>2. StepsOK'
  BY DEF PhoneIInv, StepsOK, RestOK, MainOrder, DialPad
<1>3. RestOK'
  BY DEF PhoneIInv, StepsOK, RestOK, MainOrder, DialPad
<1>4. MainOrder' /\ LinesInOrder'
  BY DEF PhoneIInv, StepsOK, RestOK, MainOrder, LinesInOrder, DialHandle, DialPad
<1>5. Numbered'
  BY DEF PhoneIInv, StepsOK, RestOK, MainOrder, LinesInOrder, Numbered, DialHandle,
         DialPad
<1>6. Suspension' /\ DialHandle' /\ StoppedMeansCancelled'
  BY DEF PhoneIInv, StepsOK, RestOK, MainOrder, Numbered, Suspension, DialHandle,
         StoppedMeansCancelled, DialPad
<1>7. Conns'
  BY DEF PhoneIInv, StepsOK, RestOK, MainOrder, Conns, DialPad
<1>8. CallsAreHandled'
  BY DEF PhoneIInv, StepsOK, RestOK, MainOrder, Conns, CallsAreHandled, DialPad
<1> QED
  BY <1>1, <1>2, <1>3, <1>4, <1>5, <1>6, <1>7, <1>8
     DEF PhoneIInv, Suspension, NoDialDuringCall

\* A connection comes in: the first unused one, so the one after every dial thread's.
LEMMA AcceptKeeps ==
  ASSUME PhoneIInv, Accept
  PROVE  PhoneIInv'
<1>0. PICK k \in CallIds :
         /\ line[k] = "unused" /\ \A j \in 1 .. k - 1 : line[j] # "unused"
         /\ conn' = [conn EXCEPT ![Server] = k]
         /\ \/ line' = [line EXCEPT ![k] = "open"] /\ pc' = [pc EXCEPT ![Server] = "suspend"]
            \/ line' = [line EXCEPT ![k] = "down"] /\ pc' = [pc EXCEPT ![Server] = "loop"]
  BY Zenon DEF Accept
<1>s. /\ pc[Server] = "accept"
      /\ UNCHANGED <<cancelled, services, answer, call, started, dead>>
  BY DEF Accept
<1>1. FlagsOK'
  BY Zenon DEF PhoneIInv, FlagsOK, Accept
<1>2. StepsOK'
  BY <1>0, <1>s DEF PhoneIInv, StepsOK, RestOK, MainOrder
<1>3. RestOK'
  BY <1>0, <1>s DEF PhoneIInv, StepsOK, RestOK, MainOrder
<1>4. MainOrder' /\ LinesInOrder'
  <2>1. MainOrder'
    BY <1>0, <1>s DEF PhoneIInv, StepsOK, MainOrder
  <2>2. LinesInOrder'
    BY <1>0, <1>s DEF PhoneIInv, RestOK, LinesInOrder
  <2> QED
    BY <2>1, <2>2
<1>5. Numbered'
  <2>1. \A j \in CallIds : line[j] # "unused" => line'[j] # "unused"
    BY <1>0 DEF PhoneIInv, RestOK
  <2>2. \A d \in DialIds : pc'[d] = pc[d]
    BY <1>0 DEF PhoneIInv, StepsOK
  <2>3. dialServiceThread \in DialIds
    BY <1>s DEF PhoneIInv, RestOK, MainOrder
  <2>4. pc'[Server] \in ServerHas =>
           dialServiceThread \in CallIds /\ line'[dialServiceThread] # "unused"
    <3>1. dialServiceThread = k \/ dialServiceThread \in 1 .. k - 1 \/ dialServiceThread > k
      BY <2>3
    <3> QED
      BY <1>0, <1>s, <2>1, <2>3, <3>1 DEF PhoneIInv, RestOK, Numbered, LinesInOrder
  <2> QED
    BY <1>s, <2>1, <2>2, <2>3, <2>4 DEF PhoneIInv, RestOK, Numbered
<1>6. Suspension' /\ DialHandle' /\ StoppedMeansCancelled'
  BY <1>0, <1>s
     DEF PhoneIInv, StepsOK, RestOK, MainOrder, Numbered, Suspension, DialHandle,
         StoppedMeansCancelled
<1>7. Conns'
  BY <1>0, <1>s DEF PhoneIInv, StepsOK, RestOK, MainOrder, Conns
<1>8. CallsAreHandled'
  <2>1. SUFFICES ASSUME NEW j \in CallIds, line'[j] = "open", call[j] # "none"
                 PROVE  \E t \in Handlers :
                           conn'[t] = j /\ (pc'[t] \in InCall \/ (~Alive(t)' /\ t \in cancelled))
    BY <1>s DEF CallsAreHandled
  <2>2. j # k /\ line[j] = "open"
    BY <1>0, <2>1 DEF PhoneIInv, RestOK, Conns
  <2>3. PICK t \in Handlers :
            conn[t] = j /\ (pc[t] \in InCall \/ (~Alive(t) /\ t \in cancelled))
    BY <2>1, <2>2 DEF PhoneIInv, CallsAreHandled
  <2>4. t # Server
    BY <1>s, <2>3
  <2>5. conn'[t] = conn[t] /\ pc'[t] = pc[t]
    BY <1>0, <2>4 DEF PhoneIInv, StepsOK, RestOK
  <2> QED
    BY <2>3, <2>5
<1> QED
  BY <1>1, <1>2, <1>3, <1>4, <1>5, <1>6, <1>7, <1>8
     DEF PhoneIInv, Suspension, NoDialDuringCall

\* Audio_teardown.
LEMMA TeardownKeeps ==
  ASSUME PhoneIInv, Teardown
  PROVE  PhoneIInv'
<1>1. FlagsOK'
  BY Zenon DEF PhoneIInv, FlagsOK, Teardown
<1>2. StepsOK'
  BY DEF PhoneIInv, StepsOK, RestOK, MainOrder, Teardown
<1>3. RestOK'
  BY DEF PhoneIInv, StepsOK, RestOK, MainOrder, Teardown
<1>4. MainOrder' /\ LinesInOrder'
  BY DEF PhoneIInv, StepsOK, RestOK, MainOrder, LinesInOrder, DialHandle, Teardown
<1>5. Numbered'
  BY DEF PhoneIInv, StepsOK, RestOK, MainOrder, LinesInOrder, Numbered, DialHandle,
         Teardown
<1>6. Suspension' /\ DialHandle' /\ StoppedMeansCancelled'
  BY DEF PhoneIInv, StepsOK, RestOK, MainOrder, Numbered, Suspension, DialHandle,
         StoppedMeansCancelled, Teardown
<1>7. Conns'
  BY DEF PhoneIInv, StepsOK, RestOK, MainOrder, Conns, Teardown
<1>8. CallsAreHandled'
  BY DEF PhoneIInv, StepsOK, RestOK, MainOrder, Conns, CallsAreHandled, Teardown
<1> QED
  BY <1>1, <1>2, <1>3, <1>4, <1>5, <1>6, <1>7, <1>8
     DEF PhoneIInv, Suspension, NoDialDuringCall

\* getInput looks at its flags.
LEMMA DialLoopKeeps ==
  ASSUME PhoneIInv, NEW d \in DialIds, DialLoop(d)
  PROVE  PhoneIInv'
<1>1. FlagsOK'
  BY Zenon DEF PhoneIInv, FlagsOK, DialLoop
<1>2. StepsOK'
  <2>1. PICK s \in {"ended", "read"} : pc' = [pc EXCEPT ![d] = s]
    BY Zenon DEF DialLoop
  <2> QED
    BY <2>1 DEF PhoneIInv, StepsOK
<1>3. RestOK'
  BY DEF PhoneIInv, StepsOK, RestOK, MainOrder, DialLoop
<1>4. MainOrder' /\ LinesInOrder'
  BY DEF PhoneIInv, StepsOK, RestOK, MainOrder, LinesInOrder, DialHandle, DialLoop
<1>5. Numbered'
  BY DEF PhoneIInv, StepsOK, RestOK, MainOrder, LinesInOrder, Numbered, DialHandle,
         DialLoop
<1>6. Suspension' /\ DialHandle' /\ StoppedMeansCancelled'
  BY DEF PhoneIInv, StepsOK, RestOK, MainOrder, Numbered, Suspension, DialHandle,
         StoppedMeansCancelled, DialLoop
<1>7. Conns'
  BY DEF PhoneIInv, StepsOK, RestOK, MainOrder, Conns, DialLoop
<1>8. CallsAreHandled'
  BY DEF PhoneIInv, StepsOK, RestOK, MainOrder, Conns, CallsAreHandled, DialLoop
<1> QED
  BY <1>1, <1>2, <1>3, <1>4, <1>5, <1>6, <1>7, <1>8
     DEF PhoneIInv, Suspension, NoDialDuringCall

\* onDial opens a connection, or does not.
LEMMA ConnectKeeps ==
  ASSUME PhoneIInv, NEW d \in DialIds, Connect(d)
  PROVE  PhoneIInv'
<1>s. /\ d # Server /\ d # Main /\ pc[d] = "connect"
      /\ UNCHANGED <<cancelled, services, answer, call, started, dead>>
  BY DEF Connect
<1>0. \/ /\ \E s \in {"ended", "loop"} : pc' = [pc EXCEPT ![d] = s]
         /\ UNCHANGED <<conn, line>>
      \/ \E k \in CallIds :
            /\ line[k] = "unused" /\ \A j \in 1 .. k - 1 : line[j] # "unused"
            /\ line' = [line EXCEPT ![k] = "open"] /\ conn' = [conn EXCEPT ![d] = k]
            /\ pc' = [pc EXCEPT ![d] = "begin"]
  BY Zenon DEF Connect
<1>t. pc' = [pc EXCEPT ![d] = pc'[d]] /\ pc'[d] \in {"ended", "loop", "begin"}
  BY <1>0 DEF PhoneIInv, StepsOK
<1>1. FlagsOK'
  BY Zenon DEF PhoneIInv, FlagsOK, Connect
<1>2. StepsOK'
  BY <1>s, <1>t DEF PhoneIInv, StepsOK
<1>3. RestOK'
  BY <1>0, <1>s DEF PhoneIInv, RestOK
<1>4. MainOrder' /\ LinesInOrder'
  <2>1. MainOrder'
    BY <1>s, <1>t DEF PhoneIInv, StepsOK, MainOrder
  <2>2. LinesInOrder'
    BY <1>0 DEF PhoneIInv, RestOK, LinesInOrder
  <2> QED
    BY <2>1, <2>2
<1>5. Numbered'
  <2>1. \A j \in CallIds : line[j] # "unused" => line'[j] # "unused"
    BY <1>0 DEF PhoneIInv, RestOK
  <2>2. \A e \in DialIds : pc'[e] = "none" <=> pc[e] = "none"
    BY <1>s, <1>t DEF PhoneIInv, StepsOK
  <2>3. pc'[Server] = pc[Server]
    BY <1>s, <1>t DEF PhoneIInv, StepsOK
  <2> QED
    BY <1>s, <2>1, <2>2, <2>3 DEF PhoneIInv, RestOK, Numbered
<1>6. Suspension' /\ DialHandle' /\ StoppedMeansCancelled'
  BY <1>s, <1>t DEF PhoneIInv, StepsOK, Suspension, DialHandle, StoppedMeansCancelled
<1>7. Conns'
  <2>1. CASE UNCHANGED <<conn, line>> /\ pc'[d] \in {"ended", "loop"}
    BY <1>s, <1>t, <2>1 DEF PhoneIInv, StepsOK, RestOK, Conns
  <2>2. CASE \E k \in CallIds :
               /\ line[k] = "unused" /\ line' = [line EXCEPT ![k] = "open"]
               /\ conn' = [conn EXCEPT ![d] = k] /\ pc' = [pc EXCEPT ![d] = "begin"]
    BY <1>s, <2>2 DEF PhoneIInv, StepsOK, RestOK, Conns
  <2> QED
    BY <1>0, <2>1, <2>2 DEF PhoneIInv, StepsOK
<1>8. CallsAreHandled'
  <2>1. SUFFICES ASSUME NEW j \in CallIds, line'[j] = "open", call[j] # "none"
                 PROVE  \E t \in Handlers :
                           conn'[t] = j /\ (pc'[t] \in InCall \/ (~Alive(t)' /\ t \in cancelled))
    BY <1>s DEF CallsAreHandled
  <2>2. line[j] = "open"
    BY <1>0, <2>1 DEF PhoneIInv, RestOK, Conns
  <2>3. PICK t \in Handlers :
            conn[t] = j /\ (pc[t] \in InCall \/ (~Alive(t) /\ t \in cancelled))
    BY <2>1, <2>2 DEF PhoneIInv, CallsAreHandled
  <2>4. t # d
    BY <1>s, <2>3
  <2>5. conn'[t] = conn[t] /\ pc'[t] = pc[t]
    BY <1>0, <2>4 DEF PhoneIInv, StepsOK, RestOK
  <2> QED
    BY <2>3, <2>5
<1> QED
  BY <1>1, <1>2, <1>3, <1>4, <1>5, <1>6, <1>7, <1>8
     DEF PhoneIInv, Suspension, NoDialDuringCall

\* Call_begin.
LEMMA BeginKeeps ==
  ASSUME PhoneIInv, NEW t \in Handlers, Begin(t)
  PROVE  PhoneIInv'
<1>1. FlagsOK'
  BY Zenon DEF PhoneIInv, FlagsOK, Begin
<1>2. StepsOK'
  <2>1. \/ pc' = [pc EXCEPT ![t] = "incall"]
        \/ t # Server /\ \E s \in {"ended", "loop"} : pc' = [pc EXCEPT ![t] = s]
    BY Zenon DEF Begin
  <2> QED
    BY <2>1 DEF PhoneIInv, StepsOK
<1>3. RestOK'
  BY DEF PhoneIInv, StepsOK, RestOK, MainOrder, Begin
<1>4. MainOrder' /\ LinesInOrder'
  BY DEF PhoneIInv, StepsOK, RestOK, MainOrder, LinesInOrder, DialHandle, Begin
<1>5. Numbered'
  BY DEF PhoneIInv, StepsOK, RestOK, MainOrder, LinesInOrder, Numbered, DialHandle,
         Begin
<1>6. Suspension' /\ DialHandle' /\ StoppedMeansCancelled'
  <2>1. Alive(t) /\ pc[t] \in InCall /\ UNCHANGED <<cancelled, services>>
    BY DEF Begin
  <2>2. \/ pc' = [pc EXCEPT ![t] = "incall"]
        \/ t # Server /\ \E s \in {"ended", "loop"} : pc' = [pc EXCEPT ![t] = s]
    BY Zenon DEF Begin
  <2>3. DialHandle'
    BY <2>1, <2>2 DEF PhoneIInv, StepsOK, DialHandle
  <2>4. Suspension'
    <3>1. \A d \in DialIds :
             /\ pc'[d] \notin Gone => pc[d] \notin Gone
             /\ pc[d] \in {"none", "joined"} => pc'[d] = pc[d]
      BY <2>1, <2>2 DEF PhoneIInv, StepsOK
    <3>2. pc'[Server] = pc[Server] \/ {pc[Server], pc'[Server]} \subseteq InCall
      <4>1. CASE t = Server
        BY <2>1, <2>2, <4>1 DEF PhoneIInv, StepsOK
      <4>2. CASE t # Server
        BY <2>2, <4>2 DEF PhoneIInv, StepsOK
      <4> QED
        BY <4>1, <4>2
    <3> QED
      BY <2>1, <3>1, <3>2 DEF PhoneIInv, Suspension
  <2>5. StoppedMeansCancelled'
    BY <2>1, <2>2 DEF PhoneIInv, StepsOK, RestOK, MainOrder, StoppedMeansCancelled
  <2> QED
    BY <2>3, <2>4, <2>5
<1>7. Conns'
  BY DEF PhoneIInv, StepsOK, RestOK, MainOrder, Conns, Begin
<1>8. CallsAreHandled'
  BY DEF PhoneIInv, StepsOK, RestOK, MainOrder, Conns, CallsAreHandled, Begin
<1> QED
  BY <1>1, <1>2, <1>3, <1>4, <1>5, <1>6, <1>7, <1>8
     DEF PhoneIInv, Suspension, NoDialDuringCall

\* The call is over.
LEMMA OverKeeps ==
  ASSUME PhoneIInv, NEW t \in Handlers, Over(t)
  PROVE  PhoneIInv'
<1>1. FlagsOK'
  BY Zenon DEF PhoneIInv, FlagsOK, Over
<1>2. StepsOK'
  BY DEF PhoneIInv, StepsOK, RestOK, MainOrder, Over
<1>3. RestOK'
  BY DEF PhoneIInv, StepsOK, RestOK, MainOrder, Over
<1>4. MainOrder' /\ LinesInOrder'
  BY DEF PhoneIInv, StepsOK, RestOK, MainOrder, LinesInOrder, DialHandle, Over
<1>5. Numbered'
  BY DEF PhoneIInv, StepsOK, RestOK, MainOrder, LinesInOrder, Numbered, DialHandle,
         Over
<1>6. Suspension' /\ DialHandle' /\ StoppedMeansCancelled'
  BY DEF PhoneIInv, StepsOK, RestOK, MainOrder, Numbered, Suspension, DialHandle,
         StoppedMeansCancelled, Over
<1>7. Conns'
  BY DEF PhoneIInv, StepsOK, RestOK, MainOrder, Conns, Over
<1>8. CallsAreHandled'
  BY DEF PhoneIInv, StepsOK, RestOK, MainOrder, Conns, CallsAreHandled, Over
<1> QED
  BY <1>1, <1>2, <1>3, <1>4, <1>5, <1>6, <1>7, <1>8
     DEF PhoneIInv, Suspension, NoDialDuringCall

\* Call_terminate.
LEMMA HangUpKeeps ==
  ASSUME PhoneIInv, NEW t \in Handlers, HangUp(t)
  PROVE  PhoneIInv'
<1>1. FlagsOK'
  BY Zenon DEF PhoneIInv, FlagsOK, HangUp
<1>2. StepsOK'
  BY DEF PhoneIInv, StepsOK, RestOK, MainOrder, HangUp
<1>3. RestOK'
  BY DEF PhoneIInv, StepsOK, RestOK, MainOrder, HangUp
<1>4. MainOrder'
  BY DEF PhoneIInv, StepsOK, RestOK, MainOrder, HangUp
<1>9. LinesInOrder'
  <2>1. conn[t] \in CallIds /\ line[conn[t]] # "unused"
    BY DEF PhoneIInv, RestOK, Conns, HangUp
  <2> QED
    BY <2>1 DEF PhoneIInv, RestOK, LinesInOrder, HangUp
<1>5. Numbered'
  BY DEF PhoneIInv, StepsOK, RestOK, MainOrder, LinesInOrder, Numbered, DialHandle,
         HangUp
<1>6. Suspension' /\ DialHandle' /\ StoppedMeansCancelled'
  BY DEF PhoneIInv, StepsOK, RestOK, MainOrder, Numbered, Suspension, DialHandle,
         StoppedMeansCancelled, HangUp
<1>7. Conns'
  BY DEF PhoneIInv, StepsOK, RestOK, MainOrder, Conns, HangUp
<1>8. CallsAreHandled'
  BY DEF PhoneIInv, StepsOK, RestOK, MainOrder, Conns, CallsAreHandled, HangUp
<1> QED
  BY <1>1, <1>2, <1>3, <1>4, <1>5, <1>6, <1>7, <1>8, <1>9
     DEF PhoneIInv, Suspension, NoDialDuringCall

\* A cancelled thread ends.
LEMMA CancelKeeps ==
  ASSUME PhoneIInv, NEW t \in Handlers, Cancel(t)
  PROVE  PhoneIInv'
<1>1. FlagsOK'
  BY Zenon DEF PhoneIInv, FlagsOK, Cancel
<1>2. StepsOK'
  BY DEF PhoneIInv, StepsOK, RestOK, MainOrder, Cancel
<1>3. RestOK'
  BY DEF PhoneIInv, StepsOK, RestOK, MainOrder, Cancel
<1>4. MainOrder' /\ LinesInOrder'
  BY DEF PhoneIInv, StepsOK, RestOK, MainOrder, LinesInOrder, DialHandle, Cancel
<1>5. Numbered'
  BY DEF PhoneIInv, StepsOK, RestOK, MainOrder, LinesInOrder, Numbered, DialHandle,
         Cancel
<1>6. Suspension' /\ DialHandle' /\ StoppedMeansCancelled'
  BY DEF PhoneIInv, StepsOK, RestOK, MainOrder, Numbered, Suspension, DialHandle,
         StoppedMeansCancelled, Cancel
<1>7. Conns'
  BY DEF PhoneIInv, StepsOK, RestOK, MainOrder, Conns, Cancel
<1>8. CallsAreHandled'
  BY DEF PhoneIInv, StepsOK, RestOK, MainOrder, Conns, CallsAreHandled, Cancel
<1> QED
  BY <1>1, <1>2, <1>3, <1>4, <1>5, <1>6, <1>7, <1>8
     DEF PhoneIInv, Suspension, NoDialDuringCall

\* Audio_stop looks at started.
LEMMA StopTestKeeps ==
  ASSUME PhoneIInv, NEW t \in {Main} \cup Handlers, StopTest(t)
  PROVE  PhoneIInv'
<1>1. FlagsOK'
  BY Zenon DEF PhoneIInv, FlagsOK, StopTest
<1>2. StepsOK'
  BY DEF PhoneIInv, StepsOK, RestOK, MainOrder, StopTest
<1>3. RestOK'
  BY DEF PhoneIInv, StepsOK, RestOK, MainOrder, StopTest
<1>4. MainOrder' /\ LinesInOrder'
  BY DEF PhoneIInv, StepsOK, RestOK, MainOrder, LinesInOrder, DialHandle, StopTest
<1>5. Numbered'
  BY DEF PhoneIInv, StepsOK, RestOK, MainOrder, LinesInOrder, Numbered, DialHandle,
         StopTest
<1>6. Suspension' /\ DialHandle' /\ StoppedMeansCancelled'
  BY DEF PhoneIInv, StepsOK, RestOK, MainOrder, Numbered, Suspension, DialHandle,
         StoppedMeansCancelled, StopTest
<1>7. Conns'
  BY DEF PhoneIInv, StepsOK, RestOK, MainOrder, Conns, StopTest
<1>8. CallsAreHandled'
  BY DEF PhoneIInv, StepsOK, RestOK, MainOrder, Conns, CallsAreHandled, StopTest
<1> QED
  BY <1>1, <1>2, <1>3, <1>4, <1>5, <1>6, <1>7, <1>8
     DEF PhoneIInv, Suspension, NoDialDuringCall

\* Audio_stop returns.
LEMMA StopReturnKeeps ==
  ASSUME PhoneIInv, NEW t \in {Main} \cup Handlers, StopReturn(t)
  PROVE  PhoneIInv'
<1>1. FlagsOK'
  BY Zenon DEF PhoneIInv, FlagsOK, StopReturn
<1>2. StepsOK'
  <2>1. \/ t = Main /\ pc' = [pc EXCEPT ![t] = "teardown"]
        \/ t = Server /\ pc' = [pc EXCEPT ![t] = "resume"]
        \/ t \notin {Main, Server} /\ \E s \in {"ended", "loop"} : pc' = [pc EXCEPT ![t] = s]
    BY Zenon DEF StopReturn
  <2> QED
    BY <2>1 DEF PhoneIInv, StepsOK
<1>3. RestOK'
  BY DEF PhoneIInv, StepsOK, RestOK, MainOrder, StopReturn
<1>4. MainOrder' /\ LinesInOrder'
  BY DEF PhoneIInv, StepsOK, RestOK, MainOrder, LinesInOrder, DialHandle, StopReturn
<1>5. Numbered'
  BY DEF PhoneIInv, StepsOK, RestOK, MainOrder, LinesInOrder, Numbered, DialHandle,
         StopReturn
<1>6. Suspension' /\ DialHandle' /\ StoppedMeansCancelled'
  BY DEF PhoneIInv, StepsOK, RestOK, MainOrder, Numbered, Suspension, DialHandle,
         StoppedMeansCancelled, StopReturn
<1>7. Conns'
  BY DEF PhoneIInv, StepsOK, RestOK, MainOrder, Conns, StopReturn
<1>8. CallsAreHandled'
  BY DEF PhoneIInv, StepsOK, RestOK, MainOrder, Conns, CallsAreHandled, StopReturn
<1> QED
  BY <1>1, <1>2, <1>3, <1>4, <1>5, <1>6, <1>7, <1>8
     DEF PhoneIInv, Suspension, NoDialDuringCall

\* Whatever leaves the handlers alone, begins no call and only lets peers hang up.
LEMMA CallsKeep ==
  ASSUME PhoneIInv, UNCHANGED <<pc, conn, cancelled, services>>, FlagsOK', RestOK',
         \A k \in CallIds : /\ call'[k] = "none" <=> call[k] = "none"
                            /\ line'[k] # line[k] => line[k] = "open" /\ line'[k] = "peerDown"
  PROVE  PhoneIInv'
<1>1. StepsOK' /\ MainOrder' /\ LinesInOrder'
  BY DEF PhoneIInv, StepsOK, MainOrder, LinesInOrder
<1>2. Numbered'
  BY DEF PhoneIInv, StepsOK, RestOK, Numbered
<1>3. Suspension' /\ DialHandle' /\ StoppedMeansCancelled' /\ NoDialDuringCall'
  BY DEF PhoneIInv, Suspension, DialHandle, StoppedMeansCancelled, NoDialDuringCall
<1>4. Conns'
  BY DEF PhoneIInv, RestOK, Conns
<1>5. CallsAreHandled'
  <2>1. SUFFICES ASSUME NEW k \in CallIds, line'[k] = "open", call'[k] # "none"
                 PROVE  \E t \in Handlers :
                           conn[t] = k /\ (pc[t] \in InCall \/ (~Alive(t) /\ t \in cancelled))
    BY DEF CallsAreHandled
  <2>2. line[k] = "open" /\ call[k] # "none"
    BY <2>1
  <2> QED
    BY <2>2 DEF PhoneIInv, CallsAreHandled
<1> QED
  BY <1>1, <1>2, <1>3, <1>4, <1>5 DEF PhoneIInv

\* Cardinality in StartThread is the number of the last thread, so its handle is fresh.
LEMMA StartThreadTakesNext ==
  ASSUME PhoneIInv, NEW t, NEW step, NEW first, StartThread(t, step, first)
  PROVE  /\ dialServiceThread' = dialServiceThread + 1
         /\ pc' = [pc EXCEPT ![t] = step, ![dialServiceThread + 1] = first]
<1>1. dialServiceThread \in 0 .. Calls + 1
  BY DEF PhoneIInv, RestOK
<1>2. {d \in DialIds : pc[d] # "none"} = 1 .. dialServiceThread
  BY <1>1 DEF PhoneIInv, Numbered
<1>3. Cardinality(1 .. dialServiceThread) = dialServiceThread
  BY <1>1, FS_Interval
<1> QED
  BY <1>1, <1>2, <1>3 DEF StartThread

\* DialService_start.
LEMMA DialStartKeeps ==
  ASSUME PhoneIInv, DialStart
  PROVE  PhoneIInv'
<1>1. /\ dialServiceThread = 0 /\ pc[Main] = "dial" /\ pc[Server] = "none"
      /\ \A d \in DialIds : pc[d] = "none"
  BY DEF PhoneIInv, MainOrder, Numbered, DialStart
<1>2. PICK first \in {"pad", "loop"} : StartThread(Main, "serve", first)
  BY Zenon DEF DialStart
<1>3. dialServiceThread' = 1 /\ pc' = [pc EXCEPT ![Main] = "serve", ![1] = first]
  BY <1>1, <1>2, StartThreadTakesNext
<1>4. /\ serviceSuspended' = FALSE
      /\ UNCHANGED <<conn, cancelled, serverStop, network, call, started, dead>>
  BY DEF DialStart
<1>5. FlagsOK'
  BY Zenon DEF PhoneIInv, FlagsOK, DialStart
<1>6. StepsOK' /\ MainOrder'
  BY <1>1, <1>3 DEF PhoneIInv, StepsOK, MainOrder
<1>7. RestOK' /\ LinesInOrder'
  BY <1>3, <1>4 DEF PhoneIInv, RestOK, LinesInOrder
<1>8. Numbered' /\ DialHandle' /\ Suspension' /\ StoppedMeansCancelled'
  BY <1>1, <1>3, <1>4
     DEF PhoneIInv, StepsOK, Numbered, DialHandle, Suspension, StoppedMeansCancelled
<1>9. Conns'
  BY <1>1, <1>3, <1>4 DEF PhoneIInv, StepsOK, RestOK, Conns
<1>10. CallsAreHandled'
  BY <1>1, <1>3, <1>4 DEF PhoneIInv, StepsOK, RestOK, Conns, CallsAreHandled
<1> QED
  BY <1>5, <1>6, <1>7, <1>8, <1>9, <1>10 DEF PhoneIInv, Suspension, NoDialDuringCall

\* DialService_resume: there is a number left for the new thread, since each
\* came after a connection.
LEMMA ResumeKeeps ==
  ASSUME PhoneIInv, Resume
  PROVE  PhoneIInv'
<1> DEFINE n == dialServiceThread + 1
<1>1. /\ pc[Server] = "resume" /\ pc[Main] \notin Stopping \cup {"dial", "serve"}
      /\ dialServiceThread \in CallIds /\ line[dialServiceThread] # "unused"
      /\ \A d \in DialIds : pc[d] \in {"none", "joined"}
  BY DEF PhoneIInv, StepsOK, MainOrder, Numbered, Suspension, Resume
<1>2. /\ serviceSuspended' = FALSE
      /\ UNCHANGED <<conn, cancelled, dialStop, serverStop, keypad, network, call, started, dead>>
  BY Zenon DEF PhoneIInv, FlagsOK, Resume
<1>3. \/ dialServiceThread' = n /\ pc' = [pc EXCEPT ![Server] = "loop", ![n] = "loop"]
      \/ dialServiceThread' = dialServiceThread /\ pc' = [pc EXCEPT ![Server] = "loop"]
  BY StartThreadTakesNext DEF Resume
<1>4. n \in DialIds /\ n > 1 /\ n - 1 = dialServiceThread /\ pc[n] = "none"
  BY <1>1 DEF PhoneIInv, Numbered
<1> HIDE DEF n
<1>5. FlagsOK'
  BY <1>2, Zenon DEF PhoneIInv, FlagsOK
<1>6. StepsOK' /\ MainOrder'
  BY <1>1, <1>3, <1>4 DEF PhoneIInv, StepsOK, MainOrder
<1>7. RestOK' /\ LinesInOrder'
  BY <1>2, <1>3, <1>4 DEF PhoneIInv, RestOK, LinesInOrder
<1>8. Numbered'
  <2>1. pc'[Server] = "loop" /\ line' = line
    BY <1>1, <1>2, <1>3, <1>4 DEF PhoneIInv, StepsOK
  <2>2. \A d \in DialIds : pc'[d] = "none" <=> d > dialServiceThread'
    BY <1>1, <1>3, <1>4 DEF PhoneIInv, StepsOK, Numbered, n
  <2>3. dialServiceThread' > 1 => line[dialServiceThread' - 1] # "unused"
    BY <1>1, <1>3, <1>4 DEF PhoneIInv, Numbered
  <2> QED
    BY <2>1, <2>2, <2>3 DEF Numbered
<1>9. DialHandle' /\ Suspension' /\ StoppedMeansCancelled'
  BY <1>1, <1>2, <1>3, <1>4
     DEF PhoneIInv, StepsOK, DialHandle, Suspension, StoppedMeansCancelled
<1>10. Conns'
  BY <1>1, <1>2, <1>3, <1>4 DEF PhoneIInv, StepsOK, RestOK, Conns
<1>11. CallsAreHandled'
  BY <1>1, <1>2, <1>3, <1>4 DEF PhoneIInv, StepsOK, RestOK, Conns, CallsAreHandled
<1> QED
  BY <1>5, <1>6, <1>7, <1>8, <1>9, <1>10, <1>11
     DEF PhoneIInv, Suspension, NoDialDuringCall

\* The thread of beginCall.
LEMMA CallStepKeeps ==
  ASSUME PhoneIInv, NEW k \in CallIds, CallStep(k)
  PROVE  PhoneIInv'
<1>1. FlagsOK'
  BY Zenon DEF PhoneIInv, FlagsOK, CallStep, CallStart, CallStarted, CallEnd
<1>2. RestOK'
  BY DEF PhoneIInv, RestOK, CallStep, CallStart, CallStarted, CallEnd
<1>3. UNCHANGED <<pc, conn, cancelled, services, line>>
  BY DEF CallStep, CallStart, CallStarted, CallEnd
<1>4. \A j \in CallIds : call'[j] = "none" <=> call[j] = "none"
  BY DEF PhoneIInv, RestOK, CallStep, CallStart, CallStarted, CallEnd
<1> QED
  BY <1>1, <1>2, <1>3, <1>4, CallsKeep

\* The peer answers, or hangs up.
LEMMA PeerKeeps ==
  ASSUME PhoneIInv, NEW k \in CallIds, PeerAnswers(k) \/ PeerHangsUp(k)
  PROVE  PhoneIInv'
<1>1. FlagsOK'
  BY Zenon DEF PhoneIInv, FlagsOK, PeerAnswers, PeerHangsUp
<1>2. RestOK'
  BY DEF PhoneIInv, RestOK, PeerAnswers, PeerHangsUp
<1>3. UNCHANGED <<pc, conn, cancelled, services, call>>
  BY DEF PeerAnswers, PeerHangsUp
<1>4. \A j \in CallIds : line'[j] # line[j] => line[j] = "open" /\ line'[j] = "peerDown"
  BY DEF PhoneIInv, RestOK, PeerAnswers, PeerHangsUp
<1> QED
  BY <1>1, <1>2, <1>3, <1>4, CallsKeep

\* Nothing has been started.
LEMMA InitPhone == Init => PhoneIInv
<1> SUFFICES ASSUME Init PROVE PhoneIInv
  OBVIOUS
<1>1. FlagsOK
  BY Zenon DEF Init, FlagsOK
<1>2. StepsOK /\ RestOK /\ MainOrder
  BY DEF Init, StepsOK, RestOK, MainOrder
<1>3. pc[Server] = "none" /\ \A d \in DialIds : pc[d] = "none"
  BY DEF Init
<1>4. Numbered /\ LinesInOrder
  BY DEF Init, Numbered, LinesInOrder
<1>5. Suspension /\ NoDialDuringCall /\ DialHandle
  BY <1>3, Zenon DEF Init, Suspension, NoDialDuringCall, DialHandle
<1>6. Conns /\ StoppedMeansCancelled /\ CallsAreHandled
  BY DEF Init, Conns, StoppedMeansCancelled, CallsAreHandled
<1> QED
  BY <1>1, <1>2, <1>4, <1>5, <1>6 DEF PhoneIInv

\* Nothing happens.
LEMMA StutterPhone ==
  ASSUME PhoneIInv, UNCHANGED vars
  PROVE  PhoneIInv'
<1>1. FlagsOK'
  BY Zenon DEF vars, PhoneIInv, FlagsOK
<1>2. RestOK'
  BY DEF vars, PhoneIInv, RestOK
<1> QED
  BY <1>1, <1>2, CallsKeep DEF vars

-----------------------------------------------------------------------------
\* PhoneIInv holds for ever.
THEOREM PhoneInvariance == Spec => []PhoneIInv
<1>1. PhoneIInv /\ [Next]_vars => PhoneIInv'
  <2> SUFFICES ASSUME PhoneIInv, Next PROVE PhoneIInv'
    BY StutterPhone
  <2>1. CASE MainStep
    BY <2>1, DialStartKeeps, ServeKeeps, JoinServerKeeps, StopDialKeeps, JoinDialMainKeeps
       DEF MainStep
  <2>2. CASE ServerStep \/ Accept \/ Teardown
    BY <2>2, ServerLoopKeeps, ServerSuspendKeeps, JoinDialServerKeeps, AcceptKeeps, TeardownKeeps
       DEF ServerStep
  <2>3. CASE UserStep
    BY <2>3, StopServerKeeps, AnswerKeeps, DrainKeeps, ResumeKeeps, DialReadKeeps, DialPadKeeps
       DEF UserStep
  <2>4. CASE \E d \in DialIds : DialLoop(d) \/ Connect(d)
    BY <2>4, DialLoopKeeps, ConnectKeeps
  <2>5. CASE \E t \in Handlers : HandlerStep(t) \/ Cancel(t)
    BY <2>5, BeginKeeps, OverKeeps, HangUpKeeps, CancelKeeps DEF HandlerStep
  <2>6. CASE \E t \in {Main} \cup Handlers : StopTest(t) \/ StopReturn(t)
    BY <2>6, StopTestKeeps, StopReturnKeeps
  <2>7. CASE \E k \in CallIds : CallStep(k) \/ PeerAnswers(k) \/ PeerHangsUp(k)
    BY <2>7, CallStepKeeps, PeerKeeps
  <2> QED
    BY <2>1, <2>2, <2>3, <2>4, <2>5, <2>6, <2>7 DEF Next
<1> QED
  BY <1>1, InitPhone, PTL DEF Spec

\* Every variable keeps its type, no dial thread is left while the server asks
\* the user or is in a call, and dialServiceThread names the only thread there is
\* (main_pretty.c:146; dialservice.c:62, 74, 95).
THEOREM PhoneSafe == Spec => []PhoneInv
<1>1. PhoneIInv => PhoneInv
  BY DEF PhoneIInv, FlagsOK, StepsOK, RestOK, PhoneInv, TypeOK
<1> QED
  BY <1>1, PhoneInvariance, PTL

\* Past both stops, the server has been joined and whoever still dials has been
\* cancelled (main_pretty.c:59-63).
THEOREM StopCancels == Spec => []StoppedMeansCancelled
<1>1. PhoneIInv => StoppedMeansCancelled
  BY DEF PhoneIInv
<1> QED
  BY <1>1, PhoneInvariance, PTL

\* A call under way has somebody who will hang it up, unless that thread was
\* cancelled (main_pretty.c:116-140, 185-221).
THEOREM CallsHandled == Spec => []CallsAreHandled
<1>1. PhoneIInv => CallsAreHandled
  BY DEF PhoneIInv
<1> QED
  BY <1>1, PhoneInvariance, PTL
=============================================================================
