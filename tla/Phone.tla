------------------------------- MODULE Phone -------------------------------
(***************************************************************************)
(* The phone program, src/main_pretty.c, with the services it is made of:  *)
(* src/voiceserver.c, src/dialservice.c, src/connection.c, and the call    *)
(* control of src/call.c.                                                  *)
(*                                                                         *)
(* The main thread starts the two services and waits for SIGINT.  The      *)
(* server thread accepts connections and runs handleIncomingCall; a dial   *)
(* thread reads names, or the keypad, and runs onDial.  Both stop each     *)
(* other's work with pthread_cancel, which the target obeys at its next    *)
(* blocking call.  Every call that was begun has a detached thread,        *)
(* beginCall, that starts the audio.                                       *)
(*                                                                         *)
(* Of the audio only "started" is here: Audio_start and Audio_stop take    *)
(* time and may not return.  Audio.tla has the rest.                       *)
(***************************************************************************)
EXTENDS Integers, FiniteSets

CONSTANTS Main, Server,   \* the main thread and voiceServerThread
          Calls           \* bound: connections, in and out

ASSUME CallsAssumption == Calls \in Nat
ASSUME ThreadsAssumption == Main # Server /\ {Main, Server} \cap (0 .. Calls + 1) = {}

\* A connection has a number.  So has a dial thread: the first is started by
\* main, and each incoming call starts one more at most.
CallIds == 1 .. Calls
DialIds == 1 .. Calls + 1
Handlers == {Server} \cup DialIds

VARIABLES pc,                \* pc[t]: what thread t is about to do
          conn,              \* conn[t]: the connection on t's stack, or 0
          cancelled,         \* threads that were sent pthread_cancel
          keypad,            \* the first dial thread reads the keypad
          serviceSuspended,
          dialStop, serverStop,   \* "stop" of dialservice.c and of voiceserver.c
          dialServiceThread, \* the handle, or 0
          line,              \* line[k]: the TCP connection
          answer,            \* answer[k]: the peer's handshake, once it has come
          call,              \* call[k]: what the beginCall thread of k is about to do
          started,           \* of audio.c
          dead               \* exit(1)

services == <<serviceSuspended, dialStop, serverStop, dialServiceThread, keypad>>
network == <<line, answer>>
vars == <<pc, conn, cancelled, services, network, call, started, dead>>

InCall == {"begin", "incall", "hangup", "stopTest", "stopping"}

TypeOK ==
    /\ pc[Main] \in {"dial", "serve", "wait", "joinServer", "stopDial", "joinDial",
                     "stopTest", "stopping", "teardown", "exit"}
    /\ pc[Server] \in {"none", "loop", "accept", "suspend", "joinDial", "ask", "drain",
                       "resume", "ended", "joined"} \cup InCall
    /\ \A d \in DialIds : pc[d] \in {"none", "loop", "read", "pad", "connect", "ended",
                                     "joined"} \cup InCall
    /\ DOMAIN pc = {Main} \cup Handlers
    /\ conn \in [Handlers -> {0} \cup CallIds]
    /\ cancelled \subseteq Handlers
    /\ {keypad, serviceSuspended, dialStop, serverStop, started, dead} \subseteq BOOLEAN
    /\ dialServiceThread \in {0} \cup DialIds
    /\ line \in [CallIds -> {"unused", "open", "peerDown", "down"}]
    /\ answer \in [CallIds -> {"none", "CALL_ACCEPT", "CALL_REJECT"}]
    /\ call \in [CallIds -> {"none", "start", "starting", "poll", "ended"}]

Init ==
    /\ pc = [t \in {Main} \cup Handlers |-> IF t = Main THEN "dial" ELSE "none"]
    /\ conn = [t \in Handlers |-> 0]
    /\ cancelled = {}
    /\ serviceSuspended = FALSE /\ dialStop = FALSE /\ serverStop = FALSE
    /\ dialServiceThread = 0 /\ keypad = FALSE
    /\ line = [k \in CallIds |-> "unused"] /\ answer = [k \in CallIds |-> "none"]
    /\ call = [k \in CallIds |-> "none"]
    /\ started = FALSE /\ dead = FALSE

At(t, step) == ~dead /\ pc[Main] # "exit" /\ pc[t] = step
Goto(t, step) == pc' = [pc EXCEPT ![t] = step]

Gone == {"none", "ended", "joined"}
Alive(t) == pc[t] \notin Gone

-----------------------------------------------------------------------------
(* dialservice.c. *)

\* startThread: the caller t goes on at step, the new thread begins at first.
StartThread(t, step, first) ==
    /\ dialServiceThread' = Cardinality({d \in DialIds : pc[d] # "none"}) + 1
    /\ pc' = [pc EXCEPT ![t] = step, ![dialServiceThread'] = first]

\* DialService_start, 36-47: the user chooses the keypad or the keyboard.
DialStart ==
    /\ At(Main, "dial")
    /\ keypad' \in BOOLEAN
    /\ StartThread(Main, "serve", IF keypad' THEN "pad" ELSE "loop")
    /\ serviceSuspended' = FALSE /\ dialStop' = FALSE
    /\ UNCHANGED <<conn, cancelled, serverStop, network, call, started, dead>>

\* DialService_suspend up to pthread_join, 54-62, called by t, which goes on at
\* onward.
Suspend(t, onward) ==
    /\ serviceSuspended' = TRUE
    /\ IF serviceSuspended
         THEN Goto(t, onward) /\ UNCHANGED cancelled
         ELSE Goto(t, "joinDial") /\ cancelled' = cancelled \cup {dialServiceThread}

\* Line 74.
JoinDial(t, onward) ==
    /\ At(t, "joinDial")
    /\ pc[dialServiceThread] = "ended"
    /\ pc' = [pc EXCEPT ![t] = onward, ![dialServiceThread] = "joined"]
    /\ UNCHANGED <<conn, cancelled, services, network, call, started, dead>>

\* DialService_resume, 86-97, called by the server: once the user has ended a
\* line, a thread that reads names is started, whatever the first one was.
Resume ==
    /\ At(Server, "resume")
    /\ IF serviceSuspended
         THEN serviceSuspended' = FALSE /\ StartThread(Server, "loop", "loop")
         ELSE Goto(Server, "loop") /\ UNCHANGED <<serviceSuspended, dialServiceThread>>
    /\ UNCHANGED <<conn, cancelled, dialStop, serverStop, keypad, network, call, started, dead>>

\* getInput, 129.
DialLoop(d) ==
    /\ At(d, "loop")
    /\ Goto(d, IF dialStop \/ serviceSuspended THEN "ended" ELSE "read")
    /\ UNCHANGED <<conn, cancelled, services, network, call, started, dead>>

\* Lines 135-159 and onDial, 72-77: a known name, or none.
DialRead(d) ==
    /\ At(d, "read")
    /\ \E found \in BOOLEAN : Goto(d, IF found THEN "connect" ELSE "loop")
    /\ UNCHANGED <<conn, cancelled, services, network, call, started, dead>>

\* getKeypadInput, 182-198: until a number is found.
DialPad(d) ==
    /\ At(d, "pad")
    /\ Goto(d, "connect")
    /\ UNCHANGED <<conn, cancelled, services, network, call, started, dead>>

\* onDial returns: getInput reads on, getKeypadInput ends.
AfterDial(d) == IF keypad /\ d = 1 THEN "ended" ELSE "loop"

-----------------------------------------------------------------------------
(* connection.c and call.c. *)

\* onDial, 81-94, with Connection_create and Call_accept.
Connect(d) ==
    /\ At(d, "connect")
    /\ \/ Goto(d, AfterDial(d)) /\ UNCHANGED <<conn, line>>
       \/ \E k \in CallIds :
            /\ line[k] = "unused" /\ \A j \in 1 .. k - 1 : line[j] # "unused"
            /\ line' = [line EXCEPT ![k] = "open"]
            /\ conn' = [conn EXCEPT ![d] = k]
            /\ Goto(d, "begin")
    /\ UNCHANGED <<cancelled, services, answer, call, started, dead>>

\* Call_begin, 40-63, called by t.  An answer that is not CALL_REJECT, or none,
\* passes for acceptance.  onDial gives up after CALL_FAIL (main_pretty.c:98);
\* handleIncomingCall does not look (172).
Begin(t) ==
    /\ At(t, "begin")
    /\ LET k == conn[t]
       IN  /\ answer[k] # "none" \/ line[k] # "open"
           /\ IF answer[k] = "CALL_REJECT"
                THEN /\ Goto(t, IF t = Server THEN "incall" ELSE AfterDial(t))
                     /\ UNCHANGED call
                ELSE /\ Goto(t, "incall")
                     /\ call' = [call EXCEPT ![k] = "start"]
    /\ UNCHANGED <<conn, cancelled, services, network, started, dead>>

\* main_pretty.c, 116-131 and 185-200: Ctrl-D, or the peer has hung up.
Over(t) ==
    /\ At(t, "incall")
    /\ Goto(t, "hangup")
    /\ UNCHANGED <<conn, cancelled, services, network, call, started, dead>>

\* Mutant: the connection is left open.
HangUp_Forget(t) ==
    /\ At(t, "hangup")
    /\ Goto(t, "stopTest")
    /\ UNCHANGED <<conn, cancelled, services, network, call, started, dead>>

\* Call_terminate, 67.
HangUp(t) ==
    /\ At(t, "hangup")
    /\ line' = [line EXCEPT ![conn[t]] = "down"]
    /\ Goto(t, "stopTest")
    /\ UNCHANGED <<conn, cancelled, services, answer, call, started, dead>>

\* Where Audio_stop returns to: main_pretty.c, 63, 141 and 222.
AfterStop(t) ==
    IF t = Main THEN "teardown" ELSE IF t = Server THEN "resume" ELSE AfterDial(t)

\* Audio_stop.
StopTest(t) ==
    /\ At(t, "stopTest")
    /\ Goto(t, IF started THEN "stopping" ELSE AfterStop(t))
    /\ UNCHANGED <<conn, cancelled, services, network, call, started, dead>>

StopReturn(t) ==
    /\ At(t, "stopping")
    /\ started' \in {FALSE, started}
    /\ Goto(t, AfterStop(t))
    /\ UNCHANGED <<conn, cancelled, services, network, call, dead>>

CallAt(k, step) == ~dead /\ pc[Main] # "exit" /\ call[k] = step

\* beginCall, 102-106: Audio_start turns a second call away.
CallStart(k) ==
    /\ CallAt(k, "start")
    /\ call' = [call EXCEPT ![k] = IF started THEN "poll" ELSE "starting"]
    /\ started' = TRUE
    /\ UNCHANGED <<pc, conn, cancelled, services, network, dead>>

\* Lines 112-115: Audio_start returns.
CallStarted(k) ==
    /\ CallAt(k, "starting")
    /\ \E ok \in BOOLEAN : call' = [call EXCEPT ![k] = IF ok THEN "poll" ELSE "ended"]
    /\ UNCHANGED <<pc, conn, cancelled, services, network, started, dead>>

\* Lines 143-153: the connection has been shut down, or poll has failed.
CallEnd(k) ==
    /\ CallAt(k, "poll")
    /\ \/ line[k] # "open" /\ call' = [call EXCEPT ![k] = "ended"] /\ UNCHANGED dead
       \/ dead' = TRUE /\ UNCHANGED call
    /\ UNCHANGED <<pc, conn, cancelled, services, network, started>>

\* The peer sends its half of the handshake.
PeerAnswers(k) ==
    /\ line[k] = "open" /\ answer[k] = "none"
    /\ \E a \in {"CALL_ACCEPT", "CALL_REJECT"} : answer' = [answer EXCEPT ![k] = a]
    /\ UNCHANGED <<pc, conn, cancelled, services, line, call, started, dead>>

\* The peer hangs up, or is gone.
PeerHangsUp(k) ==
    /\ line[k] = "open"
    /\ line' = [line EXCEPT ![k] = "peerDown"]
    /\ UNCHANGED <<pc, conn, cancelled, services, answer, call, started, dead>>

-----------------------------------------------------------------------------
(* voiceserver.c and handleIncomingCall. *)

\* VoiceServer_start, 21-35: Connection_listen may find the port taken.
Serve ==
    /\ At(Main, "serve")
    /\ \/ pc' = [pc EXCEPT ![Main] = "wait", ![Server] = "loop"]
          /\ serverStop' = FALSE /\ UNCHANGED dead
       \/ dead' = TRUE /\ UNCHANGED <<pc, serverStop>>
    /\ UNCHANGED <<conn, cancelled, serviceSuspended, dialStop, dialServiceThread, keypad,
                   network, call, started>>

\* acceptConnections, 68.
ServerLoop ==
    /\ At(Server, "loop")
    /\ Goto(Server, IF serverStop THEN "ended" ELSE "accept")
    /\ UNCHANGED <<conn, cancelled, services, network, call, started, dead>>

\* Lines 70-106: an unknown caller's connection is closed.
Accept ==
    /\ At(Server, "accept")
    /\ \E k \in CallIds :
         /\ line[k] = "unused" /\ \A j \in 1 .. k - 1 : line[j] # "unused"
         /\ conn' = [conn EXCEPT ![Server] = k]
         /\ \/ line' = [line EXCEPT ![k] = "open"] /\ Goto(Server, "suspend")
            \/ line' = [line EXCEPT ![k] = "down"] /\ Goto(Server, "loop")
    /\ UNCHANGED <<cancelled, services, answer, call, started, dead>>

\* Mutant: the user is asked without suspending the dial service.
ServerSuspend_Forget ==
    /\ At(Server, "suspend")
    /\ Goto(Server, "ask")
    /\ UNCHANGED <<conn, cancelled, services, network, call, started, dead>>

\* main_pretty.c, 147.
ServerSuspend ==
    /\ At(Server, "suspend")
    /\ Suspend(Server, "ask")
    /\ UNCHANGED <<conn, dialStop, serverStop, dialServiceThread, keypad, network, call,
                   started, dead>>

\* Lines 150-164: y, n, or anything else.
Answer ==
    /\ At(Server, "ask")
    /\ \E next \in {"drain", "resume"} : Goto(Server, next)
    /\ UNCHANGED <<conn, cancelled, services, network, call, started, dead>>

\* Lines 166-168: the rest of the user's line.
Drain ==
    /\ At(Server, "drain")
    /\ Goto(Server, "begin")
    /\ UNCHANGED <<conn, cancelled, services, network, call, started, dead>>

-----------------------------------------------------------------------------
(* SIGINT. *)

\* Mutant: the server is told to stop, but not cancelled.
StopServer_NoCancel ==
    /\ At(Main, "wait")
    /\ serverStop' = TRUE
    /\ Goto(Main, "joinServer")
    /\ UNCHANGED <<conn, cancelled, serviceSuspended, dialStop, dialServiceThread, keypad,
                   network, call, started, dead>>

\* main, 55-59, and VoiceServer_stop, 37-44.
StopServer ==
    /\ At(Main, "wait")
    /\ serverStop' = TRUE /\ cancelled' = cancelled \cup {Server}
    /\ Goto(Main, "joinServer")
    /\ UNCHANGED <<conn, serviceSuspended, dialStop, dialServiceThread, keypad,
                   network, call, started, dead>>

\* VoiceServer_stop, 46-49.
JoinServer ==
    /\ At(Main, "joinServer")
    /\ pc[Server] = "ended"
    /\ pc' = [pc EXCEPT ![Main] = "stopDial", ![Server] = "joined"]
    /\ UNCHANGED <<conn, cancelled, services, network, call, started, dead>>

\* Mutant: the dial thread is left to see "stop" for itself.
StopDial_FlagOnly ==
    /\ At(Main, "stopDial")
    /\ dialStop' = TRUE
    /\ Goto(Main, "stopTest")
    /\ UNCHANGED <<conn, cancelled, serviceSuspended, serverStop, dialServiceThread, keypad,
                   network, call, started, dead>>

\* DialService_stop, 99-114.
StopDial ==
    /\ At(Main, "stopDial")
    /\ dialStop' = TRUE
    /\ Suspend(Main, "stopTest")
    /\ UNCHANGED <<conn, serverStop, dialServiceThread, keypad, network, call, started, dead>>

\* Audio_teardown, and the end of main.
Teardown ==
    /\ At(Main, "teardown")
    /\ started' = FALSE
    /\ Goto(Main, "exit")
    /\ UNCHANGED <<conn, cancelled, services, network, call, dead>>

\* A cancelled thread ends at a call that is a cancellation point; nothing it
\* holds is put in order.
CancelPoints == {"accept", "joinDial", "ask", "drain", "resume", "read", "pad",
                 "connect"} \cup InCall

Cancel(t) ==
    /\ t \in cancelled /\ \E step \in CancelPoints : At(t, step)
    /\ Goto(t, "ended")
    /\ UNCHANGED <<conn, cancelled, services, network, call, started, dead>>

-----------------------------------------------------------------------------
MainStep == DialStart \/ Serve \/ JoinServer \/ StopDial \/ JoinDial(Main, "stopTest")
ServerStep == ServerLoop \/ ServerSuspend \/ JoinDial(Server, "ask")
UserStep ==
    \/ StopServer \/ Answer \/ Drain \/ Resume
    \/ \E d \in DialIds : DialRead(d) \/ DialPad(d)
CallStep(k) == CallStart(k) \/ CallStarted(k) \/ CallEnd(k)
HandlerStep(t) == Begin(t) \/ Over(t) \/ HangUp(t)

Next ==
    \/ MainStep \/ ServerStep \/ UserStep \/ Accept \/ Teardown
    \/ \E d \in DialIds : DialLoop(d) \/ Connect(d)
    \/ \E t \in Handlers : HandlerStep(t) \/ Cancel(t)
    \/ \E t \in {Main} \cup Handlers : StopTest(t) \/ StopReturn(t)
    \/ \E k \in CallIds : CallStep(k) \/ PeerAnswers(k) \/ PeerHangsUp(k)

Spec == Init /\ [][Next]_vars

\* Threads run when they can, and a thread in a cancellation point obeys.
\* Neither the user, nor a peer, nor the audio has to do anything.
FairSpec ==
    /\ Spec
    /\ WF_vars(MainStep) /\ WF_vars(ServerStep)
    /\ \A d \in DialIds : WF_vars(DialLoop(d))
    /\ \A t \in Handlers : WF_vars(Cancel(t))

-----------------------------------------------------------------------------
(* Properties. *)

\* main_pretty.c:146 "Prevent user from dialing out during call": from the
\* question to the user until DialService_resume no dial thread is left, so
\* the server is the only reader of stdin and the only one in a call.
NoDialDuringCall ==
    pc[Server] \in {"ask", "drain", "resume"} \cup InCall
        => \A d \in DialIds : ~Alive(d)

\* dialServiceThread names the only dial thread there is, so DialService_suspend
\* cancels and joins the right one, and exactly once (dialservice.c:62, 74, 95).
DialHandle ==
    \A d \in DialIds : pc[d] \in {"none", "joined"} \/ d = dialServiceThread

\* The dial thread, the server and main take turns at the user.
PhoneInv == TypeOK /\ NoDialDuringCall /\ DialHandle

\* When main has passed both stops, the server has been joined and no dial
\* thread is left that can go past its next cancellation point.  A call thread,
\* which is detached, may still be at work (main_pretty.c:59-63).
StoppedMeansCancelled ==
    pc[Main] \in {"stopTest", "stopping", "teardown"}
        => /\ pc[Server] = "joined"
           /\ \A d \in DialIds : ~Alive(d) \/ d \in cancelled

\* A call under way has a handler that will hang it up, unless that handler was
\* cancelled (main_pretty.c:116-140, 185-221; call.c:67).
CallsAreHandled ==
    \A k \in CallIds :
        (line[k] = "open" /\ call[k] # "none") =>
            \E t \in Handlers :
                conn[t] = k /\ (pc[t] \in InCall \/ (~Alive(t) /\ t \in cancelled))

\* Every pthread_join of the two services returns, whatever the joined thread
\* was doing: reading, dialling, answering, in a call, or joining another
\* (voiceserver.c:47, dialservice.c:74).
JoinsReturn ==
    \A t \in {Main, Server} :
        (pc[t] \in {"joinServer", "joinDial"})
            ~> (pc[t] \notin {"joinServer", "joinDial"} \/ dead \/ pc[Main] = "exit")
=============================================================================
