----------------------------- MODULE CallSetup -----------------------------
(***************************************************************************)
(* How a call comes about between two phones and ends: the dialling of     *)
(* src/dialservice.c over src/addressbook.c, src/connection.c, the         *)
(* handshake of src/call.c, the start-up sound of src/trek.c and the       *)
(* silence that goes before the voice.  Phone.tla has the threads of one   *)
(* phone against their cancellation; this module has the two ends of one   *)
(* connection, and what is on the wire.                                    *)
(*                                                                         *)
(* send blocks while the buffers of the network are full.  Nobody receives *)
(* before Audio_start, so both phones fill the wire first, and if it is    *)
(* too short both ways neither goes on.                                    *)
(***************************************************************************)
EXTENDS Naturals, Sequences

CONSTANTS Caller, Callee,
          Book,         \* lookupTable: a sequence of [name, inetAddress]
          Addresses,    \* the addresses the two phones may have, in the book or not
          Capacity,     \* Capacity[p]: frames the network holds on the way from p
          NUM_BUFFERS,  \* frames of the start-up sound, 186 in the code
          MIN_PLAYBACK_QUEUE_LENGTH   \* 20 in the code

Phones == {Caller, Callee}
Other(p) == CHOOSE q \in Phones : q # p
Lead == NUM_BUFFERS + MIN_PLAYBACK_QUEUE_LENGTH

\* The sizes are positive.  How much the network holds nothing in the code asks
\* for: 186 + 20 frames are 206 KiB.
ASSUME SetupAssumption ==
    /\ Caller # Callee
    /\ NUM_BUFFERS \in Nat /\ MIN_PLAYBACK_QUEUE_LENGTH \in Nat \ {0}
    /\ \A f \in Addresses : f[Caller] # f[Callee]
    /\ Capacity \in [Phones -> Nat \ {0}]

Names == {Book[k].name : k \in DOMAIN Book}
Numbers == {Book[k].inetAddress : k \in DOMAIN Book}

\* The four entries of addressbook.c:10-15 have four names.
ASSUME BookAssumption ==
    /\ Book \in Seq([name : Names, inetAddress : Numbers])
    /\ \A j, k \in DOMAIN Book : Book[j].name = Book[k].name => j = k

VARIABLES inetAddress,   \* of each phone
          dialled,       \* what the user of the caller has typed, and how
          dest,          \* local of onDial: its address
          callerName,    \* what the callee's user is told
          answer,        \* history: what the callee's user has said
          pc,            \* the step the handler of the phone is about to do
          thread,        \* the step of its detached call thread
          sounds, silences,   \* loop counters of Trek_play and of beginCall: frames sent so far
          wire,          \* wire[p]: what is under way from p, oldest first
          queued,        \* playback queue, counted up to the minimum
          audio,         \* the phone's stream runs
          down,          \* the phone has shut down or closed its end
          killed         \* SIGPIPE has ended the phone

book == <<inetAddress, dialled, dest, callerName, answer>>
counters == <<sounds, silences>>
ends == <<down, killed>>
setupVars == <<book, pc, thread, counters, wire, queued, audio, ends>>

None == "none"
Frames == {"sound", "silence", "voice"}

SetupTypeOK ==
    /\ inetAddress \in Addresses
    /\ dialled \in (({None} \cup Names) \X {"name"}) \cup (Numbers \X {"number"})
    /\ dest \in {None} \cup Numbers /\ callerName \in {None} \cup Names
    /\ answer \in {None, "CALL_ACCEPT", "CALL_REJECT"}
    /\ pc \in [Phones -> {"dial", "connect", "greet", "listen", "ask", "drain", "begin",
                          "play", "incall", "stopping", "over", "ended"}]
    /\ thread \in [Phones -> {None, "silence", "start", "poll", "over"}]
    /\ sounds \in [Phones -> 0 .. NUM_BUFFERS]
    /\ silences \in [Phones -> 0 .. MIN_PLAYBACK_QUEUE_LENGTH]
    /\ wire \in [Phones -> Seq(Frames \cup {"CALL_ACCEPT", "CALL_REJECT"})]
    /\ \A p \in Phones : Len(wire[p]) <= Capacity[p] + 1
    /\ queued \in [Phones -> 0 .. MIN_PLAYBACK_QUEUE_LENGTH]
    /\ audio \in [Phones -> BOOLEAN]
    /\ down \in [Phones -> BOOLEAN] /\ killed \in [Phones -> BOOLEAN]

SetupInit ==
    /\ inetAddress \in Addresses
    /\ dialled = <<None, "name">> /\ dest = None /\ callerName = None /\ answer = None
    /\ pc = [p \in Phones |-> IF p = Caller THEN "dial" ELSE "listen"]
    /\ thread = [p \in Phones |-> None]
    /\ sounds = [p \in Phones |-> 0] /\ silences = [p \in Phones |-> 0]
    /\ wire = [p \in Phones |-> <<>>]
    /\ queued = [p \in Phones |-> 0]
    /\ audio = [p \in Phones |-> FALSE]
    /\ down = [p \in Phones |-> FALSE] /\ killed = [p \in Phones |-> FALSE]

SetupAt(p, step) == ~killed[p] /\ pc[p] = step
ThreadAt(p, step) == ~killed[p] /\ thread[p] = step

-----------------------------------------------------------------------------
(* addressbook.c: the first entry that fits, or None. *)

AddressBook_lookup(name) ==
    LET Fits(k) == Book[k].name = name
    IN  IF \E k \in DOMAIN Book : Fits(k)
        THEN Book[CHOOSE k \in DOMAIN Book : Fits(k) /\ \A l \in 1 .. k - 1 : ~Fits(l)].inetAddress
        ELSE None

AddressBook_reverseLookup(ip) ==
    LET Fits(k) == Book[k].inetAddress = ip
    IN  IF \E k \in DOMAIN Book : Fits(k)
        THEN Book[CHOOSE k \in DOMAIN Book : Fits(k) /\ \A l \in 1 .. k - 1 : ~Fits(l)].name
        ELSE None

-----------------------------------------------------------------------------
(* Dialling. *)

\* getInput and onDial: a name.  One that is not in the book changes nothing.
DialName(name) ==
    /\ SetupAt(Caller, "dial")
    /\ AddressBook_lookup(name) # None
    /\ dialled' = <<name, "name">>
    /\ dest' = AddressBook_lookup(name)
    /\ pc' = [pc EXCEPT ![Caller] = "connect"]
    /\ UNCHANGED <<inetAddress, callerName, answer, thread, counters, wire, queued, audio, ends>>

\* getKeypadInput: a number, of which onDial is given the name.  One that is
\* not in the book is asked for again.
DialNumber(ip) ==
    /\ SetupAt(Caller, "dial")
    /\ AddressBook_reverseLookup(ip) # None
    /\ dialled' = <<ip, "number">>
    /\ dest' = AddressBook_lookup(AddressBook_reverseLookup(ip))
    /\ pc' = [pc EXCEPT ![Caller] = "connect"]
    /\ UNCHANGED <<inetAddress, callerName, answer, thread, counters, wire, queued, audio, ends>>

\* Connection_create: there is somebody at that address who listens, or
\* socket or connect fails and the user dials again.  A call to oneself is left
\* out.
Connection_create ==
    /\ SetupAt(Caller, "connect")
    /\ \/ /\ dest = inetAddress[Callee]
          /\ pc' = [pc EXCEPT ![Caller] = "greet"]
       \/ pc' = [pc EXCEPT ![Caller] = "dial"]
    /\ UNCHANGED <<book, thread, counters, wire, queued, audio, ends>>

\* acceptConnections: a caller who is not in the book is closed.
AcceptConnection ==
    /\ SetupAt(Callee, "listen") /\ pc[Caller] \in {"greet", "begin"}
    /\ LET name == AddressBook_reverseLookup(inetAddress[Caller])
       IN  IF name = None
           THEN /\ down' = [down EXCEPT ![Callee] = TRUE]
                /\ pc' = [pc EXCEPT ![Callee] = "ended"]
                /\ UNCHANGED callerName
           ELSE /\ callerName' = name
                /\ pc' = [pc EXCEPT ![Callee] = "ask"]
                /\ UNCHANGED down
    /\ UNCHANGED <<inetAddress, dialled, dest, answer, thread, counters, wire, queued, audio, killed>>

-----------------------------------------------------------------------------
(* The handshake. *)

\* send, whose result nobody looks at, of a message m from p with room for
\* more.  After a shutdown it fails, with SIGPIPE or without.
SocketSend(p, m, room) ==
    IF down[p] \/ down[Other(p)]
    THEN /\ UNCHANGED wire
         /\ \/ UNCHANGED ends
            \/ killed' = [killed EXCEPT ![p] = TRUE] /\ down' = [down EXCEPT ![p] = TRUE]
    ELSE /\ Len(wire[p]) < room
         /\ wire' = [wire EXCEPT ![p] = Append(@, m)]
         /\ UNCHANGED ends

\* onDial, its half of the handshake.
Greet ==
    /\ SetupAt(Caller, "greet")
    /\ SocketSend(Caller, "CALL_ACCEPT", Capacity[Caller] + 1)
    /\ pc' = [pc EXCEPT ![Caller] = "begin"]
    /\ UNCHANGED <<book, thread, counters, queued, audio>>

\* Mutant: the user says yes and nothing is sent.
AskUser_NoAccept(a) ==
    /\ SetupAt(Callee, "ask")
    /\ answer' = a
    /\ pc' = [pc EXCEPT ![Callee] = IF a = "CALL_ACCEPT" THEN "drain" ELSE "ended"]
    /\ UNCHANGED <<inetAddress, dialled, dest, callerName, thread, counters, wire, queued, audio, ends>>

\* handleIncomingCall, with Call_accept and Call_reject: after a refusal the
\* connection is left as it is.
AskUser(a) ==
    /\ SetupAt(Callee, "ask")
    /\ answer' = a
    /\ SocketSend(Callee, a, Capacity[Callee] + 1)
    /\ pc' = [pc EXCEPT ![Callee] = IF a = "CALL_ACCEPT" THEN "drain" ELSE "ended"]
    /\ UNCHANGED <<inetAddress, dialled, dest, callerName, thread, counters, queued, audio>>

\* handleIncomingCall reads the rest of the line; a terminal hands over whole
\* lines, so it is there.
Drain ==
    /\ SetupAt(Callee, "drain")
    /\ pc' = [pc EXCEPT ![Callee] = "begin"]
    /\ UNCHANGED <<book, thread, counters, wire, queued, audio, ends>>

\* Where CALL_FAIL leads: onDial gives up, handleIncomingCall does not look.
AfterReject(p) == IF p = Caller THEN "ended" ELSE "incall"

\* Mutant: what the handshake says is not looked at.
Begin_Blind(p) ==
    /\ SetupAt(p, "begin") /\ wire[Other(p)] # <<>>
    /\ wire' = [wire EXCEPT ![Other(p)] = Tail(@)]
    /\ pc' = [pc EXCEPT ![p] = "play"]
    /\ UNCHANGED <<book, thread, counters, queued, audio, ends>>

\* Call_begin: the other's half, or, if the connection ended first, whatever
\* the variable holds.
Begin(p) ==
    /\ SetupAt(p, "begin")
    /\ \E handshake \in {"CALL_ACCEPT", "CALL_REJECT"} :
         /\ \/ /\ wire[Other(p)] # <<>> /\ handshake = Head(wire[Other(p)])
               /\ wire' = [wire EXCEPT ![Other(p)] = Tail(@)]
            \/ /\ wire[Other(p)] = <<>> /\ down[Other(p)]
               /\ UNCHANGED wire
         /\ pc' = [pc EXCEPT ![p] = IF handshake = "CALL_REJECT" THEN AfterReject(p) ELSE "play"]
    /\ UNCHANGED <<book, thread, counters, queued, audio, ends>>

-----------------------------------------------------------------------------
(* Before the voice. *)

\* One frame of the sound.
Trek_play(p) ==
    /\ SetupAt(p, "play") /\ sounds[p] < NUM_BUFFERS
    /\ SocketSend(p, "sound", Capacity[p])
    /\ sounds' = [sounds EXCEPT ![p] = @ + 1]
    /\ UNCHANGED <<book, pc, thread, silences, queued, audio>>

\* Trek_play returns, createCallThread.
CreateCallThread(p) ==
    /\ SetupAt(p, "play") /\ sounds[p] = NUM_BUFFERS
    /\ pc' = [pc EXCEPT ![p] = "incall"]
    /\ thread' = [thread EXCEPT ![p] = IF @ = None THEN "silence" ELSE @]
    /\ UNCHANGED <<book, counters, wire, queued, audio, ends>>

\* beginCall: one frame of silence.
SendSilence(p) ==
    /\ ThreadAt(p, "silence") /\ silences[p] < MIN_PLAYBACK_QUEUE_LENGTH
    /\ SocketSend(p, "silence", Capacity[p])
    /\ silences' = [silences EXCEPT ![p] = @ + 1]
    /\ UNCHANGED <<book, pc, thread, sounds, queued, audio>>

\* Audio_start is called: the fill thread begins to receive.
StartAudio(p) ==
    /\ ThreadAt(p, "silence") /\ silences[p] = MIN_PLAYBACK_QUEUE_LENGTH
    /\ thread' = [thread EXCEPT ![p] = "start"]
    /\ UNCHANGED <<book, pc, counters, wire, queued, audio, ends>>

\* receiveDatagram, in the fill thread.
ReceiveFrame(p) ==
    /\ ~killed[p] /\ (thread[p] = "start" \/ audio[p]) /\ ~down[p]
    /\ wire[Other(p)] # <<>>
    /\ wire' = [wire EXCEPT ![Other(p)] = Tail(@)]
    /\ queued' = [queued EXCEPT ![p] = IF @ < MIN_PLAYBACK_QUEUE_LENGTH THEN @ + 1 ELSE @]
    /\ UNCHANGED <<book, pc, thread, counters, audio, ends>>

\* bufferPlaybackQueue has seen enough: Audio_start starts the stream and
\* returns.
AudioStarted(p) ==
    /\ ThreadAt(p, "start") /\ queued[p] = MIN_PLAYBACK_QUEUE_LENGTH
    /\ audio' = [audio EXCEPT ![p] = TRUE]
    /\ thread' = [thread EXCEPT ![p] = "poll"]
    /\ UNCHANGED <<book, pc, counters, wire, queued, ends>>

\* sendDatagram, in the flush thread.
SendVoice(p) ==
    /\ ~killed[p] /\ audio[p]
    /\ SocketSend(p, "voice", Capacity[p])
    /\ UNCHANGED <<book, pc, thread, counters, queued, audio>>

-----------------------------------------------------------------------------
(* The end. *)

\* Mutant: the connection is not shut down.
HangUpCall_Forget(p) ==
    /\ SetupAt(p, "incall")
    /\ pc' = [pc EXCEPT ![p] = "stopping"]
    /\ UNCHANGED <<book, thread, counters, wire, queued, audio, ends>>

\* Ctrl-D, or POLLRDHUP; Call_terminate up to Audio_stop.
HangUpCall(p) ==
    /\ SetupAt(p, "incall")
    /\ down' = [down EXCEPT ![p] = TRUE]
    /\ pc' = [pc EXCEPT ![p] = "stopping"]
    /\ UNCHANGED <<book, thread, counters, wire, queued, audio, killed>>

\* Audio_stop.
StopAudio(p) ==
    /\ SetupAt(p, "stopping")
    /\ audio' = [audio EXCEPT ![p] = FALSE]
    /\ pc' = [pc EXCEPT ![p] = "over"]
    /\ UNCHANGED <<book, thread, counters, wire, queued, ends>>

\* beginCall's poll finds the connection shut down, and the thread exits.
CallThreadExit(p) ==
    /\ ThreadAt(p, "poll") /\ (down[p] \/ down[Other(p)])
    /\ thread' = [thread EXCEPT ![p] = "over"]
    /\ UNCHANGED <<book, pc, counters, wire, queued, audio, ends>>

\* What is under way when an end is shut down may be lost.
Lost(p) ==
    /\ down[p] \/ down[Other(p)]
    /\ wire[p] # <<>>
    /\ wire' = [wire EXCEPT ![p] = SubSeq(@, 1, Len(@) - 1)]
    /\ UNCHANGED <<book, pc, thread, counters, queued, audio, ends>>

-----------------------------------------------------------------------------
\* The user has to do none of these.
Users ==
    \/ \E name \in Names : DialName(name)
    \/ \E ip \in Numbers : DialNumber(ip)
    \/ \E a \in {"CALL_ACCEPT", "CALL_REJECT"} : AskUser(a)
    \/ \E p \in Phones : HangUpCall(p)

Handler(p) ==
    \/ p = Caller /\ (Connection_create \/ Greet)
    \/ p = Callee /\ Drain
    \/ Begin(p) \/ Trek_play(p) \/ CreateCallThread(p)
    \/ down[Other(p)] /\ HangUpCall(p)

CallThread(p) == SendSilence(p) \/ StartAudio(p) \/ AudioStarted(p) \/ CallThreadExit(p)

SetupNext ==
    \/ Users \/ AcceptConnection
    \/ \E p \in Phones :
         Handler(p) \/ CallThread(p) \/ ReceiveFrame(p) \/ SendVoice(p) \/ StopAudio(p) \/ Lost(p)

SetupFairness ==
    \A p \in Phones :
        WF_setupVars(Handler(p)) /\ WF_setupVars(CallThread(p)) /\ WF_setupVars(ReceiveFrame(p))

\* Each thread of a phone goes on when it can.
SetupSpec == SetupInit /\ [][SetupNext]_setupVars /\ SetupFairness

-----------------------------------------------------------------------------
(* Properties. *)

\* The part of the set-up that each message belongs to.
Rank == [CALL_ACCEPT |-> 0, CALL_REJECT |-> 0, sound |-> 1, silence |-> 2, voice |-> 3]

\* Three threads send on one socket without a lock, one after the other: the
\* handshake, the sound, the silence and the voice go out in this order, so the
\* other phone takes no frame for a handshake (call.c:47-51, 102-106).
SoundBeforeVoice ==
    \A p \in Phones : \A a, b \in DOMAIN wire[p] : a < b => Rank[wire[p][a]] <= Rank[wire[p][b]]

\* Neither phone sends a frame of a call that the callee's user has not
\* accepted, unless the callee closed the connection before it answered, which
\* passes for acceptance (call.c:42-47, main_pretty.c:154-161).
FramesOnlyAfterYes ==
    (\E p \in Phones : sounds[p] + silences[p] > 0 \/ thread[p] # None)
        => answer = "CALL_ACCEPT" \/ (answer = None /\ down[Callee])

\* The phone that is reached is the one the user has named or whose number he
\* has typed, and the name the other user is told is the one to dial to call
\* back (dialservice.c:184-199, main_pretty.c:72-81, voiceserver.c:97-108).
RightPhones ==
    /\ pc[Caller] \notin {"dial", "connect"} =>
          \/ dialled = <<inetAddress[Callee], "number">>
          \/ \E k \in DOMAIN Book :
                Book[k].inetAddress = inetAddress[Callee] /\ dialled = <<Book[k].name, "name">>
    /\ callerName # None => AddressBook_lookup(callerName) = inetAddress[Caller]

\* The call that comes up is the one that was asked for, and what goes over the
\* wire is in the order in which the other phone reads it.
SetupInv == SoundBeforeVoice /\ FramesOnlyAfterYes /\ RightPhones

\* From the handshake on each phone comes to run its audio, unless somebody hangs
\* up: main_pretty.c:173 "Call has started. Press 'Ctrl-D' to hang up."
\* (trek.c:28-31, call.c:102-106, audio.c:363-370).
SetupCompletes ==
    \A p \in Phones : pc[p] = "play" ~> audio[p] \/ down[Caller] \/ down[Callee]

\* Both phones fill the wire before they receive anything.  It takes only one
\* direction that holds the sound and the silence, 206 frames, for neither to
\* wait for ever: the phone that can send it all goes on to receive what the
\* other has stopped at (trek.c:28-31, call.c:102-106, audio.c:363-370).
OneWireSuffices == (\E p \in Phones : Capacity[p] >= Lead) => SetupCompletes

\* When one phone has hung up the other's handler comes to hang up too,
\* whichever part of the set-up it is in, or SIGPIPE ends it
\* (main_pretty.c:127-130, 196-199).
HangUpSeen ==
    \A p \in Phones :
        (down[p] \/ pc[p] = "stopping") ~>
            killed[Other(p)] \/ pc[Other(p)] \in {"stopping", "over", "ended", "dial"}
=============================================================================
