------------------------------ MODULE Datagram ------------------------------
(***************************************************************************)
(* sendDatagram and receiveDatagram of src/call.c: one direction of a call *)
(* over its TCP socket.  The flush thread of one phone calls sendDatagram  *)
(* once per recorded frame; the fill thread of the other calls             *)
(* receiveDatagram for one frame after the other.                          *)
(*                                                                         *)
(* A byte is known by the frame and the place in memory it was sent from.  *)
(* buffer is a Sample*, so "buffer + n" is n samples, not n bytes, past    *)
(* its start; bytesSent and its like are signed and bufferSize is not, so  *)
(* -1 compares as greater than bufferSize.                                 *)
(***************************************************************************)
EXTENDS Integers, Sequences

CONSTANTS Size,       \* FRAMEBUFFER_SIZE
          SampleSize, \* sizeof(Sample)
          Junk,       \* what the receiver's buffer held before
          MaxFrames   \* bound: frames the sender has

ASSUME SizeAssumption ==
    /\ SampleSize \in Nat \ {0} /\ MaxFrames \in Nat
    /\ Size \in Nat \ {0} /\ Size % SampleSize = 0

VARIABLES open,     \* neither side has shut the socket down
          stream,   \* bytes under way, oldest first
          sPc,      \* the sender is "idle" between calls, or at the loop of "send"
          frame,    \* frames handed to sendDatagram so far
          bytesSent, totalBytesSent,
          rPc,      \* the receiver: "idle", at the loop of "recv", or "stopped"
          frameBuffer,   \* the receiver's buffer, and what lies behind it
          bytesReceived, totalBytesReceived,
          sigpipe    \* SIGPIPE has ended the sending process

sender == <<sPc, frame, bytesSent, totalBytesSent, sigpipe>>
receiver == <<rPc, frameBuffer, bytesReceived, totalBytesReceived>>
transportVars == <<open, stream, sender, receiver>>

\* Places a byte may be read from or written to.
Reach == 0 .. (SampleSize + 1) * Size

Bytes == (1 .. MaxFrames) \X Reach

TransportTypeOK ==
    /\ open \in BOOLEAN /\ sigpipe \in BOOLEAN
    /\ stream \in Seq(Bytes)
    /\ sPc \in {"idle", "send"} /\ frame \in 0 .. MaxFrames
    /\ bytesSent \in -1 .. Size /\ totalBytesSent \in -1 .. Size
    /\ rPc \in {"idle", "recv", "stopped"}
    /\ frameBuffer \in [Reach -> Bytes \cup {Junk}]
    /\ bytesReceived \in -1 .. Size /\ totalBytesReceived \in -1 .. Size

TransportInit ==
    /\ open = TRUE /\ sigpipe = FALSE
    /\ stream = <<>>
    /\ sPc = "idle" /\ frame = 0 /\ bytesSent = 0 /\ totalBytesSent = 0
    /\ rPc = "idle" /\ frameBuffer = [i \in Reach |-> Junk]
    /\ bytesReceived = 0 /\ totalBytesReceived = 0

\* a < b where a is signed and b is a size_t.
UnsignedLess(a, b) == a >= 0 /\ a < b

-----------------------------------------------------------------------------
(* sendDatagram. *)

\* The k bytes of a frame that start at memory place p.
Piece(p, k) == [i \in 1 .. k |-> <<frame', p + i - 1>>]

\* send(socket, p, len): some of the bytes, all of them as a rule; none if none
\* are asked for.  On a socket that was shut down, SIGPIPE, or -1 if the peer
\* reset it.
Send(p, len) ==
    \/ /\ open
       /\ \E k \in (IF len = 0 THEN 0 ELSE 1) .. len :
             /\ bytesSent' = k
             /\ stream' = stream \o Piece(p, k)
       /\ UNCHANGED sigpipe
    \/ ~open /\ bytesSent' = -1 /\ UNCHANGED <<stream, sigpipe>>
    \/ ~open /\ sigpipe' = TRUE /\ UNCHANGED <<stream, bytesSent>>

\* Lines 160-161.
SendFirst ==
    /\ sPc = "idle" /\ ~sigpipe /\ frame < MaxFrames
    /\ frame' = frame + 1
    /\ Send(0, Size)
    /\ totalBytesSent' = bytesSent'
    /\ sPc' = "send"
    /\ UNCHANGED <<open, receiver>>

\* Lines 164, 172-173: the loop tests the bytes of the last send.
SendMore ==
    /\ sPc = "send" /\ ~sigpipe /\ UnsignedLess(bytesSent, Size)
    /\ frame' = frame
    /\ Send(SampleSize * totalBytesSent, Size - totalBytesSent)
    /\ totalBytesSent' = IF sigpipe' THEN totalBytesSent ELSE totalBytesSent + bytesSent'
    /\ UNCHANGED <<open, sPc, receiver>>

\* Line 178, which an error reaches too.
SendReturn ==
    /\ sPc = "send" /\ ~sigpipe /\ ~UnsignedLess(bytesSent, Size)
    /\ sPc' = "idle"
    /\ UNCHANGED <<open, stream, frame, bytesSent, totalBytesSent, sigpipe, receiver>>

-----------------------------------------------------------------------------
(* receiveDatagram. *)

\* recv(socket, p, len) blocks until there is something, and takes some of it.
Recv(p, len) ==
    \/ \E k \in 1 .. len :
         /\ k <= Len(stream)
         /\ bytesReceived' = k
         /\ frameBuffer' = [i \in Reach |-> IF i \in p .. p + k - 1
                                         THEN stream[i - p + 1] ELSE frameBuffer[i]]
         /\ stream' = SubSeq(stream, k + 1, Len(stream))
    \/ /\ ~open /\ stream = <<>>
       /\ bytesReceived' \in {0, -1}
       /\ UNCHANGED <<frameBuffer, stream>>

\* Lines 184-185.
RecvFirst ==
    /\ rPc = "idle"
    /\ Recv(0, Size)
    /\ totalBytesReceived' = bytesReceived'
    /\ rPc' = "recv"
    /\ UNCHANGED <<open, sender>>

\* Mutant: the length is not reduced by what has come.
RecvMore_Whole ==
    /\ rPc = "recv" /\ UnsignedLess(totalBytesReceived, Size) /\ bytesReceived > 0
    /\ Recv(SampleSize * totalBytesReceived, Size)
    /\ totalBytesReceived' = totalBytesReceived + bytesReceived'
    /\ UNCHANGED <<open, rPc, sender>>

\* Lines 187, 193-194.
RecvMore ==
    /\ rPc = "recv" /\ UnsignedLess(totalBytesReceived, Size) /\ bytesReceived > 0
    /\ Recv(SampleSize * totalBytesReceived, Size - totalBytesReceived)
    /\ totalBytesReceived' = totalBytesReceived + bytesReceived'
    /\ UNCHANGED <<open, rPc, sender>>

\* Mutant: only errors stop the loop, not the end of the stream.
RecvStop_Error ==
    /\ rPc = "recv" /\ UnsignedLess(totalBytesReceived, Size) /\ bytesReceived < 0
    /\ rPc' = "stopped"
    /\ UNCHANGED <<open, stream, sender, frameBuffer, bytesReceived, totalBytesReceived>>

\* Lines 188-191: AUDIO_STOP, after which the fill thread does not call again.
RecvStop ==
    /\ rPc = "recv" /\ UnsignedLess(totalBytesReceived, Size) /\ bytesReceived <= 0
    /\ rPc' = "stopped"
    /\ UNCHANGED <<open, stream, sender, frameBuffer, bytesReceived, totalBytesReceived>>

\* Line 199: AUDIO_CONTINUE.
RecvReturn ==
    /\ rPc = "recv" /\ ~UnsignedLess(totalBytesReceived, Size)
    /\ rPc' = "idle"
    /\ UNCHANGED <<open, stream, sender, frameBuffer, bytesReceived, totalBytesReceived>>

-----------------------------------------------------------------------------
\* Call_terminate on either phone.
Shutdown ==
    /\ open
    /\ open' = FALSE
    /\ UNCHANGED <<stream, sender, receiver>>

TransportNext ==
    \/ SendFirst \/ SendMore \/ SendReturn
    \/ RecvFirst \/ RecvMore \/ RecvStop \/ RecvReturn
    \/ Shutdown

TransportSpec == TransportInit /\ [][TransportNext]_transportVars

\* Both threads keep running inside a call.  Nobody has to hang up or to have
\* another frame.
TransportFairSpec ==
    /\ TransportSpec
    /\ WF_transportVars(SendMore \/ SendReturn)
    /\ WF_transportVars(RecvMore \/ RecvStop \/ RecvReturn)

-----------------------------------------------------------------------------
\* The first byte of a frame the receiver gets is the first byte of a frame the
\* sender sent: a frame that the network splits does not shift those after it,
\* whatever the pieces (call.c:164-174, 187-195).
FramesInStep ==
    (rPc \in {"idle", "recv"} /\ totalBytesReceived > 0) => frameBuffer[0][2] = 0

\* The same, and the offsets stay within a frame.
TransportInv == TransportTypeOK /\ FramesInStep

\* A receiveDatagram that has begun a frame returns: the rest comes, or the
\* connection ends (call.c:187-195).
ReceiveReturns == (rPc = "recv") ~> (rPc # "recv")

\* call.c:163 "send() can send out partial frames": the loop sends the rest and
\* sendDatagram returns, unless SIGPIPE ends the process.
SendReturns == (sPc = "send") ~> (sPc # "send" \/ sigpipe)
=============================================================================
