-------------------------- MODULE Datagram_proofs --------------------------
(***************************************************************************)
(* Proofs about Datagram.tla, for every size of frames and samples and any *)
(* pieces that send and recv make of them: frames stay in step.            *)
(***************************************************************************)
EXTENDS Datagram, SequenceTheorems, TLAPS

\* Bytes from the start of the connection to the start of a frame.
Multiples == {Size * k : k \in Int}

\* Bytes of the frame at hand that have come, and that have been sent.
Come == IF rPc = "recv" THEN totalBytesReceived ELSE 0
Sent == IF sPc = "send" THEN totalBytesSent ELSE 0

\* Where a frame begins for the receiver, there is the first byte of a frame.
Aligned ==
    \A i \in 1 .. Len(stream) : (i - 1 + Come) \in Multiples => stream[i][2] = 0

\* What is under way ends where the sender is in its frame.  A sender whose first
\* send was not whole never gets to its next frame.
SenderInStep ==
    open =>
      /\ (Len(stream) + Come - Sent) \in Multiples
      /\ sPc = "send" => /\ bytesSent >= 0 /\ totalBytesSent > 0
                         /\ bytesSent = Size => totalBytesSent = Size

\* There is a frame, and an error of send leaves the sum one short at most.
SumInRange == sPc = "send" => frame > 0 /\ (bytesSent >= 0 => totalBytesSent >= 0)

\* An error of recv is the end of the stream.
ReceiverInStep ==
    /\ rPc = "recv" /\ bytesReceived > 0 => totalBytesReceived > 0
    /\ rPc = "recv" /\ bytesReceived <= 0 => ~open /\ stream = <<>>
    /\ rPc = "stopped" => ~open /\ stream = <<>>

DatagramInv == TransportTypeOK /\ FramesInStep /\ Aligned /\ SenderInStep /\ SumInRange /\ ReceiverInStep

\* A frame further, or a frame back, is a multiple again.
LEMMA MultiplesStep ==
  ASSUME NEW m \in Multiples
  PROVE  m \in Int /\ m + Size \in Multiples /\ m - Size \in Multiples
<1>1. PICK k \in Int : m = Size * k
  BY DEF Multiples
<1>2. Size \in Int
  BY SizeAssumption
<1>3. m + Size = Size * (k + 1) /\ m - Size = Size * (k - 1)
  BY <1>1, <1>2
<1>4. k + 1 \in Int /\ k - 1 \in Int
  OBVIOUS
<1> QED
  BY <1>1, <1>2, <1>3, <1>4 DEF Multiples

\* There is no start of a frame within a frame.
LEMMA MultiplesApart ==
  ASSUME NEW m \in Multiples, NEW n \in Multiples, m < n
  PROVE  n >= m + Size
<1>1. PICK k \in Int : m = Size * k
  BY DEF Multiples
<1>2. PICK l \in Int : n = Size * l
  BY DEF Multiples
<1>3. Size \in Int /\ Size > 0
  BY SizeAssumption
<1>4. n - m = Size * (l - k)
  BY <1>1, <1>2, <1>3
<1>5. l - k >= 1
  <2> SUFFICES ASSUME k >= l PROVE FALSE
    OBVIOUS
  <2>1. Size * (k - l) >= 0
    BY <1>3
  <2> QED
    BY <2>1, <1>1, <1>2, <1>3
<1>6. Size * (l - k) >= Size
  BY <1>3, <1>5
<1> QED
  BY <1>1, <1>2, <1>3, <1>4, <1>6

\* The connection begins with a frame.
LEMMA ZeroMultiple == 0 \in Multiples
<1>1. Size * 0 = 0 /\ 0 \in Int
  BY SizeAssumption
<1> QED
  BY <1>1 DEF Multiples

\* The bytes of a piece are in reach of the sender's buffer.
LEMMA PieceType ==
  ASSUME NEW p \in Nat, NEW k \in Nat, p + k <= (SampleSize + 1) * Size,
         frame' \in 1 .. MaxFrames
  PROVE  Piece(p, k) \in Seq(Bytes)
<1>1. \A i \in 1 .. k : p + i - 1 \in Reach
  <2>1. (SampleSize + 1) * Size \in Int
    BY SizeAssumption
  <2> DEFINE top == (SampleSize + 1) * Size
  <2> HIDE DEF top
  <2>2. \A i \in 1 .. k : p + i - 1 \in 0 .. top
    BY <2>1 DEF top
  <2> QED
    BY <2>2 DEF Reach, top
<1>2. \A i \in 1 .. k : <<frame', p + i - 1>> \in Bytes
  BY <1>1 DEF Bytes
<1> QED
  BY <1>2 DEF Piece

\* The offset of the rest of a frame, which counts samples, stays in reach.
LEMMA OffsetInReach ==
  ASSUME NEW t \in 0 .. Size
  PROVE  SampleSize * t \in Nat /\ SampleSize * t + Size <= (SampleSize + 1) * Size
<1>1. SampleSize \in Int /\ Size \in Int /\ SampleSize > 0 /\ Size > 0
  BY SizeAssumption
<1>2. SampleSize * (Size - t) >= 0 /\ SampleSize * t >= 0
  BY <1>1
<1>3. SampleSize * (Size - t) = SampleSize * Size - SampleSize * t
  BY <1>1
<1>4. (SampleSize + 1) * Size = SampleSize * Size + Size
  BY <1>1
<1>5. SampleSize * t \in Int /\ SampleSize * Size \in Int
  BY <1>1
<1> QED
  BY <1>1, <1>2, <1>3, <1>4, <1>5

\* Where bytes come to lie behind those under way, as they do in both sends of
\* sendDatagram, the starts of frames stay where they are expected.
LEMMA PieceAppended ==
  ASSUME TransportTypeOK, Aligned, frame' \in 1 .. MaxFrames,
         NEW t \in Nat, NEW k \in Nat, t + k <= Size,
         (Len(stream) + Come - t) \in Multiples,
         NEW p \in Nat, p + k <= (SampleSize + 1) * Size, t = 0 => p = 0,
         stream' = stream \o Piece(p, k), Come' = Come
  PROVE  /\ stream' \in Seq(Bytes)
         /\ Len(stream') = Len(stream) + k
         /\ Aligned'
<1>1. stream \in Seq(Bytes) /\ Come \in Int /\ Len(stream) \in Nat
  <2>1. stream \in Seq(Bytes) /\ totalBytesReceived \in Int
    BY SizeAssumption DEF TransportTypeOK
  <2> QED
    BY <2>1 DEF Come
<1>2. Piece(p, k) \in Seq(Bytes) /\ Len(Piece(p, k)) = k
  <2>1. Len(Piece(p, k)) = k
    BY DEF Piece
  <2> QED
    BY <2>1, PieceType
<1>3. stream' \in Seq(Bytes) /\ Len(stream') = Len(stream) + k
  BY <1>1, <1>2, ConcatProperties
<1>4. ASSUME NEW i \in 1 .. Len(stream'), (i - 1 + Come) \in Multiples
      PROVE  stream'[i][2] = 0
  <2>1. CASE i <= Len(stream)
    <3>1. stream'[i] = stream[i] /\ i \in 1 .. Len(stream)
      BY <1>1, <1>2, <1>3, <2>1
    <3> QED
      BY <1>4, <3>1 DEF Aligned
  <2>2. CASE i > Len(stream)
    <3> DEFINE j == i - Len(stream)
               m == Len(stream) + Come - t
               n == i - 1 + Come
    <3>1. j \in 1 .. k /\ stream'[i] = Piece(p, k)[j]
      BY <1>1, <1>2, <1>3, <2>2
    <3>2. stream'[i] = <<frame', p + j - 1>>
      BY <3>1 DEF Piece
    <3>3. m \in Int /\ n \in Int /\ Size \in Int /\ n = m + t + j - 1 /\ n < m + Size
      BY <1>1, <3>1, SizeAssumption
    <3>4. m \in Multiples /\ n \in Multiples
      BY <1>4
    <3>5. ~(m < n)
      <4> HIDE DEF m, n
      <4> QED
        BY <3>3, <3>4, MultiplesApart
    <3>6. t = 0 /\ j = 1
      <4>1. j \in Int /\ j >= 1 /\ t \in Nat
        BY <3>1
      <4> HIDE DEF m, n, j
      <4> QED
        BY <3>3, <3>5, <4>1
    <3>7. p = 0 /\ p + j - 1 = 0
      BY <3>6
    <3> QED
      BY <3>2, <3>7
  <2> QED
    BY <1>1, <1>3, <2>1, <2>2
<1>5. Aligned'
  BY <1>4 DEF Aligned
<1> QED
  BY <1>3, <1>5

\* Bytes that recv takes are the next ones, and those behind them stay where they
\* are expected.
LEMMA PieceTaken ==
  ASSUME TransportTypeOK, Aligned, NEW k \in 1 .. Len(stream),
         stream' = SubSeq(stream, k + 1, Len(stream)), Come' = Come + k
  PROVE  stream' \in Seq(Bytes) /\ Len(stream') = Len(stream) - k /\ Aligned'
<1>1. stream \in Seq(Bytes) /\ Len(stream) \in Nat /\ Come \in Int
  <2>1. stream \in Seq(Bytes) /\ totalBytesReceived \in Int
    BY SizeAssumption DEF TransportTypeOK
  <2> QED
    BY <2>1 DEF Come
<1>2. /\ stream' \in Seq(Bytes) /\ Len(stream') = Len(stream) - k
      /\ \A i \in 1 .. Len(stream) - k : stream'[i] = stream[i + k]
  BY <1>1
<1>3. ASSUME NEW i \in 1 .. Len(stream'), (i - 1 + Come') \in Multiples
      PROVE  stream'[i][2] = 0
  <2>1. i + k \in 1 .. Len(stream) /\ (i + k) - 1 + Come = i - 1 + Come'
    BY <1>1, <1>2
  <2>2. stream'[i] = stream[i + k]
    BY <1>1, <1>2
  <2> QED
    BY <1>3, <2>1, <2>2 DEF Aligned
<1> QED
  BY <1>2, <1>3 DEF Aligned

\* The buffer of the receiver holds bytes that were under way.
LEMMA BufferType ==
  ASSUME TransportTypeOK, NEW p \in Nat, NEW k \in 1 .. Len(stream),
         frameBuffer' = [i \in Reach |-> IF i \in p .. p + k - 1
                                      THEN stream[i - p + 1] ELSE frameBuffer[i]]
  PROVE  frameBuffer' \in [Reach -> Bytes \cup {Junk}]
<1>1. stream \in Seq(Bytes) /\ frameBuffer \in [Reach -> Bytes \cup {Junk}]
  BY DEF TransportTypeOK
<1>2. Reach \subseteq Int
  BY DEF Reach
<1>3. ASSUME NEW i \in Reach, i \in p .. p + k - 1
      PROVE  stream[i - p + 1] \in Bytes
  <2>1. i - p + 1 \in 1 .. Len(stream)
    BY <1>1, <1>2, <1>3
  <2> QED
    BY <1>1, <2>1
<1> QED
  BY <1>1, <1>3

\* What send does at place p of a frame, on an open connection and on one that
\* was shut down.
LEMMA SendOpen ==
  ASSUME NEW p, NEW len \in Nat, Send(p, len), open
  PROVE  /\ sigpipe' = sigpipe
         /\ \E k \in 0 .. len : /\ bytesSent' = k /\ stream' = stream \o Piece(p, k)
                                /\ len > 0 => k > 0
<1>1. PICK k \in (IF len = 0 THEN 0 ELSE 1) .. len :
         bytesSent' = k /\ stream' = stream \o Piece(p, k)
  BY DEF Send
<1>2. k \in 0 .. len /\ (len > 0 => k > 0)
  BY <1>1
<1> QED
  BY <1>1, <1>2 DEF Send

\* A send on a connection that has been shut down (call.c:164).
LEMMA SendShut ==
  ASSUME NEW p, NEW len, Send(p, len), ~open
  PROVE  /\ stream' = stream
         /\ \/ bytesSent' = -1 /\ sigpipe' = sigpipe
            \/ bytesSent' = bytesSent /\ sigpipe' = TRUE
BY DEF Send

\* What recv does: it takes bytes, or says that the connection has ended.
LEMMA RecvEnd ==
  ASSUME NEW p, NEW len, Recv(p, len), ~(\E k \in 1 .. len : bytesReceived' = k)
  PROVE  /\ ~open /\ stream = <<>> /\ stream' = stream /\ frameBuffer' = frameBuffer
         /\ bytesReceived' \in {0, -1}
BY DEF Recv

\* A recv that finds something takes a piece from the front of the stream.
LEMMA RecvSome ==
  ASSUME TransportTypeOK, NEW p, NEW len \in Nat, Recv(p, len), \E k \in 1 .. len : bytesReceived' = k
  PROVE  \E k \in 1 .. len :
           /\ k \in 1 .. Len(stream)
           /\ bytesReceived' = k
           /\ frameBuffer' = [i \in Reach |-> IF i \in p .. p + k - 1
                                           THEN stream[i - p + 1] ELSE frameBuffer[i]]
           /\ stream' = SubSeq(stream, k + 1, Len(stream))
<1>1. bytesReceived' \notin {0, -1}
  OBVIOUS
<1>2. PICK k \in 1 .. len :
         /\ k <= Len(stream)
         /\ bytesReceived' = k
         /\ frameBuffer' = [i \in Reach |-> IF i \in p .. p + k - 1
                                         THEN stream[i - p + 1] ELSE frameBuffer[i]]
         /\ stream' = SubSeq(stream, k + 1, Len(stream))
  BY <1>1 DEF Recv
<1>3. k \in 1 .. Len(stream)
  BY <1>2 DEF TransportTypeOK
<1> QED
  BY <1>2, <1>3

\* Before the first frame nothing is out of step.
LEMMA TransportStarts ==
    ASSUME TransportInit
    PROVE  DatagramInv
<1>1. TransportTypeOK
  <2>1. open \in BOOLEAN /\ sigpipe \in BOOLEAN
    BY Zenon DEF TransportInit
  <2>2. frame \in 0 .. MaxFrames /\ bytesSent \in -1 .. Size /\ totalBytesSent \in -1 .. Size
        /\ bytesReceived \in -1 .. Size /\ totalBytesReceived \in -1 .. Size
    BY SizeAssumption DEF TransportInit
  <2>3. stream \in Seq(Bytes) /\ frameBuffer \in [Reach -> Bytes \cup {Junk}]
    BY DEF TransportInit
  <2> QED
    BY <2>1, <2>2, <2>3 DEF TransportInit, TransportTypeOK
<1>2. FramesInStep /\ Aligned /\ SenderInStep /\ SumInRange /\ ReceiverInStep
  BY ZeroMultiple
     DEF TransportInit, FramesInStep, Aligned, SenderInStep, SumInRange, ReceiverInStep, Come, Sent
<1> QED
  BY <1>1, <1>2 DEF DatagramInv

\* A step of the transport, or none.
LEMMA TransportStep ==
    ASSUME DatagramInv, [TransportNext]_transportVars
    PROVE  DatagramInv'
<1> USE DEF UnsignedLess, sender, receiver
<1>s. Size \in Nat /\ Size > 0 /\ SampleSize \in Nat /\ SampleSize > 0 /\ MaxFrames \in Nat
  BY SizeAssumption
<1>2. ASSUME DatagramInv, SendFirst PROVE DatagramInv'
  <2>1. TransportTypeOK /\ Aligned /\ SenderInStep /\ sPc = "idle" /\ Sent = 0 /\ Come' = Come
    BY <1>2 DEF DatagramInv, SendFirst, Sent, Come
  <2>2. Send(0, Size) /\ frame' = frame + 1 /\ frame' \in 1 .. MaxFrames /\ open' = open
        /\ totalBytesSent' = bytesSent' /\ sPc' = "send"
    BY <1>2, <1>s DEF DatagramInv, TransportTypeOK, SendFirst
  <2>3. rPc' = rPc /\ frameBuffer' = frameBuffer /\ bytesReceived' = bytesReceived
        /\ totalBytesReceived' = totalBytesReceived
    BY <1>2 DEF SendFirst
  <2>4. FramesInStep'
    BY <1>2, <2>3 DEF DatagramInv, FramesInStep
  <2>5. CASE open
    <3>1. PICK k \in 1 .. Size : bytesSent' = k /\ stream' = stream \o Piece(0, k)
      BY <1>s, <2>2, <2>5, SendOpen
    <3>2. sigpipe' = sigpipe
      BY <1>s, <2>2, <2>5, SendOpen
    <3>3. k <= (SampleSize + 1) * Size
      <4>1. Size <= (SampleSize + 1) * Size
        BY OffsetInReach, <1>s, SampleSize * 0 = 0
      <4>2. (SampleSize + 1) * Size \in Int
        BY <1>s
      <4> QED
        BY <1>s, <4>1, <4>2
    <3>4. (Len(stream) + Come - 0) \in Multiples
      BY <2>1, <2>5 DEF SenderInStep
    <3>5. stream' \in Seq(Bytes) /\ Len(stream') = Len(stream) + k /\ Aligned'
      <4>1. 0 \in Nat /\ k \in Nat /\ 0 + k <= Size
        BY <1>s
      <4>2. 0 + k <= (SampleSize + 1) * Size
        BY <3>3
      <4> QED
        BY <2>1, <2>2, <3>1, <3>4, <4>1, <4>2, PieceAppended
    <3>6. TransportTypeOK'
      BY <1>s, <2>1, <2>2, <2>3, <3>1, <3>2, <3>5 DEF TransportTypeOK
    <3>7. SenderInStep' /\ SumInRange'
      <4>1. Sent' = k /\ Len(stream) \in Int /\ Come \in Int
        BY <1>s, <2>1, <2>2, <3>1 DEF TransportTypeOK, Sent, Come
      <4>2. Len(stream') + Come' - Sent' = Len(stream) + Come - 0
        BY <2>1, <3>5, <4>1
      <4> QED
        BY <2>1, <2>2, <3>1, <3>4, <4>2 DEF TransportTypeOK, SenderInStep, SumInRange
    <3>8. ReceiverInStep'
      BY <1>2, <2>2, <2>3, <2>5 DEF DatagramInv, ReceiverInStep
    <3> QED
      BY <2>4, <3>5, <3>6, <3>7, <3>8 DEF DatagramInv
  <2>6. CASE ~open
    <3>1. /\ stream' = stream
          /\ \/ bytesSent' = -1 /\ sigpipe' = sigpipe
             \/ bytesSent' = bytesSent /\ sigpipe' = TRUE
      BY <2>2, <2>6, SendShut
    <3>2. TransportTypeOK'
      <4>1. open' \in BOOLEAN /\ sigpipe' \in BOOLEAN
        BY <2>1, <2>2, <3>1, Zenon DEF TransportTypeOK
      <4>2. bytesSent' \in -1 .. Size
        BY <1>s, <2>1, <3>1 DEF TransportTypeOK
      <4> QED
        BY <2>1, <2>2, <2>3, <3>1, <4>1, <4>2 DEF TransportTypeOK
    <3>3. Aligned' /\ SenderInStep' /\ SumInRange'
      BY <2>1, <2>2, <2>6, <3>1 DEF Aligned, SenderInStep, SumInRange
    <3>4. ReceiverInStep'
      BY <1>2, <2>2, <2>3, <3>1 DEF DatagramInv, ReceiverInStep
    <3> QED
      BY <2>4, <3>2, <3>3, <3>4 DEF DatagramInv
  <2> QED
    BY <2>5, <2>6
<1>3. ASSUME DatagramInv, SendMore PROVE DatagramInv'
  <2> DEFINE t == totalBytesSent
  <2>1. TransportTypeOK /\ Aligned /\ SenderInStep /\ SumInRange /\ sPc = "send" /\ sPc' = "send"
        /\ Sent = t /\ Come' = Come /\ open' = open /\ bytesSent >= 0 /\ bytesSent < Size
    BY <1>3 DEF DatagramInv, SendMore, Sent, Come
  <2>2. Send(SampleSize * t, Size - t) /\ frame' = frame
        /\ totalBytesSent' = IF sigpipe' THEN t ELSE t + bytesSent'
    BY <1>3 DEF SendMore
  <2>3. rPc' = rPc /\ frameBuffer' = frameBuffer /\ bytesReceived' = bytesReceived
        /\ totalBytesReceived' = totalBytesReceived
    BY <1>3 DEF SendMore
  <2>4. FramesInStep'
    BY <1>3, <2>3 DEF DatagramInv, FramesInStep
  <2>5. t \in 0 .. Size
    BY <1>s, <2>1 DEF TransportTypeOK, SumInRange
  <2>6. CASE open
    <3>1. PICK k \in 0 .. Size - t :
             bytesSent' = k /\ stream' = stream \o Piece(SampleSize * t, k)
      BY <1>s, <2>2, <2>5, <2>6, SendOpen
    <3>2. sigpipe' = sigpipe /\ sigpipe = FALSE
      BY <1>s, <1>3, <2>2, <2>5, <2>6, SendOpen DEF SendMore
    <3>3. SampleSize * t \in Nat /\ SampleSize * t + k <= (SampleSize + 1) * Size
      <4>1. SampleSize * t \in Nat /\ SampleSize * t + Size <= (SampleSize + 1) * Size
        BY OffsetInReach, <2>5
      <4>2. (SampleSize + 1) * Size \in Int
        BY <1>s
      <4> QED
        BY <1>s, <2>5, <4>1, <4>2
    <3>4. (Len(stream) + Come - t) \in Multiples /\ t > 0
      BY <2>1, <2>6 DEF SenderInStep
    <3>5. frame' \in 1 .. MaxFrames
      BY <1>s, <2>1, <2>2 DEF TransportTypeOK, SumInRange
    <3>6. stream' \in Seq(Bytes) /\ Len(stream') = Len(stream) + k /\ Aligned'
      <4> DEFINE p == SampleSize * t
      <4>1. p \in Nat /\ p + k <= (SampleSize + 1) * Size /\ stream' = stream \o Piece(p, k)
        BY <3>1, <3>3
      <4>2. t \in Nat /\ k \in Nat /\ t + k <= Size /\ t # 0
        BY <1>s, <2>5, <3>1, <3>4
      <4> HIDE DEF p, t
      <4> QED
        BY <2>1, <3>4, <3>5, <4>1, <4>2, PieceAppended
    <3>7. TransportTypeOK'
      BY <1>s, <2>1, <2>2, <2>3, <2>5, <3>1, <3>2, <3>5, <3>6 DEF TransportTypeOK
    <3>8. SenderInStep' /\ SumInRange'
      <4>1. Sent' = t + k /\ Len(stream) \in Int /\ Come \in Int /\ t \in Int /\ k \in Int
        BY <1>s, <2>1, <2>2, <2>5, <3>1, <3>2 DEF TransportTypeOK, Sent, Come
      <4>2. Len(stream') + Come' - Sent' = Len(stream) + Come - t
        BY <2>1, <3>6, <4>1
      <4>3. t > 0 /\ k >= 0 /\ k < Size /\ bytesSent' = k /\ totalBytesSent' = t + k
        BY <1>s, <2>2, <2>5, <3>1, <3>2, <3>4
      <4>4. SenderInStep'
        BY <1>s, <3>4, <4>1, <4>2, <4>3 DEF SenderInStep
      <4>5. SumInRange'
        BY <3>5, <4>1, <4>3 DEF SumInRange
      <4> QED
        BY <4>4, <4>5
    <3>9. ReceiverInStep'
      BY <1>3, <2>1, <2>3, <2>6 DEF DatagramInv, ReceiverInStep
    <3> QED
      BY <2>4, <3>6, <3>7, <3>8, <3>9 DEF DatagramInv
  <2>7. CASE ~open
    <3>1. /\ stream' = stream
          /\ \/ bytesSent' = -1 /\ sigpipe' = sigpipe
             \/ bytesSent' = bytesSent /\ sigpipe' = TRUE
      BY <2>2, <2>7, SendShut
    <3>2. TransportTypeOK'
      <4>1. open' \in BOOLEAN /\ sigpipe' \in BOOLEAN
        BY <2>1, <3>1, Zenon DEF TransportTypeOK
      <4>2. bytesSent' \in -1 .. Size
        BY <1>s, <2>1, <3>1 DEF TransportTypeOK
      <4>3. totalBytesSent' \in -1 .. Size
        BY <1>s, <1>3, <2>2, <2>5, <3>1 DEF SendMore
      <4> QED
        BY <2>1, <2>2, <2>3, <3>1, <4>1, <4>2, <4>3 DEF TransportTypeOK
    <3>3. Aligned' /\ SenderInStep' /\ SumInRange'
      BY <1>3, <2>1, <2>2, <2>5, <2>7, <3>1 DEF SendMore, Aligned, SenderInStep, SumInRange
    <3>4. ReceiverInStep'
      BY <1>3, <2>1, <2>3, <3>1 DEF DatagramInv, ReceiverInStep
    <3> QED
      BY <2>4, <3>2, <3>3, <3>4 DEF DatagramInv
  <2> QED
    BY <2>6, <2>7
<1>4. ASSUME DatagramInv, SendReturn PROVE DatagramInv'
  <2>1. TransportTypeOK /\ SenderInStep /\ sPc = "send" /\ sPc' = "idle" /\ open' = open
        /\ ~(bytesSent >= 0 /\ bytesSent < Size)
        /\ UNCHANGED <<stream, frame, bytesSent, totalBytesSent, sigpipe, rPc, frameBuffer,
                       bytesReceived, totalBytesReceived>>
    BY <1>4 DEF DatagramInv, SendReturn
  <2>2. TransportTypeOK'
    BY <2>1 DEF TransportTypeOK
  <2>3. FramesInStep' /\ Aligned' /\ SumInRange' /\ ReceiverInStep'
    BY <1>4, <2>1 DEF DatagramInv, FramesInStep, Aligned, SumInRange, ReceiverInStep, Come
  <2>4. SenderInStep'
    <3> SUFFICES ASSUME open PROVE (Len(stream) + Come) \in Multiples
      BY <1>s, <2>1 DEF SenderInStep, Sent, Come, TransportTypeOK
    <3>1. totalBytesSent = Size /\ (Len(stream) + Come - Size) \in Multiples
      BY <1>s, <2>1 DEF TransportTypeOK, SenderInStep, Sent
    <3> DEFINE m == Len(stream) + Come - Size
    <3>2. Len(stream) + Come = m + Size
      BY <1>s, <2>1 DEF TransportTypeOK, Come
    <3>3. m \in Multiples
      BY <3>1
    <3> HIDE DEF m
    <3> QED
      BY <3>2, <3>3, MultiplesStep
  <2> QED
    BY <2>2, <2>3, <2>4 DEF DatagramInv
<1>5. ASSUME DatagramInv, RecvFirst PROVE DatagramInv'
  <2>1. TransportTypeOK /\ Aligned /\ SenderInStep /\ ReceiverInStep /\ rPc = "idle" /\ Come = 0
        /\ rPc' = "recv" /\ Recv(0, Size) /\ totalBytesReceived' = bytesReceived'
        /\ open' = open /\ UNCHANGED <<sPc, frame, bytesSent, totalBytesSent, sigpipe>>
    BY <1>5 DEF DatagramInv, RecvFirst, Come
  <2>2. Come' = bytesReceived'
    BY <2>1 DEF Come
  <2>3. SumInRange'
    BY <1>5, <2>1 DEF DatagramInv, SumInRange
  <2>4. CASE \E k \in 1 .. Size : bytesReceived' = k
    <3>1. PICK k \in 1 .. Size :
            /\ k \in 1 .. Len(stream)
            /\ bytesReceived' = k
            /\ frameBuffer' = [i \in Reach |-> IF i \in 0 .. 0 + k - 1
                                            THEN stream[i - 0 + 1] ELSE frameBuffer[i]]
            /\ stream' = SubSeq(stream, k + 1, Len(stream))
      BY <1>s, <2>1, <2>4, RecvSome
    <3>2. stream' \in Seq(Bytes) /\ Len(stream') = Len(stream) - k /\ Aligned'
      BY <2>1, <2>2, <3>1, PieceTaken
    <3>3. frameBuffer' \in [Reach -> Bytes \cup {Junk}]
      BY <1>s, <2>1, <3>1, BufferType
    <3>4. TransportTypeOK'
      BY <1>s, <2>1, <3>1, <3>2, <3>3 DEF TransportTypeOK
    <3>5. FramesInStep'
      <4>1. 0 \in Reach
        <5>1. Size <= (SampleSize + 1) * Size /\ (SampleSize + 1) * Size \in Int
          BY OffsetInReach, <1>s, SampleSize * 0 = 0
        <5> QED
          BY <1>s, <5>1 DEF Reach
      <4>2. frameBuffer'[0] = stream[1]
        BY <3>1, <4>1
      <4>3. stream[1][2] = 0
        BY <2>1, <3>1, ZeroMultiple DEF Aligned
      <4> QED
        BY <4>2, <4>3 DEF FramesInStep
    <3>6. SenderInStep'
      <4>1. Sent' = Sent /\ Sent \in Int /\ Len(stream) \in Int
        BY <1>s, <2>1 DEF TransportTypeOK, Sent
      <4>2. Len(stream') + Come' - Sent' = Len(stream) + Come - Sent
        BY <2>1, <2>2, <3>1, <3>2, <4>1
      <4> QED
        BY <2>1, <4>2 DEF SenderInStep
    <3>7. ReceiverInStep'
      BY <2>1, <3>1 DEF ReceiverInStep
    <3> QED
      BY <2>3, <3>2, <3>4, <3>5, <3>6, <3>7 DEF DatagramInv
  <2>5. CASE ~(\E k \in 1 .. Size : bytesReceived' = k)
    <3>1. ~open /\ stream = <<>> /\ stream' = stream /\ frameBuffer' = frameBuffer
          /\ bytesReceived' \in {0, -1}
      BY <2>1, <2>5, RecvEnd
    <3>2. TransportTypeOK'
      BY <1>s, <2>1, <3>1 DEF TransportTypeOK
    <3>3. FramesInStep' /\ Aligned' /\ SenderInStep' /\ ReceiverInStep'
      BY <2>1, <3>1 DEF FramesInStep, Aligned, SenderInStep, ReceiverInStep
    <3> QED
      BY <2>3, <3>2, <3>3 DEF DatagramInv
  <2> QED
    BY <2>4, <2>5
<1>6. ASSUME DatagramInv, RecvMore PROVE DatagramInv'
  <2> DEFINE t == totalBytesReceived
  <2>1. TransportTypeOK /\ FramesInStep /\ Aligned /\ SenderInStep /\ ReceiverInStep
        /\ rPc = "recv" /\ rPc' = "recv" /\ t < Size /\ bytesReceived > 0 /\ Come = t
        /\ Recv(SampleSize * t, Size - t)
        /\ totalBytesReceived' = t + bytesReceived'
        /\ open' = open /\ UNCHANGED <<sPc, frame, bytesSent, totalBytesSent, sigpipe>>
    BY <1>6 DEF DatagramInv, RecvMore, Come
  <2>2. Come' = t + bytesReceived' /\ t \in 1 .. Size
    BY <1>s, <2>1 DEF Come, TransportTypeOK, ReceiverInStep
  <2>3. SumInRange'
    BY <1>6, <2>1 DEF DatagramInv, SumInRange
  <2>4. CASE \E k \in 1 .. Size - t : bytesReceived' = k
    <3> DEFINE p == SampleSize * t
    <3>1. p \in Nat /\ p > 0
      BY <1>s, <2>2
    <3>2. PICK k \in 1 .. Size - t :
            /\ k \in 1 .. Len(stream)
            /\ bytesReceived' = k
            /\ frameBuffer' = [i \in Reach |-> IF i \in p .. p + k - 1
                                            THEN stream[i - p + 1] ELSE frameBuffer[i]]
            /\ stream' = SubSeq(stream, k + 1, Len(stream))
      <4>1. Size - t \in Nat
        BY <1>s, <2>2
      <4> QED
        BY <2>1, <2>4, <4>1, RecvSome
    <3> HIDE DEF p
    <3>3. stream' \in Seq(Bytes) /\ Len(stream') = Len(stream) - k /\ Aligned'
      BY <2>1, <2>2, <3>2, PieceTaken
    <3>4. frameBuffer' \in [Reach -> Bytes \cup {Junk}]
      BY <2>1, <3>1, <3>2, BufferType
    <3>5. TransportTypeOK'
      BY <1>s, <2>1, <2>2, <3>2, <3>3, <3>4 DEF TransportTypeOK
    <3>6. FramesInStep'
      <4>1. 0 \in Reach
        <5>1. Size <= (SampleSize + 1) * Size /\ (SampleSize + 1) * Size \in Int
          BY OffsetInReach, <1>s, SampleSize * 0 = 0
        <5> QED
          BY <1>s, <5>1 DEF Reach
      <4>2. frameBuffer'[0] = frameBuffer[0]
        BY <3>1, <3>2, <4>1
      <4> QED
        BY <2>1, <2>2, <4>2 DEF FramesInStep
    <3>7. SenderInStep'
      <4>1. Sent' = Sent /\ Sent \in Int /\ Len(stream) \in Int /\ t \in Int /\ k \in Int
        BY <1>s, <2>1, <2>2, <3>2 DEF TransportTypeOK, Sent
      <4>2. Len(stream') = Len(stream) - k /\ Come' = t + k /\ Come = t
        BY <2>1, <2>2, <3>2, <3>3
      <4>3. Len(stream') + Come' - Sent' = Len(stream) + Come - Sent
        BY <4>1, <4>2
      <4> QED
        BY <2>1, <4>3 DEF SenderInStep
    <3>8. ReceiverInStep'
      BY <2>1, <2>2, <3>2 DEF ReceiverInStep
    <3> QED
      BY <2>3, <3>3, <3>5, <3>6, <3>7, <3>8 DEF DatagramInv
  <2>5. CASE ~(\E k \in 1 .. Size - t : bytesReceived' = k)
    <3>1. ~open /\ stream = <<>> /\ stream' = stream /\ frameBuffer' = frameBuffer
          /\ bytesReceived' \in {0, -1}
      BY <2>1, <2>5, RecvEnd
    <3>2. bytesReceived' \in -1 .. Size /\ totalBytesReceived' \in -1 .. Size
      <4>1. bytesReceived' = 0 \/ bytesReceived' = -1
        BY <3>1
      <4>2. totalBytesReceived' = t + bytesReceived' /\ t \in Int /\ 1 <= t /\ t <= Size
        BY <1>s, <2>1, <2>2
      <4> HIDE DEF t
      <4>3. bytesReceived' \in -1 .. Size
        BY <1>s, <4>1
      <4>4. totalBytesReceived' \in -1 .. Size
        BY <1>s, <4>1, <4>2
      <4> QED
        BY <4>3, <4>4
    <3>3. TransportTypeOK'
      BY <2>1, <3>1, <3>2 DEF TransportTypeOK
    <3>4. Aligned' /\ SenderInStep' /\ ReceiverInStep'
      <4>1. ~open' /\ stream' = <<>> /\ bytesReceived' <= 0 /\ ~(bytesReceived' > 0)
        BY <2>1, <3>1
      <4>2. rPc' = "recv"
        BY <2>1
      <4> QED
        BY <4>1, <4>2 DEF Aligned, SenderInStep, ReceiverInStep
    <3>5. FramesInStep'
      BY <2>1, <2>2, <3>1 DEF FramesInStep
    <3> QED
      BY <2>3, <3>3, <3>4, <3>5 DEF DatagramInv
  <2> QED
    BY <2>4, <2>5
<1>7. ASSUME DatagramInv, RecvStop PROVE DatagramInv'
  <2>1. TransportTypeOK'
    BY <1>7 DEF DatagramInv, RecvStop, TransportTypeOK
  <2>2. ~open /\ stream = <<>>
    BY <1>7 DEF DatagramInv, RecvStop, ReceiverInStep
  <2> QED
    BY <1>7, <2>1, <2>2 DEF DatagramInv, RecvStop, FramesInStep, Aligned, SenderInStep,
                            SumInRange, ReceiverInStep
<1>8. ASSUME DatagramInv, RecvReturn PROVE DatagramInv'
  <2>1. TransportTypeOK /\ FramesInStep /\ Aligned /\ SenderInStep /\ SumInRange /\ ReceiverInStep
        /\ rPc = "recv" /\ rPc' = "idle" /\ ~(totalBytesReceived >= 0 /\ totalBytesReceived < Size)
        /\ UNCHANGED <<open, stream, sPc, frame, bytesSent, totalBytesSent, sigpipe, frameBuffer,
                       bytesReceived, totalBytesReceived>>
    BY <1>8 DEF DatagramInv, RecvReturn
  <2>2. TransportTypeOK'
    BY <2>1 DEF TransportTypeOK
  <2>3. FramesInStep' /\ SumInRange' /\ ReceiverInStep'
    BY <2>1 DEF FramesInStep, SumInRange, ReceiverInStep
  <2>4. Come = totalBytesReceived /\ Come' = 0
    BY <2>1 DEF Come
  <2>5. CASE totalBytesReceived = Size
    <3>1. Aligned'
      <4> SUFFICES ASSUME NEW i \in 1 .. Len(stream), (i - 1) \in Multiples
                   PROVE  stream[i][2] = 0
        BY <2>1, <2>4 DEF Aligned
      <4>1. (i - 1) + Size \in Multiples
        BY MultiplesStep
      <4> QED
        BY <2>1, <2>4, <2>5, <4>1 DEF Aligned
    <3>2. SenderInStep'
      <4> DEFINE m == Len(stream) + Come - Sent
      <4>1. Sent' = Sent /\ Sent \in Int /\ Len(stream) \in Int
        BY <1>s, <2>1 DEF Sent, TransportTypeOK
      <4>2. Len(stream') + Come' - Sent' = m - Size
        BY <1>s, <2>1, <2>4, <2>5, <4>1
      <4>3. open => m \in Multiples
        BY <2>1 DEF SenderInStep
      <4> HIDE DEF m
      <4>4. open => m - Size \in Multiples
        BY <4>3, MultiplesStep
      <4> QED
        BY <2>1, <4>2, <4>4 DEF SenderInStep
    <3> QED
      BY <2>1, <2>2, <2>3, <3>1, <3>2 DEF DatagramInv
  <2>6. CASE totalBytesReceived # Size
    <3>1. ~open /\ stream = <<>>
      BY <1>s, <2>1, <2>6 DEF TransportTypeOK, ReceiverInStep
    <3> QED
      BY <2>1, <2>2, <2>3, <3>1 DEF DatagramInv, Aligned, SenderInStep
  <2> QED
    BY <2>5, <2>6
<1>9. ASSUME DatagramInv, Shutdown PROVE DatagramInv'
  <2>1. TransportTypeOK'
    BY <1>9 DEF DatagramInv, Shutdown, TransportTypeOK
  <2> QED
    BY <1>9, <2>1 DEF DatagramInv, Shutdown, FramesInStep, Aligned, SenderInStep, SumInRange,
                      ReceiverInStep, Come
<1>10. ASSUME DatagramInv, UNCHANGED transportVars PROVE DatagramInv'
  <2>1. TransportTypeOK'
    BY <1>10 DEF DatagramInv, transportVars, TransportTypeOK
  <2> QED
    BY <1>10, <2>1 DEF DatagramInv, transportVars, FramesInStep, Aligned, SenderInStep, SumInRange,
                       ReceiverInStep, Come, Sent
<1> QED
  BY <1>2, <1>3, <1>4, <1>5, <1>6, <1>7, <1>8, <1>9, <1>10 DEF TransportNext

\* The invariant gives the property.
LEMMA TransportSound == DatagramInv => TransportInv
BY DEF DatagramInv, TransportInv

\* The inductive invariant: what is under way ends where the sender is in its
\* frame, and begins where the receiver is in his (call.c:156-200).
THEOREM DatagramInvariance == TransportSpec => []DatagramInv
BY TransportStarts, TransportStep, PTL DEF TransportSpec

\* A frame the receiver begins begins with the first byte of a frame, however the
\* network cuts the stream, and every offset stays in range (call.c:160-199).
THEOREM Transport == TransportSpec => []TransportInv
BY DatagramInvariance, TransportSound, PTL
=============================================================================
