---------------------------- MODULE Board_proofs ----------------------------
(***************************************************************************)
(* Proofs about the parts of Board.tla, each for every value of its        *)
(* constants: the call set-up, the keypad, the lamps, the first ring       *)
(* buffer, the volume mixer, the audio prototype and the test of the       *)
(* lock-free ring, and at the end all of them together, the frames over    *)
(* TCP of Datagram_proofs.tla among them.  No part reads     *)
(* another's variables, so the inductive invariant of the whole is the     *)
(* conjunction of theirs.                                                  *)
(*                                                                         *)
(* The call set-up is that of two phones and the wire between them, for    *)
(* every book, every start-up sound and every capacity of the network.     *)
(* SetupInv is not inductive: that the frames under way are in order       *)
(* depends on which thread may send next, and that depends on the answer   *)
(* and on who has closed the connection.  SetupIInv says, for each step a  *)
(* handler may be at, what it has sent and whether its end is open.        *)
(***************************************************************************)
EXTENDS Board, Datagram_proofs, FiniteSetTheorems, WellFoundedInduction

-----------------------------------------------------------------------------
(* The call set-up. *)

Msgs == Frames \cup {"CALL_ACCEPT", "CALL_REJECT"}

\* No message of s goes before another of the set-up.
Ordered(s) == \A a, b \in DOMAIN s : a < b => Rank[s[a]] <= Rank[s[b]]

\* The messages of s belong to the first steps of the set-up, up to r.
AtMost(s, r) == \A a \in DOMAIN s : Rank[s[a]] <= r

\* The steps before the handshake is sent, and before the voice.
Early == {"dial", "connect", "greet", "listen", "ask"}
Quiet == Early \cup {"drain", "begin", "play", "ended"}

\* What the step a handler is at says about its sends.
WireOK(p) ==
    /\ Ordered(wire[p])
    /\ pc[p] \in Early => wire[p] = <<>>
    /\ pc[p] \in {"drain", "begin"} => AtMost(wire[p], 0)
    /\ pc[p] = "play" => AtMost(wire[p], 1)
    /\ thread[p] = "silence" => AtMost(wire[p], 2)

\* What it says about the threads it has started, and about its end.
StepOK(p) ==
    /\ pc[p] \in Quiet \ {"play"} => sounds[p] = 0
    /\ pc[p] \in Quiet => silences[p] = 0 /\ thread[p] = None
    /\ audio[p] => thread[p] \in {"poll", "over"}
    /\ pc[p] \in Early => ~down[p]
    /\ pc[p] \in {"drain", "begin"} => (down[p] => killed[p])

\* The caller's handler cannot be past the handshake before the callee's is,
\* unless the callee has closed the connection.
AnswerOK ==
    /\ pc[Caller] \notin {"listen", "ask", "drain"}
    /\ pc[Callee] \notin {"dial", "connect", "greet"}
    /\ pc[Callee] \in {"listen", "ask"} =>
          answer = None /\ pc[Caller] \in {"dial", "connect", "greet", "begin"}
    /\ pc[Callee] \in {"drain", "begin", "play", "incall", "stopping", "over"} => answer = "CALL_ACCEPT"
    /\ answer = None => wire[Callee] = <<>>
    /\ answer = "CALL_REJECT" =>
          /\ pc[Callee] = "ended"
          /\ down[Callee] => killed[Caller]
          /\ \A a \in DOMAIN wire[Callee] : wire[Callee][a] = "CALL_REJECT"
    /\ pc[Caller] \in {"play", "incall", "stopping", "over"} =>
          \/ answer = "CALL_ACCEPT"
          \/ answer = None /\ down[Callee]

\* The user has dialled the phone at the address ip.
Dialled(ip) ==
    \/ dialled = <<ip, "number">>
    \/ \E k \in DOMAIN Book : Book[k].inetAddress = ip /\ dialled = <<Book[k].name, "name">>

LookupOK ==
    /\ pc[Caller] = "connect" => Dialled(dest)
    /\ pc[Caller] \notin {"dial", "connect"} => Dialled(inetAddress[Callee])
    /\ callerName # None => AddressBook_lookup(callerName) = inetAddress[Caller]

SetupIInv ==
    /\ SetupTypeOK
    /\ \A p \in Phones : WireOK(p) /\ StepOK(p)
    /\ AnswerOK
    /\ LookupOK

-----------------------------------------------------------------------------
(* The two phones, the book and the order of the messages. *)

\* Each phone has one other.
LEMMA TwoPhones ==
    /\ Other(Caller) = Callee /\ Other(Callee) = Caller
    /\ \A p \in Phones : Other(p) \in Phones /\ Other(p) # p
BY SetupAssumption DEF Phones, Other

\* The place of each message in the set-up.
LEMMA RankIs ==
    /\ Rank["CALL_ACCEPT"] = 0 /\ Rank["CALL_REJECT"] = 0
    /\ Rank["sound"] = 1 /\ Rank["silence"] = 2 /\ Rank["voice"] = 3
    /\ \A m \in Msgs : Rank[m] \in 0 .. 3
BY DEF Rank, Msgs, Frames

\* Of the entries that fit there is a first.
LEMMA FirstEntry ==
    ASSUME NEW S, S \subseteq Nat, S # {}
    PROVE  \E k \in S : \A l \in S : ~(l < k)
<1>1. \E k \in S : \A l \in S : <<l, k>> \notin OpToRel(<, Nat)
  <2> DEFINE R == OpToRel(<, Nat)
  <2>1. IsWellFoundedOn(R, Nat)
    BY NatLessThanWellFounded, Zenon
  <2> HIDE DEF R
  <2>2. \E k \in S : \A l \in S : <<l, k>> \notin R
    BY <2>1, WFMin, Zenon
  <2> QED
    BY <2>2, Zenon DEF R
<1>2. \A k, l \in Nat : l < k => <<l, k>> \in OpToRel(<, Nat)
  BY Zenon DEF OpToRel
<1> QED
  BY <1>1, <1>2, Zenon

\* Looking a name up finds an entry of that name.
LEMMA LookupFinds ==
    ASSUME NEW name, AddressBook_lookup(name) # None
    PROVE  \E k \in DOMAIN Book :
              Book[k].name = name /\ AddressBook_lookup(name) = Book[k].inetAddress
<1> DEFINE Fits(k) == Book[k].name = name
           S == {k \in DOMAIN Book : Fits(k)}
<1>1. DOMAIN Book = 1 .. Len(Book) /\ Len(Book) \in Nat
  BY BookAssumption
<1>2. S # {} /\ S \subseteq Nat
  BY <1>1 DEF AddressBook_lookup
<1>3. PICK f \in S : \A l \in S : ~(l < f)
  <2> HIDE DEF S
  <2> QED
    BY <1>2, FirstEntry
<1>4. \A l \in 1 .. f - 1 : ~Fits(l)
  BY <1>1, <1>3
<1>5. \E k \in DOMAIN Book : Fits(k) /\ \A l \in 1 .. k - 1 : ~Fits(l)
  BY <1>3, <1>4
<1>6. PICK k : /\ k = CHOOSE i \in DOMAIN Book : Fits(i) /\ \A l \in 1 .. i - 1 : ~Fits(l)
               /\ k \in DOMAIN Book /\ Fits(k)
  <2> HIDE DEF Fits
  <2> QED
    BY <1>5
<1>7. AddressBook_lookup(name) = Book[k].inetAddress
  BY <1>3, <1>6 DEF AddressBook_lookup
<1> QED
  BY <1>6, <1>7

\* Looking an address up finds an entry with that address.
LEMMA ReverseFinds ==
    ASSUME NEW ip, AddressBook_reverseLookup(ip) # None
    PROVE  \E k \in DOMAIN Book :
              Book[k].inetAddress = ip /\ AddressBook_reverseLookup(ip) = Book[k].name
<1> DEFINE Fits(k) == Book[k].inetAddress = ip
           S == {k \in DOMAIN Book : Fits(k)}
<1>1. DOMAIN Book = 1 .. Len(Book) /\ Len(Book) \in Nat
  BY BookAssumption
<1>2. S # {} /\ S \subseteq Nat
  BY <1>1 DEF AddressBook_reverseLookup
<1>3. PICK f \in S : \A l \in S : ~(l < f)
  <2> HIDE DEF S
  <2> QED
    BY <1>2, FirstEntry
<1>4. \A l \in 1 .. f - 1 : ~Fits(l)
  BY <1>1, <1>3
<1>5. \E k \in DOMAIN Book : Fits(k) /\ \A l \in 1 .. k - 1 : ~Fits(l)
  BY <1>3, <1>4
<1>6. PICK k : /\ k = CHOOSE i \in DOMAIN Book : Fits(i) /\ \A l \in 1 .. i - 1 : ~Fits(l)
               /\ k \in DOMAIN Book /\ Fits(k)
  <2> HIDE DEF Fits
  <2> QED
    BY <1>5
<1>7. AddressBook_reverseLookup(ip) = Book[k].name
  BY <1>3, <1>6 DEF AddressBook_reverseLookup
<1> QED
  BY <1>6, <1>7

\* No two entries have one name, so the name of an entry leads back to it.
LEMMA NameLeadsBack ==
    ASSUME NEW k \in DOMAIN Book
    PROVE  AddressBook_lookup(Book[k].name) = Book[k].inetAddress
<1> DEFINE name == Book[k].name
           Fits(j) == Book[j].name = name
<1>1. DOMAIN Book = 1 .. Len(Book) /\ Len(Book) \in Nat
  BY BookAssumption
<1>2. \A l \in 1 .. k - 1 : ~Fits(l)
  BY <1>1, BookAssumption
<1>3. \E j \in DOMAIN Book : Fits(j) /\ \A l \in 1 .. j - 1 : ~Fits(l)
  BY <1>2
<1>4. PICK j : /\ j = CHOOSE i \in DOMAIN Book : Fits(i) /\ \A l \in 1 .. i - 1 : ~Fits(l)
               /\ j \in DOMAIN Book /\ Fits(j)
  <2> HIDE DEF Fits
  <2> QED
    BY <1>3
<1>5. j = k
  BY <1>4, BookAssumption
<1>6. AddressBook_lookup(name) = Book[j].inetAddress
  BY <1>4 DEF AddressBook_lookup
<1> QED
  BY <1>5, <1>6

\* The name of an address that is in the book is the one to dial it by.
LEMMA CallBack ==
    ASSUME NEW ip, AddressBook_reverseLookup(ip) # None
    PROVE  AddressBook_lookup(AddressBook_reverseLookup(ip)) = ip
BY ReverseFinds, NameLeadsBack

\* What a message sent adds to an ordered wire.
LEMMA Appended ==
    ASSUME NEW s \in Seq(Msgs), NEW m \in Msgs, Ordered(s), AtMost(s, Rank[m])
    PROVE  /\ Append(s, m) \in Seq(Msgs) /\ Len(Append(s, m)) = Len(s) + 1
           /\ Ordered(Append(s, m)) /\ AtMost(Append(s, m), Rank[m])
<1> DEFINE t == Append(s, m)
<1>1. /\ t \in Seq(Msgs) /\ Len(t) = Len(s) + 1 /\ t[Len(s) + 1] = m
      /\ \A a \in 1 .. Len(s) : t[a] = s[a]
  BY AppendProperties
<1>2. \A a \in DOMAIN s : s[a] \in Msgs
  BY ElementOfSeq
<1>3. Len(s) \in Nat /\ DOMAIN s = 1 .. Len(s) /\ DOMAIN t = 1 .. Len(s) + 1
  BY <1>1
<1> HIDE DEF t
<1>4. AtMost(t, Rank[m])
  BY <1>1, <1>2, <1>3, RankIs DEF AtMost
<1>5. Ordered(t)
  <2> SUFFICES ASSUME NEW a \in DOMAIN t, NEW b \in DOMAIN t, a < b
               PROVE  Rank[t[a]] <= Rank[t[b]]
    BY DEF Ordered
  <2>1. CASE b = Len(s) + 1
    BY <1>1, <1>4, <2>1 DEF AtMost
  <2>2. CASE b # Len(s) + 1
    BY <1>1, <1>3, <2>2 DEF Ordered
  <2> QED
    BY <2>1, <2>2
<1> QED
  BY <1>1, <1>4, <1>5 DEF t

\* A wire that has lost an end.
Cut(s) == {Tail(s), SubSeq(s, 1, Len(s) - 1)}

\* It is as ordered as it was.
LEMMA Shortened ==
    ASSUME NEW s \in Seq(Msgs), s # <<>>, NEW t \in Cut(s)
    PROVE  /\ t \in Seq(Msgs) /\ Len(t) = Len(s) - 1
           /\ Ordered(s) => Ordered(t)
           /\ \A r : AtMost(s, r) => AtMost(t, r)
           /\ \A a \in DOMAIN t : \E b \in DOMAIN s : t[a] = s[b]
<1>1. Len(s) \in Nat /\ Len(s) >= 1 /\ DOMAIN s = 1 .. Len(s)
  BY EmptySeq
<1>2. \E o \in {0, 1} : /\ t \in Seq(Msgs) /\ Len(t) = Len(s) - 1
                        /\ \A a \in 1 .. Len(s) - 1 : t[a] = s[a + o]
  <2>1. CASE t = Tail(s)
    BY <1>1, <2>1, HeadTailProperties
  <2>2. CASE t = SubSeq(s, 1, Len(s) - 1)
    <3>1. \A a \in 1 .. Len(s) - 1 : s[a] \in Msgs
      BY <1>1, ElementOfSeq
    <3>2. /\ SubSeq(s, 1, Len(s) - 1) \in Seq(Msgs)
          /\ Len(SubSeq(s, 1, Len(s) - 1)) = Len(s) - 1
      BY <1>1, <3>1, SubSeqProperties
    <3>3. \A a \in 1 .. Len(s) - 1 : SubSeq(s, 1, Len(s) - 1)[a] = s[a]
      BY <1>1, SubSeqProperties
    <3> QED
      BY <2>2, <3>2, <3>3, <1>1
  <2> QED
    BY <2>1, <2>2 DEF Cut
<1>3. PICK o \in {0, 1} : \A a \in 1 .. Len(s) - 1 : t[a] = s[a + o]
  BY <1>2
<1>4. DOMAIN t = 1 .. Len(s) - 1 /\ \A a \in DOMAIN t : a + o \in DOMAIN s
  BY <1>1, <1>2
<1>5. Ordered(s) => Ordered(t)
  BY <1>1, <1>3, <1>4 DEF Ordered
<1>6. \A r : AtMost(s, r) => AtMost(t, r)
  BY <1>3, <1>4 DEF AtMost
<1> QED
  BY <1>2, <1>3, <1>4, <1>5, <1>6

\* What is of the first steps is of the later ones.
LEMMA AtMostGrows ==
    ASSUME NEW s \in Seq(Msgs), NEW q \in Nat, NEW r \in Nat, q <= r, AtMost(s, q)
    PROVE  AtMost(s, r)
<1>1. \A a \in DOMAIN s : Rank[s[a]] \in 0 .. 3
  BY ElementOfSeq, RankIs
<1> QED
  BY <1>1 DEF AtMost

\* Nothing is under way.
LEMMA NothingUnderWay ==
    Ordered(<<>>) /\ \A r : AtMost(<<>>, r)
BY DEF Ordered, AtMost

-----------------------------------------------------------------------------
(* One step. *)

\* What send does to the wire and to the ends.
LEMMA SentOn ==
    ASSUME SetupTypeOK, NEW p \in Phones, NEW m \in Msgs, NEW room,
           room \in {Capacity[p], Capacity[p] + 1}, SocketSend(p, m, room)
    PROVE  /\ wire' \in [Phones -> Seq(Msgs)]
           /\ \A q \in Phones : Len(wire'[q]) <= Capacity[q] + 1
           /\ down' \in [Phones -> BOOLEAN] /\ killed' \in [Phones -> BOOLEAN]
           /\ \/ /\ down[p] \/ down[Other(p)]
                 /\ wire' = wire
                 /\ \/ UNCHANGED ends
                    \/ /\ killed' = [killed EXCEPT ![p] = TRUE]
                       /\ down' = [down EXCEPT ![p] = TRUE]
              \/ /\ ~down[p] /\ ~down[Other(p)] /\ UNCHANGED ends
                 /\ wire' = [wire EXCEPT ![p] = Append(wire[p], m)]
<1>0. /\ wire \in [Phones -> Seq(Msgs)] /\ Capacity \in [Phones -> Nat \ {0}]
      /\ \A q \in Phones : Len(wire[q]) <= Capacity[q] + 1
      /\ down \in [Phones -> BOOLEAN] /\ killed \in [Phones -> BOOLEAN]
  <2>1. Capacity \in [Phones -> Nat \ {0}]
    BY SetupAssumption
  <2> QED
    BY <2>1 DEF SetupTypeOK, Msgs
<1>1. CASE down[p] \/ down[Other(p)]
  BY <1>0, <1>1 DEF SocketSend, ends
<1>2. CASE ~(down[p] \/ down[Other(p)])
  <2>1. /\ Len(wire[p]) < room /\ UNCHANGED ends
        /\ wire' = [wire EXCEPT ![p] = Append(wire[p], m)]
    BY <1>2 DEF SocketSend
  <2>2. /\ Append(wire[p], m) \in Seq(Msgs) /\ Len(wire[p]) \in Nat
        /\ Len(Append(wire[p], m)) = Len(wire[p]) + 1
    BY <1>0, AppendProperties
  <2>3. Len(Append(wire[p], m)) <= Capacity[p] + 1
    BY <1>0, <2>1, <2>2
  <2> QED
    BY <1>0, <1>2, <2>1, <2>2, <2>3 DEF ends
<1> QED
  BY <1>1, <1>2

\* A message may be sent when nothing of a later part is under way.
LEMMA SentInOrder ==
    ASSUME SetupTypeOK, NEW p \in Phones, NEW m \in Msgs,
           \A q \in Phones : Ordered(wire[q]), AtMost(wire[p], Rank[m]),
           \/ wire' = wire
           \/ wire' = [wire EXCEPT ![p] = Append(wire[p], m)]
    PROVE  /\ \A q \in Phones : Ordered(wire'[q]) /\ (q # p => wire'[q] = wire[q])
           /\ AtMost(wire'[p], Rank[m])
<1>1. wire \in [Phones -> Seq(Msgs)]
  BY DEF SetupTypeOK, Msgs
<1>2. Ordered(Append(wire[p], m)) /\ AtMost(Append(wire[p], m), Rank[m])
  BY <1>1, Appended
<1> QED
  BY <1>1, <1>2

\* What is taken from the wire, or lost on it.
LEMMA TakenFrom ==
    ASSUME SetupTypeOK, NEW p \in Phones, wire[p] # <<>>, NEW t \in Cut(wire[p]),
           wire' = [wire EXCEPT ![p] = t]
    PROVE  /\ wire' \in [Phones -> Seq(Msgs)]
           /\ \A q \in Phones :
                 /\ Len(wire'[q]) <= Capacity[q] + 1
                 /\ Ordered(wire[q]) => Ordered(wire'[q])
                 /\ \A r : AtMost(wire[q], r) => AtMost(wire'[q], r)
                 /\ \A a \in DOMAIN wire'[q] : \E b \in DOMAIN wire[q] : wire'[q][a] = wire[q][b]
                 /\ wire[q] = <<>> => wire'[q] = <<>>
<1>1. /\ wire \in [Phones -> Seq(Msgs)] /\ Capacity \in [Phones -> Nat \ {0}]
      /\ \A q \in Phones : Len(wire[q]) <= Capacity[q] + 1 /\ Len(wire[q]) \in Nat
  <2>1. Capacity \in [Phones -> Nat \ {0}]
    BY SetupAssumption
  <2>2. /\ wire \in [Phones -> Seq(Msgs)]
        /\ \A q \in Phones : Len(wire[q]) <= Capacity[q] + 1
    BY DEF SetupTypeOK, Msgs
  <2> QED
    BY <2>1, <2>2
<1>2. /\ t \in Seq(Msgs) /\ Len(t) = Len(wire[p]) - 1
      /\ Ordered(wire[p]) => Ordered(t)
      /\ \A r : AtMost(wire[p], r) => AtMost(t, r)
      /\ \A a \in DOMAIN t : \E b \in DOMAIN wire[p] : t[a] = wire[p][b]
  BY <1>1, Shortened
<1>3. Len(t) <= Capacity[p] + 1
  BY <1>1, <1>2
<1> QED
  BY <1>1, <1>2, <1>3

\* The names and the addresses of the step that a handler is at.
LEMMA LookupStays ==
    ASSUME LookupOK, UNCHANGED <<inetAddress, dialled, dest, callerName>>,
           \/ pc'[Caller] = pc[Caller]
           \/ pc[Caller] \notin {"dial", "connect"} /\ pc'[Caller] \notin {"dial", "connect"}
    PROVE  LookupOK'
BY DEF LookupOK, Dialled, AddressBook_lookup

\* The inductive invariant holds at the start.
LEMMA SetupStarts ==
    SetupInit => SetupIInv
<1> SUFFICES ASSUME SetupInit
             PROVE  SetupIInv
  OBVIOUS
<1>1. /\ Len(<<>>) = 0 /\ <<>> \in Seq(Msgs)
      /\ \A p \in Phones : wire[p] = <<>>
  BY DEF SetupInit
<1>2. SetupTypeOK
  BY <1>1, SetupAssumption DEF SetupInit, SetupTypeOK, Phones, Msgs
<1>3. \A p \in Phones : WireOK(p) /\ StepOK(p)
  BY <1>1, NothingUnderWay DEF SetupInit, WireOK, StepOK, Phones, Early, Quiet, None
<1>4. AnswerOK
  BY <1>1, SetupAssumption DEF SetupInit, AnswerOK, Phones, None
<1>5. LookupOK
  BY SetupAssumption DEF SetupInit, LookupOK, Phones, None
<1> QED
  BY <1>2, <1>3, <1>4, <1>5 DEF SetupIInv

\* The steps that leave the wire alone.
StillSteps ==
    \/ \E name \in Names : DialName(name)
    \/ \E ip \in Numbers : DialNumber(ip)
    \/ Connection_create
    \/ AcceptConnection
    \/ Drain
    \/ \E p \in Phones :
         \/ CreateCallThread(p)
         \/ StartAudio(p)
         \/ AudioStarted(p)
         \/ HangUpCall(p)
         \/ StopAudio(p)
         \/ CallThreadExit(p)

\* The steps that send a message, and those that take one.
SendSteps ==
    \/ Greet
    \/ \E a \in {"CALL_ACCEPT", "CALL_REJECT"} : AskUser(a)
    \/ \E p \in Phones :
         \/ Trek_play(p)
         \/ SendSilence(p)
         \/ SendVoice(p)
TakeSteps == \E p \in Phones : Begin(p) \/ ReceiveFrame(p) \/ Lost(p)

\* There are no others.
LEMMA AllSteps ==
    SetupNext => StillSteps \/ SendSteps \/ TakeSteps
BY DEF SetupNext, Users, Handler, CallThread, StillSteps, SendSteps, TakeSteps, Phones

\* A step that leaves the wire alone keeps every variable to its values.
LEMMA StillType ==
    ASSUME SetupTypeOK, StillSteps
    PROVE  SetupTypeOK'
<1>1. \A name \in Names : AddressBook_lookup(name) # None => AddressBook_lookup(name) \in Numbers
  BY LookupFinds DEF Numbers
<1>2. \A ip : AddressBook_reverseLookup(ip) # None => AddressBook_reverseLookup(ip) \in Names
  BY ReverseFinds DEF Names
<1>3. Caller \in Phones /\ Callee \in Phones
  BY DEF Phones
<1>4. ASSUME NEW name \in Names, DialName(name)
      PROVE  SetupTypeOK'
  BY <1>1, <1>3, <1>4 DEF DialName, SetupTypeOK, counters, ends
<1>5. ASSUME NEW ip \in Numbers, DialNumber(ip)
      PROVE  SetupTypeOK'
  <2>1. dest' \in Numbers
    BY <1>5, CallBack DEF DialNumber
  <2> QED
    BY <1>3, <1>5, <2>1 DEF DialNumber, SetupTypeOK, counters, ends
<1>6. CASE Connection_create
  BY <1>3, <1>6 DEF Connection_create, SetupTypeOK, counters, ends, book
<1>7. CASE AcceptConnection
  <2>1. callerName' \in {None} \cup Names
    BY <1>2, <1>7 DEF AcceptConnection, SetupTypeOK
  <2>2. /\ down' \in [Phones -> BOOLEAN]
        /\ pc' \in [Phones -> {"dial", "connect", "greet", "listen", "ask", "drain", "begin", "play",
                              "incall", "stopping", "over", "ended"}]
    BY <1>3, <1>7 DEF AcceptConnection, SetupTypeOK
  <2> QED
    BY <1>7, <2>1, <2>2 DEF AcceptConnection, SetupTypeOK, counters
<1>15. CASE Drain
  BY <1>3, <1>15 DEF Drain, SetupTypeOK, counters, ends, book
<1>8. ASSUME NEW p \in Phones, CreateCallThread(p)
      PROVE  SetupTypeOK'
  BY <1>8 DEF CreateCallThread, SetupTypeOK, counters, ends, book
<1>9. ASSUME NEW p \in Phones, StartAudio(p)
      PROVE  SetupTypeOK'
  BY <1>9 DEF StartAudio, SetupTypeOK, counters, ends, book
<1>10. ASSUME NEW p \in Phones, AudioStarted(p)
       PROVE  SetupTypeOK'
  BY <1>10 DEF AudioStarted, SetupTypeOK, counters, ends, book
<1>11. ASSUME NEW p \in Phones, HangUpCall(p)
       PROVE  SetupTypeOK'
  BY <1>11 DEF HangUpCall, SetupTypeOK, counters, book
<1>12. ASSUME NEW p \in Phones, StopAudio(p)
       PROVE  SetupTypeOK'
  BY <1>12 DEF StopAudio, SetupTypeOK, counters, ends, book
<1>13. ASSUME NEW p \in Phones, CallThreadExit(p)
       PROVE  SetupTypeOK'
  BY <1>13 DEF CallThreadExit, SetupTypeOK, counters, ends, book
<1> QED
  BY <1>4, <1>5, <1>6, <1>7, <1>8, <1>9, <1>10, <1>11, <1>12, <1>13, <1>15 DEF StillSteps

\* A handler that dials, connects or accepts has sent nothing yet; one that goes
\* on has sent no more than the step it comes to allows.
LEMMA StillStep ==
    ASSUME SetupIInv, StillSteps
    PROVE  SetupIInv'
<1>1. /\ SetupTypeOK /\ AnswerOK /\ LookupOK /\ \A p \in Phones : WireOK(p) /\ StepOK(p)
      /\ SetupTypeOK'
  BY StillType DEF SetupIInv
<1>2. /\ pc \in [Phones -> {"dial", "connect", "greet", "listen", "ask", "drain", "begin", "play",
                            "incall", "stopping", "over", "ended"}]
      /\ thread \in [Phones -> {None, "silence", "start", "poll", "over"}]
      /\ down \in [Phones -> BOOLEAN] /\ audio \in [Phones -> BOOLEAN]
      /\ \A q \in Phones : wire[q] \in Seq(Msgs)
  BY <1>1 DEF SetupTypeOK, Msgs
<1>3. /\ Caller \in Phones /\ Callee \in Phones /\ Caller # Callee
      /\ \A q \in Phones : q = Caller \/ q = Callee
  BY SetupAssumption DEF Phones
<1>4. \A q \in Phones : AtMost(wire[q], 1) => AtMost(wire[q], 2)
  BY <1>2, AtMostGrows
<1>5. ASSUME NEW name \in Names, DialName(name)
      PROVE  SetupIInv'
  <2>1. \A q \in Phones : WireOK(q)' /\ StepOK(q)'
    BY <1>1, <1>2, <1>3, <1>5
       DEF DialName, SetupAt, WireOK, StepOK, Early, Quiet, counters, ends
  <2>2. AnswerOK'
    BY <1>1, <1>2, <1>3, <1>5 DEF DialName, SetupAt, AnswerOK, counters, ends
  <2>3. \E k \in DOMAIN Book : Book[k].inetAddress = dest' /\ dialled' = <<Book[k].name, "name">>
    BY <1>5, LookupFinds DEF DialName
  <2>4. /\ pc'[Caller] = "connect" /\ UNCHANGED <<inetAddress, callerName>>
        /\ \A n : AddressBook_lookup(n)' = AddressBook_lookup(n)
    BY <1>2, <1>3, <1>5 DEF DialName, AddressBook_lookup
  <2>5. LookupOK'
    BY <1>1, <2>3, <2>4 DEF LookupOK, Dialled, AddressBook_lookup
  <2> QED
    BY <1>1, <2>1, <2>2, <2>5 DEF SetupIInv
<1>6. ASSUME NEW ip \in Numbers, DialNumber(ip)
      PROVE  SetupIInv'
  <2>1. \A q \in Phones : WireOK(q)' /\ StepOK(q)'
    BY <1>1, <1>2, <1>3, <1>6
       DEF DialNumber, SetupAt, WireOK, StepOK, Early, Quiet, counters, ends
  <2>2. AnswerOK'
    BY <1>1, <1>2, <1>3, <1>6 DEF DialNumber, SetupAt, AnswerOK, counters, ends
  <2>3. dest' = ip /\ dialled' = <<ip, "number">>
    BY <1>6, CallBack DEF DialNumber
  <2>4. /\ pc'[Caller] = "connect" /\ UNCHANGED <<inetAddress, callerName>>
        /\ \A n : AddressBook_lookup(n)' = AddressBook_lookup(n)
    BY <1>2, <1>3, <1>6 DEF DialNumber, AddressBook_lookup
  <2>5. LookupOK'
    BY <1>1, <2>3, <2>4 DEF LookupOK, Dialled, AddressBook_lookup
  <2> QED
    BY <1>1, <2>1, <2>2, <2>5 DEF SetupIInv
<1>7. CASE Connection_create
  <2>1. \A q \in Phones : WireOK(q)' /\ StepOK(q)'
    BY <1>1, <1>2, <1>3, <1>7
       DEF Connection_create, SetupAt, WireOK, StepOK, Early, Quiet, counters, ends
  <2>2. AnswerOK'
    BY <1>1, <1>2, <1>3, <1>7 DEF Connection_create, SetupAt, AnswerOK, ends, book
  <2>3. LookupOK'
    BY <1>1, <1>2, <1>3, <1>7
       DEF Connection_create, SetupAt, LookupOK, Dialled, AddressBook_lookup, book
  <2> QED
    BY <1>1, <2>1, <2>2, <2>3 DEF SetupIInv
<1>8. CASE AcceptConnection
  <2>1. \A q \in Phones : WireOK(q)' /\ StepOK(q)'
    BY <1>1, <1>2, <1>3, <1>8
       DEF AcceptConnection, SetupAt, WireOK, StepOK, Early, Quiet, counters
  <2>2. AnswerOK'
    BY <1>1, <1>2, <1>3, <1>8, TwoPhones DEF AcceptConnection, SetupAt, AnswerOK, None
  <2>3. pc'[Caller] = pc[Caller] /\ UNCHANGED <<inetAddress, dialled, dest>>
    BY <1>2, <1>3, <1>8 DEF AcceptConnection
  <2>4. callerName' = callerName \/ AddressBook_lookup(callerName') = inetAddress[Caller]
    BY <1>8, CallBack DEF AcceptConnection
  <2>5. LookupOK'
    BY <1>1, <2>3, <2>4 DEF LookupOK, Dialled, AddressBook_lookup
  <2> QED
    BY <1>1, <2>1, <2>2, <2>5 DEF SetupIInv
<1>15. CASE Drain
  <2>1. \A q \in Phones : WireOK(q)' /\ StepOK(q)'
    BY <1>1, <1>2, <1>3, <1>15
       DEF Drain, SetupAt, WireOK, StepOK, Early, Quiet, counters, ends, book
  <2>2. AnswerOK'
    BY <1>1, <1>2, <1>3, <1>15 DEF Drain, SetupAt, AnswerOK, ends, book
  <2>3. LookupOK'
    BY <1>1, <1>2, <1>3, <1>15, LookupStays DEF Drain, SetupAt, book
  <2> QED
    BY <1>1, <2>1, <2>2, <2>3 DEF SetupIInv
<1>9. ASSUME NEW p \in Phones, CreateCallThread(p)
      PROVE  SetupIInv'
  <2>1. \A q \in Phones : WireOK(q)' /\ StepOK(q)'
    BY <1>1, <1>2, <1>3, <1>4, <1>9
       DEF CreateCallThread, SetupAt, WireOK, StepOK, Early, Quiet, counters, ends, None
  <2>2. AnswerOK'
    BY <1>1, <1>2, <1>3, <1>9 DEF CreateCallThread, SetupAt, AnswerOK, ends, book
  <2>3. LookupOK'
    BY <1>1, <1>2, <1>9, LookupStays DEF CreateCallThread, SetupAt, book
  <2> QED
    BY <1>1, <2>1, <2>2, <2>3 DEF SetupIInv
<1>10. ASSUME NEW p \in Phones, StartAudio(p)
       PROVE  SetupIInv'
  <2>1. \A q \in Phones : WireOK(q)' /\ StepOK(q)'
    BY <1>1, <1>2, <1>3, <1>10
       DEF StartAudio, ThreadAt, WireOK, StepOK, Early, Quiet, counters, ends, None
  <2>2. AnswerOK'
    BY <1>1, <1>10 DEF StartAudio, AnswerOK, ends, book
  <2>3. LookupOK'
    BY <1>1, <1>10, LookupStays DEF StartAudio, book
  <2> QED
    BY <1>1, <2>1, <2>2, <2>3 DEF SetupIInv
<1>11. ASSUME NEW p \in Phones, AudioStarted(p)
       PROVE  SetupIInv'
  <2>1. \A q \in Phones : WireOK(q)' /\ StepOK(q)'
    BY <1>1, <1>2, <1>3, <1>11
       DEF AudioStarted, ThreadAt, WireOK, StepOK, Early, Quiet, counters, ends, None
  <2>2. AnswerOK'
    BY <1>1, <1>11 DEF AudioStarted, AnswerOK, ends, book
  <2>3. LookupOK'
    BY <1>1, <1>11, LookupStays DEF AudioStarted, book
  <2> QED
    BY <1>1, <2>1, <2>2, <2>3 DEF SetupIInv
<1>12. ASSUME NEW p \in Phones, HangUpCall(p)
       PROVE  SetupIInv'
  <2>1. \A q \in Phones : WireOK(q)' /\ StepOK(q)'
    BY <1>1, <1>2, <1>3, <1>12
       DEF HangUpCall, SetupAt, WireOK, StepOK, Early, Quiet, counters, None
  <2>2. AnswerOK'
    BY <1>1, <1>2, <1>3, <1>12 DEF HangUpCall, SetupAt, AnswerOK, book, None
  <2>3. LookupOK'
    BY <1>1, <1>2, <1>12, LookupStays DEF HangUpCall, SetupAt, book
  <2> QED
    BY <1>1, <2>1, <2>2, <2>3 DEF SetupIInv
<1>13. ASSUME NEW p \in Phones, StopAudio(p)
       PROVE  SetupIInv'
  <2>1. \A q \in Phones : WireOK(q)' /\ StepOK(q)'
    BY <1>1, <1>2, <1>3, <1>13
       DEF StopAudio, SetupAt, WireOK, StepOK, Early, Quiet, counters, ends, None
  <2>2. AnswerOK'
    BY <1>1, <1>2, <1>3, <1>13 DEF StopAudio, SetupAt, AnswerOK, ends, book, None
  <2>3. LookupOK'
    BY <1>1, <1>2, <1>13, LookupStays DEF StopAudio, SetupAt, book
  <2> QED
    BY <1>1, <2>1, <2>2, <2>3 DEF SetupIInv
<1>14. ASSUME NEW p \in Phones, CallThreadExit(p)
       PROVE  SetupIInv'
  <2>1. \A q \in Phones : WireOK(q)' /\ StepOK(q)'
    BY <1>1, <1>2, <1>3, <1>14
       DEF CallThreadExit, ThreadAt, WireOK, StepOK, Early, Quiet, counters, ends, None
  <2>2. AnswerOK'
    BY <1>1, <1>14 DEF CallThreadExit, AnswerOK, ends, book
  <2>3. LookupOK'
    BY <1>1, <1>14, LookupStays DEF CallThreadExit, book
  <2> QED
    BY <1>1, <2>1, <2>2, <2>3 DEF SetupIInv
<1> QED
  BY <1>5, <1>6, <1>7, <1>8, <1>9, <1>10, <1>11, <1>12, <1>13, <1>14, <1>15 DEF StillSteps

\* A frame of the sound, the silence or the voice.
LEMMA FrameSent ==
    ASSUME SetupIInv, NEW p \in Phones, NEW m \in Frames, SocketSend(p, m, Capacity[p]),
           AtMost(wire[p], Rank[m]), UNCHANGED <<book, pc, thread, queued, audio>>,
           pc[p] \notin Quiet \ {"play"},
           pc[p] = "play" => m = "sound" /\ UNCHANGED silences,
           thread[p] = "silence" => m # "voice",
           sounds' \in [Phones -> 0 .. NUM_BUFFERS],
           silences' \in [Phones -> 0 .. MIN_PLAYBACK_QUEUE_LENGTH],
           \A q \in Phones : q # p => sounds'[q] = sounds[q] /\ silences'[q] = silences[q]
    PROVE  SetupIInv'
<1>1. /\ SetupTypeOK /\ AnswerOK /\ LookupOK
      /\ \A q \in Phones : WireOK(q) /\ StepOK(q) /\ Ordered(wire[q])
  BY DEF SetupIInv, WireOK
<1>2. /\ pc[Callee] \in {"dial", "connect", "greet", "listen", "ask", "drain", "begin", "play",
                         "incall", "stopping", "over", "ended"}
      /\ down \in [Phones -> BOOLEAN] /\ audio \in [Phones -> BOOLEAN]
      /\ killed \in [Phones -> BOOLEAN]
      /\ wire \in [Phones -> Seq(Msgs)]
  BY <1>1, SetupAssumption DEF SetupTypeOK, Msgs, Phones
<1>3. /\ Caller \in Phones /\ Callee \in Phones /\ Caller # Callee
      /\ \A q \in Phones : q = Caller \/ q = Callee
  BY SetupAssumption DEF Phones
<1>4. m \in Msgs /\ Rank[m] \in Nat
  BY RankIs DEF Msgs
<1>5. /\ wire' \in [Phones -> Seq(Msgs)]
      /\ \A q \in Phones : Len(wire'[q]) <= Capacity[q] + 1
      /\ down' \in [Phones -> BOOLEAN] /\ killed' \in [Phones -> BOOLEAN]
      /\ \/ /\ wire' = wire
            /\ \/ UNCHANGED ends
               \/ /\ killed' = [killed EXCEPT ![p] = TRUE]
                  /\ down' = [down EXCEPT ![p] = TRUE]
         \/ /\ UNCHANGED ends
            /\ wire' = [wire EXCEPT ![p] = Append(wire[p], m)]
  BY <1>1, <1>4, SentOn
<1>6. /\ \A q \in Phones : Ordered(wire'[q]) /\ (q # p => wire'[q] = wire[q])
      /\ AtMost(wire'[p], Rank[m])
  BY <1>1, <1>4, <1>5, SentInOrder
<1>7. SetupTypeOK'
  BY <1>1, <1>5 DEF SetupTypeOK, Msgs, book
<1>8. /\ \A q \in Phones : q # p => down'[q] = down[q] /\ killed'[q] = killed[q]
      /\ \A q \in Phones : (down[q] => down'[q]) /\ (killed[q] => killed'[q])
  BY <1>2, <1>5 DEF ends
<1>9. pc[p] = "play" => AtMost(wire'[p], 1)
  BY <1>6, RankIs
<1>10. thread[p] = "silence" => AtMost(wire'[p], 2)
  <2>1. thread[p] = "silence" => Rank[m] <= 2
    BY RankIs DEF Frames
  <2> QED
    BY <1>4, <1>5, <1>6, <2>1, AtMostGrows
<1>11. pc[p] \notin Early /\ pc[p] \notin {"drain", "begin", "ended"}
  BY DEF Quiet, Early
<1>12. WireOK(p)'
  BY <1>6, <1>9, <1>10, <1>11 DEF WireOK
<1>13. StepOK(p)'
  BY <1>1, <1>11 DEF StepOK, Quiet
<1>14. ASSUME NEW q \in Phones, q # p
       PROVE  WireOK(q)' /\ StepOK(q)'
  BY <1>1, <1>6, <1>8, <1>14 DEF WireOK, StepOK
<1>15. AnswerOK'
  <2>1. CASE p = Callee
    <3>1. answer = "CALL_ACCEPT" /\ pc[Callee] \notin {"listen", "ask"}
      BY <1>1, <1>2, <1>11, <2>1 DEF AnswerOK, Early
    <3> QED
      BY <1>1, <3>1 DEF AnswerOK, book, None
  <2>2. CASE p # Callee
    <3>1. wire'[Callee] = wire[Callee] /\ down'[Callee] = down[Callee]
      BY <1>3, <1>6, <1>8, <2>2
    <3> QED
      BY <1>1, <1>3, <1>8, <3>1 DEF AnswerOK, book
  <2> QED
    BY <2>1, <2>2
<1>16. LookupOK'
  BY <1>1, LookupStays DEF book
<1> QED
  BY <1>7, <1>12, <1>13, <1>14, <1>15, <1>16 DEF SetupIInv

\* A message is sent after those of the parts before its own.
LEMMA SendStep ==
    ASSUME SetupIInv, SendSteps
    PROVE  SetupIInv'
<1>1. /\ SetupTypeOK /\ AnswerOK /\ LookupOK
      /\ \A p \in Phones : WireOK(p) /\ StepOK(p) /\ Ordered(wire[p])
  BY DEF SetupIInv, WireOK
<1>2. /\ pc \in [Phones -> {"dial", "connect", "greet", "listen", "ask", "drain", "begin", "play",
                            "incall", "stopping", "over", "ended"}]
      /\ thread \in [Phones -> {None, "silence", "start", "poll", "over"}]
      /\ sounds \in [Phones -> 0 .. NUM_BUFFERS]
      /\ silences \in [Phones -> 0 .. MIN_PLAYBACK_QUEUE_LENGTH]
      /\ down \in [Phones -> BOOLEAN] /\ audio \in [Phones -> BOOLEAN]
      /\ killed \in [Phones -> BOOLEAN]
      /\ wire \in [Phones -> Seq(Msgs)]
      /\ NUM_BUFFERS \in Nat /\ MIN_PLAYBACK_QUEUE_LENGTH \in Nat
  BY <1>1, SetupAssumption DEF SetupTypeOK, Msgs
<1>3. /\ Caller \in Phones /\ Callee \in Phones /\ Caller # Callee
      /\ \A q \in Phones : q = Caller \/ q = Callee
  BY SetupAssumption DEF Phones
<1>4. \A m \in Frames \cup {"CALL_ACCEPT", "CALL_REJECT"} : m \in Msgs /\ Rank[m] \in Nat
  BY RankIs DEF Msgs
<1>5. CASE Greet
  <2> DEFINE m == "CALL_ACCEPT"
  <2>1. /\ SocketSend(Caller, m, Capacity[Caller] + 1) /\ m \in Msgs
        /\ pc[Caller] = "greet" /\ ~killed[Caller] /\ ~down[Caller] /\ wire[Caller] = <<>>
        /\ pc' = [pc EXCEPT ![Caller] = "begin"]
        /\ UNCHANGED <<book, thread, counters, queued, audio>>
    BY <1>1, <1>3, <1>5 DEF Greet, SetupAt, Msgs, WireOK, StepOK, Early
  <2>2. AtMost(wire[Caller], Rank[m])
    BY <2>1, NothingUnderWay
  <2> HIDE DEF m
  <2>3. /\ wire' \in [Phones -> Seq(Msgs)]
        /\ \A q \in Phones : Len(wire'[q]) <= Capacity[q] + 1
        /\ down' \in [Phones -> BOOLEAN] /\ killed' \in [Phones -> BOOLEAN]
        /\ \/ /\ down[Callee]
              /\ wire' = wire
              /\ \/ UNCHANGED ends
                 \/ /\ killed' = [killed EXCEPT ![Caller] = TRUE]
                    /\ down' = [down EXCEPT ![Caller] = TRUE]
           \/ /\ ~down[Callee] /\ UNCHANGED ends
              /\ wire' = [wire EXCEPT ![Caller] = Append(wire[Caller], m)]
    BY <1>1, <1>3, <2>1, SentOn, TwoPhones
  <2>4. /\ \A q \in Phones : Ordered(wire'[q]) /\ (q # Caller => wire'[q] = wire[q])
        /\ AtMost(wire'[Caller], Rank[m])
    BY <1>1, <1>3, <2>1, <2>2, <2>3, SentInOrder
  <2>5. Rank[m] = 0
    BY RankIs DEF m
  <2>6. SetupTypeOK'
    BY <1>1, <1>3, <2>1, <2>3 DEF SetupTypeOK, Msgs, counters, book
  <2>7. \A q \in Phones : WireOK(q)' /\ StepOK(q)'
    <3>1. /\ pc'[Caller] \in {"begin", "ended"} /\ thread'[Caller] = None
          /\ sounds'[Caller] = 0 /\ silences'[Caller] = 0 /\ ~audio'[Caller]
          /\ down'[Caller] => killed'[Caller]
      BY <1>1, <1>2, <1>3, <2>1, <2>3 DEF StepOK, Early, Quiet, counters, ends, None
    <3>2. WireOK(Caller)' /\ StepOK(Caller)'
      BY <1>3, <2>4, <2>5, <3>1 DEF WireOK, StepOK, Early, None
    <3>3. ASSUME NEW q \in Phones, q # Caller
          PROVE  WireOK(q)' /\ StepOK(q)'
      <4>1. /\ pc'[q] = pc[q] /\ wire'[q] = wire[q]
            /\ down'[q] = down[q] /\ killed'[q] = killed[q]
        BY <1>2, <2>1, <2>3, <2>4, <3>3 DEF ends
      <4> QED
        BY <1>1, <2>1, <4>1 DEF WireOK, StepOK, counters
    <3> QED
      BY <3>2, <3>3
  <2>8. AnswerOK'
    BY <1>1, <1>2, <1>3, <2>1, <2>3, <2>4 DEF AnswerOK, book, ends, None
  <2>9. LookupOK'
    BY <1>1, <1>2, <2>1, LookupStays DEF book
  <2> QED
    BY <2>6, <2>7, <2>8, <2>9 DEF SetupIInv
<1>6. ASSUME NEW m \in {"CALL_ACCEPT", "CALL_REJECT"}, AskUser(m)
      PROVE  SetupIInv'
  <2>1. /\ SocketSend(Callee, m, Capacity[Callee] + 1) /\ m \in Msgs
        /\ pc[Callee] = "ask" /\ ~killed[Callee] /\ ~down[Callee] /\ wire[Callee] = <<>>
        /\ pc' = [pc EXCEPT ![Callee] = IF m = "CALL_ACCEPT" THEN "drain" ELSE "ended"]
        /\ answer' = m
        /\ UNCHANGED <<inetAddress, dialled, dest, callerName, thread, counters, queued, audio>>
    BY <1>1, <1>3, <1>6 DEF AskUser, SetupAt, Msgs, WireOK, StepOK, Early
  <2>2. AtMost(wire[Callee], Rank[m])
    BY <2>1, NothingUnderWay
  <2>3. /\ wire' \in [Phones -> Seq(Msgs)]
        /\ \A q \in Phones : Len(wire'[q]) <= Capacity[q] + 1
        /\ down' \in [Phones -> BOOLEAN] /\ killed' \in [Phones -> BOOLEAN]
        /\ \/ /\ down[Caller]
              /\ wire' = wire
              /\ \/ UNCHANGED ends
                 \/ /\ killed' = [killed EXCEPT ![Callee] = TRUE]
                    /\ down' = [down EXCEPT ![Callee] = TRUE]
           \/ /\ ~down[Caller] /\ UNCHANGED ends
              /\ wire' = [wire EXCEPT ![Callee] = Append(wire[Callee], m)]
    BY <1>1, <1>3, <2>1, SentOn, TwoPhones
  <2>4. /\ \A q \in Phones : Ordered(wire'[q]) /\ (q # Callee => wire'[q] = wire[q])
        /\ AtMost(wire'[Callee], Rank[m])
    BY <1>1, <1>3, <2>1, <2>2, <2>3, SentInOrder
  <2>5. Rank[m] = 0
    BY RankIs
  <2>6. SetupTypeOK'
    BY <1>1, <1>3, <2>1, <2>3 DEF SetupTypeOK, Msgs, counters
  <2>7. \A q \in Phones : WireOK(q)' /\ StepOK(q)'
    <3>1. /\ pc'[Callee] \in {"drain", "ended"} /\ thread'[Callee] = None
          /\ sounds'[Callee] = 0 /\ silences'[Callee] = 0 /\ ~audio'[Callee]
          /\ down'[Callee] => killed'[Callee]
      BY <1>1, <1>2, <1>3, <2>1, <2>3 DEF StepOK, Early, Quiet, counters, ends, None
    <3>2. WireOK(Callee)' /\ StepOK(Callee)'
      BY <1>3, <2>4, <2>5, <3>1 DEF WireOK, StepOK, Early, None
    <3>3. ASSUME NEW q \in Phones, q # Callee
          PROVE  WireOK(q)' /\ StepOK(q)'
      <4>1. /\ pc'[q] = pc[q] /\ wire'[q] = wire[q]
            /\ down'[q] = down[q] /\ killed'[q] = killed[q]
        BY <1>2, <2>1, <2>3, <2>4, <3>3 DEF ends
      <4> QED
        BY <1>1, <2>1, <4>1 DEF WireOK, StepOK, counters
    <3> QED
      BY <3>2, <3>3
  <2>8. /\ answer = None
        /\ pc[Caller] \in {"dial", "connect", "greet", "begin"}
        /\ down[Caller] => killed[Caller]
    BY <1>1, <1>3, <2>1 DEF AnswerOK, StepOK, Early
  <2>9. \A a \in DOMAIN wire'[Callee] : wire'[Callee][a] = m
    <3>1. CASE wire' = wire
      BY <2>1, <3>1
    <3>2. CASE wire' = [wire EXCEPT ![Callee] = Append(wire[Callee], m)]
      <4>1. wire'[Callee] = Append(<<>>, m)
        BY <1>2, <1>3, <2>1, <3>2
      <4>2. Append(<<>>, m) = <<m>>
        OBVIOUS
      <4> QED
        BY <4>1, <4>2
    <3> QED
      BY <2>3, <3>1, <3>2
  <2>10. down'[Callee] => killed'[Caller]
    BY <1>2, <1>3, <2>1, <2>3, <2>8 DEF ends
  <2>11. AnswerOK'
    BY <1>1, <1>2, <1>3, <2>1, <2>8, <2>9, <2>10 DEF AnswerOK, None
  <2>12. LookupOK'
    BY <1>1, <1>2, <1>3, <2>1, LookupStays
  <2> QED
    BY <2>6, <2>7, <2>11, <2>12 DEF SetupIInv
<1>7. ASSUME NEW p \in Phones, Trek_play(p)
      PROVE  SetupIInv'
  <2>1. /\ SocketSend(p, "sound", Capacity[p]) /\ pc[p] = "play"
        /\ sounds' \in [Phones -> 0 .. NUM_BUFFERS]
        /\ \A q \in Phones : q # p => sounds'[q] = sounds[q]
        /\ UNCHANGED <<book, pc, thread, silences, queued, audio>>
    BY <1>2, <1>7 DEF Trek_play, SetupAt
  <2>2. AtMost(wire[p], Rank["sound"]) /\ thread[p] # "silence"
    BY <1>1, <2>1, RankIs DEF WireOK, StepOK, Quiet, None
  <2> QED
    BY <1>2, <2>1, <2>2, FrameSent DEF Frames, Quiet, Early
<1>8. ASSUME NEW p \in Phones, SendSilence(p)
      PROVE  SetupIInv'
  <2>1. /\ SocketSend(p, "silence", Capacity[p]) /\ thread[p] = "silence"
        /\ silences' \in [Phones -> 0 .. MIN_PLAYBACK_QUEUE_LENGTH]
        /\ \A q \in Phones : q # p => silences'[q] = silences[q]
        /\ UNCHANGED <<book, pc, thread, sounds, queued, audio>>
    BY <1>2, <1>8 DEF SendSilence, ThreadAt
  <2>2. AtMost(wire[p], Rank["silence"]) /\ pc[p] \notin Quiet
    BY <1>1, <2>1, RankIs DEF WireOK, StepOK, None
  <2>3. pc[p] # "play"
    BY <2>2 DEF Quiet
  <2> QED
    BY <1>2, <2>1, <2>2, <2>3, FrameSent DEF Frames
<1>9. ASSUME NEW p \in Phones, SendVoice(p)
      PROVE  SetupIInv'
  <2>1. /\ SocketSend(p, "voice", Capacity[p]) /\ audio[p]
        /\ UNCHANGED <<book, pc, thread, counters, queued, audio>>
    BY <1>9 DEF SendVoice
  <2>2. thread[p] \notin {None, "silence"} /\ pc[p] \notin Quiet
    BY <1>1, <2>1 DEF StepOK, None
  <2>3. pc[p] # "play"
    BY <2>2 DEF Quiet
  <2>4. AtMost(wire[p], Rank["voice"])
    <3>1. \A a \in DOMAIN wire[p] : wire[p][a] \in Msgs
      BY <1>2, ElementOfSeq
    <3> QED
      BY <3>1, RankIs DEF AtMost
  <2> QED
    BY <1>2, <2>1, <2>2, <2>3, <2>4, FrameSent DEF Frames, counters
<1> QED
  BY <1>5, <1>6, <1>7, <1>8, <1>9 DEF SendSteps

\* A message that is taken leaves what is under way as it was; what the handler
\* finds in it depends on the answer.
LEMMA TakeStep ==
    ASSUME SetupIInv, TakeSteps
    PROVE  SetupIInv'
<1>1. /\ SetupTypeOK /\ AnswerOK /\ LookupOK
      /\ \A q \in Phones : WireOK(q) /\ StepOK(q)
  BY DEF SetupIInv
<1>2. /\ pc \in [Phones -> {"dial", "connect", "greet", "listen", "ask", "drain", "begin", "play",
                            "incall", "stopping", "over", "ended"}]
      /\ down \in [Phones -> BOOLEAN] /\ killed \in [Phones -> BOOLEAN]
      /\ wire \in [Phones -> Seq(Msgs)]
      /\ queued \in [Phones -> 0 .. MIN_PLAYBACK_QUEUE_LENGTH]
      /\ MIN_PLAYBACK_QUEUE_LENGTH \in Nat
  BY <1>1, SetupAssumption DEF SetupTypeOK, Msgs
<1>3. /\ Caller \in Phones /\ Callee \in Phones /\ Caller # Callee
      /\ \A q \in Phones : q = Caller \/ q = Callee
  BY SetupAssumption DEF Phones
<1> DEFINE Less == \A q \in Phones :
              /\ Ordered(wire[q]) => Ordered(wire'[q])
              /\ \A r : AtMost(wire[q], r) => AtMost(wire'[q], r)
              /\ \A a \in DOMAIN wire'[q] : \E b \in DOMAIN wire[q] : wire'[q][a] = wire[q][b]
              /\ wire[q] = <<>> => wire'[q] = <<>>
           Typed == /\ wire' \in [Phones -> Seq(Msgs)]
                    /\ \A q \in Phones : Len(wire'[q]) <= Capacity[q] + 1
<1>4. wire' = wire => Less /\ Typed
  BY <1>1, <1>2 DEF SetupTypeOK
<1>5. ASSUME NEW p \in Phones, wire[p] # <<>>, NEW t \in Cut(wire[p]),
             wire' = [wire EXCEPT ![p] = t]
      PROVE  Less /\ Typed
  BY <1>1, <1>5, TakenFrom
<1> HIDE DEF Less, Typed
<1>6. ASSUME Less, Typed, UNCHANGED <<book, pc, thread, counters, audio, ends>>,
             queued' \in [Phones -> 0 .. MIN_PLAYBACK_QUEUE_LENGTH]
      PROVE  SetupIInv'
  <2>1. SetupTypeOK'
    BY <1>1, <1>6 DEF SetupTypeOK, Typed, Msgs, book, counters, ends
  <2>2. \A q \in Phones : WireOK(q)' /\ StepOK(q)'
    BY <1>1, <1>6 DEF WireOK, StepOK, Less, counters, ends
  <2>3. AnswerOK'
    BY <1>1, <1>3, <1>6 DEF AnswerOK, Less, book, ends
  <2>4. LookupOK'
    BY <1>1, <1>6, LookupStays DEF book
  <2> QED
    BY <2>1, <2>2, <2>3, <2>4 DEF SetupIInv
<1>7. ASSUME NEW p \in Phones, Begin(p)
      PROVE  SetupIInv'
  <2>1. PICK handshake \in {"CALL_ACCEPT", "CALL_REJECT"} :
           /\ \/ /\ wire[Other(p)] # <<>> /\ handshake = Head(wire[Other(p)])
                 /\ wire' = [wire EXCEPT ![Other(p)] = Tail(@)]
              \/ /\ wire[Other(p)] = <<>> /\ down[Other(p)]
                 /\ UNCHANGED wire
           /\ pc' = [pc EXCEPT ![p] = IF handshake = "CALL_REJECT" THEN AfterReject(p) ELSE "play"]
    BY <1>7 DEF Begin
  <2>2. /\ pc[p] = "begin" /\ ~killed[p]
        /\ UNCHANGED <<book, thread, counters, queued, audio, ends>>
    BY <1>7 DEF Begin, SetupAt
  <2>3. /\ Other(p) \in Phones /\ Other(p) # p
        /\ Other(Caller) = Callee /\ Other(Callee) = Caller
    BY TwoPhones
  <2>4. Less /\ Typed
    <3>1. CASE wire' = wire
      BY <1>4, <3>1
    <3>2. CASE wire[Other(p)] # <<>> /\ wire' = [wire EXCEPT ![Other(p)] = Tail(@)]
      <4>1. Tail(wire[Other(p)]) \in Cut(wire[Other(p)])
        BY DEF Cut
      <4> QED
        BY <1>2, <1>5, <2>3, <3>2, <4>1
    <3> QED
      BY <2>1, <3>1, <3>2
  <2>5. /\ pc'[p] \in {"play", "incall", "ended"} /\ (p = Callee => pc'[p] # "ended")
        /\ p = Caller => pc'[p] # "incall"
        /\ p = Caller /\ pc'[p] = "play" => handshake = "CALL_ACCEPT"
        /\ \A q \in Phones : q # p => pc'[q] = pc[q]
        /\ pc' \in [Phones -> {"dial", "connect", "greet", "listen", "ask", "drain", "begin", "play",
                            "incall", "stopping", "over", "ended"}]
    BY <1>2, <1>3, <2>1 DEF AfterReject
  <2>6. SetupTypeOK'
    BY <1>1, <2>2, <2>4, <2>5 DEF SetupTypeOK, Typed, Msgs, book, counters, ends
  <2>7. AtMost(wire'[p], 1)
    <3>1. AtMost(wire'[p], 0)
      BY <1>1, <2>2, <2>4 DEF WireOK, Less
    <3> QED
      BY <2>4, <3>1, AtMostGrows DEF Typed
  <2>8. WireOK(p)' /\ StepOK(p)'
    BY <1>1, <2>2, <2>4, <2>5, <2>7 DEF WireOK, StepOK, Less, Early, Quiet, counters, ends, None
  <2>9. ASSUME NEW q \in Phones, q # p
        PROVE  WireOK(q)' /\ StepOK(q)'
    BY <1>1, <2>2, <2>4, <2>5, <2>9 DEF WireOK, StepOK, Less, counters, ends
  <2>10. AnswerOK'
    <3>1. CASE p = Callee
      <4>1. answer = "CALL_ACCEPT"
        BY <1>1, <2>2, <3>1 DEF AnswerOK
      <4>2. pc'[Caller] = pc[Caller]
        BY <1>3, <2>5, <3>1
      <4> QED
        BY <1>1, <1>3, <2>2, <2>5, <3>1, <4>1, <4>2 DEF AnswerOK, book, None
    <3>2. CASE p = Caller
      <4>1. pc'[Callee] = pc[Callee] /\ down' = down /\ killed' = killed /\ answer' = answer
        BY <1>3, <2>2, <2>5, <3>2 DEF book, ends
      <4>2. pc[Callee] \in {"listen", "ask"} => FALSE
        <5>1. pc[Callee] \in {"listen", "ask"} => ~down[Callee] /\ wire[Callee] = <<>>
          BY <1>1, <1>3 DEF StepOK, WireOK, Early
        <5> QED
          BY <2>1, <2>3, <3>2, <5>1
      <4>3. answer = None => wire[Callee] = <<>> /\ down[Callee]
        BY <1>1, <2>1, <2>3, <3>2 DEF AnswerOK
      <4>4. answer = "CALL_REJECT" => pc'[Caller] # "play"
        <5>1. answer = "CALL_REJECT" => wire[Callee] # <<>> /\ handshake = Head(wire[Callee])
          BY <1>1, <2>1, <2>2, <2>3, <3>2 DEF AnswerOK
        <5>2. wire[Callee] # <<>> => 1 \in DOMAIN wire[Callee] /\ Head(wire[Callee]) = wire[Callee][1]
          BY <1>2, <1>3, EmptySeq
        <5>3. answer = "CALL_REJECT" => handshake = "CALL_REJECT"
          BY <1>1, <5>1, <5>2 DEF AnswerOK
        <5> QED
          BY <2>5, <3>2, <5>3
      <4>5. answer \in {None, "CALL_ACCEPT", "CALL_REJECT"}
        BY <1>1 DEF SetupTypeOK
      <4>6. pc'[Caller] = "play" \/ pc'[Caller] = "ended"
        BY <2>5, <3>2
      <4>7. wire[Callee] = <<>> => wire'[Callee] = <<>>
        BY <1>3, <2>4 DEF Less
      <4>8. \A a \in DOMAIN wire'[Callee] : \E b \in DOMAIN wire[Callee] :
               wire'[Callee][a] = wire[Callee][b]
        BY <1>3, <2>4 DEF Less
      <4> QED
        BY <1>1, <4>1, <4>2, <4>3, <4>4, <4>5, <4>6, <4>7, <4>8 DEF AnswerOK
    <3> QED
      BY <1>3, <3>1, <3>2
  <2>11. LookupOK'
    BY <1>1, <1>3, <2>2, <2>5, LookupStays DEF book
  <2> QED
    BY <2>6, <2>8, <2>9, <2>10, <2>11 DEF SetupIInv
<1>8. ASSUME NEW p \in Phones, ReceiveFrame(p)
      PROVE  SetupIInv'
  <2>1. /\ wire[Other(p)] # <<>> /\ wire' = [wire EXCEPT ![Other(p)] = Tail(@)]
        /\ UNCHANGED <<book, pc, thread, counters, audio, ends>>
        /\ queued' \in [Phones -> 0 .. MIN_PLAYBACK_QUEUE_LENGTH]
    BY <1>2, <1>8 DEF ReceiveFrame
  <2>2. Tail(wire[Other(p)]) \in Cut(wire[Other(p)]) /\ Other(p) \in Phones
    BY TwoPhones DEF Cut
  <2>3. wire' = [wire EXCEPT ![Other(p)] = Tail(wire[Other(p)])]
    BY <1>2, <2>1, <2>2
  <2> QED
    BY <1>5, <1>6, <2>1, <2>2, <2>3
<1>9. ASSUME NEW p \in Phones, Lost(p)
      PROVE  SetupIInv'
  <2>1. /\ wire[p] # <<>> /\ wire' = [wire EXCEPT ![p] = SubSeq(wire[p], 1, Len(wire[p]) - 1)]
        /\ UNCHANGED <<book, pc, thread, counters, queued, audio, ends>>
    BY <1>2, <1>9 DEF Lost
  <2>2. SubSeq(wire[p], 1, Len(wire[p]) - 1) \in Cut(wire[p])
    BY DEF Cut
  <2> QED
    BY <1>2, <1>5, <1>6, <2>1, <2>2
<1> QED
  BY <1>7, <1>8, <1>9 DEF TakeSteps

\* The invariant gives the properties.
LEMMA SetupSound ==
    SetupIInv => SetupInv
<1> SUFFICES ASSUME SetupIInv
             PROVE  SetupInv
  OBVIOUS
<1>1. SetupTypeOK /\ AnswerOK /\ LookupOK /\ \A q \in Phones : WireOK(q) /\ StepOK(q)
  BY DEF SetupIInv
<1>2. SoundBeforeVoice
  BY <1>1 DEF SoundBeforeVoice, WireOK, Ordered
<1>3. FramesOnlyAfterYes
  <2> SUFFICES ASSUME NEW p \in Phones, sounds[p] + silences[p] > 0 \/ thread[p] # None
               PROVE  answer = "CALL_ACCEPT" \/ (answer = None /\ down[Callee])
    BY DEF FramesOnlyAfterYes
  <2>1. pc[p] \notin Quiet \ {"play"}
    BY <1>1 DEF StepOK, Quiet
  <2>2. pc[p] \in {"play", "incall", "stopping", "over"}
    BY <1>1, <2>1 DEF SetupTypeOK, Quiet, Early
  <2>3. p = Caller \/ p = Callee
    BY DEF Phones
  <2> QED
    BY <1>1, <2>2, <2>3 DEF AnswerOK
<1>4. RightPhones
  BY <1>1 DEF RightPhones, LookupOK, Dialled
<1> QED
  BY <1>2, <1>3, <1>4 DEF SetupInv

\* A step of the set-up, or none.
LEMMA SetupInductive ==
    ASSUME SetupIInv, [SetupNext]_setupVars
    PROVE  SetupIInv'
<1>1. CASE SetupNext
  BY <1>1, AllSteps, StillStep, SendStep, TakeStep
<1>2. CASE UNCHANGED setupVars
  <2>1. UNCHANGED <<inetAddress, dialled, dest, callerName, answer, pc, thread, sounds,
                    silences, wire, queued, audio, down, killed>>
    BY <1>2 DEF setupVars, book, counters, ends
  <2>2. SetupTypeOK' /\ AnswerOK'
    BY <2>1 DEF SetupIInv, SetupTypeOK, AnswerOK
  <2>3. \A q \in Phones : WireOK(q)' /\ StepOK(q)'
    BY <2>1 DEF SetupIInv, WireOK, StepOK
  <2>4. LookupOK'
    BY <2>1, LookupStays DEF SetupIInv
  <2> QED
    BY <2>2, <2>3, <2>4 DEF SetupIInv
<1> QED
  BY <1>1, <1>2

\* The inductive invariant holds of every reachable state: what each phone has
\* sent follows from the step its handler is at (call.c:38-70, 86-125).
THEOREM SetupInvariance ==
    SetupSpec => []SetupIInv
BY SetupInductive, SetupStarts, PTL DEF SetupSpec

\* What is sent before the voice goes out in the order in which the other phone
\* reads it, no frame of a call goes out before the answer, and the phone that
\* rings is the one that was dialled, for every book, every start-up sound and
\* every capacity of the network (call.c:38-70, dialservice.c:184-199).
THEOREM SetupCorrect ==
    SetupSpec => []SetupInv
BY SetupInvariance, SetupSound, PTL

-----------------------------------------------------------------------------
(* The keypad. *)

\* The pins below p that can type a digit.
Typing(p) == IF p <= Hash THEN p ELSE p - 1

\* Without stop the number is not complete; a scan of the pins adds at most one
\* digit for each pin that it has passed.
Counted ==
    /\ kpc # "idle" /\ ~stop => iter < DIAL_LENGTH
    /\ kpc \in {"idle", "top"} => iter <= DIAL_LENGTH + NUM_GPIO - 2
    /\ kpc \in {"scan", "hash"} => iter <= DIAL_LENGTH - 1 + Typing(pin)
    /\ kpc = "hold" =>
         iter <= DIAL_LENGTH - 1 + Typing(pin) + (IF printFlag \/ pin = Hash THEN 0 ELSE 1)
    /\ kpc = "hash" => pin = Hash

\* A key that has typed is the one that is read, or was the last digit.
HeldKeys ==
    \A k \in typed :
        \/ kpc = "idle"
        \/ kpc = "hold" /\ k = pin /\ k # Hash /\ result /\ ~printFlag
        \/ stop /\ (k < pin \/ kpc = "top")

KeypadInv == KeypadTypeOK /\ Counted /\ HeldKeys

\* Nothing has been typed.
LEMMA KeypadStarts == KeypadInit => KeypadInv
<1> USE KeypadAssumption DEF Pins
<1> SUFFICES ASSUME KeypadInit PROVE KeypadInv
  OBVIOUS
<1>1. pin \in Pins /\ iter \in Nat
  BY DEF KeypadInit
<1>2. KeypadTypeOK
  BY <1>1, Zenon DEF KeypadInit, KeypadTypeOK
<1>3. Counted /\ HeldKeys
  BY DEF KeypadInit, Counted, HeldKeys
<1> QED
  BY <1>2, <1>3 DEF KeypadInv

\* One step of the scan, or of the user.
LEMMA KeypadStep == KeypadInv /\ [KeypadNext]_keypadVars => KeypadInv'
<1> USE KeypadAssumption DEF Pins
<1> SUFFICES ASSUME KeypadInv, [KeypadNext]_keypadVars
             PROVE  KeypadInv'
  OBVIOUS
<1> USE DEF KeypadInv, KeypadTypeOK
<1>1. CASE Dial
  <2>1. KeypadTypeOK'
    BY <1>1 DEF Dial
  <2>2. Counted'
    BY <1>1 DEF Dial, Counted, Typing
  <2>3. HeldKeys'
    BY <1>1 DEF Dial, HeldKeys
  <2> QED
    BY <2>1, <2>2, <2>3
<1>2. CASE Top
  <2>0. pin' \in Pins
    BY <1>2 DEF Top
  <2>1. KeypadTypeOK'
    BY <1>2, <2>0, Zenon DEF Top
  <2>2. Counted'
    BY <1>2 DEF Top, Counted, Typing
  <2>3. HeldKeys'
    BY <1>2 DEF Top, HeldKeys
  <2> QED
    BY <2>1, <2>2, <2>3
<1>3. CASE Scan
  <2>1. KeypadTypeOK'
    BY <1>3 DEF Scan
  <2>2. Counted'
    BY <1>3 DEF Scan, Counted, Typing
  <2>3. HeldKeys'
    BY <1>3 DEF Scan, HeldKeys
  <2> QED
    BY <2>1, <2>2, <2>3
<1>4. CASE Hold
  <2>1. /\ kpc = "hold" /\ pin # Hash /\ result
        /\ UNCHANGED pressed
        /\ pin \in pressed => result'
    BY <1>4, Zenon DEF Hold
  <2>6. iter \in Nat /\ pin \in Nat
    OBVIOUS
  <2>2. \A k \in typed : (k = pin /\ ~printFlag) \/ (stop /\ k < pin)
    BY <2>1 DEF HeldKeys
  <2>3. result' \in BOOLEAN
    <3>1. (pin \in pressed) \in BOOLEAN
      OBVIOUS
    <3> QED
      BY <1>4, <3>1, Zenon DEF Hold
  <2>4. CASE ~printFlag
    <3>1. UNCHANGED <<kpc, pin, iter, typed, printFlag, stop>>
      BY <1>4, <2>4, Zenon DEF Hold
    <3>2. KeypadTypeOK'
      BY <2>1, <2>3, <3>1, Zenon
    <3>3. Counted'
      BY <3>1 DEF Counted, Typing
    <3>4. HeldKeys'
      BY <2>1, <2>2, <3>1 DEF HeldKeys
    <3> QED
      BY <3>2, <3>3, <3>4
  <2>5. CASE printFlag
    <3>1. /\ iter' = iter + 1
          /\ typed' = (typed \cup {pin}) \cap pressed
          /\ ~printFlag' /\ printFlag' \in BOOLEAN
      BY <1>4, <2>5, Zenon DEF Hold
    <3>2. \A k \in typed' : (k = pin /\ result') \/ (stop /\ k < pin)
      <4> SUFFICES ASSUME NEW k \in typed', ~(stop /\ k < pin)
                   PROVE  k = pin /\ result'
        BY Zenon
      <4>1. k \in typed \/ k = pin
        BY <3>1
      <4>2. k = pin
        BY <2>2, <2>5, <4>1, Zenon
      <4>3. pin \in pressed
        BY <3>1, <4>2
      <4> QED
        BY <2>1, <4>2, <4>3, Zenon
    <3>3. iter <= DIAL_LENGTH - 1 + Typing(pin)
      BY <2>1, <2>5, <2>6 DEF Counted, Typing
    <3>4. CASE iter + 1 = DIAL_LENGTH
      <4>1. stop' /\ stop' \in BOOLEAN /\ NextPin
        BY <1>4, <2>5, <3>4, Zenon DEF Hold
      <4>2. CASE pin = NUM_GPIO - 1
        <5>1. kpc' = "top" /\ pin' = pin
          BY <4>1, <4>2 DEF NextPin
        <5>2. KeypadTypeOK'
          BY <2>1, <2>3, <2>6, <3>1, <4>1, <5>1
        <5>3. Counted'
          BY <2>1, <2>6, <3>1, <3>3, <4>1, <4>2, <5>1 DEF Counted, Typing
        <5>4. HeldKeys'
          BY <4>1, <5>1 DEF HeldKeys
        <5> QED
          BY <5>2, <5>3, <5>4
      <4>3. CASE pin # NUM_GPIO - 1
        <5>1. kpc' = "scan" /\ pin' = pin + 1
          BY <4>1, <4>3 DEF NextPin
        <5>2. pin' \in Pins
          BY <2>1, <2>6, <4>3, <5>1
        <5>3. KeypadTypeOK'
          BY <2>1, <2>3, <2>6, <3>1, <4>1, <5>1, <5>2
        <5>4. Counted'
          BY <2>1, <2>6, <3>1, <3>3, <4>1, <5>1 DEF Counted, Typing
        <5>5. \A k \in typed' : k < pin'
          BY <2>6, <3>1, <3>2, <5>1
        <5>6. HeldKeys'
          BY <4>1, <5>5 DEF HeldKeys
        <5> QED
          BY <5>3, <5>4, <5>6
      <4> QED
        BY <4>2, <4>3
    <3>5. CASE iter + 1 # DIAL_LENGTH
      <4>1. UNCHANGED <<stop, kpc, pin>>
        BY <1>4, <2>5, <3>5, Zenon DEF Hold
      <4>2. KeypadTypeOK'
        BY <2>1, <2>3, <2>6, <3>1, <4>1
      <4>3. Counted'
        BY <2>1, <2>6, <3>1, <3>3, <3>5, <4>1 DEF Counted, Typing
      <4>4. HeldKeys'
        BY <2>1, <3>1, <3>2, <4>1 DEF HeldKeys
      <4> QED
        BY <4>2, <4>3, <4>4
    <3> QED
      BY <3>4, <3>5
  <2> QED
    BY <2>4, <2>5
<1>5. CASE HoldHash
  <2>1. KeypadTypeOK'
    BY <1>5 DEF HoldHash
  <2>2. Counted'
    BY <1>5 DEF HoldHash, Counted, Typing
  <2>3. HeldKeys'
    BY <1>5 DEF HoldHash, HeldKeys
  <2> QED
    BY <2>1, <2>2, <2>3
<1>6. CASE HashWait
  <2>1. KeypadTypeOK'
    BY <1>6 DEF HashWait
  <2>2. Counted'
    BY <1>6 DEF HashWait, Counted, Typing
  <2>3. HeldKeys'
    BY <1>6 DEF HashWait, HeldKeys
  <2> QED
    BY <2>1, <2>2, <2>3
<1>7. CASE Unpressed
  <2>1. KeypadTypeOK'
    BY <1>7 DEF Unpressed, NextPin
  <2>2. Counted'
    BY <1>7 DEF Unpressed, NextPin, Counted, Typing
  <2>3. HeldKeys'
    BY <1>7 DEF Unpressed, NextPin, HeldKeys
  <2> QED
    BY <2>1, <2>2, <2>3
<1>8. CASE CancelDial
  <2>1. KeypadTypeOK'
    BY <1>8 DEF CancelDial
  <2>2. Counted'
    BY <1>8 DEF CancelDial, Counted, Typing
  <2>3. HeldKeys'
    BY <1>8 DEF CancelDial, HeldKeys
  <2> QED
    BY <2>1, <2>2, <2>3
<1>9. ASSUME NEW k \in Pins, Press(k) \/ Release(k)
      PROVE  KeypadInv'
  <2>1. KeypadTypeOK'
    BY <1>9 DEF Press, Release
  <2>2. Counted'
    BY <1>9 DEF Press, Release, Counted
  <2>3. typed' \subseteq typed /\ UNCHANGED <<kpc, pin, result, printFlag, stop>>
    BY <1>9 DEF Press, Release
  <2>4. HeldKeys'
    BY <2>3 DEF HeldKeys
  <2> QED
    BY <2>1, <2>2, <2>4
<1>10. CASE UNCHANGED keypadVars
  BY <1>10 DEF keypadVars, Counted, HeldKeys
<1> QED
  BY <1>1, <1>2, <1>3, <1>4, <1>5, <1>6, <1>7, <1>8, <1>9, <1>10 DEF KeypadNext, Scanning

\* Every variable keeps its type, and a complete number is noticed before the
\* next scan of the pins.
THEOREM KeypadInvariance == KeypadSpec => []KeypadInv
BY KeypadStarts, KeypadStep, PTL DEF KeypadSpec

\* The counts of the scan bound the buffer.
LEMMA KeypadSound == KeypadInv => InputBounded
BY KeypadAssumption DEF KeypadInv, KeypadTypeOK, Counted, InputBounded, Typing, Pins

\* The digits stay in their buffer, however many keys are pressed in the scan
\* that completes the number (keypad.c:146-153).
THEOREM KeypadInputBounded == KeypadSpec => []InputBounded
BY KeypadSound, KeypadInvariance, PTL

\* A key that is held down is one digit (keypad.c:112, 150).
THEOREM KeypadOnePress == KeypadSpec => OnePressOneDigit
<1>1. KeypadInv /\ [KeypadNext]_keypadVars
        => [iter' > iter /\ kpc # "idle" => pin \notin typed]_keypadVars
  <2> SUFFICES ASSUME KeypadInv, KeypadNext, iter' > iter, kpc # "idle", pin \in typed
               PROVE  FALSE
    BY DEF keypadVars
  <2>1. iter \in Nat /\ pin \in Nat
    BY KeypadAssumption DEF KeypadInv, KeypadTypeOK, Pins
  <2>2. Hold /\ printFlag
    BY <2>1 DEF KeypadNext, Scanning, Dial, Top, Scan, Hold, HoldHash, HashWait, Unpressed,
                CancelDial, Press, Release
  <2> QED
    BY <2>1, <2>2 DEF KeypadInv, HeldKeys, Hold
<1> QED
  BY <1>1, KeypadInvariance, PTL DEF KeypadSpec, OnePressOneDigit

-----------------------------------------------------------------------------
(* The lamps. *)

\* A thread exists only while blinking is on or its end is waited for.
BlinkerWanted ==
    \A b \in Blinkers : bpc[b] # "none" => blink_thread_running \/ lpc = "join"

\* The caller waits after it has switched blinking off.
JoinAfterStop == lpc = "join" => ~blink_thread_running

\* While blinking is on, the thread of the handle exists and nobody cancelled it.
BlinkerRuns == blink_thread_running => bpc[blink_thread] # "none" /\ doomed = {}

LedsInv == LedsTypeOK /\ OneBlinker /\ BlinkerWanted /\ JoinAfterStop /\ BlinkerRuns

\* No thread blinks.
LEMMA LedsStart == LedsInit => LedsInv
<1>1. (CHOOSE b \in Blinkers : TRUE) \in Blinkers
  BY LedsAssumption
<1> QED
  BY <1>1 DEF LedsInit, LedsInv, LedsTypeOK, OneBlinker, BlinkerWanted, JoinAfterStop, BlinkerRuns

\* One call of the caller's, or one step of a thread.
LEMMA LedsStep == LedsInv /\ [LedsNext]_ledsVars => LedsInv'
<1> SUFFICES ASSUME LedsInv, [LedsNext]_ledsVars
             PROVE  LedsInv'
  OBVIOUS
<1> USE DEF LedsInv, LedsTypeOK, OneBlinker, BlinkerWanted, JoinAfterStop, BlinkerRuns
<1>1. ASSUME NEW colour \in {RED, BLUE}, LED_on(colour)
      PROVE  LedsInv'
  BY <1>1 DEF LED_on
<1>2. ASSUME NEW colour \in {RED, BLUE}, LED_off(colour)
      PROVE  LedsInv'
  BY <1>2 DEF LED_off
<1>3. CASE LED_red_blink_start
  BY <1>3 DEF LED_red_blink_start
<1>4. CASE LED_red_blink_stop
  BY <1>4 DEF LED_red_blink_stop
<1>5. CASE BlinkJoin
  BY <1>5 DEF BlinkJoin
<1>6. ASSUME NEW b \in Blinkers, Blink(b)
      PROVE  LedsInv'
  BY <1>6 DEF Blink
<1>7. ASSUME NEW b \in Blinkers, BlinkEnd(b)
      PROVE  LedsInv'
  BY <1>7 DEF BlinkEnd
<1>8. CASE UNCHANGED ledsVars
  BY <1>8 DEF ledsVars
<1> QED
  BY <1>1, <1>2, <1>3, <1>4, <1>5, <1>6, <1>7, <1>8 DEF LedsNext

\* LedsInv holds for ever: the handle names the only blinking thread
\* (led.c:144-170).
THEOREM LedsInvariance == LedsSpec => []LedsInv
BY LedsStart, LedsStep, PTL DEF LedsSpec

\* The thread changes lamps only between LED_red_blink_start and the end of the
\* join in LED_red_blink_stop (led.c:144-170).
THEOREM LampsStayAsSet == LedsSpec => StaysAsSet
<1>1. LedsInv /\ [LedsNext]_ledsVars
        => [(\E b \in Blinkers : Blink(b)) => blink_thread_running \/ lpc = "join"]_ledsVars
  BY DEF LedsInv, BlinkerWanted, Blink
<1> QED
  BY <1>1, LedsInvariance, PTL DEF LedsSpec, StaysAsSet

-----------------------------------------------------------------------------
(* The volume mixer. *)

\* What each step of main says of the threads, the bus and the lamps.
ShutdownOrder ==
    /\ mpc = "init" => vpc = "none" /\ ipc = "none"
    /\ mpc \in {"dark", "close", "over"} => ipc = "ended"
    /\ mpc \notin {"init", "over"} => bus
    /\ mpc \in {"close", "over"} => lit = {}

\* A figure on its way to the display.
FigureWritten ==
    /\ ipc = "light" => lit = {}
    /\ ipc \in {"upper", "lower", "delay"} => lit = {digit}
    /\ ipc \in {"lower", "delay"} => upper = Figure(num, digit)
    /\ ipc = "delay" => lower = Figure(num, digit)

MixerSet == vpc = "store" => mixer = Level(volume)

MixerIInv == MixerTypeOK /\ ShutdownOrder /\ FigureWritten /\ MixerSet /\ MixerInStep

\* A reading of the potentiometer gives a volume the program knows.
LEMMA VolumeRange == ASSUME NEW r \in Readings PROVE Volume(r) \in Volumes
<1>1. r \in Int /\ 0 <= r /\ r <= 4095
  BY MixerAssumption
<1> QED
  BY <1>1, SMT DEF Volume, Volumes

\* A volume gives two figures, each a digit.
LEMMA FigureRange ==
  ASSUME NEW v \in Volumes, NEW d \in Digits
  PROVE  Figure(v, d) \in -1 .. 9
<1> DEFINE capped == IF v > 99 THEN 99 ELSE v
<1>1. capped \in 0 .. 99
  BY DEF Volumes
<1> HIDE DEF capped
<1>2. capped \div 10 \in -1 .. 9 /\ capped % 10 \in -1 .. 9
  BY <1>1, SMT
<1>3. Figure(v, d) = IF d = "left" THEN capped \div 10 ELSE capped % 10
  BY DEF Figure, capped
<1> QED
  BY <1>2, <1>3

\* The threads do not exist yet.
LEMMA MixerStarts == MixerInit => MixerIInv
<1> SUFFICES ASSUME MixerInit PROVE MixerIInv
  OBVIOUS
<1>1. knob \in Readings /\ currentVolume \in Volumes /\ volume \in Volumes /\ num \in Volumes
      /\ upper \in -1 .. 9 /\ lower \in -1 .. 9
  BY MixerAssumption DEF MixerInit, Volumes
<1>2. MixerTypeOK
  BY <1>1, Zenon DEF MixerInit, MixerTypeOK, Digits
<1> QED
  BY <1>2 DEF MixerInit, MixerIInv, ShutdownOrder, FigureWritten, MixerSet, MixerInStep

\* One step of main, of a thread or of the knob.
LEMMA MixerStep == MixerIInv /\ [MixerNext]_mixerVars => MixerIInv'
<1> SUFFICES ASSUME MixerIInv, [MixerNext]_mixerVars
             PROVE  MixerIInv'
  OBVIOUS
<1> USE DEF MixerIInv, MixerTypeOK, ShutdownOrder, FigureWritten, MixerSet, MixerInStep,
            flags, display, volumeLocals, i2cLocals
<1>1. ASSUME NEW r \in Readings, Turn(r)
      PROVE  MixerIInv'
  BY <1>1 DEF Turn
<1>2. CASE BoolHandler
  <2>1. MixerTypeOK'
    BY <1>2, ZenonT(30) DEF BoolHandler
  <2>2. ShutdownOrder' /\ FigureWritten' /\ MixerSet' /\ MixerInStep'
    BY <1>2 DEF BoolHandler
  <2> QED
    BY <2>1, <2>2
<1>3. CASE VolumeInit
  BY <1>3 DEF VolumeInit, Gpio_setValue
<1>4. CASE Spin
  BY <1>4 DEF Spin
<1>5. CASE JoinVolume
  BY <1>5 DEF JoinVolume
<1>6. CASE StopI2C
  BY <1>6 DEF StopI2C
<1>7. CASE JoinI2C
  BY <1>7 DEF JoinI2C
<1>8. CASE DisableDigits
  BY <1>8 DEF DisableDigits, Gpio_setValue
<1>9. CASE CloseI2cBus
  BY <1>9 DEF CloseI2cBus
<1>10. CASE ReadKnob
  BY <1>10, VolumeRange DEF ReadKnob
<1>11. CASE Compare
  BY <1>11 DEF Compare
<1>12. CASE SetMixer
  BY <1>12 DEF SetMixer
<1>13. CASE StoreVolume
  BY <1>13 DEF StoreVolume
<1>14. CASE LoadVolume
  BY <1>14 DEF LoadVolume, Digits
<1>15. CASE Darken
  BY <1>15 DEF Darken, Gpio_setValue
<1>16. CASE Light
  BY <1>16 DEF Light, Gpio_setValue
<1>17. CASE WriteUpper
  BY <1>17, FigureRange DEF WriteUpper
<1>18. CASE WriteLower
  BY <1>18, FigureRange DEF WriteLower
<1>19. CASE Delay
  BY <1>19 DEF Delay, Digits
<1>20. CASE UNCHANGED mixerVars
  BY <1>20 DEF mixerVars
<1> QED
  BY <1>1, <1>2, <1>3, <1>4, <1>5, <1>6, <1>7, <1>8, <1>9, <1>10, <1>11, <1>12, <1>13,
     <1>14, <1>15, <1>16, <1>17, <1>18, <1>19, <1>20
     DEF MixerNext, MixerMain, VolumeThread, I2cThread

\* The display's parts of the type follow from what the writer writes.
THEOREM MixerInvariance == MixerSpec => []MixerIInv
BY MixerStarts, MixerStep, PTL DEF MixerSpec

\* The order of the shutdown and the figures on their way give the properties.
LEMMA MixerSound == MixerIInv => MixerInv
BY DEF MixerIInv, MixerInv, ShutdownOrder, FigureWritten, BusOpenWhenWritten, WholeFigures,
       DarkAtTheEnd, MixerTypeOK

\* Nobody writes to a closed bus, every figure is whole, the display is dark in
\* the end, and currentVolume is the mixer's (volume_mixer.c:48-59, 101-128,
\* i2c.c:171-182).
THEOREM MixerCorrect == MixerSpec => []MixerInv
BY MixerSound, MixerInvariance, PTL

-----------------------------------------------------------------------------
(* The first ring buffer. *)

\* Division with remainder.
LEMMA Division ==
    ASSUME NEW W \in Nat \ {0}, NEW a \in Int
    PROVE  /\ a \div W \in Int /\ a % W \in Int /\ 0 <= a % W /\ a % W < W
           /\ a = W * (a \div W) + (a % W)
BY Z3

\* Round the end of the buffer once at most.
LEMMA Wrapped ==
    ASSUME NEW W \in Nat \ {0}, NEW a \in Int, 0 <= a, a < 2 * W
    PROVE  a % W = IF a < W THEN a ELSE a - W
<1>1. PICK d \in Int : d = a \div W
  BY Division
<1>2. PICK r \in Int : r = a % W /\ 0 <= r /\ r < W /\ a = W * d + r
  BY <1>1, Division
<1>3. d >= 0
  <2>1. d <= -1 => W * d <= -W
    BY Z3
  <2> QED
    BY <1>2, <2>1
<1>4. d <= 1
  <2>1. d >= 2 => W * d >= 2 * W
    BY Z3
  <2> QED
    BY <1>2, <2>1
<1>5. d = 0 \/ d = 1
  BY <1>3, <1>4
<1>6. d = 0 => W * d = 0
  BY Z3
<1>7. d = 1 => W * d = W
  BY Z3
<1> QED
  BY <1>2, <1>5, <1>6, <1>7

\* The place k steps on from the slot i.
Beyond(i, k) == IF i + k < maxElements THEN i + k ELSE i + k - maxElements

\* What % computes here, without it.
LEMMA SlotsWrap ==
    ASSUME NEW i \in Slots, NEW k \in 0 .. maxElements
    PROVE  (i + k) % maxElements = Beyond(i, k) /\ Beyond(i, k) \in Slots
<1>1. maxElements \in Nat \ {0} /\ i \in Int /\ 0 <= i /\ i < maxElements
  BY RingAssumption DEF Slots
<1>2. PICK a \in Int : a = i + k /\ 0 <= a /\ a < 2 * maxElements
  BY <1>1
<1>3. a % maxElements = IF a < maxElements THEN a ELSE a - maxElements
  BY <1>1, <1>2, Wrapped
<1> QED
  BY <1>1, <1>2, <1>3 DEF Beyond, Slots

\* Steps round the buffer add up.
LEMMA BeyondAdds ==
    ASSUME NEW i \in Slots, NEW j \in 0 .. maxElements, NEW k \in 0 .. maxElements,
           j + k <= maxElements
    PROVE  Beyond(Beyond(i, j), k) = Beyond(i, j + k)
BY RingAssumption DEF Beyond, Slots

\* They come to no slot twice before they are all the way round.
LEMMA BeyondOnce ==
    ASSUME NEW i \in Slots, NEW j \in 0 .. maxElements - 1, NEW k \in 0 .. maxElements - 1
    PROVE  Beyond(i, j) = Beyond(i, k) <=> j = k
BY RingAssumption DEF Beyond, Slots

\* All the way round is where they began.
LEMMA BeyondBack ==
    ASSUME NEW i \in Slots, NEW k \in 1 .. maxElements
    PROVE  /\ Beyond(i, k) = i <=> k = maxElements
           /\ Beyond(i, maxElements - 1) = IF i - 1 < 0 THEN i - 1 + maxElements ELSE i - 1
BY RingAssumption DEF Beyond, Slots

\* The elements of the ring are at their slots.
LEMMA SlotIs ==
    ASSUME RingTypeOK, NEW k \in 1 .. maxElements
    PROVE  Slot(k) = Beyond(head, k - 1) /\ Slot(k) \in Slots
<1>1. maxElements \in Nat /\ head \in Int /\ head \in Slots /\ k - 1 \in 0 .. maxElements
      /\ head + k - 1 = head + (k - 1)
  BY RingAssumption DEF RingTypeOK, Slots
<1> QED
  BY <1>1, SlotsWrap DEF Slot

\* The ring in step: RingInStep without %.
RingFollows ==
    ~drifted =>
        /\ count = Len(queue)
        /\ tail = Beyond(head, count)
        /\ full <=> count = maxElements
        /\ \A k \in 1 .. count : buffer[Beyond(head, k - 1)] = queue[k]

RingIInv == RingTypeOK /\ RingFollows

\* What the ring holds of integers.
LEMMA RingNumbers ==
    ASSUME RingTypeOK
    PROVE  /\ maxElements \in Nat \ {0} /\ CountBound \in Nat /\ CountBound > maxElements
           /\ head \in Int /\ 0 <= head /\ head < maxElements
           /\ tail \in Int /\ 0 <= tail /\ tail < maxElements
           /\ count \in Int /\ queue \in Seq(Elements)
           /\ Len(queue) \in Nat /\ Len(queue) <= maxElements
BY RingAssumption, LenProperties DEF RingTypeOK, Slots

\* How many elements dequeueN removes, without %.
LEMMA RemovedIs ==
    ASSUME RingTypeOK, NEW n \in 1 .. maxElements
    PROVE  /\ Removed(n) \in 1 .. maxElements
           /\ tail = Beyond(head, count) /\ count \in 1 .. maxElements
                => (Removed(n) = n <=> n = count)
<1>1. (head + n) % maxElements = Beyond(head, n) /\ Beyond(head, n) \in Slots
  <2>1. head \in Slots /\ n \in 0 .. maxElements
    BY DEF RingTypeOK
  <2> QED
    BY <2>1, SlotsWrap
<1>2. EndSlot(n) = IF Beyond(head, n) < tail THEN Beyond(head, n)
                   ELSE IF tail - 1 < 0 THEN tail - 1 + maxElements ELSE tail - 1
  BY <1>1 DEF EndSlot
<1>3. Removed(n) = IF EndSlot(n) < head
                   THEN maxElements - head + EndSlot(n) + 1
                   ELSE EndSlot(n) - head + 1
  BY DEF Removed
<1>4. EndSlot(n) \in Slots
  BY <1>1, <1>2, RingNumbers DEF Slots
<1>5. Removed(n) \in 1 .. maxElements
  BY <1>3, <1>4, RingNumbers, SMTT(20) DEF Slots
<1>6. ASSUME tail = Beyond(head, count), count \in 1 .. maxElements
      PROVE  Removed(n) = n <=> n = count
  <2>1. /\ maxElements \in Nat \ {0}
        /\ head \in Int /\ 0 <= head /\ head < maxElements
        /\ tail \in Int /\ 0 <= tail /\ tail < maxElements
    BY RingNumbers
  <2>2. PICK end \in Int : end = EndSlot(n)
    BY <1>4, <2>1 DEF Slots
  <2>3. CASE Beyond(head, n) < tail
    BY <1>2, <1>3, <1>6, <2>1, <2>2, <2>3 DEF Beyond
  <2>4. CASE ~(Beyond(head, n) < tail)
    <3>1. end = IF tail - 1 < 0 THEN tail - 1 + maxElements ELSE tail - 1
      BY <1>2, <2>2, <2>4
    <3>2. Removed(n) = count
      BY <1>3, <1>6, <2>1, <2>2, <3>1 DEF Beyond
    <3>3. n = count => Removed(n) = n
      BY <3>2
    <3> QED
      BY <3>2, <3>3
  <2> QED
    BY <2>3, <2>4
<1> QED
  BY <1>5, <1>6

\* The empty ring.
LEMMA RingStarts == RingInit => RingIInv
<1> SUFFICES ASSUME RingInit PROVE RingIInv
  OBVIOUS
<1>1. <<>> \in Seq(Elements) /\ Len(<<>>) = 0 /\ maxElements \in Nat \ {0}
      /\ CountBound \in Nat /\ 0 \in Slots
  BY RingAssumption, EmptySeq DEF Slots
<1>2. RingTypeOK
  BY <1>1 DEF RingInit, RingTypeOK
<1>3. RingFollows
  BY <1>1 DEF RingInit, RingFollows, Beyond
<1> QED
  BY <1>2, <1>3 DEF RingIInv

\* An element is put, in the newest one's place if the ring is full.
LEMMA EnqueueKeeps ==
    ASSUME RingIInv, NEW e \in Elements, EnqueueElement(e), count \in -CountBound .. CountBound
    PROVE  RingIInv'
<1>a. RingTypeOK /\ RingFollows
  BY DEF RingIInv
<1>n. /\ maxElements \in Nat \ {0} /\ CountBound \in Nat /\ CountBound > maxElements
      /\ head \in Int /\ 0 <= head /\ head < maxElements
      /\ tail \in Int /\ 0 <= tail /\ tail < maxElements
      /\ count \in Int /\ queue \in Seq(Elements)
      /\ Len(queue) \in Nat /\ Len(queue) <= maxElements
  BY <1>a, RingNumbers
<1> DEFINE old == IF Len(queue) = maxElements THEN SubSeq(queue, 1, maxElements - 1) ELSE queue
<1>1. /\ old \in Seq(Elements)
      /\ Len(old) = IF Len(queue) = maxElements THEN maxElements - 1 ELSE Len(queue)
      /\ \A k \in 1 .. Len(old) : old[k] = queue[k]
  <2>1. CASE Len(queue) = maxElements
    <3>1. /\ SubSeq(queue, 1, maxElements - 1) \in Seq(Elements)
          /\ Len(SubSeq(queue, 1, maxElements - 1)) = maxElements - 1
          /\ \A k \in 1 .. maxElements - 1 : SubSeq(queue, 1, maxElements - 1)[k] = queue[k]
      <4>1. 1 \in 1 .. Len(queue) + 1 /\ maxElements - 1 \in 0 .. Len(queue)
        BY <1>n, <2>1
      <4>2. /\ Len(SubSeq(queue, 1, maxElements - 1)) =
                  IF 1 <= maxElements - 1 THEN maxElements - 1 - 1 + 1 ELSE 0
            /\ SubSeq(queue, 1, maxElements - 1) \in Seq(Elements)
            /\ \A k \in 1 .. maxElements - 1 - 1 + 1 :
                 SubSeq(queue, 1, maxElements - 1)[k] = queue[1 + k - 1]
        BY <1>n, <4>1, SubSeqProperties
      <4> QED
        BY <1>n, <4>2
    <3> QED
      BY <2>1, <3>1
  <2>2. CASE Len(queue) # maxElements
    BY <1>n, <2>2
  <2> QED
    BY <2>1, <2>2
<1> HIDE DEF old
<1>2. queue' = Append(old, e)
  BY DEF EnqueueElement, old
<1>3. /\ queue' \in Seq(Elements) /\ Len(queue') = Len(old) + 1
      /\ \A k \in 1 .. Len(old) : queue'[k] = queue[k]
      /\ queue'[Len(old) + 1] = e
  BY <1>1, <1>2, AppendProperties
<1>4. PICK l \in Nat : l = Len(old)
  BY <1>1, <1>n
<1>5. CASE full
  <2>1. /\ buffer' = [buffer EXCEPT ![NewestSlot] = e]
        /\ UNCHANGED <<head, drifted, tail, full, count>>
    BY <1>5 DEF EnqueueElement
  <2>2. NewestSlot \in Slots
    BY <1>n DEF NewestSlot, Slots
  <2>3. RingTypeOK'
    <3>1. Len(queue') <= maxElements
      BY <1>1, <1>3, <1>n
    <3> QED
      BY <1>a, <1>3, <2>1, <2>2, <3>1 DEF RingTypeOK
  <2>4. RingFollows'
    <3> SUFFICES ASSUME ~drifted
                 PROVE  /\ count = Len(queue')
                        /\ tail = Beyond(head, count)
                        /\ full <=> count = maxElements
                        /\ \A k \in 1 .. count : buffer'[Beyond(head, k - 1)] = queue'[k]
      BY <2>1 DEF RingFollows, Beyond
    <3>1. count = maxElements /\ count = Len(queue) /\ tail = Beyond(head, count)
          /\ \A k \in 1 .. count : buffer[Beyond(head, k - 1)] = queue[k]
      BY <1>a, <1>5 DEF RingFollows
    <3>2. Len(old) = maxElements - 1 /\ Len(queue') = maxElements
      BY <1>1, <1>3, <1>n, <3>1
    <3>3. ASSUME NEW k \in 1 .. count PROVE buffer'[Beyond(head, k - 1)] = queue'[k]
      <4>0. head \in Slots /\ k - 1 \in 0 .. maxElements - 1 /\ k - 1 \in 0 .. maxElements
            /\ maxElements - 1 \in 0 .. maxElements - 1 /\ maxElements \in 1 .. maxElements
        BY <1>n, <3>1, <3>3 DEF Slots
      <4>1. Beyond(head, k - 1) \in Slots /\ (Beyond(head, k - 1) = NewestSlot <=> k = maxElements)
        <5>1. tail = head
          BY <3>1, <4>0, BeyondBack
        <5>2. NewestSlot = Beyond(head, maxElements - 1)
          BY <4>0, <5>1, BeyondBack DEF NewestSlot
        <5>3. Beyond(head, k - 1) = NewestSlot <=> k - 1 = maxElements - 1
          BY <4>0, <5>2, BeyondOnce
        <5>4. Beyond(head, k - 1) \in Slots
          BY <4>0, SlotsWrap
        <5> QED
          BY <1>n, <3>1, <3>3, <5>3, <5>4
      <4>2. CASE k = maxElements
        BY <1>a, <1>3, <2>1, <2>2, <3>2, <4>1, <4>2 DEF RingTypeOK
      <4>3. CASE k # maxElements
        <5>1. k \in 1 .. Len(old)
          <6>1. 1 .. Len(old) = 1 .. maxElements - 1 /\ 1 .. count = 1 .. maxElements
            BY <3>1, <3>2
          <6> QED
            BY <1>n, <3>3, <4>3, <6>1
        <5> QED
          BY <1>a, <1>3, <2>1, <3>1, <4>1, <4>3, <5>1 DEF RingTypeOK
      <4> QED
        BY <4>2, <4>3
    <3> QED
      BY <1>5, <3>1, <3>2, <3>3
  <2> QED
    BY <2>3, <2>4 DEF RingIInv
<1>6. CASE ~full
  <2>1. /\ buffer' = [buffer EXCEPT ![tail] = e]
        /\ tail' = (tail + 1) % maxElements
        /\ full' = (tail' = head)
        /\ count' = count + 1
        /\ UNCHANGED <<head, drifted>>
    BY <1>6 DEF EnqueueElement
  <2>2. tail \in Slots /\ tail' = Beyond(tail, 1) /\ tail' \in Slots
    <3>1. tail \in Slots /\ 1 \in 0 .. maxElements
      BY <1>n DEF Slots
    <3> QED
      BY <2>1, <3>1, SlotsWrap
  <2>3. RingTypeOK'
    <3>1. Len(queue') <= maxElements
      BY <1>1, <1>3, <1>n
    <3>2. buffer' \in [Slots -> Elements \cup {Unwritten}]
      BY <1>a, <2>1, <2>2 DEF RingTypeOK
    <3>3. count' \in -CountBound - maxElements .. CountBound + 1
      BY <1>n, <2>1
    <3>4. full' \in BOOLEAN
      BY <2>1
    <3> QED
      BY <1>a, <1>3, <2>1, <2>2, <3>1, <3>2, <3>3, <3>4 DEF RingTypeOK
  <2>4. RingFollows'
    <3> SUFFICES ASSUME ~drifted
                 PROVE  /\ count' = Len(queue')
                        /\ tail' = Beyond(head, count')
                        /\ full' <=> count' = maxElements
                        /\ \A k \in 1 .. count' : buffer'[Beyond(head, k - 1)] = queue'[k]
      BY <2>1 DEF RingFollows, Beyond
    <3>1. count < maxElements /\ count = Len(queue) /\ tail = Beyond(head, count)
          /\ \A k \in 1 .. count : buffer[Beyond(head, k - 1)] = queue[k]
      BY <1>a, <1>6, <1>n DEF RingFollows
    <3>2. Len(old) = count /\ Len(queue') = count + 1
      BY <1>1, <1>3, <1>n, <3>1
    <3>3. tail' = Beyond(head, count + 1) /\ (tail' = head <=> count + 1 = maxElements)
      <4>1. head \in Slots /\ count \in 0 .. maxElements /\ 1 \in 0 .. maxElements
            /\ count + 1 \in 1 .. maxElements /\ count + 1 <= maxElements
        BY <1>n, <3>1 DEF Slots
      <4>2. Beyond(Beyond(head, count), 1) = Beyond(head, count + 1)
        BY <4>1, BeyondAdds
      <4> QED
        BY <2>2, <3>1, <4>1, <4>2, BeyondBack
    <3>4. ASSUME NEW k \in 1 .. count + 1 PROVE buffer'[Beyond(head, k - 1)] = queue'[k]
      <4>1. Beyond(head, k - 1) \in Slots /\ (Beyond(head, k - 1) = tail <=> k = count + 1)
        <5>1. head \in Slots /\ count \in 0 .. maxElements - 1
          BY <1>n, <3>1 DEF Slots
        <5>2. PICK j \in Int : j = k - 1
          BY <3>4
        <5>3. j \in 0 .. maxElements - 1 /\ (j = count <=> k = count + 1)
          BY <1>n, <3>1, <3>4, <5>2
        <5>4. Beyond(head, j) = Beyond(head, count) <=> j = count
          BY <5>1, <5>3, BeyondOnce
        <5>5. Beyond(head, j) \in Slots
          <6>1. j \in 0 .. maxElements
            BY <1>n, <5>3
          <6> QED
            BY <5>1, <6>1, SlotsWrap
        <5> QED
          BY <3>1, <5>2, <5>3, <5>4, <5>5
      <4>2. CASE k = count + 1
        BY <1>a, <1>3, <2>1, <2>2, <3>2, <4>1, <4>2 DEF RingTypeOK
      <4>3. CASE k # count + 1
        <5>1. k \in 1 .. Len(old) /\ k \in 1 .. count
          BY <1>n, <3>1, <3>2, <3>4, <4>3
        <5> QED
          BY <1>a, <1>3, <2>1, <3>1, <4>1, <4>3, <5>1 DEF RingTypeOK
      <4> QED
        BY <4>2, <4>3
    <3> QED
      BY <1>n, <2>1, <3>2, <3>3, <3>4
  <2> QED
    BY <2>3, <2>4 DEF RingIInv
<1> QED
  BY <1>5, <1>6

\* The oldest element is taken.
LEMMA DequeueKeeps ==
    ASSUME RingIInv, DequeueElement, count \in -CountBound .. CountBound
    PROVE  RingIInv'
<1>a. RingTypeOK /\ RingFollows
  BY DEF RingIInv
<1>n. /\ maxElements \in Nat \ {0} /\ CountBound \in Nat /\ CountBound > maxElements
      /\ head \in Int /\ 0 <= head /\ head < maxElements
      /\ tail \in Int /\ 0 <= tail /\ tail < maxElements
      /\ count \in Int /\ queue \in Seq(Elements)
      /\ Len(queue) \in Nat /\ Len(queue) <= maxElements
  BY <1>a, RingNumbers
<1>1. /\ count # 0 /\ head' = (head + 1) % maxElements /\ ~full' /\ full' \in BOOLEAN
      /\ count' = count - 1
      /\ queue' = IF queue = <<>> THEN queue ELSE Tail(queue)
      /\ UNCHANGED <<buffer, tail, drifted>>
  BY DEF DequeueElement
<1>2. head' = Beyond(head, 1) /\ head' \in Slots
  <2>1. head \in Slots /\ 1 \in 0 .. maxElements
    BY <1>n DEF Slots
  <2> QED
    BY <1>1, <2>1, SlotsWrap
<1>3. queue # <<>> => /\ Tail(queue) \in Seq(Elements) /\ Len(Tail(queue)) = Len(queue) - 1
                      /\ \A k \in 1 .. Len(queue) - 1 : Tail(queue)[k] = queue[k + 1]
  BY <1>n, HeadTailProperties
<1>4. RingTypeOK'
  <2>1. queue' \in Seq(Elements) /\ Len(queue') <= maxElements
    BY <1>1, <1>3, <1>n
  <2>2. count' \in -CountBound - maxElements .. CountBound + 1
    BY <1>1, <1>n
  <2> QED
    BY <1>a, <1>1, <1>2, <2>1, <2>2 DEF RingTypeOK
<1>5. RingFollows'
  <2> SUFFICES ASSUME ~drifted
               PROVE  /\ count' = Len(queue')
                      /\ tail = Beyond(head', count')
                      /\ count' # maxElements
                      /\ \A k \in 1 .. count' : buffer[Beyond(head', k - 1)] = queue'[k]
    BY <1>1 DEF RingFollows, Beyond
  <2>1. count = Len(queue) /\ tail = Beyond(head, count) /\ count > 0
        /\ \A k \in 1 .. count : buffer[Beyond(head, k - 1)] = queue[k]
    BY <1>a, <1>n, <1>1 DEF RingFollows
  <2>2. queue # <<>>
    BY <1>n, <2>1, EmptySeq
  <2>3. tail = Beyond(head', count') /\ count' # maxElements /\ count' = Len(queue')
    <3>1. head \in Slots /\ 1 \in 0 .. maxElements /\ count - 1 \in 0 .. maxElements
          /\ 1 + (count - 1) <= maxElements /\ 1 + (count - 1) = count
          /\ count - 1 # maxElements
      BY <1>n, <2>1 DEF Slots
    <3>2. Beyond(Beyond(head, 1), count - 1) = Beyond(head, count)
      BY <3>1, BeyondAdds
    <3>3. Len(queue') = Len(queue) - 1
      BY <1>1, <1>3, <2>2
    <3> QED
      BY <1>1, <1>2, <2>1, <3>1, <3>2, <3>3
  <2>4. ASSUME NEW k \in 1 .. count' PROVE buffer[Beyond(head', k - 1)] = queue'[k]
    <3>1. k + 1 \in 1 .. count /\ k \in 1 .. Len(queue) - 1 /\ queue'[k] = queue[k + 1]
      BY <1>n, <1>1, <1>3, <2>1, <2>2, <2>4
    <3>2. Beyond(head', k - 1) = Beyond(head, k + 1 - 1)
      BY <1>n, <1>2, <2>1, <3>1 DEF Beyond
    <3> QED
      BY <2>1, <3>1, <3>2
  <2> QED
    BY <2>3, <2>4
<1> QED
  BY <1>4, <1>5 DEF RingIInv

\* Several are taken: the ring is still in step only if they were all.
LEMMA DequeueNKeeps ==
    ASSUME RingIInv, NEW n \in 1 .. maxElements, DequeueN(n), count \in -CountBound .. CountBound
    PROVE  RingIInv'
<1>a. RingTypeOK /\ RingFollows
  BY DEF RingIInv
<1>n. /\ maxElements \in Nat \ {0} /\ CountBound \in Nat /\ CountBound > maxElements
      /\ head \in Int /\ 0 <= head /\ head < maxElements
      /\ tail \in Int /\ 0 <= tail /\ tail < maxElements
      /\ count \in Int /\ queue \in Seq(Elements)
      /\ Len(queue) \in Nat /\ Len(queue) <= maxElements
  BY <1>a, RingNumbers
<1>1. /\ count # 0 /\ head' = (head + n) % maxElements /\ ~full' /\ full' \in BOOLEAN
      /\ count' = count - Removed(n)
      /\ queue' = SubSeq(queue, n + 1, Len(queue))
      /\ drifted' = (drifted \/ Removed(n) # n)
      /\ UNCHANGED <<buffer, tail>>
  BY DEF DequeueN
<1>2. head' = Beyond(head, n) /\ head' \in Slots
  <2>1. head \in Slots /\ n \in 0 .. maxElements
    BY <1>n DEF Slots
  <2> QED
    BY <1>1, <2>1, SlotsWrap
<1>3. Removed(n) \in 1 .. maxElements
  BY <1>a, RemovedIs
<1>4. queue' \in Seq(Elements) /\ Len(queue') <= maxElements
      /\ (n = Len(queue) => Len(queue') = 0)
  <2>1. CASE n <= Len(queue)
    <3>1. n + 1 \in 1 .. Len(queue) + 1 /\ Len(queue) \in n + 1 - 1 .. Len(queue)
      BY <1>n, <2>1
    <3>2. /\ SubSeq(queue, n + 1, Len(queue)) \in Seq(Elements)
          /\ Len(SubSeq(queue, n + 1, Len(queue))) =
                IF n + 1 <= Len(queue) THEN Len(queue) - (n + 1) + 1 ELSE 0
      BY <1>n, <3>1, SubSeqProperties
    <3> QED
      BY <1>n, <1>1, <2>1, <3>2
  <2>2. CASE n > Len(queue)
    <3>1. SubSeq(queue, n + 1, Len(queue)) = <<>>
      BY <1>n, <2>2
    <3> QED
      BY <1>n, <1>1, <2>2, <3>1, EmptySeq
  <2> QED
    BY <1>n, <2>1, <2>2
<1>5. RingTypeOK'
  <2>1. count' \in -CountBound - maxElements .. CountBound + 1
    BY <1>1, <1>3, <1>n
  <2>2. drifted' \in BOOLEAN
    BY <1>1
  <2> QED
    BY <1>a, <1>1, <1>2, <1>4, <2>1, <2>2 DEF RingTypeOK
<1>6. RingFollows'
  <2> SUFFICES ASSUME ~drifted'
               PROVE  /\ count' = Len(queue')
                      /\ tail = Beyond(head', count')
                      /\ count' # maxElements
                      /\ \A k \in 1 .. count' : buffer[Beyond(head', k - 1)] = queue'[k]
    BY <1>1 DEF RingFollows, Beyond
  <2>1. ~drifted /\ Removed(n) = n
    BY <1>1
  <2>2. count = Len(queue) /\ tail = Beyond(head, count) /\ count \in 1 .. maxElements
    BY <1>a, <1>n, <1>1, <2>1 DEF RingFollows
  <2>3. n = count
    BY <1>a, <2>1, <2>2, RemovedIs
  <2>4. count' = 0 /\ head' = tail /\ Len(queue') = 0
    BY <1>n, <1>1, <1>2, <1>4, <2>1, <2>2, <2>3
  <2> QED
    BY <1>n, <2>4 DEF Beyond
<1> QED
  BY <1>5, <1>6 DEF RingIInv

\* One call.
LEMMA RingStep == RingIInv /\ [RingNext]_ringVars => RingIInv'
<1> SUFFICES ASSUME RingIInv, [RingNext]_ringVars PROVE RingIInv'
  OBVIOUS
<1>1. CASE UNCHANGED ringVars
  BY <1>1 DEF ringVars, RingIInv, RingTypeOK, RingFollows, Beyond
<1> QED
  BY <1>1, EnqueueKeeps, DequeueKeeps, DequeueNKeeps DEF RingNext

\* The ring follows the calls for ever.
THEOREM RingInvariance == RingSpec => []RingIInv
BY RingStarts, RingStep, PTL DEF RingSpec

\* printBuf goes from head to tail.
LEMMA ShownIs ==
    ASSUME RingTypeOK, count \in 0 .. maxElements, tail = Beyond(head, count)
    PROVE  Shown = {Beyond(head, k - 1) : k \in 1 .. count}
<1>n. /\ maxElements \in Nat \ {0}
      /\ head \in Int /\ 0 <= head /\ head < maxElements
      /\ tail \in Int /\ 0 <= tail /\ tail < maxElements
      /\ count \in Int
  BY RingNumbers
<1>1. CASE count = 0
  BY <1>1 DEF Shown
<1>2. CASE count # 0
  <2>1. ASSUME NEW k \in 1 .. count PROVE Beyond(head, k - 1) \in Shown
    BY <1>n, <1>2, <2>1 DEF Shown, Beyond, Slots
  <2>2. ASSUME NEW i \in Shown PROVE \E k \in 1 .. count : i = Beyond(head, k - 1)
    <3>1. i \in Int /\ 0 <= i /\ i < maxElements
          /\ (head = tail \/ (IF head < tail THEN head <= i /\ i < tail ELSE i < tail \/ head <= i))
      BY <1>n, <1>2, <2>2 DEF Shown, Slots
    <3>2. CASE head <= i
      <4>1. PICK k \in Int : k = i - head + 1
        BY <1>n, <3>1
      <4>2. k \in 1 .. count /\ i = Beyond(head, k - 1)
        BY <1>n, <1>2, <3>1, <3>2, <4>1 DEF Beyond
      <4> QED
        BY <4>2
    <3>3. CASE i < head
      <4>1. PICK k \in Int : k = i - head + 1 + maxElements
        BY <1>n, <3>1
      <4>2. k \in 1 .. count /\ i = Beyond(head, k - 1)
        BY <1>n, <1>2, <3>1, <3>3, <4>1 DEF Beyond
      <4> QED
        BY <4>2
    <3> QED
      BY <1>n, <3>1, <3>2, <3>3
  <2> QED
    BY <2>1, <2>2
<1> QED
  BY <1>1, <1>2

\* The slots in order are the queue.
LEMMA RingSound == RingIInv => ElementsInv
<1> SUFFICES ASSUME RingIInv, ~drifted PROVE ElementsInv
  BY DEF ElementsInv, RingInStep, WorksForAllOnly, PrintShowsElements
<1>1. RingTypeOK /\ count = Len(queue) /\ tail = Beyond(head, count)
      /\ (full <=> count = maxElements)
      /\ \A k \in 1 .. count : buffer[Beyond(head, k - 1)] = queue[k]
  BY DEF RingIInv, RingFollows
<1>2. count \in 0 .. maxElements /\ maxElements \in Nat /\ head \in Slots
  BY <1>1, RingNumbers DEF RingTypeOK
<1>3. \A k \in 1 .. count : Slot(k) = Beyond(head, k - 1)
  <2>1. \A k \in 1 .. count : k \in 1 .. maxElements
    BY <1>2
  <2> QED
    BY <1>1, <2>1, SlotIs
<1>4. RingInStep
  <2>1. tail = (head + count) % maxElements
    BY <1>1, <1>2, SlotsWrap
  <2> QED
    BY <1>1, <1>3, <2>1 DEF RingInStep
<1>5. WorksForAllOnly
  <2> SUFFICES ASSUME count > 0, NEW n \in 1 .. maxElements PROVE Removed(n) = n <=> n = count
    BY DEF WorksForAllOnly
  <2>1. count \in 1 .. maxElements
    BY <1>2
  <2> QED
    BY <1>1, <2>1, RemovedIs
<1>6. PrintShowsElements
  <2>1. Shown = {Beyond(head, k - 1) : k \in 1 .. count}
    BY <1>1, <1>2, ShownIs
  <2> QED
    BY <1>1, <1>3, <2>1 DEF PrintShowsElements
<1> QED
  BY <1>4, <1>5, <1>6 DEF ElementsInv

\* Until dequeueN has left an element the ring, and what is printed of it, are in
\* step, whatever its size.
THEOREM RingCorrect == RingSpec => []ElementsInv
BY RingSound, RingInvariance, PTL

-----------------------------------------------------------------------------
(* The audio prototype. *)

InQueue(b, q) == \E i \in DOMAIN q : q[i] = b
OnceIn(b, q) == \A i, j \in DOMAIN q : q[i] = b /\ q[j] = b => i = j

\* The places of b, counted: the two queues as one place each.
Bit(held) == IF held THEN 1 ELSE 0
PlacesHeld(b) ==
    Bit(b \in freeBuffers) + Bit(b \in dropped)
        + Bit(b = recvBuffer) + Bit(b = played) + Bit(b = recorded) + Bit(b = sendBuffer)
        + Bit(InQueue(b, recvBufferQueue)) + Bit(InQueue(b, sendBufferQueue))

OneSpot(b) ==
    /\ PlacesHeld(b) = 1
    /\ OnceIn(b, recvBufferQueue) /\ OnceIn(b, sendBufferQueue)

\* rwAudio holds a buffer at the steps that let go of it.
CallbackHolds ==
    /\ cbpc = "give" <=> played # NoBuffer
    /\ cbpc = "enqueue" <=> recorded # NoBuffer

DemoIInv ==
    /\ DemoTypeOK /\ CallbackHolds /\ SilenceStaysOut
    /\ \A b \in FreeBuffers : OneSpot(b)

\* new is q without its head, or with x behind it, for whoever looks for b.
Beheaded(q, new, b) ==
    /\ InQueue(b, q) <=> InQueue(b, new) \/ b = Head(q)
    /\ OnceIn(b, q) => OnceIn(b, new) /\ ~(InQueue(b, new) /\ b = Head(q))

Extended(q, new, x, b) ==
    /\ InQueue(b, new) <=> InQueue(b, q) \/ b = x
    /\ OnceIn(b, q) /\ ~(InQueue(b, q) /\ b = x) => OnceIn(b, new)

\* The head of a queue is taken.
LEMMA QueueTaken ==
    ASSUME NEW q \in Seq(AnyBuffer), q # <<>>, NEW b
    PROVE  /\ Head(q) \in AnyBuffer /\ Tail(q) \in Seq(AnyBuffer) /\ InQueue(Head(q), q)
           /\ Len(Tail(q)) = Len(q) - 1 /\ Len(q) \in Nat \ {0}
           /\ Beheaded(q, Tail(q), b)
<1>1. /\ Head(q) \in AnyBuffer /\ Tail(q) \in Seq(AnyBuffer)
      /\ Len(Tail(q)) = Len(q) - 1
      /\ \A i \in 1 .. Len(Tail(q)) : Tail(q)[i] = q[i + 1]
  BY HeadTailProperties
<1>2. /\ Len(q) \in Nat \ {0} /\ DOMAIN q = 1 .. Len(q)
      /\ DOMAIN Tail(q) = 1 .. Len(Tail(q)) /\ Head(q) = q[1]
  BY <1>1, LenProperties, EmptySeq
<1>3. InQueue(b, Tail(q)) => InQueue(b, q)
  BY <1>1, <1>2 DEF InQueue
<1>4. InQueue(Head(q), q)
  BY <1>2 DEF InQueue
<1>5. ASSUME InQueue(b, q), b # Head(q) PROVE InQueue(b, Tail(q))
  <2>1. PICK i \in 1 .. Len(q) : q[i] = b
    BY <1>2, <1>5 DEF InQueue
  <2>2. i - 1 \in 1 .. Len(Tail(q)) /\ Tail(q)[i - 1] = b
    BY <1>1, <1>2, <1>5, <2>1
  <2> QED
    BY <1>2, <2>2 DEF InQueue
<1>6. OnceIn(b, q) => OnceIn(b, Tail(q))
  BY <1>1, <1>2 DEF OnceIn
<1>7. OnceIn(b, q) /\ b = Head(q) => ~InQueue(b, Tail(q))
  BY <1>1, <1>2 DEF OnceIn, InQueue
<1> QED
  BY <1>1, <1>2, <1>3, <1>4, <1>5, <1>6, <1>7 DEF Beheaded

\* A buffer is put behind the others.
LEMMA QueuePut ==
    ASSUME NEW q \in Seq(AnyBuffer), NEW x \in AnyBuffer, NEW b
    PROVE  /\ Append(q, x) \in Seq(AnyBuffer)
           /\ Len(Append(q, x)) = Len(q) + 1 /\ Len(q) \in Nat
           /\ Extended(q, Append(q, x), x, b)
<1>1. /\ Append(q, x) \in Seq(AnyBuffer)
      /\ Len(Append(q, x)) = Len(q) + 1
      /\ \A i \in 1 .. Len(q) : Append(q, x)[i] = q[i]
      /\ Append(q, x)[Len(q) + 1] = x
  BY AppendProperties
<1>2. /\ Len(q) \in Nat /\ DOMAIN q = 1 .. Len(q)
      /\ DOMAIN Append(q, x) = 1 .. Len(Append(q, x))
  BY <1>1, LenProperties
<1>3. InQueue(b, Append(q, x)) <=> InQueue(b, q) \/ b = x
  BY <1>1, <1>2 DEF InQueue
<1>4. OnceIn(b, q) /\ ~(InQueue(b, q) /\ b = x) => OnceIn(b, Append(q, x))
  BY <1>1, <1>2 DEF OnceIn, InQueue
<1> QED
  BY <1>1, <1>2, <1>3, <1>4 DEF Extended

\* At first all buffers are in the pool.
LEMMA DemoStarts == DemoInit => DemoIInv
<1> SUFFICES ASSUME DemoInit PROVE DemoIInv
  OBVIOUS
<1>1. DemoTypeOK
  <2>1. <<>> \in Seq(AnyBuffer) /\ Len(<<>>) = 0 /\ FREE_NODES - 2 \in 0 .. FREE_NODES - 2
    BY DemoAssumption, EmptySeq
  <2> QED
    BY <2>1, DemoAssumption DEF DemoInit, DemoTypeOK, AnyBuffer, Held
<1>2. CallbackHolds /\ SilenceStaysOut
  BY DemoAssumption DEF DemoInit, CallbackHolds, SilenceStaysOut
<1>3. ASSUME NEW b \in FreeBuffers PROVE OneSpot(b)
  <2>1. ~InQueue(b, <<>>) /\ OnceIn(b, <<>>) /\ b # NoBuffer
    BY DemoAssumption DEF InQueue, OnceIn
  <2> QED
    BY <2>1 DEF DemoInit, OneSpot, PlacesHeld, Bit
<1> QED
  BY <1>1, <1>2, <1>3 DEF DemoIInv

\* No step loses or doubles a buffer.
LEMMA DemoStep == DemoIInv /\ [DemoNext]_demoVars => DemoIInv'
<1> SUFFICES ASSUME DemoIInv, [DemoNext]_demoVars PROVE DemoIInv'
  OBVIOUS
<1> USE DEF queues, callback
<1>a. /\ DemoTypeOK /\ CallbackHolds /\ SilenceStaysOut
      /\ \A b \in FreeBuffers : OneSpot(b)
  BY DEF DemoIInv
<1>b. /\ \A b \in FreeBuffers : b # NoBuffer /\ b # totalSilence /\ b \in AnyBuffer
      /\ totalSilence # NoBuffer /\ NoBuffer \notin AnyBuffer
      /\ \A b \in AnyBuffer : b \in FreeBuffers \/ b = totalSilence
      /\ FREE_NODES \in Nat /\ FREE_NODES > 2
  BY DemoAssumption DEF AnyBuffer
<1>c. /\ recvBufferQueue \in Seq(AnyBuffer) /\ sendBufferQueue \in Seq(AnyBuffer)
      /\ Len(recvBufferQueue) \in Nat /\ Len(sendBufferQueue) \in Nat
      /\ lfQueueNodePool \in Nat
  BY <1>a, LenProperties DEF DemoTypeOK
<1>s. /\ totalSilence \notin freeBuffers /\ totalSilence # recvBuffer /\ totalSilence # played
      /\ ~InQueue(totalSilence, recvBufferQueue)
  BY <1>a DEF SilenceStaysOut, InQueue
<1>i. ASSUME DemoTypeOK', CallbackHolds', \A b \in FreeBuffers : OneSpot(b)',
             totalSilence \notin freeBuffers' /\ totalSilence # recvBuffer' /\ totalSilence # played',
             ~InQueue(totalSilence, recvBufferQueue')
      PROVE  DemoIInv'
  BY <1>i DEF DemoIInv, SilenceStaysOut, InQueue
<1>1. CASE StartStream \/ StartSend \/ UNCHANGED demoVars
  <2>1. UNCHANGED <<freeBuffers, dropped, recvBufferQueue, sendBufferQueue, lfQueueNodePool,
                    recvBuffer, played, recorded, sendBuffer, cbpc>>
        /\ demo' \in {"fill", "stream", "send"}
    BY <1>a, <1>1 DEF StartStream, StartSend, demoVars, DemoTypeOK
  <2> QED
    BY <1>a, <1>i, <1>s, <2>1 DEF DemoTypeOK, CallbackHolds, OneSpot, PlacesHeld
<1>2. CASE MakeFrame
  <2> USE <1>2 DEF MakeFrame
  <2>1. DemoTypeOK' /\ CallbackHolds'
    BY <1>a DEF DemoTypeOK, CallbackHolds, Held
  <2>2. ASSUME NEW b \in FreeBuffers PROVE OneSpot(b)'
    BY <1>a, <1>b DEF OneSpot, PlacesHeld, Bit
  <2> QED
    BY <1>i, <1>s, <2>1, <2>2
<1>3. CASE QueueFrame
  <2> USE <1>3 DEF QueueFrame
  <2>0. recvBuffer \in FreeBuffers
    BY <1>a, <1>b, <1>s DEF DemoTypeOK, Held
  <2>1. PICK got \in BOOLEAN :
          /\ GetsNode(got)
          /\ recvBufferQueue' = IF got THEN Append(recvBufferQueue, recvBuffer) ELSE recvBufferQueue
          /\ DropUnless(got, recvBuffer)
    OBVIOUS
  <2>2. recvBuffer \in AnyBuffer
    BY <1>b, <2>0
  <2>3. DemoTypeOK' /\ CallbackHolds'
    <3>1. /\ Append(recvBufferQueue, recvBuffer) \in Seq(AnyBuffer)
          /\ Len(Append(recvBufferQueue, recvBuffer)) = Len(recvBufferQueue) + 1
      BY <1>c, <2>2, AppendProperties
    <3> QED
      BY <1>a, <1>b, <1>c, <2>0, <2>1, <3>1
         DEF DemoTypeOK, CallbackHolds, Held, GetsNode, DropUnless
  <2>4. ASSUME NEW b
        PROVE  Extended(recvBufferQueue, Append(recvBufferQueue, recvBuffer), recvBuffer, b)
    BY <1>c, <2>2, QueuePut
  <2>5. ASSUME NEW b \in FreeBuffers PROVE OneSpot(b)'
    <3>1. CASE got
      BY <1>a, <1>b, <2>1, <2>4, <3>1 DEF OneSpot, PlacesHeld, Bit, Extended, DropUnless
    <3>2. CASE ~got
      BY <1>a, <1>b, <2>0, <2>1, <3>2 DEF OneSpot, PlacesHeld, Bit, DropUnless
    <3> QED
      BY <3>1, <3>2
  <2>6. ~InQueue(totalSilence, recvBufferQueue')
    BY <1>b, <1>s, <2>0, <2>1, <2>4 DEF Extended
  <2> QED
    BY <1>b, <1>i, <1>s, <2>3, <2>5, <2>6
<1>4. CASE Play
  <2> USE <1>4 DEF Play
  <2>1. CASE recvBufferQueue = <<>>
    <3>1. DemoTypeOK' /\ CallbackHolds'
      BY <1>a, <2>1 DEF DemoTypeOK, CallbackHolds
    <3> QED
      BY <1>a, <1>i, <1>s, <2>1, <3>1 DEF OneSpot, PlacesHeld
  <2>2. CASE recvBufferQueue # <<>>
    <3>1. /\ FreesNode /\ cbpc' = "give" /\ played' = Head(recvBufferQueue)
          /\ recvBufferQueue' = Tail(recvBufferQueue) /\ played = NoBuffer /\ recorded = NoBuffer
      BY <1>a, <2>2 DEF CallbackHolds
    <3>2. /\ Head(recvBufferQueue) \in AnyBuffer /\ Tail(recvBufferQueue) \in Seq(AnyBuffer)
          /\ Len(Tail(recvBufferQueue)) = Len(recvBufferQueue) - 1
          /\ InQueue(Head(recvBufferQueue), recvBufferQueue)
      BY <1>c, <2>2, QueueTaken
    <3>3. DemoTypeOK' /\ CallbackHolds'
      BY <1>a, <1>b, <1>c, <3>1, <3>2 DEF DemoTypeOK, CallbackHolds, Held, FreesNode
    <3>4. ASSUME NEW b PROVE Beheaded(recvBufferQueue, Tail(recvBufferQueue), b)
      BY <1>c, <2>2, QueueTaken
    <3>5. ASSUME NEW b \in FreeBuffers PROVE OneSpot(b)'
      BY <1>a, <1>b, <3>1, <3>4 DEF OneSpot, PlacesHeld, Bit, Beheaded
    <3>6. totalSilence # played' /\ ~InQueue(totalSilence, recvBufferQueue')
      BY <1>s, <3>1, <3>2, <3>4 DEF Beheaded
    <3> QED
      BY <1>i, <1>s, <3>3, <3>5, <3>6
  <2> QED
    BY <2>1, <2>2
<1>5. CASE GivePlayed
  <2> USE <1>5 DEF GivePlayed, GiveBack, DropUnless
  <2>0. played \in FreeBuffers
    BY <1>a, <1>b, <1>s DEF DemoTypeOK, Held, CallbackHolds
  <2>1. DemoTypeOK' /\ CallbackHolds'
    BY <1>a, <1>b, <2>0 DEF DemoTypeOK, CallbackHolds, Held
  <2>2. ASSUME NEW b \in FreeBuffers PROVE OneSpot(b)'
    BY <1>a, <1>b, <2>0 DEF OneSpot, PlacesHeld, Bit
  <2> QED
    BY <1>b, <1>i, <1>s, <2>0, <2>1, <2>2
<1>6. CASE TakeBuffer
  <2> USE <1>6 DEF TakeBuffer
  <2>1. DemoTypeOK' /\ CallbackHolds'
    BY <1>a, <1>b DEF DemoTypeOK, CallbackHolds, Held, AnyBuffer
  <2>2. ASSUME NEW b \in FreeBuffers PROVE OneSpot(b)'
    BY <1>a, <1>b DEF OneSpot, PlacesHeld, Bit, CallbackHolds
  <2> QED
    BY <1>i, <1>s, <2>1, <2>2
<1>7. CASE QueueRecorded
  <2> USE <1>7 DEF QueueRecorded
  <2>0. recorded \in AnyBuffer
    BY <1>a DEF DemoTypeOK, Held, CallbackHolds
  <2>1. PICK got \in BOOLEAN :
          /\ GetsNode(got)
          /\ sendBufferQueue' = IF got THEN Append(sendBufferQueue, recorded) ELSE sendBufferQueue
          /\ DropUnless(got, recorded)
    OBVIOUS
  <2>3. DemoTypeOK' /\ CallbackHolds'
    <3>1. /\ Append(sendBufferQueue, recorded) \in Seq(AnyBuffer)
          /\ Len(Append(sendBufferQueue, recorded)) = Len(sendBufferQueue) + 1
      BY <1>c, <2>0, AppendProperties
    <3> QED
      BY <1>a, <1>b, <1>c, <2>0, <2>1, <3>1
         DEF DemoTypeOK, CallbackHolds, Held, GetsNode, DropUnless
  <2>4. ASSUME NEW b
        PROVE  Extended(sendBufferQueue, Append(sendBufferQueue, recorded), recorded, b)
    BY <1>c, <2>0, QueuePut
  <2>5. ASSUME NEW b \in FreeBuffers PROVE OneSpot(b)'
    <3>1. CASE got
      BY <1>a, <1>b, <2>1, <2>4, <3>1 DEF OneSpot, PlacesHeld, Bit, Extended, DropUnless
    <3>2. CASE ~got
      BY <1>a, <1>b, <2>1, <3>2 DEF OneSpot, PlacesHeld, Bit, DropUnless
    <3> QED
      BY <3>1, <3>2
  <2> QED
    BY <1>i, <1>s, <2>3, <2>5
<1>8. CASE TakeRecorded
  <2> USE <1>8 DEF TakeRecorded
  <2>2. /\ Head(sendBufferQueue) \in AnyBuffer /\ Tail(sendBufferQueue) \in Seq(AnyBuffer)
        /\ Len(Tail(sendBufferQueue)) = Len(sendBufferQueue) - 1
        /\ InQueue(Head(sendBufferQueue), sendBufferQueue)
    BY <1>c, QueueTaken
  <2>3. DemoTypeOK' /\ CallbackHolds'
    BY <1>a, <1>b, <1>c, <2>2 DEF DemoTypeOK, CallbackHolds, Held, FreesNode
  <2>4. ASSUME NEW b PROVE Beheaded(sendBufferQueue, Tail(sendBufferQueue), b)
    BY <1>c, QueueTaken
  <2>5. ASSUME NEW b \in FreeBuffers PROVE OneSpot(b)'
    BY <1>a, <1>b, <2>4 DEF OneSpot, PlacesHeld, Bit, Beheaded
  <2> QED
    BY <1>i, <1>s, <2>3, <2>5
<1>9. CASE WriteFrame
  <2> USE <1>9 DEF WriteFrame, GiveBack, DropUnless
  <2>1. DemoTypeOK' /\ CallbackHolds'
    BY <1>a, <1>b DEF DemoTypeOK, CallbackHolds, Held
  <2>2. ASSUME NEW b \in FreeBuffers PROVE OneSpot(b)'
    BY <1>a, <1>b DEF OneSpot, PlacesHeld, Bit, DemoTypeOK, Held
  <2> QED
    BY <1>b, <1>i, <1>s, <2>1, <2>2
<1> QED
  BY <1>1, <1>2, <1>3, <1>4, <1>5, <1>6, <1>7, <1>8, <1>9 DEF DemoNext

\* One spot is one place.
LEMMA OnePlace ==
    ASSUME DemoTypeOK, NEW b, OneSpot(b)
    PROVE  Cardinality(Places(b)) = 1
<1> DEFINE Hands == UNION {IF b \in freeBuffers THEN {"pool"} ELSE {},
                           IF b \in dropped THEN {"dropped"} ELSE {},
                           IF b = recvBuffer THEN {"filled"} ELSE {},
                           IF b = played THEN {"played"} ELSE {},
                           IF b = recorded THEN {"recorded"} ELSE {},
                           IF b = sendBuffer THEN {"written"} ELSE {}}
           InRecv == {i \in DOMAIN recvBufferQueue : recvBufferQueue[i] = b}
           InSend == {i \in DOMAIN sendBufferQueue : sendBufferQueue[i] = b}
<1>1. Places(b) = {<<place, 0>> : place \in Hands} \cup {<<"recv", k>> : k \in InRecv}
                     \cup {<<"send", k>> : k \in InSend}
  BY DEF Places
<1>2. \A place : place \in Hands <=>
         \/ place = "pool" /\ b \in freeBuffers
         \/ place = "dropped" /\ b \in dropped
         \/ place = "filled" /\ b = recvBuffer
         \/ place = "played" /\ b = played
         \/ place = "recorded" /\ b = recorded
         \/ place = "written" /\ b = sendBuffer
  <2>1. PICK A : A = IF b \in freeBuffers THEN {"pool"} ELSE {}
    OBVIOUS
  <2>2. PICK B : B = IF b \in dropped THEN {"dropped"} ELSE {}
    OBVIOUS
  <2>3. PICK C : C = IF b = recvBuffer THEN {"filled"} ELSE {}
    OBVIOUS
  <2>4. PICK D : D = IF b = played THEN {"played"} ELSE {}
    OBVIOUS
  <2>5. PICK E : E = IF b = recorded THEN {"recorded"} ELSE {}
    OBVIOUS
  <2>6. PICK F : F = IF b = sendBuffer THEN {"written"} ELSE {}
    OBVIOUS
  <2>7. Hands = UNION {A, B, C, D, E, F}
    BY <2>1, <2>2, <2>3, <2>4, <2>5, <2>6, Zenon
  <2> HIDE DEF Hands
  <2>8. \A place : place \in Hands <=> \/ place \in A \/ place \in B \/ place \in C
                                       \/ place \in D \/ place \in E \/ place \in F
    BY <2>7
  <2>9. \A place :
           /\ place \in A <=> place = "pool" /\ b \in freeBuffers
           /\ place \in B <=> place = "dropped" /\ b \in dropped
           /\ place \in C <=> place = "filled" /\ b = recvBuffer
           /\ place \in D <=> place = "played" /\ b = played
           /\ place \in E <=> place = "recorded" /\ b = recorded
           /\ place \in F <=> place = "written" /\ b = sendBuffer
    BY <2>1, <2>2, <2>3, <2>4, <2>5, <2>6
  <2> QED
    BY <2>8, <2>9
<1>3. /\ InQueue(b, recvBufferQueue) <=> InRecv # {}
      /\ InQueue(b, sendBufferQueue) <=> InSend # {}
      /\ InRecv # {} => \E i : InRecv = {i}
      /\ InSend # {} => \E i : InSend = {i}
  BY DEF InQueue, OneSpot, OnceIn
<1> HIDE DEF Hands, InRecv, InSend
<1>4. CASE InQueue(b, recvBufferQueue)
  <2>1. ~InQueue(b, sendBufferQueue) /\ Hands = {}
    BY <1>2, <1>4 DEF OneSpot, PlacesHeld, Bit
  <2>2. PICK i : InRecv = {i}
    BY <1>3, <1>4
  <2>3. Places(b) = {<<"recv", i>>}
    BY <1>1, <1>3, <2>1, <2>2
  <2> QED
    BY <2>3, FS_Singleton
<1>5. CASE InQueue(b, sendBufferQueue)
  <2>1. ~InQueue(b, recvBufferQueue) /\ Hands = {}
    BY <1>2, <1>5 DEF OneSpot, PlacesHeld, Bit
  <2>2. PICK i : InSend = {i}
    BY <1>3, <1>5
  <2>3. Places(b) = {<<"send", i>>}
    BY <1>1, <1>3, <2>1, <2>2
  <2> QED
    BY <2>3, FS_Singleton
<1>6. CASE ~InQueue(b, recvBufferQueue) /\ ~InQueue(b, sendBufferQueue)
  <2>1. PICK place : Hands = {place}
    <3>1. Bit(b \in freeBuffers) + Bit(b \in dropped) + Bit(b = recvBuffer)
            + Bit(b = played) + Bit(b = recorded) + Bit(b = sendBuffer) = 1
      BY <1>6 DEF OneSpot, PlacesHeld, Bit
    <3>2. \E place : /\ place \in Hands
                     /\ \A other : other \in Hands => other = place
      <4>1. CASE b \in freeBuffers
        <5>1. ~(b \in dropped \/ b = recvBuffer \/ b = played \/ b = recorded \/ b = sendBuffer)
          BY <3>1, <4>1 DEF Bit
        <5>2. ASSUME NEW other PROVE other \in Hands <=> other = "pool"
          BY <1>2, <4>1, <5>1
        <5> WITNESS "pool"
        <5> QED
          BY <5>2
      <4>2. CASE b \in dropped
        <5>1. ~(b \in freeBuffers \/ b = recvBuffer \/ b = played \/ b = recorded \/ b = sendBuffer)
          BY <3>1, <4>2 DEF Bit
        <5>2. ASSUME NEW other PROVE other \in Hands <=> other = "dropped"
          BY <1>2, <4>2, <5>1
        <5> WITNESS "dropped"
        <5> QED
          BY <5>2
      <4>3. CASE b = recvBuffer
        <5>1. ~(b \in freeBuffers \/ b \in dropped \/ b = played \/ b = recorded \/ b = sendBuffer)
          BY <3>1, <4>3 DEF Bit
        <5>2. ASSUME NEW other PROVE other \in Hands <=> other = "filled"
          BY <1>2, <4>3, <5>1
        <5> WITNESS "filled"
        <5> QED
          BY <5>2
      <4>4. CASE b = played
        <5>1. ~(b \in freeBuffers \/ b \in dropped \/ b = recvBuffer \/ b = recorded \/ b = sendBuffer)
          BY <3>1, <4>4 DEF Bit
        <5>2. ASSUME NEW other PROVE other \in Hands <=> other = "played"
          BY <1>2, <4>4, <5>1
        <5> WITNESS "played"
        <5> QED
          BY <5>2
      <4>5. CASE b = recorded
        <5>1. ~(b \in freeBuffers \/ b \in dropped \/ b = recvBuffer \/ b = played \/ b = sendBuffer)
          BY <3>1, <4>5 DEF Bit
        <5>2. ASSUME NEW other PROVE other \in Hands <=> other = "recorded"
          BY <1>2, <4>5, <5>1
        <5> WITNESS "recorded"
        <5> QED
          BY <5>2
      <4>6. CASE b = sendBuffer
        <5>1. ~(b \in freeBuffers \/ b \in dropped \/ b = recvBuffer \/ b = played \/ b = recorded)
          BY <3>1, <4>6 DEF Bit
        <5>2. ASSUME NEW other PROVE other \in Hands <=> other = "written"
          BY <1>2, <4>6, <5>1
        <5> WITNESS "written"
        <5> QED
          BY <5>2
      <4>7. \/ b \in freeBuffers \/ b \in dropped \/ b = recvBuffer
            \/ b = played \/ b = recorded \/ b = sendBuffer
        BY <3>1 DEF Bit
      <4> QED
        BY <4>1, <4>2, <4>3, <4>4, <4>5, <4>6, <4>7
    <3> QED
      BY <3>2
  <2>2. InRecv = {} /\ InSend = {}
    BY <1>3, <1>6
  <2>3. Places(b) = {<<place, 0>>}
    BY <1>1, <2>1, <2>2
  <2> QED
    BY <2>3, FS_Singleton
<1> QED
  BY <1>4, <1>5, <1>6

\* Each buffer is in one place, whatever the queues answer.
THEOREM DemoInvariance == DemoSpec => []DemoIInv
BY DemoStarts, DemoStep, PTL DEF DemoSpec

\* One place each is one part of the partition.
LEMMA DemoSound == DemoIInv => DemoInv
BY OnePlace DEF DemoIInv, DemoInv, EachInOnePlace

\* Every buffer is in one place, and the constant stays out.
THEOREM DemoCorrect == DemoSpec => []DemoInv
BY DemoSound, DemoInvariance, PTL

-----------------------------------------------------------------------------
(* The test of the lock-free ring. *)

\* One turn more leaves the remainder as it is.
LEMMA OneTurn ==
    ASSUME NEW W \in Nat \ {0}, NEW a \in Nat
    PROVE  (a + W) % W = a % W
<1>1. PICK b \in Int : b = a + W
  OBVIOUS
<1>2. PICK d \in Int, r \in Int : d = a \div W /\ r = a % W
  <2>1. a \in Int
    OBVIOUS
  <2> QED
    BY <2>1, Division
<1>3. PICK e \in Int, s \in Int : e = b \div W /\ s = b % W
  BY Division
<1>4. 0 <= r /\ r < W /\ a = W * d + r
  <2>1. a \in Int
    OBVIOUS
  <2> QED
    BY <1>2, <2>1, Division
<1>5. 0 <= s /\ s < W /\ b = W * e + s
  BY <1>3, Division
<1>6. PICK f \in Int : f = e - d - 1
  OBVIOUS
<1>7. W * f = r - s
  <2>1. W * (e - d - 1) = W * e - W * d - W
    BY Z3
  <2> QED
    BY <1>1, <1>4, <1>5, <1>6, <2>1, Z3
<1>8. -W < W * f /\ W * f < W
  <2>1. -W < r - s /\ r - s < W
    BY <1>4, <1>5
  <2> QED
    BY <1>7, <2>1
<1>9. f = 0
  <2>1. f >= 1 => W * f >= W
    BY Z3
  <2>2. f <= -1 => W * f <= -W
    BY Z3
  <2>3. W * f \in Int
    OBVIOUS
  <2> QED
    BY <1>8, <2>1, <2>2, <2>3
<1>10. r = s
  <2>1. W * f = 0
    BY <1>9, Z3
  <2> QED
    BY <1>7, <2>1
<1> QED
  BY <1>1, <1>2, <1>3, <1>10

\* No two producers put the same number.
LEMMA ClassesApart ==
    ASSUME NEW p \in ProducerIds, NEW q \in ProducerIds, p % maxThreads = q % maxThreads
    PROVE  p = q
<1>1. /\ maxThreads \in Nat \ {0}
      /\ p \in Int /\ 1 <= p /\ p <= maxThreads /\ q \in Int /\ 1 <= q /\ q <= maxThreads
  BY RingTestAssumption DEF ProducerIds
<1>2. p % maxThreads = IF p < maxThreads THEN p ELSE p - maxThreads
  <2>1. 0 <= p /\ p < 2 * maxThreads
    BY <1>1
  <2> QED
    BY <1>1, <2>1, Wrapped
<1>3. q % maxThreads = IF q < maxThreads THEN q ELSE q - maxThreads
  <2>1. 0 <= q /\ q < 2 * maxThreads
    BY <1>1
  <2> QED
    BY <1>1, <2>1, Wrapped
<1> QED
  BY <1>1, <1>2, <1>3

\* The producer of the class of n has come past it.
WasPut(n) ==
    \E p \in ProducerIds :
        n % maxThreads = p % maxThreads /\ (n < number[p] \/ p \notin producing)

InRing(n) == \E i \in DOMAIN numbers : numbers[i] = n

\* Each number is put once, and what a consumer has seen is not in the ring.
NumbersOnce ==
    /\ \A p \in ProducerIds : number[p] % maxThreads = p % maxThreads
    /\ \A i \in DOMAIN numbers : WasPut(numbers[i])
    /\ \A i, j \in DOMAIN numbers : numbers[i] = numbers[j] => i = j
    /\ \A c \in ConsumerIds :
          lastNumberSeen[c] = 0 \/ (WasPut(lastNumberSeen[c]) /\ ~InRing(lastNumberSeen[c]))

RingTestIInv == RingTestTypeOK /\ NumbersOnce /\ NoViolationFound

\* At first the ring is empty.
LEMMA RingTestStarts == RingTestInit => RingTestIInv
<1> SUFFICES ASSUME RingTestInit PROVE RingTestIInv
  OBVIOUS
<1>1. /\ maxThreads \in Nat \ {0} /\ MAX_NUMBER \in Nat \ {0} /\ RingSize \in Nat \ {0}
      /\ <<>> \in Seq(1 .. MAX_NUMBER + maxThreads) /\ Len(<<>>) = 0
  BY RingTestAssumption, EmptySeq
<1>2. \A p \in ProducerIds : p \in 1 .. MAX_NUMBER + maxThreads
  BY <1>1 DEF ProducerIds
<1>3. RingTestTypeOK
  <2>1. /\ number \in [ProducerIds -> 1 .. MAX_NUMBER + maxThreads]
        /\ lastNumberSeen \in [ConsumerIds -> 0 .. MAX_NUMBER]
        /\ numbers \in Seq(1 .. MAX_NUMBER + maxThreads) /\ Len(numbers) <= RingSize
    BY <1>1, <1>2 DEF RingTestInit
  <2> QED
    BY <2>1 DEF RingTestInit, RingTestTypeOK
<1>4. NumbersOnce
  BY DEF RingTestInit, NumbersOnce
<1> QED
  BY <1>3, <1>4 DEF RingTestInit, RingTestIInv, NoViolationFound

\* A producer puts a number that nobody has put before.
LEMMA ProducerPuts ==
    ASSUME RingTestIInv, NEW p \in ProducerIds, Producer(p)
    PROVE  RingTestIInv'
<1>a. RingTestTypeOK /\ NumbersOnce /\ ~violation
  BY DEF RingTestIInv, NoViolationFound
<1>n. /\ maxThreads \in Nat \ {0} /\ MAX_NUMBER \in Nat \ {0} /\ RingSize \in Nat \ {0}
      /\ numbers \in Seq(1 .. MAX_NUMBER + maxThreads) /\ Len(numbers) \in Nat
      /\ DOMAIN numbers = 1 .. Len(numbers)
      /\ \A i \in DOMAIN numbers : numbers[i] \in 1 .. MAX_NUMBER + maxThreads
      /\ \A q \in ProducerIds : number[q] \in 1 .. MAX_NUMBER + maxThreads
      /\ number \in [ProducerIds -> 1 .. MAX_NUMBER + maxThreads]
  BY <1>a, RingTestAssumption, LenProperties DEF RingTestTypeOK
<1>1. /\ p \in producing /\ Len(numbers) < RingSize
      /\ numbers' = Append(numbers, number[p])
      /\ UNCHANGED <<consuming, lastNumberSeen, violation>>
      /\ \/ /\ number[p] >= MAX_NUMBER /\ producing' = producing \ {p} /\ UNCHANGED number
         \/ /\ number[p] < MAX_NUMBER
            /\ number' = [number EXCEPT ![p] = number[p] + maxThreads] /\ UNCHANGED producing
  BY <1>n DEF Producer
<1>2. /\ numbers' \in Seq(1 .. MAX_NUMBER + maxThreads) /\ Len(numbers') = Len(numbers) + 1
      /\ \A i \in 1 .. Len(numbers) : numbers'[i] = numbers[i]
      /\ numbers'[Len(numbers) + 1] = number[p]
      /\ DOMAIN numbers' = 1 .. Len(numbers) + 1
  <2>1. /\ numbers' \in Seq(1 .. MAX_NUMBER + maxThreads) /\ Len(numbers') = Len(numbers) + 1
        /\ \A i \in 1 .. Len(numbers) : numbers'[i] = numbers[i]
        /\ numbers'[Len(numbers) + 1] = number[p]
    BY <1>1, <1>n, AppendProperties
  <2>2. DOMAIN numbers' = 1 .. Len(numbers')
    BY <2>1, LenProperties
  <2> QED
    BY <2>1, <2>2
<1>3. \A q \in ProducerIds :
        /\ number'[q] \in 1 .. MAX_NUMBER + maxThreads
        /\ number'[q] >= number[q]
        /\ number'[q] = number[q] \/ (q = p /\ number'[q] = number[p] + maxThreads)
  BY <1>1, <1>n
<1>4. RingTestTypeOK'
  <2>1. number' \in [ProducerIds -> 1 .. MAX_NUMBER + maxThreads]
    BY <1>1, <1>3, <1>n
  <2>2. Len(numbers') <= RingSize
    BY <1>1, <1>2, <1>n
  <2> QED
    BY <1>a, <1>1, <1>2, <2>1, <2>2 DEF RingTestTypeOK
<1>5. ~WasPut(number[p])
  <2> SUFFICES ASSUME NEW q \in ProducerIds, number[p] % maxThreads = q % maxThreads,
                      number[p] < number[q] \/ q \notin producing
               PROVE  FALSE
    BY DEF WasPut
  <2>1. q = p
    BY <1>a, ClassesApart DEF NumbersOnce
  <2> QED
    BY <1>1, <1>n, <2>1
<1>6. ASSUME NEW n \in Nat, WasPut(n) PROVE WasPut(n)'
  <2>1. PICK q \in ProducerIds :
          n % maxThreads = q % maxThreads /\ (n < number[q] \/ q \notin producing)
    BY <1>6 DEF WasPut
  <2>2. n < number[q] => n < number'[q]
    <3>1. PICK a \in Nat, b \in Nat : a = number[q] /\ b = number'[q] /\ a <= b
      BY <1>3, <1>n
    <3> QED
      BY <3>1
  <2>3. q \notin producing => q \notin producing'
    BY <1>1
  <2> QED
    BY <2>1, <2>2, <2>3 DEF WasPut
<1>7. ASSUME NEW m, m = number[p] PROVE WasPut(m)'
  <2>1. m < number'[p] \/ p \notin producing'
    <3>1. PICK a \in Nat : a = number[p]
      BY <1>n
    <3> QED
      BY <1>1, <1>7, <1>n, <3>1
  <2>2. m % maxThreads = p % maxThreads
    BY <1>a, <1>7 DEF NumbersOnce
  <2> QED
    BY <2>1, <2>2 DEF WasPut
<1>8. NumbersOnce'
  <2>1. ASSUME NEW q \in ProducerIds PROVE number'[q] % maxThreads = q % maxThreads
    <3>1. number[p] \in Nat
      BY <1>n
    <3> QED
      BY <1>a, <1>3, <1>n, <3>1, OneTurn, ZenonT(30) DEF NumbersOnce
  <2>2. ASSUME NEW i \in DOMAIN numbers'
        PROVE  \/ i \in DOMAIN numbers /\ numbers'[i] = numbers[i]
               \/ i = Len(numbers) + 1 /\ numbers'[i] = number[p]
    BY <1>2, <1>n, <2>2
  <2>3. ASSUME NEW i \in DOMAIN numbers', NEW m, m = numbers'[i] PROVE WasPut(m)'
    <3>1. CASE i \in DOMAIN numbers /\ m = numbers[i]
      <4>1. m \in Nat /\ WasPut(m)
        BY <1>a, <1>n, <3>1 DEF NumbersOnce
      <4> QED
        BY <1>6, <4>1
    <3>2. CASE m = number[p]
      BY <1>7, <3>2
    <3> QED
      BY <2>2, <2>3, <3>1, <3>2
  <2>4. ASSUME NEW i \in DOMAIN numbers', NEW j \in DOMAIN numbers', numbers'[i] = numbers'[j]
        PROVE  i = j
    BY <1>a, <1>5, <2>2, <2>4 DEF NumbersOnce
  <2>5. ASSUME NEW c \in ConsumerIds, NEW n, n = lastNumberSeen'[c], n # 0
        PROVE  WasPut(n)' /\ ~InRing(n)'
    <3>1. n \in Nat /\ n = lastNumberSeen[c]
      BY <1>a, <1>1, <1>n, <2>5 DEF RingTestTypeOK
    <3>2. WasPut(n) /\ ~InRing(n)
      BY <1>a, <2>5, <3>1 DEF NumbersOnce
    <3>3. WasPut(n)'
      BY <1>6, <3>1, <3>2
    <3>4. \A i \in DOMAIN numbers' : numbers'[i] # n
      BY <1>5, <2>2, <3>2 DEF InRing
    <3> QED
      BY <3>3, <3>4 DEF InRing
  <2>6. (\A i \in DOMAIN numbers : WasPut(numbers[i]))'
    BY <2>3 DEF WasPut
  <2>7. (\A c \in ConsumerIds :
           lastNumberSeen[c] = 0 \/ (WasPut(lastNumberSeen[c]) /\ ~InRing(lastNumberSeen[c])))'
    BY <2>5 DEF WasPut, InRing
  <2> QED
    BY <2>1, <2>4, <2>6, <2>7 DEF NumbersOnce
<1> QED
  BY <1>a, <1>1, <1>4, <1>8 DEF RingTestIInv, NoViolationFound

\* A consumer takes a number that it did not see last.
LEMMA ConsumerTakes ==
    ASSUME RingTestIInv, NEW c \in ConsumerIds, Consumer(c)
    PROVE  RingTestIInv'
<1>a. RingTestTypeOK /\ NumbersOnce /\ ~violation
  BY DEF RingTestIInv, NoViolationFound
<1>n. /\ maxThreads \in Nat \ {0} /\ MAX_NUMBER \in Nat \ {0} /\ RingSize \in Nat \ {0}
      /\ numbers \in Seq(1 .. MAX_NUMBER + maxThreads)
      /\ Len(numbers) \in Nat \ {0} /\ DOMAIN numbers = 1 .. Len(numbers)
      /\ numbers # <<>>
  <2>1. numbers # <<>> /\ numbers \in Seq(1 .. MAX_NUMBER + maxThreads)
    BY <1>a DEF Consumer, RingTestTypeOK
  <2> QED
    BY <2>1, RingTestAssumption, LenProperties, EmptySeq
<1>1. PICK n : n = Head(numbers)
  OBVIOUS
<1>2. /\ c \in consuming /\ numbers' = Tail(numbers) /\ UNCHANGED <<number, producing>>
      /\ \/ /\ n >= MAX_NUMBER \/ n = lastNumberSeen[c]
            /\ consuming' = consuming \ {c} /\ UNCHANGED lastNumberSeen
         \/ /\ ~(n >= MAX_NUMBER \/ n = lastNumberSeen[c])
            /\ lastNumberSeen' = [lastNumberSeen EXCEPT ![c] = n] /\ UNCHANGED consuming
      /\ violation' = (violation \/ (n < MAX_NUMBER /\ n = lastNumberSeen[c]))
  BY <1>1, Zenon DEF Consumer
<1>3. /\ n \in 1 .. MAX_NUMBER + maxThreads /\ n = numbers[1]
      /\ numbers' \in Seq(1 .. MAX_NUMBER + maxThreads) /\ Len(numbers') = Len(numbers) - 1
      /\ \A i \in 1 .. Len(numbers) - 1 : numbers'[i] = numbers[i + 1]
      /\ DOMAIN numbers' = 1 .. Len(numbers) - 1
  <2>1. /\ n \in 1 .. MAX_NUMBER + maxThreads /\ n = numbers[1]
        /\ numbers' \in Seq(1 .. MAX_NUMBER + maxThreads) /\ Len(numbers') = Len(numbers) - 1
        /\ \A i \in 1 .. Len(numbers) - 1 : numbers'[i] = numbers[i + 1]
    BY <1>1, <1>2, <1>n, HeadTailProperties
  <2>2. DOMAIN numbers' = 1 .. Len(numbers')
    BY <2>1, LenProperties
  <2> QED
    BY <2>1, <2>2
<1>4. 1 \in DOMAIN numbers /\ n # lastNumberSeen[c] /\ WasPut(n)
  <2>1. 1 \in DOMAIN numbers /\ n # 0
    BY <1>3, <1>n
  <2>2. InRing(n)
    BY <1>3, <2>1 DEF InRing
  <2> QED
    BY <1>a, <1>3, <2>1, <2>2 DEF NumbersOnce
<1>5. /\ ~violation' /\ violation' \in BOOLEAN
  BY <1>a, <1>2, <1>4, Zenon DEF RingTestTypeOK
<1>6. \A d \in ConsumerIds : lastNumberSeen'[d] = lastNumberSeen[d]
                             \/ (n < MAX_NUMBER /\ lastNumberSeen'[d] = n)
  BY <1>a, <1>2, <1>3, <1>n DEF RingTestTypeOK
<1>7. RingTestTypeOK'
  <2>1. lastNumberSeen' \in [ConsumerIds -> 0 .. MAX_NUMBER]
    <3>1. n < MAX_NUMBER => n \in 0 .. MAX_NUMBER
      BY <1>3, <1>n
    <3>2. ~(n >= MAX_NUMBER) => n < MAX_NUMBER
      BY <1>3, <1>n
    <3> QED
      BY <1>a, <1>2, <3>1, <3>2 DEF RingTestTypeOK
  <2>2. consuming' \subseteq ConsumerIds
    BY <1>a, <1>2 DEF RingTestTypeOK
  <2>3. Len(numbers') <= RingSize
    BY <1>a, <1>3, <1>n DEF RingTestTypeOK
  <2> QED
    BY <1>a, <1>2, <1>3, <1>5, <2>1, <2>2, <2>3 DEF RingTestTypeOK
<1>8. NumbersOnce'
  <2>1. ASSUME NEW m PROVE WasPut(m)' <=> WasPut(m)
    BY <1>2 DEF WasPut
  <2>2. ASSUME NEW i \in DOMAIN numbers'
        PROVE  i + 1 \in DOMAIN numbers /\ numbers'[i] = numbers[i + 1]
    BY <1>3, <1>n, <2>2, SMTT(20)
  <2>3. ASSUME NEW i \in DOMAIN numbers', NEW m, m = numbers'[i] PROVE WasPut(m)'
    <3>1. WasPut(m)
      BY <1>a, <2>2, <2>3 DEF NumbersOnce
    <3> QED
      BY <2>1, <3>1
  <2>4. ASSUME NEW i \in DOMAIN numbers', NEW j \in DOMAIN numbers', numbers'[i] = numbers'[j]
        PROVE  i = j
    <3>1. i + 1 = j + 1
      BY <1>a, <2>2, <2>4 DEF NumbersOnce
    <3> QED
      BY <1>3, <1>n, <3>1
  <2>5. ASSUME NEW d \in ConsumerIds, NEW m, m = lastNumberSeen'[d], m # 0
        PROVE  WasPut(m)' /\ ~InRing(m)'
    <3>2. WasPut(m)
      BY <1>a, <1>4, <1>6, <2>5 DEF NumbersOnce
    <3>3. CASE m = n
      <4>1. \A i \in DOMAIN numbers' : i + 1 # 1
        BY <1>3, <1>n
      <4>2. \A i \in DOMAIN numbers' : numbers'[i] # n
        BY <1>a, <1>3, <1>4, <2>2, <4>1 DEF NumbersOnce
      <4> QED
        BY <2>1, <3>2, <3>3, <4>2 DEF InRing
    <3>4. CASE m # n
      <4>1. ~InRing(m)
        BY <1>a, <1>6, <2>5, <3>4 DEF NumbersOnce
      <4>2. \A i \in DOMAIN numbers' : numbers'[i] # m
        BY <2>2, <4>1 DEF InRing
      <4> QED
        BY <2>1, <3>2, <4>2 DEF InRing
    <3> QED
      BY <3>3, <3>4
  <2>6. (\A i \in DOMAIN numbers : WasPut(numbers[i]))'
    BY <2>3 DEF WasPut
  <2>7. (\A d \in ConsumerIds :
           lastNumberSeen[d] = 0 \/ (WasPut(lastNumberSeen[d]) /\ ~InRing(lastNumberSeen[d])))'
    BY <2>5 DEF WasPut, InRing
  <2>8. (\A p \in ProducerIds : number[p] % maxThreads = p % maxThreads)'
    BY <1>a, <1>2 DEF NumbersOnce
  <2> QED
    BY <2>4, <2>6, <2>7, <2>8 DEF NumbersOnce
<1> QED
  BY <1>5, <1>7, <1>8 DEF RingTestIInv, NoViolationFound

\* One step of a producer or of a consumer.
LEMMA RingTestStep == RingTestIInv /\ [RingTestNext]_ringTestVars => RingTestIInv'
<1> SUFFICES ASSUME RingTestIInv, [RingTestNext]_ringTestVars PROVE RingTestIInv'
  OBVIOUS
<1>1. CASE UNCHANGED ringTestVars
  BY <1>1 DEF ringTestVars, RingTestIInv, RingTestTypeOK, NumbersOnce, WasPut, InRing,
              NoViolationFound
<1> QED
  BY <1>1, ProducerPuts, ConsumerTakes DEF RingTestNext

\* Each number goes through the ring once.
THEOREM RingTestInvariance == RingTestSpec => []RingTestIInv
BY RingTestStarts, RingTestStep, PTL DEF RingTestSpec

-----------------------------------------------------------------------------
(* The board. *)

\* What holds of each part.
BoardIInv ==
    /\ SetupIInv /\ KeypadInv /\ LedsInv /\ RingIInv /\ MixerIInv
    /\ DemoIInv /\ RingTestIInv /\ DatagramInv

\* A step of the board is a step of one part, and the others rest.
LEMMA PartsStep ==
    ASSUME [BoardNext]_boardVars
    PROVE  /\ [SetupNext]_setupVars /\ [KeypadNext]_keypadVars /\ [LedsNext]_ledsVars
           /\ [RingNext]_ringVars /\ [MixerNext]_mixerVars /\ [DemoNext]_demoVars
           /\ [RingTestNext]_ringTestVars /\ [TransportNext]_transportVars
<1>1. CASE UNCHANGED boardVars
  BY <1>1, Zenon DEF boardVars
<1>2. CASE SetupRuns /\ SetupNext
  BY <1>2, Zenon DEF SetupRuns
<1>3. CASE KeypadRuns /\ KeypadNext
  BY <1>3, Zenon DEF KeypadRuns
<1>4. CASE LedsRun /\ LedsNext
  BY <1>4, Zenon DEF LedsRun
<1>5. CASE RingRuns /\ RingNext
  BY <1>5, Zenon DEF RingRuns
<1>6. CASE MixerRuns /\ MixerNext
  BY <1>6, Zenon DEF MixerRuns
<1>7. CASE DemoRuns /\ DemoNext
  BY <1>7, Zenon DEF DemoRuns
<1>8. CASE RingTestRuns /\ RingTestNext
  BY <1>8, Zenon DEF RingTestRuns
<1>9. CASE TransportRuns /\ TransportNext
  BY <1>9, Zenon DEF TransportRuns
<1> QED
  BY <1>1, <1>2, <1>3, <1>4, <1>5, <1>6, <1>7, <1>8, <1>9, Zenon DEF BoardNext

\* The parts keep their invariants side by side.
THEOREM BoardInvariance == BoardSpec => []BoardIInv
<1>1. BoardInit => BoardIInv
  BY SetupStarts, KeypadStarts, LedsStart, RingStarts, MixerStarts, DemoStarts, RingTestStarts,
     TransportStarts, Zenon DEF BoardInit, BoardIInv
<1>2. BoardIInv /\ [BoardNext]_boardVars => BoardIInv'
  BY PartsStep, SetupInductive, KeypadStep, LedsStep, RingStep, MixerStep, DemoStep,
     RingTestStep, TransportStep, Zenon DEF BoardIInv
<1> QED
  BY <1>1, <1>2, PTL DEF BoardSpec

\* Every counter stays within its bounds, whichever part runs, and the test of
\* the lock-free ring finds no violation (main_lfringbuffer.c:65).
THEOREM BoardCorrect == BoardSpec => []BoardInv
<1>1. BoardIInv => BoardInv
  BY Zenon DEF BoardIInv, BoardInv, SetupIInv, KeypadInv, LedsInv, RingIInv, MixerIInv,
               DemoIInv, RingTestIInv, DatagramInv
<1> QED
  BY <1>1, BoardInvariance, PTL

\* What is proved of each part alone holds of it on the board, which is what the
\* runs check.
THEOREM BoardPartsCorrect ==
    BoardSpec => [](/\ SetupInv /\ InputBounded /\ ElementsInv /\ MixerInv /\ DemoInv
                    /\ TransportInv)
<1>1. BoardIInv => /\ SetupInv /\ InputBounded /\ ElementsInv /\ MixerInv /\ DemoInv
                   /\ TransportInv
  BY SetupSound, KeypadSound, RingSound, MixerSound, DemoSound, TransportSound, Zenon DEF BoardIInv
<1> QED
  BY <1>1, BoardInvariance, PTL
=============================================================================
