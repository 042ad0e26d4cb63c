------------------------------- MODULE Framing -------------------------------
(***************************************************************************)
(* The socket buffers of WhatsAp2p-Server.c and WhatsAp2p-Client.c: how a  *)
(* message is written as bytes behind its length, sent in as many pieces   *)
(* as the socket takes, received and read again.                           *)
(*                                                                         *)
(* The stream is the one from the server to a client, on which two threads *)
(* send without a lock: the handler its confirmation, the updater the      *)
(* lists.  A byte is a token that says what it is a part of.               *)
(***************************************************************************)
EXTENDS Integers, Sequences, SequencesExt

CONSTANTS
  Writer,      \* the threads that send on the socket
  Plan,        \* what each of them sends: a sequence of messages
  IntBytes, ShortBytes,  \* sizes of an int (4) and a short (2)
  ShortRange,  \* values of a short (65536)
  Margin,      \* BUFFMARGIN
  Window       \* bytes the socket holds under way

VARIABLES
  todo,      \* per writer: messages not begun
  sending,   \* per writer: bytes of the frame it is sending
  stream,    \* bytes under way
  closed,    \* "no", "eof" (the server closed it) or "reset"
  error,     \* where the reader was when recv failed: "none", "between", "inside"
  phase,     \* the reader: "length", "packet" or "astray"
  want,      \* bytes of the packet that are missing
  buffer,    \* the reader's SocketBuffer: bytes, of which some are old
  received,  \* bytes of the packet received so far
  got,       \* ghost: messages read, in order
  begun,     \* ghost: messages in the order in which they were begun
  overlap,   \* ghost: a frame was begun inside another one
  split      \* ghost: a length arrived in more than one piece

vars == <<todo, sending, stream, closed, error, phase, want, buffer, received, got, begun, overlap, split>>

Stray == [part |-> "junk"]
Tokens(kind, v, n) == [i \in 1..n |-> [part |-> kind, v |-> v, i |-> i]]

\* A message: its number, and for a list the count, a name of `name`
\* characters, and the port.
CONNECTION_REQUEST == 1
UPDATE_REQUEST     == 2
Ack == [id |-> CONNECTION_REQUEST]
List(count, name, port) == [id |-> UPDATE_REQUEST, count |-> count, name |-> name, port |-> port]
Message ==
  {Ack} \cup [id : {UPDATE_REQUEST}, count : Nat, name : Nat, port : 0..(ShortRange - 1)]

FramingAssumption ==
  /\ {IntBytes, ShortBytes, ShortRange, Window} \subseteq Nat \ {0} /\ Margin \in Nat
  /\ Plan \in [Writer -> Seq(Message)]

\* writeByte, writeInt, writeString, writeShort: the port is cut to a short
\* and its upper half becomes negative.
AsShort(p) == IF p % ShortRange >= ShortRange \div 2 THEN (p % ShortRange) - ShortRange ELSE p % ShortRange
StringBytes(n) == Append(Tokens("char", n, n), [part |-> "nul"])

Written(m) ==
  Tokens("byte", m.id, 1) \o
    (IF m.id = UPDATE_REQUEST
       THEN Tokens("int", m.count, IntBytes) \o StringBytes(m.name)
              \o Tokens("short", AsShort(m.port), ShortBytes)
       ELSE <<>>)

\* sendResp: the length in front of what was written.
Frame(m) == Tokens("int", Len(Written(m)), IntBytes) \o Written(m)

\* Bytes read as a number are one if they belong together in this order.
Together(kind, bytes) ==
  \A i \in DOMAIN bytes : bytes[i].part = kind /\ bytes[i].i = i /\ bytes[i].v = bytes[1].v
Number(kind, bytes) == IF Together(kind, bytes) THEN bytes[1].v ELSE -1

At(pos, n) == [i \in 1..n |-> IF pos + i <= Len(buffer) THEN buffer[pos + i] ELSE Stray]
\* buffRead never moves behind the last byte of the buffer.
Moved(pos, n) == IF pos + n > Len(buffer) - 1 THEN Len(buffer) - 1 ELSE pos + n
\* readString: up to the end of the string or of the buffer.
StringEnd(pos) ==
  LET ends == {i \in pos..(Len(buffer) - 1) : buffer[i + 1].part = "nul"}
  IN  IF ends = {} THEN Len(buffer) ELSE CHOOSE i \in ends : \A j \in ends : i <= j

\* What the reader makes of its buffer: the message number, and for a list the
\* count, the first name and the port, which goes back into an unsigned short.
ReadMessage ==
  LET id  == IF Together("byte", At(0, 1)) THEN buffer[1].v ELSE -1
      p1  == Moved(0, 1)
      p2  == Moved(p1, IntBytes)
      end == StringEnd(p2)
      p3  == Moved(p2, end + 1 - p2)
      port == At(p3, ShortBytes)
  IN  IF id # UPDATE_REQUEST THEN [id |-> id]
      ELSE List(Number("int", At(p1, IntBytes)), end - p2,
                IF Together("short", port) THEN port[1].v % ShortRange ELSE -1)

-----------------------------------------------------------------------------
Init ==
  /\ todo = Plan /\ sending = [w \in Writer |-> <<>>]
  /\ stream = <<>> /\ closed = "no" /\ error = "none"
  /\ phase = "length" /\ want = 0 /\ buffer = <<Stray>> /\ received = 0
  /\ got = <<>> /\ begun = <<>> /\ overlap = FALSE /\ split = FALSE

\* sendResp is entered.
SendResp(w) ==
  /\ closed = "no" /\ todo[w] # <<>> /\ sending[w] = <<>>
  /\ sending' = [sending EXCEPT ![w] = Frame(Head(todo[w]))]
  /\ todo' = [todo EXCEPT ![w] = Tail(@)]
  /\ begun' = Append(begun, Head(todo[w]))
  /\ overlap' = (overlap \/ \E v \in Writer : sending[v] # <<>>)
  /\ UNCHANGED <<stream, closed, error, phase, want, buffer, received, got, split>>

\* Mutant: what the socket did not take is not sent again.
SendPieceOnce(w) ==
  /\ closed = "no" /\ sending[w] # <<>> /\ Len(stream) < Window
  /\ LET room == Window - Len(stream) IN
     stream' = stream \o SubSeq(sending[w], 1, IF Len(sending[w]) < room THEN Len(sending[w]) ELSE room)
  /\ sending' = [sending EXCEPT ![w] = <<>>]
  /\ UNCHANGED <<todo, closed, error, phase, want, buffer, received, got, begun, overlap, split>>

\* One send of its loop: the socket takes as many bytes as it has room for.
SendPiece(w) ==
  /\ closed = "no" /\ sending[w] # <<>> /\ Len(stream) < Window
  /\ LET room == Window - Len(stream)
         n == IF Len(sending[w]) < room THEN Len(sending[w]) ELSE room IN
     /\ stream' = stream \o SubSeq(sending[w], 1, n)
     /\ sending' = [sending EXCEPT ![w] = SubSeq(@, n + 1, Len(@))]
  /\ UNCHANGED <<todo, closed, error, phase, want, buffer, received, got, begun, overlap, split>>

\* The server closes the connection or the connection breaks, in the middle of
\* a frame as well.
Close ==
  /\ closed = "no" /\ closed' \in {"eof", "reset"}
  /\ UNCHANGED <<todo, sending, stream, error, phase, want, buffer, received, got, begun, overlap, split>>

\* recv of at most n bytes; what arrives first may be any part of it.
Pieces(n) == 1..(IF n < Len(stream) THEN n ELSE Len(stream))

\* recvResp, the length.  The rest of a length that arrives in two pieces is
\* stored elsewhere on the stack; a length that is none is any number.
RecvLength ==
  /\ phase = "length" /\ stream # <<>>
  /\ \E n \in Pieces(IntBytes) :
       LET len == Number("int", SubSeq(stream, 1, n)) IN
       /\ stream' = SubSeq(stream, n + 1, Len(stream))
       /\ split' = (split \/ n < IntBytes)
       /\ IF n < IntBytes \/ len < 0
            THEN phase' = "astray" /\ UNCHANGED <<want, buffer>>
            ELSE /\ phase' = "packet" /\ want' = len
                 /\ buffer' = IF len > Len(buffer)
                                THEN buffer \o [i \in 1..(len + Margin - Len(buffer)) |-> Stray]
                                ELSE buffer
  /\ received' = 0
  /\ UNCHANGED <<todo, sending, closed, error, got, begun, overlap>>

\* Mutant: every piece is stored at the start of the buffer.
RecvPacketAtStart ==
  /\ phase = "packet" /\ want > 0 /\ stream # <<>>
  /\ \E n \in Pieces(want) :
       /\ buffer' = [i \in DOMAIN buffer |-> IF i <= n THEN stream[i] ELSE buffer[i]]
       /\ stream' = SubSeq(stream, n + 1, Len(stream))
       /\ received' = received + n /\ want' = want - n
  /\ UNCHANGED <<todo, sending, closed, error, phase, got, begun, overlap, split>>

\* recvResp, the packet; when it is complete serverReceiver reads it.
RecvPacket ==
  /\ phase = "packet" /\ want > 0 /\ stream # <<>>
  /\ \E n \in Pieces(want) :
       /\ buffer' = [i \in DOMAIN buffer |->
                       IF i - received \in 1..n THEN stream[i - received] ELSE buffer[i]]
       /\ stream' = SubSeq(stream, n + 1, Len(stream))
       /\ received' = received + n /\ want' = want - n
  /\ UNCHANGED <<todo, sending, closed, error, phase, got, begun, overlap, split>>

ServerReceiver ==
  /\ phase = "packet" /\ want = 0
  /\ got' = Append(got, ReadMessage)
  /\ phase' = "length"
  /\ UNCHANGED <<todo, sending, stream, closed, error, want, buffer, received, begun, overlap, split>>

\* recv fails once: recvResp returns -1, which serverReceiver does not look at,
\* and reads what is in the buffer.
RecvError ==
  /\ closed = "reset" /\ error = "none" /\ stream = <<>>
  /\ phase = "length" \/ (phase = "packet" /\ want > 0)
  /\ error' = IF phase = "length" THEN "between" ELSE "inside"
  /\ got' = Append(got, ReadMessage)
  /\ phase' = "length" /\ want' = 0
  /\ UNCHANGED <<todo, sending, stream, closed, buffer, received, begun, overlap, split>>

\* At the end of the stream recv returns 0 and both loops go round for ever; so
\* does a reader that lost the place where a message begins.
Spin ==
  /\ phase = "astray" \/ (closed # "no" /\ stream = <<>> /\ (phase = "length" \/ want > 0))
  /\ UNCHANGED vars

Next ==
  \/ \E w \in Writer : SendResp(w) \/ SendPiece(w)
  \/ Close \/ RecvLength \/ RecvPacket \/ ServerReceiver \/ RecvError \/ Spin

Fairness ==
  /\ \A w \in Writer : WF_vars(SendPiece(w))
  /\ WF_vars(RecvLength) /\ WF_vars(RecvPacket) /\ WF_vars(ServerReceiver)

Spec == Init /\ [][Next]_vars /\ Fairness

-----------------------------------------------------------------------------
TypeOK ==
  /\ Len(stream) <= Window /\ phase \in {"length", "packet", "astray"}
  /\ received \in 0..Len(buffer) /\ {overlap, split} \subseteq BOOLEAN
  /\ closed \in {"no", "eof", "reset"} /\ error \in {"none", "between", "inside"}

\* The messages read whole; after a failed recv between two messages the last
\* one is read a second time.
ReadWhole == IF error = "between" THEN Front(got) ELSE got
Again     == ReadWhole # <<>> => Last(got) = Last(ReadWhole)

\* What is received is what was sent: in the order of the sends, each message
\* with its own fields, whatever pieces it arrived in and whatever longer
\* message the buffer held before; never a part of one when the server closes,
\* and the last list again, not another one, when the connection breaks between
\* two.  Excepted are two threads that sent at once, a length that was split
\* and a connection that breaks inside a message.
MessagesIntact ==
  /\ TypeOK
  /\ \/ overlap \/ split \/ error = "inside"
     \/ phase # "astray" /\ IsPrefix(ReadWhole, begun) /\ (error = "between" => Again)

\* A message that was begun arrives, unless the connection ends first or one of
\* these happens.
MessageArrives ==
  \A k \in 1..MapThenSumSet(LAMBDA w : Len(Plan[w]), Writer) :
    (Len(begun) >= k) ~> (Len(got) >= k \/ closed # "no" \/ overlap \/ split)
=============================================================================
