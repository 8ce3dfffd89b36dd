--------------------------------- MODULE Wire ---------------------------------
(***************************************************************************)
(* Clients that write framed messages to the server's socket               *)
(* (protocol/codec.rs, encode.rs, decode.rs) and the server's registry of  *)
(* connections with its sweep for dead ones (server/mod.rs, client.rs).    *)
(*                                                                         *)
(* A connection carries bytes; the kernel takes them and hands them out in *)
(* pieces of any size. The reader of a connection calls                    *)
(* read_client_message until it gets an error. No caller of the codec and  *)
(* of the sweep is wired up yet: the model lets them run in any order.     *)
(***************************************************************************)
EXTENDS Integers, SequencesExt, FiniteSetsExt

CONSTANTS
  Clients,         \* connections, in the life of one server
  Messages,        \* payloads encode_client_message produces
  Base,            \* values of a byte, 256
  HeaderBytes,     \* bytes of the length, 4
  MaxMessageSize,  \* MAX_MESSAGE_SIZE, 16 MiB
  SocketBytes,     \* bytes the kernel holds for a connection
  MaxSent          \* bound of the model: messages a client sends

Byte == 0..(Base - 1)

\* What is left of a number once its lowest i bytes are shifted out.
Shifted(n, i) ==
  LET left[k \in 0..i] == IF k = 0 THEN n ELSE left[k - 1] \div Base
  IN  left[i]

\* A length fits the header.
ASSUME WireAssumption ==
  /\ Base \in Nat \ {0, 1} /\ HeaderBytes \in Nat \ {0}
  /\ SocketBytes \in Nat \ {0} /\ MaxSent \in Nat
  /\ MaxMessageSize \in Nat \ {0} /\ Shifted(MaxMessageSize, HeaderBytes) = 0
  /\ \A m \in Messages : m \in Seq(Byte) /\ m # <<>> /\ Len(m) <= MaxMessageSize

\* Every field of a message says where it ends: no message begins another.
ASSUME MessagesEnd == \A m, n \in Messages : IsPrefix(m, n) => m = n

VARIABLES
  peer,        \* the client's end: "new", "waiting" to be accepted, "open", "closed",
               \* or "broken", where a read may fail
  pending,     \* what write_all still has to write
  stream,      \* bytes in the connection
  sent,        \* messages the client wrote
  running,     \* shutdown has not been called
  registered,  \* Server::clients
  read_buf,    \* each reader's ProtocolCodec::read_buf
  received,    \* messages each reader got
  failure,     \* the error that ended a reader, or "none"
  robbed       \* auxiliary: connections from which the sweep took a byte

clientVars == <<peer, pending, sent>>
readerVars == <<read_buf, received, failure>>
vars == <<clientVars, stream, running, registered, readerVars, robbed>>

Init ==
  /\ peer = [c \in Clients |-> "new"]
  /\ pending = [c \in Clients |-> <<>>]
  /\ stream = [c \in Clients |-> <<>>]
  /\ sent = [c \in Clients |-> <<>>]
  /\ running = TRUE /\ registered = {}
  /\ read_buf = [c \in Clients |-> <<>>]
  /\ received = [c \in Clients |-> <<>>]
  /\ failure = [c \in Clients |-> "none"]
  /\ robbed = {}

-----------------------------------------------------------------------------
(* Frames. *)

\* u32::to_le_bytes and from_le_bytes.
LeBytes(n) == [i \in 1..HeaderBytes |-> Shifted(n, i - 1) % Base]
FromLeBytes(b) ==
  LET value[i \in 0..HeaderBytes] ==
        IF i = HeaderBytes THEN 0 ELSE b[i + 1] + Base * value[i + 1]
  IN  value[0]

\* write_frame
Frame(payload) == LeBytes(Len(payload)) \o payload

\* The bytes of several messages in a row.
FramesOf(messages) == FlattenSeq([i \in DOMAIN messages |-> Frame(messages[i])])

\* decode_client_message reads a message off the front of the payload and
\* lets the caller ignore the rest.
Decodable(payload) == \E m \in Messages : IsPrefix(m, payload)
Decode(payload) == CHOOSE m \in Messages : IsPrefix(m, payload)

-----------------------------------------------------------------------------
(* The clients. *)

Connect(c) ==
  /\ running /\ peer[c] = "new"
  /\ peer' = [peer EXCEPT ![c] = "waiting"]
  /\ UNCHANGED <<pending, sent, stream, running, registered, readerVars, robbed>>

Connected(c) == peer[c] \in {"waiting", "open"}

\* write_client_message up to its first await.
Write(c, m) ==
  /\ Connected(c) /\ pending[c] = <<>>
  /\ Len(sent[c]) < MaxSent
  /\ sent' = [sent EXCEPT ![c] = Append(@, m)]
  /\ pending' = [pending EXCEPT ![c] = Frame(m)]
  /\ UNCHANGED <<peer, stream, running, registered, readerVars, robbed>>

\* write_all goes on with as much as the kernel takes.
WriteSome(c, n) ==
  /\ Connected(c) /\ (peer[c] = "open" => c \in registered)
  /\ n <= Len(pending[c]) /\ Len(stream[c]) + n <= SocketBytes
  /\ stream' = [stream EXCEPT ![c] = @ \o SubSeq(pending[c], 1, n)]
  /\ pending' = [pending EXCEPT ![c] = SubSeq(@, n + 1, Len(@))]
  /\ UNCHANGED <<peer, sent, running, registered, readerVars, robbed>>

\* The client goes, between messages or in the middle of one: what is pending
\* stays unwritten.
Close(c) ==
  /\ peer[c] = "open"
  /\ peer' = [peer EXCEPT ![c] = "closed"]
  /\ UNCHANGED <<pending, sent, stream, running, registered, readerVars, robbed>>

\* The connection breaks (a reset): from now on a read may fail instead of
\* bringing what bytes there are.
Break(c) ==
  /\ peer[c] \in {"open", "closed"}
  /\ peer' = [peer EXCEPT ![c] = "broken"]
  /\ UNCHANGED <<pending, sent, stream, running, registered, readerVars, robbed>>

-----------------------------------------------------------------------------
(* The readers. *)

\* Only the first HeaderBytes of a frame are asked for until they are there.
Wanted(b) == IF Len(b) < HeaderBytes THEN HeaderBytes
             ELSE HeaderBytes + FromLeBytes(b)
TooLarge(b) == Len(b) >= HeaderBytes /\ FromLeBytes(b) > MaxMessageSize

Reading(c) == c \in registered /\ failure[c] = "none"

Fail(c, error) == failure' = [failure EXCEPT ![c] = error]

\* Mutant: what was read before is not kept.
Fill_StartsOver(c, n) ==
  /\ Reading(c) /\ ~TooLarge(read_buf[c]) /\ Len(read_buf[c]) < Wanted(read_buf[c])
  /\ n <= Len(stream[c])
  /\ read_buf' = [read_buf EXCEPT ![c] = SubSeq(stream[c], 1, n)]
  /\ stream' = [stream EXCEPT ![c] = SubSeq(@, n + 1, Len(@))]
  /\ UNCHANGED <<clientVars, running, registered, received, failure, robbed>>

\* Mutant: the reader waits for the buffer to be empty before it reads again.
Fill_WhenEmpty(c, n) ==
  /\ Reading(c) /\ read_buf[c] = <<>>
  /\ n <= Len(stream[c])
  /\ read_buf' = [read_buf EXCEPT ![c] = SubSeq(stream[c], 1, n)]
  /\ stream' = [stream EXCEPT ![c] = SubSeq(@, n + 1, Len(@))]
  /\ UNCHANGED <<clientVars, running, registered, received, failure, robbed>>

\* fill_at_least, one read: it may bring more than the frame needs.
Fill(c, n) ==
  /\ Reading(c) /\ ~TooLarge(read_buf[c]) /\ Len(read_buf[c]) < Wanted(read_buf[c])
  /\ n <= Len(stream[c])
  /\ read_buf' = [read_buf EXCEPT ![c] = @ \o SubSeq(stream[c], 1, n)]
  /\ stream' = [stream EXCEPT ![c] = SubSeq(@, n + 1, Len(@))]
  /\ UNCHANGED <<clientVars, running, registered, received, failure, robbed>>

\* Mutant: the hang-up of the peer is taken for the end of what it wrote.
EndOfStream_WhenHungUp(c) ==
  /\ Reading(c) /\ ~TooLarge(read_buf[c]) /\ Len(read_buf[c]) < Wanted(read_buf[c])
  /\ peer[c] = "closed"
  /\ Fail(c, "UnexpectedEof")
  /\ UNCHANGED <<clientVars, stream, running, registered, read_buf, received, robbed>>

\* A read of no bytes is the end of the stream: UnexpectedEof, even between frames.
EndOfStream(c) ==
  /\ Reading(c) /\ ~TooLarge(read_buf[c]) /\ Len(read_buf[c]) < Wanted(read_buf[c])
  /\ stream[c] = <<>> /\ peer[c] = "closed"
  /\ Fail(c, "UnexpectedEof")
  /\ UNCHANGED <<clientVars, stream, running, registered, read_buf, received, robbed>>

\* The read itself fails.
ReadError(c) ==
  /\ Reading(c) /\ ~TooLarge(read_buf[c]) /\ Len(read_buf[c]) < Wanted(read_buf[c])
  /\ peer[c] = "broken"
  /\ Fail(c, "Io")
  /\ UNCHANGED <<clientVars, stream, running, registered, read_buf, received, robbed>>

\* MessageTooLarge: nothing is taken out of the buffer.
RefuseSize(c) ==
  /\ Reading(c) /\ TooLarge(read_buf[c])
  /\ Fail(c, "MessageTooLarge")
  /\ UNCHANGED <<clientVars, stream, running, registered, read_buf, received, robbed>>

\* The frame is complete: read_frame takes it out and it is decoded.
Payload(b) == SubSeq(b, HeaderBytes + 1, Wanted(b))

Extract(c) ==
  /\ Reading(c) /\ ~TooLarge(read_buf[c]) /\ Len(read_buf[c]) >= Wanted(read_buf[c])
  /\ read_buf' = [read_buf EXCEPT ![c] = SubSeq(@, Wanted(@) + 1, Len(@))]
  /\ IF Decodable(Payload(read_buf[c]))
     THEN /\ received' = [received EXCEPT ![c] = Append(@, Decode(Payload(read_buf[c])))]
          /\ UNCHANGED failure
     ELSE /\ Fail(c, "Undecodable")
          /\ UNCHANGED received
  /\ UNCHANGED <<clientVars, stream, running, registered, robbed>>

-----------------------------------------------------------------------------
(* The server. *)

Accept(c) ==
  /\ running /\ peer[c] = "waiting"
  /\ peer' = [peer EXCEPT ![c] = "open"]
  /\ registered' = registered \cup {c}
  /\ UNCHANGED <<pending, sent, stream, running, readerVars, robbed>>

RemoveClient(c) ==
  /\ c \in registered
  /\ registered' = registered \ {c}
  /\ UNCHANGED <<clientVars, stream, running, readerVars, robbed>>

\* Mutant: the hang-up of the peer is taken for the end of what it wrote.
Dead_WhenHungUp(ready, failing) ==
  {c \in registered \cap ready : c \in failing \/ peer[c] = "closed"}

\* ClientState::is_alive: try_read fails, or finds the end of the stream, or
\* takes a byte. It sees nothing of the kind before the runtime has noticed that
\* the socket is ready.
Dead(ready, failing) ==
  {c \in registered \cap ready :
     c \in failing \/ (stream[c] = <<>> /\ peer[c] \in {"closed", "broken"})}
Probed(ready, failing) == {c \in registered \cap ready : c \notin failing /\ stream[c] # <<>>}

\* remove_disconnected_clients
Sweep(ready, failing) ==
  /\ running
  /\ \A c \in failing : peer[c] = "broken"
  /\ stream' = [c \in Clients |-> IF c \in Probed(ready, failing) THEN Tail(stream[c])
                                                               ELSE stream[c]]
  /\ robbed' = robbed \cup Probed(ready, failing)
  /\ registered' = registered \ Dead(ready, failing)
  /\ UNCHANGED <<clientVars, running, readerVars>>

ServerShutdown ==
  /\ running
  /\ running' = FALSE /\ registered' = {}
  /\ UNCHANGED <<clientVars, stream, readerVars, robbed>>

Next ==
  \/ \E c \in Clients : \/ Connect(c) \/ Close(c) \/ Break(c) \/ Accept(c) \/ RemoveClient(c)
                        \/ EndOfStream(c) \/ ReadError(c) \/ RefuseSize(c) \/ Extract(c)
  \/ \E c \in Clients, m \in Messages : Write(c, m)
  \/ \E c \in Clients, n \in 1..SocketBytes : WriteSome(c, n) \/ Fill(c, n)
  \/ \E ready, failing \in SUBSET Clients : Sweep(ready, failing)
  \/ ServerShutdown

Spec == Init /\ [][Next]_vars

\* A client's write_all goes on when the kernel has room and a reader when there
\* is something to read. Nothing obliges a client to write or to stay, and
\* nothing obliges the server to accept or to sweep.
Fairness ==
  \A c \in Clients :
    /\ WF_vars(\E n \in 1..SocketBytes : WriteSome(c, n))
    /\ WF_vars((\E n \in 1..SocketBytes : Fill(c, n)) \/ EndOfStream(c)
               \/ ReadError(c) \/ RefuseSize(c) \/ Extract(c))

FairSpec == Spec /\ Fairness

-----------------------------------------------------------------------------
(* Properties.                                                               *)

\* In whatever pieces the bytes come, a reader gets the messages its client
\* wrote, in their order, none twice and none made up, and never an error for
\* what an honest client wrote, only the end of the stream or an error of the
\* socket, unless the sweep has taken a byte from it (read_frame).
FramesSurvive ==
  \A c \in Clients \ robbed :
    /\ IsPrefix(received[c], sent[c])
    /\ failure[c] \in {"none", "UnexpectedEof", "Io"}

\* A reader that has come to the end of the stream has every message its client
\* finished writing: it lacks at most one, which the client left unfinished.
\* Hanging up never overtakes a message (fill_at_least, read_frame).
EndedReadersHaveAll ==
  \A c \in Clients \ robbed :
    failure[c] = "UnexpectedEof" =>
      received[c] = IF pending[c] = <<>> THEN sent[c] ELSE Front(sent[c])

\* Only clients that are gone are swept away, and of one that closed its end in
\* order the sweep leaves nothing behind in the socket. What may be lost with it
\* is what its reader already has in read_buf, whole messages among it: nobody
\* extracts them once the client is removed (remove_disconnected_clients).
OnlyBufferedIsSwept ==
  [][\A ready, failing \in SUBSET Clients :
       Sweep(ready, failing) => \A c \in registered \ registered' :
         \/ peer[c] = "broken"
         \/ /\ peer[c] = "closed"
            /\ c \notin robbed =>
                 FramesOf(received[c]) \o read_buf[c] \o pending[c] = FramesOf(sent[c])]_vars

\* Everything a client wrote arrives, however large the frame is beside the
\* socket's buffer, as long as client and connection stay and no byte is taken.
EverythingArrives ==
  \A c \in Clients :
    <>[](peer[c] = "open" /\ c \in registered \ robbed) => <>[](received[c] = sent[c])

-----------------------------------------------------------------------------
(* What the code says of itself and does not do.                             *)

\* is_alive "uses a zero-length peek so no data is consumed": what readers get
\* is what was written, whenever the server looks for dead connections.
SweepsAreHarmless == \A c \in Clients : IsPrefix(received[c], sent[c])
=============================================================================
