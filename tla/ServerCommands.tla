--------------------------- MODULE ServerCommands ---------------------------
(***************************************************************************)
(* The commands of the server: ClientSocket::recv_message and              *)
(* CommunicationService::ParsingMessage.                                   *)
(*                                                                         *)
(* TCP carries a stream of bytes and recv takes what has arrived.  The     *)
(* program takes what one recv returns for one packet: of several packets  *)
(* that arrive together it sees the first, a packet that is cut is seen    *)
(* too early, and recv does not clear what the packet before has left in   *)
(* pkg_recv.  At the end of the connection recv returns 0, and the last    *)
(* packet is found there again, and again every millisecond.               *)
(*                                                                         *)
(* A packet is two units: its head, which names the command, and the rest. *)
(***************************************************************************)
EXTENDS Naturals, Sequences, SequencesExt, FiniteSetsExt

CONSTANT MaxPackets   \* bound: packets of the server

ASSUME MaxPacketsAssumption == MaxPackets \in Nat

Kinds == {"RECV_MOTOR", "RECV_STREAM", "RECV_STREAM_STOP"}

VARIABLES
  open,         \* the server has not closed the connection
  sent,         \* the kinds of the packets that the server sent
  inbound,      \* the units that wait in the socket
  pkg_recv,     \* the first two units of the packet buffer
  dispatched,   \* history: [head, body], the packets that an executed command came from
  cut,          \* history: a recv ended within a packet
  paced         \* history: the server never sent while something was unread

commandVars == <<open, sent, inbound, pkg_recv, dispatched, cut, paced>>

Unit    == [packet : 1 .. MaxPackets, part : {"head", "rest"}]
Nothing == [packet |-> 0, part |-> "rest"]

(* The types.                                                                *)
CommandsTypeOK ==
  /\ open \in BOOLEAN /\ cut \in BOOLEAN /\ paced \in BOOLEAN
  /\ sent \in Seq(Kinds) /\ Len(sent) <= MaxPackets
  /\ inbound \in Seq(Unit)
  /\ pkg_recv \in [1 .. 2 -> Unit \cup {Nothing}]
  /\ dispatched \in Seq([head : 1 .. MaxPackets, body : 0 .. MaxPackets])

CommandsInit ==
  /\ open = TRUE /\ sent = <<>> /\ inbound = <<>>
  /\ pkg_recv = <<Nothing, Nothing>>
  /\ dispatched = <<>> /\ cut = FALSE /\ paced = TRUE

-----------------------------------------------------------------------------
ServerSend ==
  /\ open /\ Len(sent) < MaxPackets
  /\ \E kind \in Kinds : sent' = Append(sent, kind)
  /\ inbound' = inbound \o <<[packet |-> Len(sent'), part |-> "head"],
                             [packet |-> Len(sent'), part |-> "rest"]>>
  /\ paced' = (paced /\ inbound = <<>>)
  /\ UNCHANGED <<open, pkg_recv, dispatched, cut>>

ServerClose ==
  /\ open
  /\ open' = FALSE
  /\ UNCHANGED <<sent, inbound, pkg_recv, dispatched, cut, paced>>

(* pkg_recv after recv has put some units at its beginning.                  *)
Overwritten(units) == SubSeq(units \o SubSeq(pkg_recv, Len(units) + 1, 2), 1, 2)

(* The command in a buffer: the head of a packet, or bytes that are none.    *)
Command(buffer) ==
  IF buffer[1].part = "head" THEN sent[buffer[1].packet] ELSE "none"

(* Mutant: commands are for an idle node only.                               *)
AcceptedIdle(buffer, flag_stream) ==
  \/ Command(buffer) \in {"RECV_MOTOR", "RECV_STREAM"} /\ ~flag_stream
  \/ Command(buffer) = "RECV_STREAM_STOP" /\ flag_stream

(* What ParsingMessage compares the head with, in this order.                *)
Accepted(buffer, flag_stream) ==
  \/ Command(buffer) = "RECV_MOTOR"
  \/ Command(buffer) = "RECV_STREAM" /\ ~flag_stream
  \/ Command(buffer) = "RECV_STREAM_STOP" /\ flag_stream

(* Mutant: what was received stays in the socket.                            *)
RemainingAll(n) == inbound

(* The units that recv leaves in the socket.                                 *)
Remaining(n) == SubSeq(inbound, n + 1, Len(inbound))

(* recv returns the first n units.                                           *)
Receive(n, flag_stream) ==
  /\ n \in 1 .. Len(inbound)
  /\ pkg_recv' = Overwritten(SubSeq(inbound, 1, n))
  /\ inbound' = Remaining(n)
  /\ cut' = (cut \/ inbound[n].part = "head")
  /\ dispatched' = IF Accepted(pkg_recv', flag_stream)
                     THEN Append(dispatched, [head |-> pkg_recv'[1].packet,
                                              body |-> pkg_recv'[2].packet])
                     ELSE dispatched
  /\ UNCHANGED <<open, sent, paced>>

(* recv returns 0: the buffer is parsed as it is.                            *)
ReceiveEnd ==
  /\ inbound = <<>> /\ ~open
  /\ UNCHANGED commandVars

-----------------------------------------------------------------------------
(* As long as there is something to receive, a command is executed at most   *)
(* once and never before one that was sent earlier.                          *)
CommandsInOrder ==
  \A i, j \in DOMAIN dispatched : i < j => dispatched[i].head < dispatched[j].head

(* A motor command has its own directions, unless recv cut a packet.         *)
WholeCommands ==
  ~cut => \A i \in DOMAIN dispatched : dispatched[i].body = dispatched[i].head

(* Commands are executed as they were sent.                                  *)
ExecutedAsSent == CommandsInOrder /\ WholeCommands

(* Motor commands are not lost if the server waits with a packet until the   *)
(* one before was read, and packets are not cut.                             *)
PacedCommandsKept ==
  paced /\ ~cut =>
    \A p \in DOMAIN sent :
      sent[p] = "RECV_MOTOR" =>
        \/ \E i \in DOMAIN inbound : inbound[i].packet = p
        \/ \E i \in DOMAIN dispatched : dispatched[i].head = p
=============================================================================
