----------------------- MODULE ServerConnectionProofs -----------------------
(***************************************************************************)
(* Theorems of ServerConnection: it is well-typed, the packets of files    *)
(* make up uploads, the commands of the server are executed in order and   *)
(* whole, none is lost of a server that waits after each, and the URLs     *)
(* that the server is sent are those of servers that run.                  *)
(***************************************************************************)
EXTENDS ServerConnection, SequenceTheorems, FiniteSetTheorems, TLAPS

-----------------------------------------------------------------------------

(* Nothing waits in the socket that was not sent, the heads that wait are in *)
(* their order, and those that were executed came before them.               *)
Numbered ==
  /\ \A i \in 1 .. Len(inbound) : inbound[i].packet <= Len(sent)
  /\ \A k \in 1 .. Len(dispatched) : dispatched[k].head <= Len(sent)

HeadsInOrder ==
  \A i, j \in 1 .. Len(inbound) :
    i < j /\ inbound[i].part = "head" /\ inbound[j].part = "head" =>
      inbound[i].packet < inbound[j].packet

OnlyLater ==
  \A k \in 1 .. Len(dispatched), i \in 1 .. Len(inbound) :
    inbound[i].part = "head" => dispatched[k].head < inbound[i].packet

(* While no packet was cut, the socket holds packets from their beginning to *)
(* their end.                                                                *)
WholePackets ==
  /\ Len(inbound) > 0 => inbound[1].part = "head"
  /\ \A i \in 1 .. Len(inbound) :
       inbound[i].part = "head" =>
         /\ i < Len(inbound)
         /\ inbound[i + 1].part = "rest" /\ inbound[i + 1].packet = inbound[i].packet
  /\ \A i \in 1 .. Len(inbound) :
       inbound[i].part = "rest" /\ i < Len(inbound) => inbound[i + 1].part = "head"

CommandsInv ==
  /\ CommandsTypeOK
  /\ Numbered /\ HeadsInOrder /\ OnlyLater
  /\ ~cut => WholePackets
  /\ CommandsInOrder /\ WholeCommands

-----------------------------------------------------------------------------
(* What a unit and a buffer are made of.                                     *)
LEMMA Units ==
  /\ \A u \in Unit : /\ u.packet \in 1 .. MaxPackets /\ u.packet \in Nat
                     /\ u.part \in {"head", "rest"}
  /\ Nothing.packet = 0 /\ Nothing.part = "rest" /\ Nothing.part # "head"
BY MaxPacketsAssumption DEF Unit, Nothing

(* The history of what was executed, as a sequence.                          *)
LEMMA History ==
  ASSUME CommandsTypeOK
  PROVE  /\ Len(sent) \in Nat /\ Len(sent) <= MaxPackets
         /\ Len(inbound) \in Nat /\ \A i \in 1 .. Len(inbound) : inbound[i] \in Unit
         /\ Len(dispatched) \in Nat /\ DOMAIN dispatched = 1 .. Len(dispatched)
         /\ \A k \in 1 .. Len(dispatched) : dispatched[k].head \in Nat
<1>1. /\ sent \in Seq(Kinds) /\ Len(sent) <= MaxPackets /\ inbound \in Seq(Unit)
      /\ dispatched \in Seq([head : 1 .. MaxPackets, body : 0 .. MaxPackets])
  BY DEF CommandsTypeOK
<1>2. Len(sent) \in Nat /\ Len(inbound) \in Nat /\ Len(dispatched) \in Nat
  BY <1>1, LenProperties
<1>3. DOMAIN dispatched = 1 .. Len(dispatched)
  BY <1>1, LenProperties
<1>4. \A i \in 1 .. Len(inbound) : inbound[i] \in Unit
  BY <1>1, ElementOfSeq
<1>5. \A k \in 1 .. Len(dispatched) :
        dispatched[k] \in [head : 1 .. MaxPackets, body : 0 .. MaxPackets]
  BY <1>1, ElementOfSeq
<1>6. \A k \in 1 .. Len(dispatched) : dispatched[k].head \in Nat
  BY <1>5, MaxPacketsAssumption
<1>7. QED BY <1>1, <1>2, <1>3, <1>4, <1>6

(* What recv leaves in the socket is the end of what was there.              *)
LEMMA RemainingIs ==
  ASSUME CommandsTypeOK, NEW n \in 1 .. Len(inbound)
  PROVE  /\ Remaining(n) \in Seq(Unit)
         /\ Len(Remaining(n)) = Len(inbound) - n
         /\ \A i \in 1 .. Len(inbound) - n : Remaining(n)[i] = inbound[n + i]
<1>1. Len(inbound) \in Nat /\ n \in Nat /\ \A i \in n + 1 .. Len(inbound) : inbound[i] \in Unit
  BY History
<1>2. /\ SubSeq(inbound, n + 1, Len(inbound)) \in Seq(Unit)
      /\ Len(SubSeq(inbound, n + 1, Len(inbound)))
           = IF n + 1 <= Len(inbound) THEN Len(inbound) - (n + 1) + 1 ELSE 0
      /\ \A i \in 1 .. Len(inbound) - (n + 1) + 1 :
           SubSeq(inbound, n + 1, Len(inbound))[i] = inbound[n + 1 + i - 1]
  BY <1>1, SubSeqProperties
<1>3. QED
  BY <1>1, <1>2 DEF Remaining

(* What recv leaves in the buffer: the first two units that it took, or the  *)
(* first and what was there before.                                          *)
LEMMA OverwrittenIs ==
  ASSUME CommandsTypeOK, NEW n \in 1 .. Len(inbound)
  PROVE  /\ Overwritten(SubSeq(inbound, 1, n)) \in [1 .. 2 -> Unit \cup {Nothing}]
         /\ Overwritten(SubSeq(inbound, 1, n))[1] = inbound[1]
         /\ n >= 2 => Overwritten(SubSeq(inbound, 1, n))[2] = inbound[2]
<1> DEFINE S == Unit \cup {Nothing}
           units == SubSeq(inbound, 1, n)
           old == SubSeq(pkg_recv, Len(units) + 1, 2)
           all == units \o old
<1>1. n \in Nat /\ n >= 1 /\ \A i \in 1 .. n : inbound[i] \in S
  BY History
<1>2. /\ units \in Seq(S) /\ Len(units) = n
      /\ \A i \in 1 .. n : units[i] = inbound[i]
  <2>1. /\ units \in Seq(S)
        /\ Len(units) = IF 1 <= n THEN n - 1 + 1 ELSE 0
        /\ \A i \in 1 .. n - 1 + 1 : units[i] = inbound[1 + i - 1]
    BY <1>1, SubSeqProperties
  <2>2. QED BY <1>1, <2>1
<1>3. /\ old \in Seq(S) /\ Len(old) = IF n + 1 <= 2 THEN 1 ELSE 0
  <2>1. \A i \in n + 1 .. 2 : pkg_recv[i] \in S
    BY <1>1 DEF CommandsTypeOK
  <2>2. /\ SubSeq(pkg_recv, n + 1, 2) \in Seq(S)
        /\ Len(SubSeq(pkg_recv, n + 1, 2)) = IF n + 1 <= 2 THEN 2 - (n + 1) + 1 ELSE 0
    BY <1>1, <2>1, SubSeqProperties
  <2>3. QED BY <1>1, <1>2, <2>2
<1> HIDE DEF units, old
<1>4. /\ all \in Seq(S) /\ Len(all) = Len(units) + Len(old)
      /\ \A i \in 1 .. Len(units) + Len(old) :
           all[i] = IF i <= Len(units) THEN units[i] ELSE old[i - Len(units)]
  BY <1>2, <1>3, ConcatProperties
<1> HIDE DEF all
<1>5. Len(all) >= 2 /\ \A i \in 1 .. 2 : all[i] \in S
  <2>1. Len(all) \in Nat /\ Len(all) >= 2
    BY <1>1, <1>2, <1>3, <1>4
  <2>2. QED BY <1>4, <2>1, ElementOfSeq
<1>6. /\ SubSeq(all, 1, 2) \in Seq(S) /\ Len(SubSeq(all, 1, 2)) = 2
      /\ SubSeq(all, 1, 2)[1] = all[1] /\ SubSeq(all, 1, 2)[2] = all[2]
  BY <1>5, SubSeqProperties
<1>7. all[1] = inbound[1] /\ (n >= 2 => all[2] = inbound[2])
  BY <1>1, <1>2, <1>3, <1>4
<1>8. SubSeq(all, 1, 2) \in [1 .. 2 -> S]
  BY <1>6, LenProperties
<1>9. QED
  BY <1>6, <1>7, <1>8 DEF Overwritten, all, units, old

-----------------------------------------------------------------------------
(* At the start no command is under way.                                     *)
LEMMA CommandsInvInit == CommandsInit => CommandsInv
<1> SUFFICES ASSUME CommandsInit PROVE CommandsInv
  OBVIOUS
<1>1. CommandsTypeOK
  <2>1. /\ sent = <<>> /\ inbound = <<>> /\ dispatched = <<>>
        /\ open \in BOOLEAN /\ cut \in BOOLEAN /\ paced \in BOOLEAN
    BY DEF CommandsInit
  <2>2. pkg_recv \in [1 .. 2 -> Unit \cup {Nothing}]
    BY DEF CommandsInit
  <2>3. QED BY <2>1, <2>2, MaxPacketsAssumption DEF CommandsTypeOK
<1>2. Len(inbound) = 0 /\ Len(dispatched) = 0 /\ DOMAIN dispatched = {}
  BY DEF CommandsInit
<1>3. QED
  BY <1>1, <1>2 DEF CommandsInv, Numbered, HeadsInOrder, OnlyLater, WholePackets, CommandsInOrder,
                    WholeCommands

(* A packet is appended with a number that is higher than all before.        *)
LEMMA SendKeeps == ASSUME CommandsInv, ServerSend PROVE CommandsInv'
<1> DEFINE p == Len(sent) + 1
           head == [packet |-> p, part |-> "head"]
           rest == [packet |-> p, part |-> "rest"]
<1>0. CommandsTypeOK
  BY DEF CommandsInv
<1>1. /\ sent' \in Seq(Kinds) /\ Len(sent') = p /\ p \in 1 .. MaxPackets
  <2>1. sent \in Seq(Kinds) /\ Len(sent) \in Nat /\ Len(sent) < MaxPackets
    BY <1>0, History DEF ServerSend, CommandsTypeOK
  <2>2. PICK kind \in Kinds : sent' = Append(sent, kind)
    BY DEF ServerSend
  <2>3. sent' \in Seq(Kinds) /\ Len(sent') = p
    BY <2>1, <2>2, AppendProperties
  <2>4. p \in 1 .. MaxPackets
    BY <2>1, MaxPacketsAssumption
  <2>5. QED BY <2>3, <2>4
<1>2. head \in Unit /\ rest \in Unit
  BY <1>1 DEF Unit
<1>3. /\ inbound' \in Seq(Unit) /\ Len(inbound') = Len(inbound) + 2
      /\ \A i \in 1 .. Len(inbound) : inbound'[i] = inbound[i]
      /\ inbound'[Len(inbound) + 1] = head /\ inbound'[Len(inbound) + 2] = rest
  <2>1. <<head, rest>> \in Seq(Unit) /\ Len(<<head, rest>>) = 2
    BY <1>2
  <2>2. inbound' = inbound \o <<head, rest>>
    BY <1>1 DEF ServerSend
  <2>3. inbound \in Seq(Unit) /\ Len(inbound) \in Nat
    BY <1>0, History DEF CommandsTypeOK
  <2>4. /\ inbound \o <<head, rest>> \in Seq(Unit)
        /\ Len(inbound \o <<head, rest>>) = Len(inbound) + 2
        /\ \A i \in 1 .. Len(inbound) + 2 : (inbound \o <<head, rest>>)[i] =
             IF i <= Len(inbound) THEN inbound[i] ELSE <<head, rest>>[i - Len(inbound)]
    BY <2>1, <2>3, ConcatProperties
  <2>5. QED BY <2>2, <2>3, <2>4
<1>4. UNCHANGED <<open, pkg_recv, dispatched, cut>> /\ paced' \in BOOLEAN
  BY <1>0 DEF ServerSend, CommandsTypeOK
<1>5. CommandsTypeOK'
  BY <1>0, <1>1, <1>3, <1>4 DEF CommandsTypeOK
<1> HIDE DEF head, rest
<1>6. head.packet = p /\ head.part = "head" /\ rest.packet = p /\ rest.part = "rest"
  BY DEF head, rest
<1>7. Numbered' /\ HeadsInOrder' /\ OnlyLater'
  <2>1. /\ Len(sent) \in Nat /\ Len(inbound) \in Nat /\ Len(dispatched) \in Nat
        /\ \A i \in 1 .. Len(inbound) : inbound[i].packet \in Nat
        /\ \A k \in 1 .. Len(dispatched) : dispatched[k].head \in Nat
    BY <1>0, History, Units
  <2>2. \A i \in 1 .. Len(inbound) : inbound[i].packet < p
    BY <2>1 DEF CommandsInv, Numbered
  <2>3. \A k \in 1 .. Len(dispatched) : dispatched[k].head < p
    BY <2>1 DEF CommandsInv, Numbered
  <2>4. \A i \in 1 .. Len(inbound) + 2 :
          \/ i \in 1 .. Len(inbound) /\ inbound'[i] = inbound[i]
          \/ i = Len(inbound) + 1 /\ inbound'[i] = head
          \/ i = Len(inbound) + 2 /\ inbound'[i] = rest
    BY <2>1, <1>3
  <2>5. /\ \A i \in 1 .. Len(inbound') : inbound'[i].packet <= p
        /\ \A k \in 1 .. Len(dispatched') : dispatched'[k].head <= p
    BY <2>1, <2>2, <2>3, <2>4, <1>3, <1>4, <1>6
  <2>6. Numbered'
    BY <2>5, <1>1 DEF Numbered
  <2>7. HeadsInOrder'
    <3> SUFFICES ASSUME NEW i \in 1 .. Len(inbound) + 2, NEW j \in 1 .. Len(inbound) + 2, i < j,
                        inbound'[i].part = "head", inbound'[j].part = "head"
                 PROVE  inbound'[i].packet < inbound'[j].packet
      BY <1>3 DEF HeadsInOrder
    <3>1. i \in 1 .. Len(inbound) /\ inbound'[i] = inbound[i]
      BY <2>1, <2>4, <1>6
    <3>2. CASE j \in 1 .. Len(inbound) /\ inbound'[j] = inbound[j]
      BY <3>1, <3>2 DEF CommandsInv, HeadsInOrder
    <3>3. CASE inbound'[j] = head
      BY <3>1, <3>3, <2>2, <1>6
    <3>4. QED BY <3>2, <3>3, <2>4, <1>6
  <2>8. OnlyLater'
    <3> SUFFICES ASSUME NEW k \in 1 .. Len(dispatched), NEW i \in 1 .. Len(inbound) + 2,
                        inbound'[i].part = "head"
                 PROVE  dispatched[k].head < inbound'[i].packet
      BY <1>3, <1>4 DEF OnlyLater
    <3>1. CASE i \in 1 .. Len(inbound) /\ inbound'[i] = inbound[i]
      BY <3>1 DEF CommandsInv, OnlyLater
    <3>2. CASE inbound'[i] = head
      BY <3>2, <2>3, <1>6
    <3>3. QED BY <3>1, <3>2, <2>4, <1>6
  <2>9. QED BY <2>6, <2>7, <2>8
<1>8. ~cut' => WholePackets'
  <2> SUFFICES ASSUME ~cut' PROVE WholePackets'
    OBVIOUS
  <2>1. WholePackets /\ Len(inbound) \in Nat
    BY <1>0, <1>4, History DEF CommandsInv
  <2>2. \A i \in 1 .. Len(inbound) + 2 :
          \/ i \in 1 .. Len(inbound) /\ inbound'[i] = inbound[i]
          \/ i = Len(inbound) + 1 /\ inbound'[i] = head
          \/ i = Len(inbound) + 2 /\ inbound'[i] = rest
    BY <2>1, <1>3
  <2>3. inbound'[1].part = "head"
    BY <2>1, <2>2, <1>3, <1>6 DEF WholePackets
  <2>4. ASSUME NEW i \in 1 .. Len(inbound) + 2, inbound'[i].part = "head"
        PROVE  /\ i < Len(inbound) + 2 /\ inbound'[i + 1].part = "rest"
               /\ inbound'[i + 1].packet = inbound'[i].packet
    <3>1. CASE i \in 1 .. Len(inbound) /\ inbound'[i] = inbound[i]
      <4>1. /\ i < Len(inbound) /\ inbound[i + 1].part = "rest"
            /\ inbound[i + 1].packet = inbound[i].packet
        BY <2>1, <2>4, <3>1 DEF WholePackets
      <4>2. inbound'[i + 1] = inbound[i + 1]
        BY <2>1, <4>1, <1>3
      <4>3. QED BY <3>1, <4>1, <4>2, <2>1
    <3>2. CASE i = Len(inbound) + 1 /\ inbound'[i] = head
      BY <2>1, <3>2, <1>3, <1>6
    <3>3. QED BY <2>2, <2>4, <3>1, <3>2, <1>6
  <2>5. ASSUME NEW i \in 1 .. Len(inbound) + 2, inbound'[i].part = "rest", i < Len(inbound) + 2
        PROVE  inbound'[i + 1].part = "head"
    <3>1. i \in 1 .. Len(inbound) /\ inbound'[i] = inbound[i]
      BY <2>1, <2>2, <2>5, <1>6
    <3>2. CASE i < Len(inbound)
      <4>1. inbound'[i + 1] = inbound[i + 1]
        BY <2>1, <3>2, <1>3
      <4>2. QED BY <2>1, <2>5, <3>1, <3>2, <4>1 DEF WholePackets
    <3>3. CASE i = Len(inbound)
      BY <2>1, <3>3, <1>3, <1>6
    <3>4. QED BY <2>1, <3>1, <3>2, <3>3
  <2>6. QED BY <2>3, <2>4, <2>5, <1>3 DEF WholePackets
<1>9. CommandsInOrder' /\ WholeCommands'
  BY <1>4 DEF CommandsInv, CommandsInOrder, WholeCommands
<1>10. QED
  BY <1>5, <1>7, <1>8, <1>9 DEF CommandsInv

(* recv takes units from the front; if the first is a head, its command may  *)
(* be executed.                                                              *)
LEMMA ReceiveKeeps ==
  ASSUME CommandsInv, NEW n, NEW f, Receive(n, f)
  PROVE  CommandsInv'
<1>0. CommandsTypeOK /\ n \in 1 .. Len(inbound) /\ n \in Nat /\ Len(inbound) \in Nat
  BY History DEF CommandsInv, Receive
<1>1. UNCHANGED <<open, sent, paced>> /\ cut' = (cut \/ inbound[n].part = "head")
  BY DEF Receive
<1>2. /\ inbound' \in Seq(Unit) /\ Len(inbound') = Len(inbound) - n
      /\ \A i \in 1 .. Len(inbound) - n : inbound'[i] = inbound[n + i]
  BY <1>0, RemainingIs DEF Receive
<1>3. /\ pkg_recv' \in [1 .. 2 -> Unit \cup {Nothing}]
      /\ pkg_recv'[1] = inbound[1] /\ (n >= 2 => pkg_recv'[2] = inbound[2])
  BY <1>0, OverwrittenIs DEF Receive
<1>4. /\ \A i \in 1 .. Len(inbound) : /\ inbound[i].packet \in Nat
                                      /\ inbound[i].part \in {"head", "rest"}
      /\ Len(sent) \in Nat /\ Len(dispatched) \in Nat /\ DOMAIN dispatched = 1 .. Len(dispatched)
      /\ \A k \in 1 .. Len(dispatched) : dispatched[k].head \in Nat
  BY <1>0, History, Units
<1> DEFINE new == [head |-> pkg_recv'[1].packet, body |-> pkg_recv'[2].packet]
<1>5. new \in [head : 1 .. MaxPackets, body : 0 .. MaxPackets]
  <2>1. pkg_recv'[1].packet \in 1 .. MaxPackets
    BY <1>0, <1>3, History, Units
  <2>2. pkg_recv'[2] \in Unit \cup {Nothing}
    BY <1>3
  <2>3. pkg_recv'[2].packet \in 0 .. MaxPackets
    BY <2>2, Units, MaxPacketsAssumption
  <2>4. QED BY <2>1, <2>3
<1>6. \A i \in 1 .. Len(inbound') : n + i \in 1 .. Len(inbound) /\ inbound'[i] = inbound[n + i]
  BY <1>0, <1>2
<1>7. HeadsInOrder'
  <2> SUFFICES ASSUME NEW i \in 1 .. Len(inbound'), NEW j \in 1 .. Len(inbound'), i < j,
                      inbound'[i].part = "head", inbound'[j].part = "head"
               PROVE  inbound'[i].packet < inbound'[j].packet
    BY DEF HeadsInOrder
  <2>1. n + i \in 1 .. Len(inbound) /\ n + j \in 1 .. Len(inbound) /\ n + i < n + j
    BY <1>0, <1>6
  <2>2. HeadsInOrder
    BY DEF CommandsInv
  <2>3. QED BY <1>6, <2>1, <2>2 DEF HeadsInOrder
<1>8. Numbered /\ HeadsInOrder /\ OnlyLater /\ CommandsInOrder
  BY DEF CommandsInv
<1>9. ASSUME dispatched' = dispatched
      PROVE  CommandsTypeOK' /\ Numbered' /\ OnlyLater' /\ CommandsInOrder'
  <2>1. CommandsTypeOK'
    BY <1>0, <1>1, <1>2, <1>3, <1>9 DEF CommandsTypeOK
  <2>2. Numbered'
    BY <1>1, <1>6, <1>8, <1>9 DEF Numbered
  <2>3. OnlyLater'
    BY <1>6, <1>8, <1>9 DEF OnlyLater
  <2>4. CommandsInOrder'
    BY <1>8, <1>9 DEF CommandsInOrder
  <2>5. QED BY <2>1, <2>2, <2>3, <2>4
<1>10. ASSUME Accepted(pkg_recv', f), dispatched' = Append(dispatched, new)
       PROVE  CommandsTypeOK' /\ Numbered' /\ OnlyLater' /\ CommandsInOrder'
  <2>1. inbound[1].part = "head" /\ 1 \in 1 .. Len(inbound)
    BY <1>0, <1>3, <1>10 DEF Accepted, Command
  <2>2. /\ dispatched' \in Seq([head : 1 .. MaxPackets, body : 0 .. MaxPackets])
        /\ Len(dispatched') = Len(dispatched) + 1
        /\ \A k \in 1 .. Len(dispatched) : dispatched'[k] = dispatched[k]
        /\ dispatched'[Len(dispatched) + 1] = new
    BY <1>0, <1>5, <1>10, AppendProperties DEF CommandsTypeOK
  <2>3. CommandsTypeOK'
    BY <1>0, <1>1, <1>2, <1>3, <2>2 DEF CommandsTypeOK
  <2>4. new.head = inbound[1].packet
    BY <1>3
  <2>5. DOMAIN dispatched' = 1 .. Len(dispatched) + 1
    BY <2>2, LenProperties
  <2> HIDE DEF new
  <2>6. \A k \in 1 .. Len(dispatched) + 1 :
          \/ k \in 1 .. Len(dispatched) /\ dispatched'[k] = dispatched[k]
          \/ k = Len(dispatched) + 1 /\ dispatched'[k] = new
    BY <1>4, <2>2
  <2>7. \A k \in 1 .. Len(dispatched) + 1 : dispatched'[k].head <= Len(sent)
    BY <1>8, <2>1, <2>4, <2>6 DEF Numbered
  <2>8. \A i \in 1 .. Len(inbound') : inbound'[i].packet <= Len(sent)
    BY <1>6, <1>8 DEF Numbered
  <2>9. Numbered'
    BY <1>1, <2>2, <2>7, <2>8 DEF Numbered
  <2>10. OnlyLater'
    <3> SUFFICES ASSUME NEW k \in 1 .. Len(dispatched) + 1, NEW i \in 1 .. Len(inbound'),
                        inbound'[i].part = "head"
                 PROVE  dispatched'[k].head < inbound'[i].packet
      BY <2>2 DEF OnlyLater
    <3>1. n + i \in 1 .. Len(inbound) /\ 1 < n + i /\ inbound'[i] = inbound[n + i]
      BY <1>0, <1>6
    <3>2. CASE k \in 1 .. Len(dispatched) /\ dispatched'[k] = dispatched[k]
      BY <1>8, <3>1, <3>2 DEF OnlyLater
    <3>3. CASE dispatched'[k] = new
      BY <1>8, <2>1, <2>4, <3>1, <3>3 DEF HeadsInOrder
    <3>4. QED BY <2>6, <3>2, <3>3
  <2>11. CommandsInOrder'
    <3> SUFFICES ASSUME NEW i \in 1 .. Len(dispatched) + 1, NEW j \in 1 .. Len(dispatched) + 1, i < j
                 PROVE  dispatched'[i].head < dispatched'[j].head
      BY <2>5 DEF CommandsInOrder
    <3>1. i \in 1 .. Len(dispatched) /\ dispatched'[i] = dispatched[i]
      BY <1>4, <2>6
    <3>2. CASE j \in 1 .. Len(dispatched) /\ dispatched'[j] = dispatched[j]
      BY <1>4, <1>8, <3>1, <3>2 DEF CommandsInOrder
    <3>3. CASE dispatched'[j] = new
      BY <1>8, <2>1, <2>4, <3>1, <3>3 DEF OnlyLater
    <3>4. QED BY <2>6, <3>2, <3>3
  <2>12. QED BY <2>3, <2>9, <2>10, <2>11
<1>11. CommandsTypeOK' /\ Numbered' /\ OnlyLater' /\ CommandsInOrder'
  BY <1>9, <1>10 DEF Receive
<1>12. ASSUME ~cut' PROVE WholePackets' /\ WholeCommands'
  <2>1. ~cut /\ inbound[n].part # "head"
    BY <1>1, <1>12
  <2>2. WholePackets /\ WholeCommands /\ inbound[n].part = "rest"
    BY <1>0, <1>4, <2>1 DEF CommandsInv
  <2>3. inbound[1].part = "head"
    BY <1>0, <2>2 DEF WholePackets
  <2>4. n >= 2 /\ inbound[2].packet = inbound[1].packet
    <3>1. n # 1
      BY <2>1, <2>3
    <3>2. \A i \in 1 .. Len(inbound) :
            inbound[i].part = "head" => inbound[i + 1].packet = inbound[i].packet
      BY <2>2 DEF WholePackets
    <3>3. 1 \in 1 .. Len(inbound)
      BY <1>0
    <3>4. inbound[1 + 1].packet = inbound[1].packet
      BY <2>3, <3>2, <3>3
    <3>5. QED BY <1>0, <3>1, <3>4
  <2>5. WholePackets'
    <3>1. Len(inbound') > 0 => inbound'[1].part = "head"
      <4> SUFFICES ASSUME Len(inbound') > 0 PROVE inbound'[1].part = "head"
        OBVIOUS
      <4>1. 1 \in 1 .. Len(inbound') /\ n < Len(inbound)
        BY <1>0, <1>2
      <4>2. inbound[n + 1].part = "head"
        BY <1>0, <2>2, <4>1 DEF WholePackets
      <4>3. QED BY <1>6, <4>1, <4>2
    <3>2. ASSUME NEW i \in 1 .. Len(inbound'), inbound'[i].part = "head"
          PROVE  /\ i < Len(inbound') /\ inbound'[i + 1].part = "rest"
                 /\ inbound'[i + 1].packet = inbound'[i].packet
      <4>1. n + i \in 1 .. Len(inbound) /\ inbound'[i] = inbound[n + i]
        BY <1>6
      <4>2. /\ n + i < Len(inbound) /\ inbound[(n + i) + 1].part = "rest"
            /\ inbound[(n + i) + 1].packet = inbound[n + i].packet
        BY <2>2, <3>2, <4>1 DEF WholePackets
      <4>3. i < Len(inbound') /\ i + 1 \in 1 .. Len(inbound') /\ (n + i) + 1 = n + (i + 1)
        BY <1>0, <1>2, <4>2
      <4>4. inbound'[i + 1] = inbound[(n + i) + 1]
        BY <1>6, <4>3
      <4>5. QED BY <4>1, <4>2, <4>3, <4>4
    <3>3. ASSUME NEW i \in 1 .. Len(inbound'), inbound'[i].part = "rest", i < Len(inbound')
          PROVE  inbound'[i + 1].part = "head"
      <4>1. n + i \in 1 .. Len(inbound) /\ inbound'[i] = inbound[n + i]
        BY <1>6
      <4>2. n + i < Len(inbound) /\ i + 1 \in 1 .. Len(inbound') /\ (n + i) + 1 = n + (i + 1)
        BY <1>0, <1>2, <3>3
      <4>3. inbound[(n + i) + 1].part = "head"
        BY <2>2, <3>3, <4>1, <4>2 DEF WholePackets
      <4>4. QED BY <1>6, <4>2, <4>3
    <3>4. QED BY <3>1, <3>2, <3>3 DEF WholePackets
  <2>6. \A k \in 1 .. Len(dispatched) : dispatched[k].body = dispatched[k].head
    BY <1>4, <2>1, <2>2 DEF WholeCommands
  <2>7. CASE dispatched' = dispatched
    BY <1>4, <2>5, <2>6, <2>7 DEF WholeCommands
  <2>8. CASE dispatched' = Append(dispatched, new)
    <3>1. /\ dispatched' \in Seq([head : 1 .. MaxPackets, body : 0 .. MaxPackets])
          /\ Len(dispatched') = Len(dispatched) + 1
          /\ \A k \in 1 .. Len(dispatched) : dispatched'[k] = dispatched[k]
          /\ dispatched'[Len(dispatched) + 1] = new
      BY <1>0, <1>5, <2>8, AppendProperties DEF CommandsTypeOK
    <3>2. new.head = new.body
      BY <1>3, <2>4
    <3>3. DOMAIN dispatched' = 1 .. Len(dispatched) + 1
      BY <3>1, LenProperties
    <3> HIDE DEF new
    <3>4. \A k \in 1 .. Len(dispatched) + 1 : dispatched'[k].body = dispatched'[k].head
      <4> SUFFICES ASSUME NEW k \in 1 .. Len(dispatched) + 1
                   PROVE  dispatched'[k].body = dispatched'[k].head
        OBVIOUS
      <4>1. CASE k \in 1 .. Len(dispatched)
        BY <2>6, <3>1, <4>1
      <4>2. CASE k = Len(dispatched) + 1
        BY <3>1, <3>2, <4>2
      <4>3. QED BY <1>4, <4>1, <4>2
    <3>5. QED BY <2>5, <3>3, <3>4 DEF WholeCommands
  <2>9. QED BY <2>7, <2>8 DEF Receive
<1>13. WholeCommands'
  BY <1>12 DEF WholeCommands
<1>14. QED
  BY <1>7, <1>11, <1>12, <1>13 DEF CommandsInv

(* Nothing else touches the socket and the packet buffer.                    *)
LEMMA CommandsStutter ==
  ASSUME CommandsInv, UNCHANGED <<sent, inbound, pkg_recv, dispatched, cut, paced>>, open' \in BOOLEAN
  PROVE  CommandsInv'
BY DEF CommandsInv, CommandsTypeOK, Numbered, HeadsInOrder, OnlyLater, WholePackets,
       CommandsInOrder, WholeCommands

-----------------------------------------------------------------------------
(* What is under way to the server: between the packets of a file the server *)
(* has exactly what was read from it, outside of it a complete file; once    *)
(* the connection is closed nothing is said of the server any more.          *)
Stages == StartUp \cup {"wait", "event", "record", "open", "head", "data"}

Heading == up \in {"head", "headPic"}
Reading == up \in {"data", "dataPic"}

FileInv ==
  /\ open \in BOOLEAN /\ up \in Stages
  /\ disk \in FileSizes \cup {0} /\ entire_size \in Nat /\ sended \in Nat /\ offset \in Nat
  /\ announced \in Nat /\ arrived \in Nat
  /\ Heading => disk \in FileSizes /\ offset = 0
  /\ Reading => offset = sended /\ sended <= entire_size /\ entire_size \in FileSizes
  /\ Reading /\ open => arrived = offset /\ announced = entire_size
  /\ ~Reading => sended = 0
  /\ ~Reading /\ open => arrived = announced

fileVars == <<open, up, disk, entire_size, sended, offset, announced, arrived>>

(* The sizes of files are numbers.                                           *)
LEMMA Sizes ==
  /\ PictureSizes \subseteq FileSizes /\ RecordingSizes \subseteq FileSizes
  /\ FileSizes \subseteq Nat \ {0} /\ PACK_MAX_SIZE \in Nat \ {0}
BY ConnectionAssumption DEF FileSizes

(* The invariant speaks of nothing but fileVars.                             *)
LEMMA FileInvStutter == ASSUME FileInv, UNCHANGED fileVars PROVE FileInv'
BY DEF FileInv, Heading, Reading, fileVars

(* At the start nothing is being sent.                                       *)
LEMMA FileInvInit == ConnInit => FileInv
BY DEF ConnInit, CommandsInit, FileInv, Heading, Reading, Stages, StartUp

(* A file is opened with the counters at zero.                               *)
LEMMA OpenKeeps == ASSUME FileInv, Open PROVE FileInv'
<1>1. UNCHANGED <<open, disk, entire_size, sended, announced, arrived>> /\ offset' = 0
  BY DEF Open, commandVars, serverVars
<1>2. up' \in {"head", "headPic"} /\ up \in {"open", "openPic"} /\ disk # 0
  BY DEF Open, Goto, At, Pic, StartUp
<1>3. QED
  BY <1>1, <1>2 DEF FileInv, Heading, Reading, Stages, StartUp

(* The head announces the size that was measured before.                     *)
LEMMA SendHeadKeeps == ASSUME FileInv, SendHead PROVE FileInv'
<1>1. disk \in FileSizes /\ disk \in Nat /\ 0 <= disk /\ offset = 0 /\ sended = 0 /\ ~Reading
  BY Sizes DEF SendHead, FileInv, Heading, Reading, At, Pic
<1>2. open' = open /\ disk' = disk /\ offset' = 0 /\ sended' = 0 /\ entire_size' = disk
  BY <1>1 DEF SendHead, commandVars
<1>3. up' \in Stages /\ Reading' /\ ~Heading'
  BY DEF SendHead, Goto, At, Pic, Heading, Reading, Stages, StartUp
<1>4. CASE open
  BY <1>1, <1>2, <1>3, <1>4 DEF SendHead, FileInv
<1>5. CASE ~open
  BY <1>1, <1>2, <1>3, <1>5 DEF SendHead, FileInv
<1>6. QED BY <1>4, <1>5

(* One round of the loop, in numbers.                                        *)
LEMMA Round ==
  ASSUME FileInv, SendData
  PROVE  /\ Reading /\ sended < entire_size
         /\ in_data_size \in Nat /\ 0 < in_data_size
         /\ sended' = sended + in_data_size /\ offset' = offset + in_data_size
         /\ sended + in_data_size <= entire_size
         /\ sended + in_data_size
              = IF sended + PACK_MAX_SIZE < entire_size THEN sended + PACK_MAX_SIZE ELSE entire_size
BY Sizes DEF FileInv, SendData, Reading, At, Pic, in_data_size

(* A packet carries what in_data_size allows and advances sended by it.      *)
LEMMA SendDataKeeps == ASSUME FileInv, SendData PROVE FileInv'
<1>1. UNCHANGED <<open, up, disk, entire_size, announced>>
  BY DEF SendData, commandVars
<1>2. Reading /\ Reading' /\ ~Heading'
  BY <1>1, Round DEF Reading, Heading
<1>3. sended' \in Nat /\ offset' = sended' /\ sended' <= entire_size /\ arrived' \in Nat
  BY <1>2, Round DEF FileInv, SendData
<1>4. open => arrived' = offset'
  BY <1>2, Round DEF FileInv, SendData
<1>5. QED BY <1>1, <1>2, <1>3, <1>4 DEF FileInv

(* The file is closed and the counters are reset.                            *)
LEMMA CompleteKeeps == ASSUME FileInv, Complete PROVE FileInv'
BY Sizes DEF FileInv, Heading, Reading, Stages, StartUp, Complete, Finish, At, Pic, commandVars

(* The other steps of the event thread and of the start-up.                  *)
LEMMA UploadKeeps == ASSUME FileInv, UploadStep PROVE FileInv'
<1>1. CASE login_camera_id
  BY <1>1 DEF login_camera_id, FileInv, Heading, Reading, Stages, StartUp, commandVars, serverVars
<1>2. CASE send_MAC
  BY <1>2 DEF send_MAC, FileInv, Heading, Reading, Stages, StartUp, commandVars, serverVars
<1>3. CASE CaptureImage
  BY <1>3, Sizes DEF CaptureImage, FileInv, Heading, Reading, Stages, StartUp, commandVars, serverVars
<1>4. CASE OpenFails
  BY <1>4 DEF OpenFails, Finish, At, Pic, FileInv, Heading, Reading, Stages, StartUp, commandVars,
              serverVars
<1>5. CASE send_Event
  BY <1>5 DEF send_Event, FileInv, Heading, Reading, Stages, StartUp, commandVars, serverVars
<1>6. CASE VideoEncode
  BY <1>6, Sizes DEF VideoEncode, FileInv, Heading, Reading, Stages, StartUp, commandVars, serverVars
<1>7. QED
  BY <1>1, <1>2, <1>3, <1>4, <1>5, <1>6, OpenKeeps, SendHeadKeeps, SendDataKeeps, CompleteKeeps
  DEF UploadStep

(* What the other threads and the server leave alone, unless the latter      *)
(* closes the connection.                                                    *)
Others ==
  \/ ParsingMessage \/ ReceiveFails
  \/ StreamStep
  \/ \E s \in Sessions : RtspStep(s)
  \/ (ServerSend /\ Server)

(* The other threads leave the variables of the upload alone.                *)
LEMMA OthersKeep == ASSUME Others PROVE UNCHANGED fileVars
<1>1. CASE ParsingMessage
  <2>1. Execute(pkg_recv') /\ UNCHANGED open
    BY <1>1 DEF ParsingMessage, Receive, ReceiveEnd, commandVars
  <2>2. UNCHANGED <<transferVars, serverVars>>
    BY <2>1 DEF Execute
  <2>3. QED BY <2>1, <2>2 DEF fileVars, transferVars, serverVars
<1>2. CASE StreamStep
  BY <1>2 DEF StreamStep, StreamRaise, StreamBegin, StreamEnd, StreamUnlock, fileVars,
              transferVars, serverVars, commandVars
<1>3. CASE \E s \in Sessions : RtspStep(s)
  BY <1>3 DEF RtspStep, fileVars, transferVars, serverVars, commandVars
<1>4. CASE ServerSend /\ Server
  BY <1>4 DEF ServerSend, Server, nodeVars, fileVars, transferVars, serverVars
<1>5. CASE ReceiveFails
  BY <1>5 DEF ReceiveFails, fileVars, transferVars, serverVars, commandVars
<1>6. QED BY <1>1, <1>2, <1>3, <1>4, <1>5 DEF Others

(* The steps of the connection.                                              *)
LEMMA Steps ==
  ASSUME [ConnNext]_connVars
  PROVE  \/ UploadStep
         \/ Detect
         \/ (ServerClose /\ Server)
         \/ Others
         \/ UNCHANGED connVars
<1>1. Server => ServerSend \/ ServerClose
  BY DEF Server
<1>2. QED
  BY <1>1 DEF ConnNext, Others

(* Every step keeps the invariant of the upload.                             *)
LEMMA FileInvStep == ASSUME FileInv, [ConnNext]_connVars PROVE FileInv'
<1>1. CASE UploadStep
  BY <1>1, UploadKeeps
<1>2. CASE Detect
  BY <1>2 DEF Detect, FileInv, Heading, Reading, Stages, StartUp, commandVars, serverVars
<1>3. CASE ServerClose /\ Server
  BY <1>3 DEF ServerClose, Server, nodeVars, transferVars, serverVars, FileInv, Heading, Reading
<1>4. CASE Others
  BY <1>4, OthersKeep, FileInvStutter
<1>5. CASE UNCHANGED connVars
  <2>1. UNCHANGED fileVars
    BY <1>5 DEF connVars, nodeVars, commandVars, transferVars, serverVars, fileVars
  <2>2. QED BY <2>1, FileInvStutter
<1>6. QED
  BY <1>1, <1>2, <1>3, <1>4, <1>5, Steps

(* FileInv holds throughout.                                                 *)
THEOREM FileInvariant == ConnSpec => []FileInv
<1>1. FileInv /\ [ConnNext]_connVars => FileInv'
  BY FileInvStep
<1>2. QED BY FileInvInit, <1>1, PTL DEF ConnSpec

-----------------------------------------------------------------------------
(* Every step of the connection is a step of the upload or changes nothing   *)
(* that the server has of a file.                                            *)
LEMMA UploadSimulated ==
  ASSUME FileInv, [ConnNext]_connVars
  PROVE  [ServerFile!Announce \/ ServerFile!Piece]_<<announced, arrived>>
<1>1. CASE SendHead
  <2>1. disk \in FileSizes /\ ~Reading
    BY <1>1 DEF SendHead, FileInv, Heading, Reading, At, Pic
  <2>2. CASE open
    BY <1>1, <2>1, <2>2 DEF SendHead, FileInv, ServerFile!Announce
  <2>3. CASE ~open
    BY <1>1, <2>3 DEF SendHead
  <2>4. QED BY <2>2, <2>3
<1>2. CASE SendData
  <2>1. CASE open
    <3>1. arrived = offset /\ announced = entire_size /\ offset = sended /\ announced' = announced
      BY <1>2, <2>1, Round DEF FileInv, SendData
    <3>2. arrived' = arrived + in_data_size
      BY <1>2, <2>1, <3>1 DEF SendData
    <3>3. QED BY <1>2, <3>1, <3>2, Round DEF ServerFile!Piece
  <2>2. CASE ~open
    BY <1>2, <2>2 DEF SendData
  <2>3. QED BY <2>1, <2>2
<1>3. CASE login_camera_id \/ send_MAC \/ CaptureImage \/ Open \/ OpenFails \/ Complete
  BY <1>3 DEF login_camera_id, send_MAC, CaptureImage, Open, OpenFails, Complete, serverVars
<1>4. CASE send_Event \/ VideoEncode \/ Detect
  BY <1>4 DEF send_Event, VideoEncode, Detect, serverVars
<1>5. CASE Others
  BY <1>5, OthersKeep DEF fileVars
<1>6. CASE ServerClose /\ Server
  BY <1>6 DEF Server, nodeVars, serverVars
<1>7. CASE UNCHANGED connVars
  BY <1>7 DEF connVars, nodeVars, serverVars
<1>8. QED
  BY <1>1, <1>2, <1>3, <1>4, <1>5, <1>6, <1>7, Steps DEF UploadStep

(* What the server makes of the packets of files is an upload, for files of  *)
(* any size, packets of any size and any number of sessions and commands     *)
(* in between.                                                               *)
THEOREM UploadImplemented == ConnSpec => ImplementsUpload
<1>1. ConnInit => ServerFile!UploadInit
  BY DEF ConnInit, ServerFile!UploadInit
<1>2. FileInv /\ [ConnNext]_connVars
        => [ServerFile!Announce \/ ServerFile!Piece]_<<announced, arrived>>
  BY UploadSimulated
<1>3. QED
  BY <1>1, <1>2, FileInvariant, PTL DEF ConnSpec, ImplementsUpload, ServerFile!UploadSpec

-----------------------------------------------------------------------------
(* The threads that send and the stream manager leave the commands alone.    *)
LEMMA CommandsAlone ==
  ASSUME \/ UploadStep \/ Detect \/ StreamStep \/ ReceiveFails \/ UNCHANGED connVars
         \/ \E s \in Sessions : RtspStep(s)
  PROVE  UNCHANGED commandVars
<1>1. CASE UploadStep
  BY <1>1 DEF UploadStep, login_camera_id, send_MAC, CaptureImage, Open, OpenFails, SendHead,
              SendData, Complete, send_Event, VideoEncode
<1>2. CASE Detect \/ StreamStep
  BY <1>2 DEF Detect, StreamStep, StreamRaise, StreamBegin, StreamEnd, StreamUnlock
<1>3. CASE \E s \in Sessions : RtspStep(s)
  BY <1>3 DEF RtspStep
<1>4. CASE ReceiveFails \/ UNCHANGED connVars
  BY <1>4 DEF ReceiveFails, connVars
<1>5. QED BY <1>1, <1>2, <1>3, <1>4

(* Only the server and the receiving thread touch the packets under way.     *)
LEMMA CommandsInvStep == ASSUME CommandsInv, [ConnNext]_connVars PROVE CommandsInv'
<1>1. CASE ParsingMessage
  <2>1. CASE \E n \in 1 .. Len(inbound) : Receive(n, flag_stream)
    BY <2>1, ReceiveKeeps
  <2>2. CASE ReceiveEnd
    BY <2>2, CommandsStutter DEF ReceiveEnd, commandVars, CommandsInv, CommandsTypeOK
  <2>3. QED BY <1>1, <2>1, <2>2 DEF ParsingMessage
<1>2. CASE ServerSend /\ Server
  BY <1>2, SendKeeps
<1>3. CASE ServerClose /\ Server
  BY <1>3, CommandsStutter DEF ServerClose
<1>4. CASE UNCHANGED commandVars
  BY <1>4, CommandsStutter DEF commandVars, CommandsInv, CommandsTypeOK
<1>5. QED
  BY <1>1, <1>2, <1>3, <1>4, Steps, CommandsAlone DEF Others

(* CommandsInv holds throughout.                                             *)
THEOREM CommandsInvariant == ConnSpec => []CommandsInv
<1>1. ConnInit => CommandsInv
  BY CommandsInvInit DEF ConnInit
<1>2. CommandsInv /\ [ConnNext]_connVars => CommandsInv'
  BY CommandsInvStep
<1>3. QED BY <1>1, <1>2, PTL DEF ConnSpec

(* As long as there is something to receive, a command is executed at most   *)
(* once and in the order in which the server sent it, however recv cuts the  *)
(* stream; and without a packet that is cut it comes with its own content,   *)
(* even if recv takes several packets for one.                               *)
THEOREM CommandsExecuted == ConnSpec => []ExecutedAsSent
<1>1. CommandsInv => ExecutedAsSent
  BY DEF CommandsInv, ExecutedAsSent
<1>2. QED BY <1>1, CommandsInvariant, PTL

-----------------------------------------------------------------------------
(* The URL in the packet, and the URLs that were sent, are of threads that   *)
(* have created their server and will not do so again; a thread that is to   *)
(* send finds its own, if no other one was about to.                         *)
Running(port) == \E s \in Sessions : rtsp[s].pc \in {"send", "serve"} /\ rtsp[s].port = port

UrlInv ==
  /\ rtsp \in [Sessions -> [pc : {"none", "create", "bump", "url", "send", "serve"}, port : Nat]]
  /\ DOMAIN urls = Sessions /\ _port \in Nat
  /\ \A s \in Sessions : urls[s] # NoPort => Running(urls[s])
  /\ send_stream_addr # NoPort => Running(send_stream_addr)
  /\ ~overlap =>
       \A s \in Sessions :
         /\ rtsp[s].pc = "send" => send_stream_addr = rtsp[s].port
         /\ rtsp[s].pc # "serve" => urls[s] = NoPort
         /\ urls[s] # NoPort => urls[s] = rtsp[s].port

(* No session has an address yet.                                            *)
LEMMA UrlInvInit == ConnInit => UrlInv
BY ConnectionAssumption DEF ConnInit, UrlInv, NoPort

(* The invariant of the addresses is about the variables of the RTSP threads. *)
LEMMA UrlInvStutter == ASSUME UrlInv, UNCHANGED rtspVars PROVE UrlInv'
BY DEF UrlInv, Running, rtspVars

(* The stream manager starts the next session with nothing filled in.        *)
LEMMA StreamUrl == ASSUME UrlInv, StreamBegin PROVE UrlInv'
<1>1. PICK s \in Sessions : rtsp[s].pc = "none" /\ rtsp' = [rtsp EXCEPT ![s].pc = "create"]
  BY DEF StreamBegin
<1>2. UNCHANGED <<_port, send_stream_addr, urls, overlap>>
  BY DEF StreamBegin
<1>3. \A port : Running(port) => Running(port)'
  BY <1>1 DEF UrlInv, Running
<1>4. QED
  BY <1>1, <1>2, <1>3 DEF UrlInv

(* A server is created on a port of its own, or the port is tried next.      *)
LEMMA CreateUrl ==
  ASSUME UrlInv, NEW s \in Sessions, CreateServer(s) \/ CreateFails(s) \/ BumpPort(s)
  PROVE  UrlInv'
<1>1. /\ rtsp[s].pc \in {"create", "bump"} /\ UNCHANGED <<send_stream_addr, urls, overlap>>
      /\ \E r \in [pc : {"create", "bump", "url"}, port : Nat] : rtsp' = [rtsp EXCEPT ![s] = r]
  BY DEF CreateServer, CreateFails, BumpPort, UrlInv
<1>2. _port' \in Nat
  <2>1. CASE BumpPort(s)
    <3>1. _port + 1 \in Nat /\ MaxSessions + 1 \in Nat
      BY ConnectionAssumption DEF UrlInv
    <3>2. Min({_port + 1, MaxSessions + 1}) \in Nat
      BY <3>1 DEF Min
    <3>3. QED BY <2>1, <3>2 DEF BumpPort
  <2>2. CASE CreateServer(s) \/ CreateFails(s)
    BY <2>2 DEF CreateServer, CreateFails, UrlInv
  <2>3. QED BY <2>1, <2>2
<1>3. \A port : Running(port) => Running(port)'
  BY <1>1 DEF UrlInv, Running
<1>4. QED
  BY <1>1, <1>2, <1>3 DEF UrlInv

(* The address is made of the port of the session that fills it in.          *)
LEMMA FillUrlKeeps == ASSUME UrlInv, NEW s \in Sessions, FillUrl(s) PROVE UrlInv'
<1>1. /\ rtsp[s].pc = "url" /\ rtsp' = [rtsp EXCEPT ![s].pc = "send"]
      /\ send_stream_addr' = rtsp[s].port /\ UNCHANGED <<_port, urls>>
      /\ overlap' = (overlap \/ \E t \in Sessions : rtsp[t].pc = "send")
  BY DEF FillUrl
<1>2. \A port : Running(port) => Running(port)'
  BY <1>1 DEF UrlInv, Running
<1>3. Running(send_stream_addr)'
  BY <1>1 DEF UrlInv, Running
<1>4. rtsp' \in [Sessions -> [pc : {"none", "create", "bump", "url", "send", "serve"}, port : Nat]]
  BY <1>1 DEF UrlInv
<1>5. ~overlap' =>
        \A t \in Sessions :
          /\ rtsp'[t].pc = "send" => send_stream_addr' = rtsp'[t].port
          /\ rtsp'[t].pc # "serve" => urls'[t] = NoPort
          /\ urls'[t] # NoPort => urls'[t] = rtsp'[t].port
  BY <1>1 DEF UrlInv
<1>6. QED
  BY <1>1, <1>2, <1>3, <1>4, <1>5 DEF UrlInv

(* What is sent is what the session has filled in last.                      *)
LEMMA SendUrlKeeps == ASSUME UrlInv, NEW s \in Sessions, SendUrl(s) PROVE UrlInv'
<1>1. /\ rtsp[s].pc = "send" /\ rtsp' = [rtsp EXCEPT ![s].pc = "serve"]
      /\ UNCHANGED <<_port, send_stream_addr, overlap>>
      /\ urls' = urls \/ urls' = [urls EXCEPT ![s] = send_stream_addr]
  BY DEF SendUrl
<1>2. \A port : Running(port) => Running(port)'
  BY <1>1 DEF UrlInv, Running
<1>3. rtsp' \in [Sessions -> [pc : {"none", "create", "bump", "url", "send", "serve"}, port : Nat]]
  BY <1>1 DEF UrlInv
<1>4. DOMAIN urls' = Sessions
  BY <1>1 DEF UrlInv
<1>5. \A t \in Sessions : urls'[t] # NoPort => Running(urls'[t])
  BY <1>1 DEF UrlInv
<1>6. ~overlap' =>
        \A t \in Sessions :
          /\ rtsp'[t].pc = "send" => send_stream_addr' = rtsp'[t].port
          /\ rtsp'[t].pc # "serve" => urls'[t] = NoPort
          /\ urls'[t] # NoPort => urls'[t] = rtsp'[t].port
  BY <1>1 DEF UrlInv
<1>7. QED
  BY <1>1, <1>2, <1>3, <1>4, <1>5, <1>6 DEF UrlInv

(* Every step keeps the invariant of the addresses.                          *)
LEMMA UrlInvStep == ASSUME UrlInv, [ConnNext]_connVars PROVE UrlInv'
<1>1. CASE \E s \in Sessions : RtspStep(s)
  BY <1>1, CreateUrl, FillUrlKeeps, SendUrlKeeps DEF RtspStep
<1>2. CASE StreamBegin
  BY <1>2, StreamUrl
<1>3. CASE StreamRaise \/ StreamEnd \/ StreamUnlock
  BY <1>3, UrlInvStutter DEF StreamRaise, StreamEnd, StreamUnlock
<1>4. CASE UploadStep
  BY <1>4, UrlInvStutter DEF UploadStep, login_camera_id, send_MAC, CaptureImage, Open, OpenFails,
     SendHead, SendData, Complete, send_Event, VideoEncode
<1>5. CASE Detect
  BY <1>5, UrlInvStutter DEF Detect
<1>6. CASE ParsingMessage
  <2>1. Execute(pkg_recv')
    BY <1>6 DEF ParsingMessage
  <2>2. UNCHANGED rtspVars
    BY <2>1 DEF Execute
  <2>3. QED BY <2>2, UrlInvStutter
<1>7. CASE Server
  BY <1>7, UrlInvStutter DEF Server, nodeVars
<1>8. CASE ReceiveFails \/ UNCHANGED connVars
  BY <1>8, UrlInvStutter DEF ReceiveFails, connVars, nodeVars
<1>9. QED
  BY <1>1, <1>2, <1>3, <1>4, <1>5, <1>6, <1>7, <1>8, Steps DEF Others, StreamStep

(* The server is sent URLs of servers that run, and the own one of each      *)
(* session unless two threads met between writing the URL to the packet and  *)
(* sending it, for any number of sessions.                                   *)
THEOREM UrlsOfSessions == ConnSpec => []UrlOfOwnSession
<1>1. UrlInv /\ [ConnNext]_connVars => UrlInv'
  BY UrlInvStep
<1>2. UrlInv => UrlOfOwnSession
  BY DEF UrlInv, Running, UrlOfOwnSession, Ports
<1>3. QED BY UrlInvInit, <1>1, <1>2, PTL DEF ConnSpec

-----------------------------------------------------------------------------
(* As long as the server waits for what it sent to be read, at most one      *)
(* packet waits in the socket.                                               *)
PacedInv ==
  /\ paced => Len(inbound) <= 2
  /\ PacedCommandsKept

(* What Append does to any sequence.                                         *)
LEMMA Appended ==
  ASSUME NEW S, NEW q \in Seq(S), NEW x
  PROVE  /\ DOMAIN Append(q, x) = 1 .. Len(q) + 1
         /\ \A k \in 1 .. Len(q) : Append(q, x)[k] = q[k]
         /\ Append(q, x)[Len(q) + 1] = x
OBVIOUS

(* The server sends into an empty socket.                                    *)
LEMMA SendPaced == ASSUME CommandsInv, PacedInv, ServerSend PROVE PacedInv'
<1>0. CommandsTypeOK /\ Len(sent) \in Nat /\ Len(inbound) \in Nat
  BY History DEF CommandsInv
<1> DEFINE p == Len(sent) + 1
           pair == <<[packet |-> p, part |-> "head"], [packet |-> p, part |-> "rest"]>>
<1>1. PICK kind \in Kinds : sent' = Append(sent, kind)
  BY DEF ServerSend
<1>2. /\ sent \in Seq(Kinds) /\ DOMAIN sent = 1 .. Len(sent)
      /\ Len(sent') = p /\ DOMAIN sent' = 1 .. p
      /\ \A i \in 1 .. Len(sent) : sent'[i] = sent[i]
  <2>1. sent \in Seq(Kinds)
    BY <1>0 DEF CommandsTypeOK
  <2> QED
    BY <1>1, <2>1, AppendProperties
<1>3. inbound' = inbound \o pair
  BY <1>2 DEF ServerSend
<1>4. pair \in Seq(Unit) /\ Len(pair) = 2 /\ pair[1].packet = p /\ inbound \in Seq(Unit)
  <2>1. p \in 1 .. MaxPackets
    BY <1>0, MaxPacketsAssumption DEF ServerSend
  <2> QED
    BY <1>0, <2>1 DEF Unit, CommandsTypeOK
<1> HIDE DEF pair
<1>5. /\ Len(inbound') = Len(inbound) + 2 /\ DOMAIN inbound' = 1 .. Len(inbound) + 2
      /\ DOMAIN inbound = 1 .. Len(inbound)
      /\ \A i \in 1 .. Len(inbound) : inbound'[i] = inbound[i]
      /\ inbound'[Len(inbound) + 1].packet = p
  <2>1. inbound \o pair \in Seq(Unit) /\ Len(inbound \o pair) = Len(inbound) + 2
        /\ \A i \in 1 .. Len(inbound) + 2 :
             (inbound \o pair)[i] = IF i <= Len(inbound) THEN inbound[i] ELSE pair[i - Len(inbound)]
    <3>1. /\ inbound \o pair \in Seq(Unit) /\ Len(inbound \o pair) = Len(inbound) + Len(pair)
          /\ \A i \in 1 .. Len(inbound) + Len(pair) :
               (inbound \o pair)[i] = IF i <= Len(inbound) THEN inbound[i] ELSE pair[i - Len(inbound)]
      BY <1>4, ConcatProperties
    <3> QED
      BY <1>4, <3>1
  <2>2. DOMAIN inbound = 1 .. Len(inbound) /\ DOMAIN (inbound \o pair) = 1 .. Len(inbound) + 2
    BY <1>4, <2>1, LenProperties
  <2>3. \A i \in 1 .. Len(inbound) : i \in 1 .. Len(inbound) + 2 /\ i <= Len(inbound)
    BY <1>0
  <2>4. (inbound \o pair)[Len(inbound) + 1] = pair[1]
    BY <1>0, <2>1
  <2> QED
    BY <1>3, <1>4, <2>1, <2>2, <2>3, <2>4
<1>6. paced' => Len(inbound') <= 2
  <2>1. paced' => inbound = <<>>
    BY DEF ServerSend
  <2> QED
    BY <1>5, <2>1
<1>7. PacedCommandsKept'
  <2> SUFFICES ASSUME paced', ~cut', NEW q \in DOMAIN sent', sent'[q] = "RECV_MOTOR"
               PROVE  \/ \E i \in DOMAIN inbound' : inbound'[i].packet = q
                      \/ \E i \in DOMAIN dispatched' : dispatched'[i].head = q
    BY DEF PacedCommandsKept
  <2>1. CASE q = p
    BY <1>0, <1>5, <2>1
  <2>2. CASE q # p
    <3>1. q \in DOMAIN sent /\ sent[q] = "RECV_MOTOR"
      BY <1>0, <1>2, <2>2
    <3>2. paced /\ ~cut /\ dispatched' = dispatched
      BY DEF ServerSend
    <3> QED
      BY <1>0, <1>5, <3>1, <3>2 DEF PacedInv, PacedCommandsKept
  <2> QED
    BY <2>1, <2>2
<1> QED
  BY <1>6, <1>7 DEF PacedInv

(* recv takes the one packet as a whole, and it is executed.                 *)
LEMMA ReceivePaced ==
  ASSUME CommandsInv, PacedInv, NEW n, NEW f, Receive(n, f)
  PROVE  PacedInv'
<1>0. CommandsTypeOK /\ n \in 1 .. Len(inbound) /\ n \in Nat /\ Len(inbound) \in Nat
      /\ Len(dispatched) \in Nat /\ DOMAIN dispatched = 1 .. Len(dispatched)
  BY History DEF CommandsInv, Receive
<1>1. /\ UNCHANGED <<sent, paced>> /\ cut' = (cut \/ inbound[n].part = "head")
      /\ Len(inbound') = Len(inbound) - n
      /\ pkg_recv'[1] = inbound[1]
  BY <1>0, RemainingIs, OverwrittenIs DEF Receive
<1>2. paced' => Len(inbound') <= 2
  BY <1>0, <1>1 DEF PacedInv
<1>3. PacedCommandsKept'
  <2> SUFFICES ASSUME paced, ~cut', NEW q \in DOMAIN sent, sent[q] = "RECV_MOTOR"
               PROVE  \/ \E i \in DOMAIN inbound' : inbound'[i].packet = q
                      \/ \E i \in DOMAIN dispatched' : dispatched'[i].head = q
    BY <1>1 DEF PacedCommandsKept
  <2>1. ~cut /\ inbound[n].part # "head" /\ Len(inbound) <= 2
    BY <1>1 DEF PacedInv
  <2>2. WholePackets
    BY <2>1 DEF CommandsInv
  <2>3. inbound[1].part = "head"
    BY <1>0, <2>2 DEF WholePackets
  <2>4. n = 2 /\ Len(inbound) = 2
    <3>1. n # 1
      BY <2>1, <2>3
    <3>2. Len(inbound) <= 2
      BY <2>1
    <3>3. n \in Int /\ Len(inbound) \in Int /\ 1 <= n /\ n <= Len(inbound)
      BY <1>0
    <3>4. \A i, k \in Int : 1 <= i /\ i # 1 /\ i <= k /\ k <= 2 => i = 2 /\ k = 2
      OBVIOUS
    <3> QED
      BY <3>1, <3>2, <3>3, <3>4
  <2>5. \A i \in 1 .. Len(inbound) : inbound[i].packet = inbound[1].packet
    <3>1. \A i \in 1 .. Len(inbound) :
            inbound[i].part = "head" => inbound[i + 1].packet = inbound[i].packet
      BY <2>2 DEF WholePackets
    <3>2. 1 \in 1 .. Len(inbound)
      BY <1>0
    <3>3. inbound[1 + 1].packet = inbound[1].packet
      BY <2>3, <3>1, <3>2
    <3>4. \A i \in 1 .. Len(inbound) : i = 1 \/ i = 1 + 1
      BY <2>4
    <3> QED
      BY <3>3, <3>4
  <2> DEFINE new == [head |-> pkg_recv'[1].packet, body |-> pkg_recv'[2].packet]
  <2>6. /\ dispatched' = dispatched \/ dispatched' = Append(dispatched, new)
        /\ Accepted(pkg_recv', f) => dispatched' = Append(dispatched, new)
    BY DEF Receive
  <2>7. new.head = inbound[1].packet
    BY <1>1
  <2>8. /\ \A k \in DOMAIN dispatched : k \in DOMAIN dispatched' /\ dispatched'[k] = dispatched[k]
        /\ dispatched' = Append(dispatched, new) =>
             Len(dispatched) + 1 \in DOMAIN dispatched' /\ dispatched'[Len(dispatched) + 1] = new
    <3> HIDE DEF new
    <3>1. /\ DOMAIN Append(dispatched, new) = 1 .. Len(dispatched) + 1
          /\ \A k \in 1 .. Len(dispatched) : Append(dispatched, new)[k] = dispatched[k]
          /\ Append(dispatched, new)[Len(dispatched) + 1] = new
      BY <1>0, Appended DEF CommandsTypeOK
    <3> QED
      BY <1>0, <2>6, <3>1
  <2>9. CASE \E i \in DOMAIN dispatched : dispatched[i].head = q
    BY <2>8, <2>9
  <2>10. CASE \E i \in DOMAIN inbound : inbound[i].packet = q
    <3>1. inbound[1].packet = q
      <4>1. DOMAIN inbound = 1 .. Len(inbound)
        BY <1>0, LenProperties DEF CommandsTypeOK
      <4> QED
        BY <2>5, <2>10, <4>1
    <3>2. Accepted(pkg_recv', f)
      BY <1>1, <2>3, <3>1 DEF Accepted, Command, Receive
    <3> QED
      BY <2>6, <2>7, <2>8, <3>1, <3>2
  <2> QED
    BY <2>1, <2>9, <2>10 DEF PacedInv, PacedCommandsKept
<1> QED
  BY <1>2, <1>3 DEF PacedInv

(* PacedInv speaks of nothing but the packets and what was executed.         *)
LEMMA PacedStutter ==
  ASSUME PacedInv, UNCHANGED <<sent, inbound, dispatched, cut, paced>> PROVE PacedInv'
BY DEF PacedInv, PacedCommandsKept

(* Every step keeps the invariant of the paced commands.                     *)
LEMMA PacedInvStep ==
  ASSUME CommandsInv, PacedInv, [ConnNext]_connVars PROVE PacedInv'
<1>1. CASE ParsingMessage
  <2>1. CASE \E n \in 1 .. Len(inbound) : Receive(n, flag_stream)
    BY <2>1, ReceivePaced
  <2>2. CASE ReceiveEnd
    BY <2>2, PacedStutter DEF ReceiveEnd, commandVars
  <2>3. QED BY <1>1, <2>1, <2>2 DEF ParsingMessage
<1>2. CASE ServerSend /\ Server
  BY <1>2, SendPaced
<1>3. CASE ServerClose /\ Server
  BY <1>3, PacedStutter DEF ServerClose
<1>4. CASE UNCHANGED commandVars
  BY <1>4, PacedStutter DEF commandVars
<1>5. QED
  BY <1>1, <1>2, <1>3, <1>4, Steps, CommandsAlone DEF Others

(* A server that waits until its packets are read sees every command to the  *)
(* motors executed, unless a packet is cut: for any number of packets.       *)
THEOREM PacedKept == ConnSpec => []PacedCommandsKept
<1>1. ConnInit => PacedInv
  BY DEF ConnInit, CommandsInit, PacedInv, PacedCommandsKept
<1>2. CommandsInv /\ PacedInv /\ [ConnNext]_connVars => PacedInv'
  BY PacedInvStep
<1>3. PacedInv => PacedCommandsKept
  BY DEF PacedInv
<1>4. QED BY <1>1, <1>2, <1>3, CommandsInvariant, PTL DEF ConnSpec

(* The transfer: an event is reported only if one was still allowed, and a   *)
(* file is only on its way for an event whose file has not arrived.          *)
Uploading == {"record", "open", "head", "data"}

TransferOK ==
  /\ alive \in BOOLEAN /\ up \in Stages
  /\ events \in 0 .. MaxEvents /\ delivered \in 0 .. events
  /\ disk \in FileSizes \cup {0} /\ entire_size \in FileSizes \cup {0}
  /\ sended \in 0 .. entire_size /\ offset \in 0 .. entire_size
  /\ descriptors \in 0 .. MaxFds
  /\ up = "event" => events < MaxEvents
  /\ up \in Uploading => delivered < events

(* The mutex of the event manager: the event thread holds it while an event  *)
(* is handled, the stream manager while it streams, and nobody before the    *)
(* threads are started.                                                      *)
TurnsOK ==
  /\ mutex_EventManager \in {"free", "event", "stream"}
  /\ flag_stream \in BOOLEAN /\ is_end \in BOOLEAN
  /\ stream \in {"wait", "begin", "stream", "unlock"}
  /\ mutex_EventManager = "event" <=> up \in {"event"} \cup Uploading
  /\ up \in StartUp => mutex_EventManager = "free"
  /\ stream # "wait" => mutex_EventManager = "stream"
  /\ flag_stream = TRUE <=> stream \in {"begin", "stream"}

(* The sessions: those that are requested, about to begin and begun are      *)
(* together no more than the bound.                                          *)
BegunSessions == {s \in Sessions : rtsp[s].pc # "none"}

SessionsOK ==
  /\ requests \in Nat
  /\ rtsp \in [Sessions -> [pc : {"none", "create", "bump", "url", "send", "serve"},
                            port : 0 .. NoPort]]
  /\ _port \in 0 .. MaxSessions + 1
  /\ send_stream_addr \in 0 .. NoPort
  /\ urls \in [Sessions -> 0 .. NoPort]
  /\ requests + Cardinality(BegunSessions) + (IF stream = "begin" THEN 1 ELSE 0) <= MaxSessions

-----------------------------------------------------------------------------
(* At the start nothing is under way.                                        *)
LEMMA ConnInvInit == ConnInit => TransferOK /\ TurnsOK /\ SessionsOK
<1> SUFFICES ASSUME ConnInit PROVE TransferOK /\ TurnsOK /\ SessionsOK
  OBVIOUS
<1>1. TransferOK
  BY ConnectionAssumption DEF ConnInit, TransferOK, Stages, StartUp, Uploading
<1>2. TurnsOK
  BY DEF ConnInit, TurnsOK, StartUp, Uploading
<1>3. BegunSessions = {}
  BY DEF ConnInit, BegunSessions
<1>4. SessionsOK
  BY <1>3, FS_EmptySet, ConnectionAssumption DEF ConnInit, SessionsOK, NoPort
<1> QED
  BY <1>1, <1>2, <1>4

(* A packet that the server does not get may end the node.                   *)
LEMMA SendEnds == ASSUME Send PROVE alive' \in BOOLEAN
BY DEF Send

(* There are no more descriptors than the bound.                             *)
LEMMA Leaked == ASSUME TransferOK, Leak PROVE descriptors' \in 0 .. MaxFds
BY ConnectionAssumption DEF TransferOK, Leak

(* The steps of one file, of the start-up or of an event.                    *)
LEMMA FileTransfer ==
  ASSUME FileInv, TransferOK, Open \/ OpenFails \/ SendHead \/ SendData \/ Complete
  PROVE  TransferOK'
<1>1. CASE Open
  BY <1>1, Leaked DEF Open, At, Goto, Pic, TransferOK, FileInv, Stages, StartUp, Uploading,
              serverVars
<1>2. CASE OpenFails
  BY <1>2 DEF OpenFails, Finish, TransferOK, FileInv, Stages, StartUp, Uploading, serverVars
<1>3. CASE SendHead
  <2>1. offset = 0 /\ sended = 0
    BY <1>3 DEF SendHead, At, Pic, FileInv, Heading, Reading
  <2>2. /\ alive' \in BOOLEAN /\ entire_size' = disk
        /\ UNCHANGED <<events, disk, sended, offset, descriptors, delivered>>
    BY <1>3, SendEnds DEF SendHead
  <2>3. \/ up = "head" /\ up' = "data"
        \/ up = "headPic" /\ up' = "dataPic"
    BY <1>3 DEF SendHead, At, Goto, Pic, StartUp
  <2>4. 0 \in 0 .. disk
    BY Sizes DEF FileInv
  <2> QED
    BY <2>1, <2>2, <2>3, <2>4 DEF TransferOK, Stages, StartUp, Uploading
<1>4. CASE SendData
  <2>1. /\ alive' \in BOOLEAN
        /\ UNCHANGED <<up, events, disk, entire_size, descriptors, delivered>>
    BY <1>4, SendEnds DEF SendData
  <2>2. sended' \in 0 .. entire_size /\ offset' \in 0 .. entire_size
    BY <1>4, Round DEF FileInv
  <2> QED
    BY <2>1, <2>2 DEF TransferOK
<1>5. CASE Complete
  <2>1. /\ UNCHANGED <<alive, events, disk, entire_size, offset, descriptors>>
        /\ up' = "wait" /\ sended' = 0 /\ up \in {"data", "dataPic"}
        /\ delivered' = delivered \/ (up = "data" /\ delivered' = delivered + 1)
    BY <1>5 DEF Complete, Finish, At, Pic
  <2>2. delivered' \in 0 .. events
    BY <2>1, ConnectionAssumption DEF TransferOK, Uploading
  <2>3. 0 \in 0 .. entire_size
    BY DEF FileInv
  <2> QED
    BY <2>1, <2>2, <2>3 DEF TransferOK, Stages, StartUp, Uploading
<1> QED
  BY <1>1, <1>2, <1>3, <1>4, <1>5

(* The other steps of the start-up and of the event thread.                  *)
LEMMA EventTransfer ==
  ASSUME FileInv, TransferOK,
         login_camera_id \/ send_MAC \/ CaptureImage \/ send_Event \/ VideoEncode \/ Detect
  PROVE  TransferOK'
<1>1. CASE login_camera_id
  BY <1>1 DEF login_camera_id, TransferOK, Stages, StartUp, Uploading, serverVars
<1>2. CASE send_MAC
  BY <1>2, SendEnds, Leaked DEF send_MAC, TransferOK, Stages, StartUp, Uploading, serverVars
<1>3. CASE CaptureImage
  BY <1>3, Sizes DEF CaptureImage, TransferOK, Stages, StartUp, Uploading, serverVars
<1>4. CASE send_Event
  <2>1. /\ alive' \in BOOLEAN /\ up = "event" /\ up' = "record" /\ events' = events + 1
        /\ UNCHANGED <<disk, sended, entire_size, offset, descriptors, delivered>>
    BY <1>4, SendEnds DEF send_Event, serverVars
  <2>2. events' \in 0 .. MaxEvents /\ delivered \in 0 .. events' /\ delivered < events'
    BY <2>1, ConnectionAssumption DEF TransferOK
  <2> QED
    BY <2>1, <2>2 DEF TransferOK, Stages, StartUp, Uploading
<1>5. CASE VideoEncode
  BY <1>5, Sizes DEF VideoEncode, TransferOK, Stages, StartUp, Uploading, serverVars
<1>6. CASE Detect
  BY <1>6 DEF Detect, TransferOK, Stages, StartUp, Uploading, serverVars
<1> QED
  BY <1>1, <1>2, <1>3, <1>4, <1>5, <1>6

(* The invariant of the transfer speaks of these variables only.             *)
LEMMA TransferStutter ==
  ASSUME TransferOK,
         UNCHANGED <<up, events, disk, sended, entire_size, offset, delivered>>,
         alive' \in BOOLEAN, descriptors' \in 0 .. MaxFds
  PROVE  TransferOK'
BY DEF TransferOK

(* Every step keeps the invariant of the transfer.                           *)
LEMMA TransferStep ==
  ASSUME FileInv, TransferOK, [ConnNext]_connVars PROVE TransferOK'
<1>1. CASE UploadStep
  BY <1>1, FileTransfer, EventTransfer DEF UploadStep
<1>2. CASE Detect
  BY <1>2, EventTransfer
<1>3. CASE ParsingMessage
  <2>1. Execute(pkg_recv')
    BY <1>3 DEF ParsingMessage
  <2>2. UNCHANGED <<alive, transferVars, descriptors, serverVars>>
    BY <2>1 DEF Execute
  <2> QED
    BY <2>2, TransferStutter DEF transferVars, serverVars, TransferOK
<1>4. CASE StreamStep
  BY <1>4, TransferStutter
  DEF StreamStep, StreamRaise, StreamBegin, StreamEnd, StreamUnlock, transferVars, serverVars,
      TransferOK
<1>5. CASE \E s \in Sessions : RtspStep(s)
  <2>1. PICK s \in Sessions : RtspStep(s)
    BY <1>5
  <2>2. UNCHANGED <<transferVars, serverVars>>
    BY <2>1 DEF RtspStep
  <2>3. alive' \in BOOLEAN
    BY <2>1, SendEnds DEF RtspStep, TransferOK
  <2>4. descriptors' \in 0 .. MaxFds
    BY <2>1, Leaked DEF RtspStep, CreateServer, CreateFails, BumpPort, FillUrl, SendUrl, TransferOK
  <2> QED
    BY <2>2, <2>3, <2>4, TransferStutter DEF transferVars, serverVars
<1>6. CASE Server
  BY <1>6, TransferStutter DEF Server, nodeVars, transferVars, serverVars, TransferOK
<1>7. CASE ReceiveFails \/ UNCHANGED connVars
  BY <1>7, TransferStutter
  DEF ReceiveFails, connVars, nodeVars, transferVars, serverVars, TransferOK
<1> QED
  BY <1>1, <1>2, <1>3, <1>4, <1>5, <1>6, <1>7, Steps DEF Others

-----------------------------------------------------------------------------
(* The event thread has the mutex from an event to the end of its file.      *)
LEMMA EventTurns == ASSUME TurnsOK, UploadStep \/ Detect PROVE TurnsOK'
<1>0. UNCHANGED <<flag_stream, is_end, stream>>
  BY DEF UploadStep, Detect, login_camera_id, send_MAC, CaptureImage, Open, OpenFails, SendHead,
         SendData, Complete, send_Event, VideoEncode, streamVars
<1>1. CASE Detect
  BY <1>0, <1>1 DEF Detect, TurnsOK, StartUp, Uploading
<1>2. CASE OpenFails \/ Complete
  <2>1. /\ up \in StartUp \cup Uploading
        /\ up' = "wait" /\ mutex_EventManager' = "free"
    BY <1>2 DEF OpenFails, Complete, Finish, At, Pic, StartUp, Uploading
  <2>2. stream = "wait"
    BY <2>1 DEF TurnsOK
  <2> QED
    BY <1>0, <2>1, <2>2 DEF TurnsOK, StartUp, Uploading
<1>3. CASE \/ login_camera_id \/ send_MAC \/ CaptureImage
           \/ Open \/ SendHead \/ SendData \/ send_Event \/ VideoEncode
  <2>1. /\ mutex_EventManager' = mutex_EventManager
        /\ \/ up \in StartUp /\ up' \in StartUp
           \/ up \in {"event"} \cup Uploading /\ up' \in {"event"} \cup Uploading
    BY <1>3 DEF login_camera_id, send_MAC, CaptureImage, Open, SendHead, SendData, send_Event,
                VideoEncode, At, Goto, Pic, StartUp, Uploading
  <2>2. StartUp \cap ({"event"} \cup Uploading) = {}
    BY DEF StartUp, Uploading
  <2> QED
    BY <1>0, <2>1, <2>2 DEF TurnsOK
<1> QED
  BY <1>1, <1>2, <1>3 DEF UploadStep

(* The stream manager raises and lowers the flag while it has the mutex.     *)
LEMMA StreamTurns == ASSUME TurnsOK, StreamStep PROVE TurnsOK'
<1>0. up' = up /\ up \notin StartUp
  BY DEF StreamStep, Threads, StreamRaise, StreamBegin, StreamEnd, StreamUnlock, transferVars
<1>1. CASE StreamRaise
  BY <1>0, <1>1 DEF StreamRaise, TurnsOK
<1>2. CASE StreamBegin
  BY <1>0, <1>2 DEF StreamBegin, TurnsOK
<1>3. CASE StreamEnd
  BY <1>0, <1>3 DEF StreamEnd, TurnsOK
<1>4. CASE StreamUnlock
  BY <1>0, <1>4 DEF StreamUnlock, TurnsOK
<1> QED
  BY <1>1, <1>2, <1>3, <1>4 DEF StreamStep

(* Every step keeps the turns.                                               *)
LEMMA TurnsStep == ASSUME TurnsOK, [ConnNext]_connVars PROVE TurnsOK'
<1>1. CASE ParsingMessage
  <2>1. Execute(pkg_recv')
    BY <1>1 DEF ParsingMessage
  <2>2. UNCHANGED <<up, mutex_EventManager, flag_stream, stream>> /\ is_end' \in BOOLEAN
    BY <2>1 DEF Execute, transferVars, TurnsOK
  <2> QED
    BY <2>2 DEF TurnsOK
<1>2. CASE (\E s \in Sessions : RtspStep(s)) \/ Server \/ ReceiveFails \/ UNCHANGED connVars
  <2>1. UNCHANGED <<up, mutex_EventManager, flag_stream, is_end, stream>>
    BY <1>2 DEF RtspStep, Server, ReceiveFails, connVars, nodeVars, transferVars, streamVars
  <2> QED
    BY <2>1 DEF TurnsOK
<1> QED
  BY <1>1, <1>2, EventTurns, StreamTurns, Steps DEF Others

-----------------------------------------------------------------------------
(* The sessions that have begun are a finite set.                            *)
LEMMA FewSessions == IsFiniteSet(BegunSessions) /\ Cardinality(BegunSessions) \in Nat
<1>1. MaxSessions \in Nat
  BY ConnectionAssumption
<1>2. IsFiniteSet(1 .. MaxSessions)
  BY <1>1, FS_Interval
<1>3. IsFiniteSet(BegunSessions)
  BY <1>2, FS_Subset DEF BegunSessions, Sessions
<1> QED
  BY <1>3, FS_CardinalityType

(* The stream manager takes a request and begins its session.                *)
LEMMA StreamSessions == ASSUME SessionsOK, StreamStep PROVE SessionsOK'
<1>0. /\ UNCHANGED <<_port, send_stream_addr, urls>> /\ MaxSessions \in Nat
      /\ Cardinality(BegunSessions) \in Nat
  BY FewSessions, ConnectionAssumption
  DEF StreamStep, StreamRaise, StreamBegin, StreamEnd, StreamUnlock, rtspVars
<1>1. CASE StreamRaise
  <2>1. /\ stream = "wait" /\ stream' = "begin" /\ requests > 0 /\ requests' = requests - 1
        /\ rtsp' = rtsp /\ BegunSessions' = BegunSessions
    BY <1>1 DEF StreamRaise, rtspVars, BegunSessions
  <2> QED
    BY <1>0, <2>1 DEF SessionsOK
<1>2. CASE StreamBegin
  <2>1. PICK s \in Sessions : rtsp[s].pc = "none" /\ rtsp' = [rtsp EXCEPT ![s].pc = "create"]
    BY <1>2 DEF StreamBegin
  <2>2. /\ rtsp' \in [Sessions -> [pc : {"none", "create", "bump", "url", "send", "serve"},
                                   port : 0 .. NoPort]]
        /\ BegunSessions' = BegunSessions \cup {s} /\ s \notin BegunSessions
    BY <2>1 DEF SessionsOK, BegunSessions
  <2>3. Cardinality(BegunSessions') = Cardinality(BegunSessions) + 1
    BY <2>2, FewSessions, FS_AddElement
  <2>4. stream = "begin" /\ stream' = "stream" /\ requests' = requests
    BY <1>2 DEF StreamBegin
  <2> QED
    BY <1>0, <2>2, <2>3, <2>4 DEF SessionsOK
<1>3. CASE StreamEnd \/ StreamUnlock
  <2>1. /\ stream # "begin" /\ stream' # "begin" /\ requests' = requests
        /\ rtsp' = rtsp /\ BegunSessions' = BegunSessions
    BY <1>3 DEF StreamEnd, StreamUnlock, rtspVars, BegunSessions
  <2> QED
    BY <1>0, <2>1 DEF SessionsOK
<1> QED
  BY <1>1, <1>2, <1>3 DEF StreamStep

(* The thread of a session goes on with ports that there are.                *)
LEMMA RtspSessions ==
  ASSUME SessionsOK, NEW s \in Sessions, RtspStep(s) PROVE SessionsOK'
<1>1. UNCHANGED <<requests, stream>> /\ MaxSessions \in Nat
  BY ConnectionAssumption DEF RtspStep, streamVars
<1>2. \/ CreateServer(s) \/ CreateFails(s) \/ BumpPort(s) \/ FillUrl(s) \/ SendUrl(s)
  BY DEF RtspStep
<1>3. /\ rtsp[s].pc # "none"
      /\ \E r \in [pc : {"create", "bump", "url", "send", "serve"}, port : 0 .. NoPort] :
           rtsp' = [rtsp EXCEPT ![s] = r]
  <2>1. _port \in 0 .. NoPort
    BY <1>1 DEF SessionsOK, NoPort
  <2> QED
    BY <1>2, <2>1 DEF CreateServer, CreateFails, BumpPort, FillUrl, SendUrl, SessionsOK
<1>4. BegunSessions' = BegunSessions
  BY <1>3 DEF BegunSessions, SessionsOK
<1>5. /\ _port' \in 0 .. MaxSessions + 1
      /\ send_stream_addr' \in 0 .. NoPort /\ urls' \in [Sessions -> 0 .. NoPort]
  <2>1. CASE BumpPort(s)
    <3>1. _port + 1 \in Nat /\ MaxSessions + 1 \in Nat /\ _port + 1 >= 0
      BY <1>1 DEF SessionsOK
    <3>2. Min({_port + 1, MaxSessions + 1}) \in 0 .. MaxSessions + 1
      BY <3>1 DEF Min
    <3> QED
      BY <2>1, <3>2 DEF BumpPort, SessionsOK
  <2>2. CASE CreateServer(s) \/ CreateFails(s) \/ FillUrl(s) \/ SendUrl(s)
    BY <2>2 DEF CreateServer, CreateFails, FillUrl, SendUrl, SessionsOK
  <2> QED
    BY <1>2, <2>1, <2>2
<1>6. rtsp' \in [Sessions -> [pc : {"none", "create", "bump", "url", "send", "serve"},
                              port : 0 .. NoPort]]
  BY <1>3 DEF SessionsOK
<1> QED
  BY <1>1, <1>4, <1>5, <1>6 DEF SessionsOK

(* A request is taken as long as there may be another session.               *)
LEMMA ExecuteSessions == ASSUME SessionsOK, NEW buffer, Execute(buffer) PROVE SessionsOK'
<1> DEFINE begun == Cardinality(BegunSessions) + (IF stream = "begin" THEN 1 ELSE 0)
           fewer == Min({requests + 1, MaxSessions - begun})
<1>1. /\ UNCHANGED <<stream, rtsp, _port, send_stream_addr, urls>>
      /\ requests' = requests \/ requests' = fewer
  BY DEF Execute, rtspVars, BegunSessions
<1>2. /\ MaxSessions \in Nat /\ begun \in Nat /\ requests \in Nat
      /\ requests + begun <= MaxSessions
  <2>1. Cardinality(BegunSessions) \in Nat
    BY FewSessions
  <2> QED
    BY <2>1, ConnectionAssumption DEF SessionsOK
<1>3. fewer \in Nat /\ fewer + begun <= MaxSessions
  <2> HIDE DEF begun
  <2>1. MaxSessions - begun \in Nat /\ requests + 1 \in Nat
    BY <1>2
  <2>2. fewer \in Nat /\ fewer <= MaxSessions - begun
    BY <2>1 DEF Min
  <2> HIDE DEF fewer
  <2> QED
    BY <1>2, <2>2
<1>4. BegunSessions' = BegunSessions
  BY <1>1 DEF BegunSessions
<1>5. requests' \in Nat /\ requests' + begun <= MaxSessions
  BY <1>1, <1>2, <1>3
<1>6. (requests + Cardinality(BegunSessions) + (IF stream = "begin" THEN 1 ELSE 0) <= MaxSessions)'
  <2>1. \A r, c \in Nat, i \in {0, 1} : r + c + i = r + (c + i)
    OBVIOUS
  <2>2. requests' + Cardinality(BegunSessions) + (IF stream = "begin" THEN 1 ELSE 0)
          = requests' + begun
    BY <1>5, <2>1, FewSessions
  <2> QED
    BY <1>1, <1>4, <1>5, <2>2
<1> QED
  BY <1>1, <1>5, <1>6 DEF SessionsOK

(* Every step keeps the invariant of the sessions.                           *)
LEMMA SessionsStep == ASSUME SessionsOK, [ConnNext]_connVars PROVE SessionsOK'
<1>1. CASE ParsingMessage
  BY <1>1, ExecuteSessions DEF ParsingMessage
<1>2. CASE UploadStep \/ Detect \/ Server \/ ReceiveFails \/ UNCHANGED connVars
  <2>1. UNCHANGED <<requests, stream, rtsp, _port, send_stream_addr, urls>>
    BY <1>2 DEF UploadStep, Detect, Server, ReceiveFails, connVars, nodeVars, login_camera_id, send_MAC,
                CaptureImage, Open, OpenFails, SendHead, SendData, Complete, send_Event,
                VideoEncode, streamVars, rtspVars
  <2> QED
    BY <2>1 DEF SessionsOK, BegunSessions
<1> QED
  BY <1>1, <1>2, StreamSessions, RtspSessions, Steps DEF Others

-----------------------------------------------------------------------------
(* Whatever the number of packets, events and sessions: the counters of the  *)
(* one ClientSocket stay within the file that is sent, no event has two      *)
(* files, and an event and a session hold the mutex of the events in turns.  *)
THEOREM ConnectionTypeCorrect == ConnSpec => []ConnTypeOK
<1>1. ConnInit => TransferOK /\ TurnsOK /\ SessionsOK
  BY ConnInvInit
<1>2. /\ FileInv /\ TransferOK /\ TurnsOK /\ SessionsOK /\ [ConnNext]_connVars
      => TransferOK' /\ TurnsOK' /\ SessionsOK'
  BY TransferStep, TurnsStep, SessionsStep
<1>3. CommandsInv /\ TransferOK /\ TurnsOK /\ SessionsOK => ConnTypeOK
  <2> SUFFICES ASSUME CommandsInv, TransferOK, TurnsOK, SessionsOK PROVE ConnTypeOK
    OBVIOUS
  <2>1. requests \in 0 .. MaxSessions
    <3>1. Cardinality(BegunSessions) \in Nat /\ MaxSessions \in Nat
      BY FewSessions, ConnectionAssumption
    <3> QED
      BY <3>1 DEF SessionsOK
  <2>2. {send_stream_addr} \cup {urls[s] : s \in Sessions} \subseteq 0 .. NoPort
    BY DEF SessionsOK
  <2>3. /\ mutex_EventManager = "event" <=> up \in {"event", "record", "open", "head", "data"}
        /\ flag_stream => mutex_EventManager = "stream"
    BY DEF TurnsOK, Uploading
  <2> QED
    BY <2>1, <2>2, <2>3 DEF ConnTypeOK, CommandsInv, TransferOK, TurnsOK, SessionsOK, Stages
<1>4. ConnSpec => []FileInv /\ []CommandsInv
  BY FileInvariant, CommandsInvariant
<1> QED
  BY <1>1, <1>2, <1>3, <1>4, PTL DEF ConnSpec
=============================================================================
