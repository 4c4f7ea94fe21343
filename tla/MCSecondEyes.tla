---------------------------- MODULE MCSecondEyes ----------------------------
(* The threads of the node on small instances: the packets of the server    *)
(* are bounded by MaxPackets, everything else is finite by itself.          *)
EXTENDS SecondEyes

MCBodies == {"MOVE", "OWN", "OTHER"} \cup MotorCommands

(* What the memory of a damaged deque shows: any message of the node.        *)
MCRecycled ==
  {ServerMessage(STREAMMANAGER, "OWN"), ServerMessage(STREAMMANAGER, "OTHER"),
   ServerMessage(MOTORMANAGER, "MOVE")} \cup {MotorMessage(c) : c \in MotorCommands}
=============================================================================
