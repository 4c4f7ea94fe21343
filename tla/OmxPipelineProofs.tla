-------------------------- MODULE OmxPipelineProofs --------------------------
(***************************************************************************)
(* The call sequences of OpenMAX keep to the rules of the components,      *)
(* whatever the sizes of the frames, however long the components take and  *)
(* whether or not block_until_flushed waits.                               *)
(*                                                                         *)
(* A script is planned ahead: a View is the state in which the components  *)
(* will be once they have done what they were sent, Move says which calls  *)
(* are sound in a view and where they lead, and Leads that the rest of a   *)
(* script is sound.  The invariant relates the components to the view      *)
(* before or after the call at hand.                                       *)
(***************************************************************************)
EXTENDS OmxPipeline, SequenceTheorems, TLAPS

States == {None, "Loaded", "Idle", "Executing"}

(* busy: components with flushes that may be pending; leaving: components    *)
(* with a transition to Loaded pending; held: the encoder may have the       *)
(* buffer; capturing: ports that capture for certain.                        *)
View ==
  [state : [Handles -> States], busy : SUBSET Handles, leaving : SUBSET Handles,
   enabled : SUBSET Ports, populated : SUBSET Allocated, tunnelled : BOOLEAN, held : BOOLEAN,
   capturing : SUBSET {"71", "72"}, size : Sizes \cup {None},
   portdef : [port : {None, "70", "72"}, size : Sizes \cup {None}]]

(* MayEnter, in a view.                                                      *)
Enters(e, c, to) ==
  \/ /\ to = "Executing" /\ e.state[c] = "Idle"
     /\ PortsOf(c) \cap e.enabled \cap Allocated \subseteq e.populated
     /\ PortsOf(c) \cap e.enabled \cap Tunnelled # {} => e.tunnelled
  \/ /\ to = "Idle"
     /\ e.state[c] = "Executing" \/ (e.state[c] = "Loaded" /\ PortsOf(c) \cap e.enabled = {})
  \/ /\ to = "Loaded" /\ e.state[c] = "Idle"
     /\ PortsOf(c) \cap e.populated = {}

Running(e, port) ==
  /\ \A c \in Handles : e.state[c] = "Executing"
  /\ e.busy = {} /\ e.enabled = Ports /\ e.populated = Allocated /\ ~e.held
  /\ port \in e.capturing

(* A call that changes a state, a port or the flushes of component c.        *)
MoveState(e, k, f) ==
  /\ k.op = "state" /\ k.on \in Handles \ e.busy /\ e.leaving = {}
  /\ k.to \in {"Idle", "Executing"} /\ Enters(e, k.on, k.to)
  /\ f = [e EXCEPT !.state = [@ EXCEPT ![k.on] = k.to]]

MovePort(e, k, f) ==
  /\ k.op = "port" /\ k.on \in Ports /\ e.leaving = {}
  /\ \/ /\ k.to = "enabled" /\ k.on \notin e.enabled
        /\ f = [e EXCEPT !.enabled = @ \cup {k.on}, !.busy = @ \ {ComponentOf(k.on)},
                         !.held = @ /\ k.on # "201"]
     \/ /\ k.to = "disabled" /\ k.on \in e.enabled
        /\ f = [e EXCEPT !.enabled = @ \ {k.on}, !.busy = @ \ {ComponentOf(k.on)},
                         !.held = @ /\ k.on # "201"]

MoveFlush(e, k, f) ==
  /\ k.op = "flush" /\ k.on \in Ports /\ e.leaving = {}
  /\ f = [e EXCEPT !.busy = @ \cup {ComponentOf(k.on)}]

MoveLoad(e, k, f) ==
  /\ k.op = "load" /\ k.on \in Handles \ e.busy
  /\ k.to = "Loaded" /\ Enters(e, k.on, "Loaded")
  /\ f = [e EXCEPT !.state = [@ EXCEPT ![k.on] = "Loaded"], !.leaving = @ \cup {k.on}]

MoveFreeHandle(e, k, f) ==
  /\ k.op = "freehandle" /\ k.on \in Handles
  /\ f = [e EXCEPT !.state = [@ EXCEPT ![k.on] = None], !.leaving = @ \ {k.on},
                   !.busy = @ \ {k.on}, !.tunnelled = FALSE,
                   !.capturing = {}]

MoveGetHandle(e, k, f) ==
  /\ k.op = "gethandle" /\ k.on \in Handles /\ e.leaving = {}
  /\ f = [e EXCEPT !.state = [@ EXCEPT ![k.on] = "Loaded"], !.enabled = @ \cup PortsOf(k.on)]

(* A call that changes the configuration, or nothing.                        *)
MoveConfigure(e, k, f) ==
  /\ k.op = "configure" /\ e.leaving = {} /\ k.to \in Sizes
  /\ f = [e EXCEPT !.size = k.to, !.portdef = [port |-> "70", size |-> k.to]]

MoveTunnel(e, k, f) ==
  /\ k.op = "tunnel" /\ e.leaving = {}
  /\ f = [e EXCEPT !.tunnelled = TRUE]

MoveCapture(e, k, f) ==
  /\ k.op = "capture" /\ k.on \in {"71", "72"} /\ e.leaving = {}
  /\ f = [e EXCEPT !.capturing = IF k.to = "on" THEN @ \cup {k.on} ELSE @ \ {k.on}]

MoveOther(e, k, f) ==
  /\ k.op \in {"clear", "driver", "ready"} /\ e.leaving = {}
  /\ f = e

(* A call that allocates, frees or uses the buffers.                         *)
MoveAllocate(e, k, f) ==
  /\ k.op = "allocate" /\ e.leaving = {} /\ ~e.held
  /\ e.populated = {} /\ Allocated \subseteq e.enabled
  /\ f = [e EXCEPT !.populated = Allocated, !.portdef = [port |-> "72", size |-> e.size]]

MoveFree(e, k, f) ==
  /\ k.op = "free" /\ e.leaving = {} /\ ~e.held
  /\ e.populated = Allocated /\ Allocated \cap e.enabled = {}
  /\ f = [e EXCEPT !.populated = {}]

MoveFill(e, k, f) ==
  /\ k.op = "fill" /\ e.leaving = {} /\ ~e.held
  /\ e.state["encoder"] = "Executing" /\ "201" \in e.enabled \cap e.populated
  /\ f = [e EXCEPT !.held = TRUE]

MoveUse(e, k, f) ==
  /\ e.leaving = {}
  /\ \/ k.op = "encode" /\ Running(e, "71")
     \/ /\ k.op = "frame" /\ Running(e, "72")
        /\ e.portdef = [port |-> "72", size |-> e.size]
  /\ f = e

Move(e, k, f) ==
  \/ MoveState(e, k, f) \/ MovePort(e, k, f) \/ MoveFlush(e, k, f) \/ MoveLoad(e, k, f)
  \/ MoveFreeHandle(e, k, f) \/ MoveGetHandle(e, k, f) \/ MoveConfigure(e, k, f)
  \/ MoveTunnel(e, k, f) \/ MoveCapture(e, k, f) \/ MoveOther(e, k, f)
  \/ MoveAllocate(e, k, f) \/ MoveFree(e, k, f) \/ MoveFill(e, k, f) \/ MoveUse(e, k, f)

(* The calls s are sound one after the other, from the view a to the view b. *)
Leads(s, a, b) ==
  /\ s \in Seq(Calls)
  /\ \E trace : /\ trace[0] = a /\ trace[Len(s)] = b
                /\ \A i \in 1 .. Len(s) : Move(trace[i - 1], s[i], trace[i])

-----------------------------------------------------------------------------
(* The parts of a plan.                                                      *)

(* No calls lead nowhere.                                                    *)
LEMMA LeadsNowhere == \A a, b : Leads(<<>>, a, b) => a = b
BY DEF Leads

(* The first call of a plan is sound, and the others are.                    *)
LEMMA LeadsHead ==
  ASSUME NEW s, NEW a, NEW b, Leads(s, a, b), s # <<>>
  PROVE  \E f : Move(a, Head(s), f) /\ Leads(Tail(s), f, b)
<1>1. PICK trace : /\ trace[0] = a /\ trace[Len(s)] = b
                   /\ \A i \in 1 .. Len(s) : Move(trace[i - 1], s[i], trace[i])
  BY DEF Leads
<1>2. s \in Seq(Calls) /\ Len(s) \in Nat \ {0}
  BY EmptySeq DEF Leads
<1>3. /\ Tail(s) \in Seq(Calls) /\ Len(Tail(s)) = Len(s) - 1
      /\ \A i \in 1 .. Len(Tail(s)) : Tail(s)[i] = s[i + 1]
      /\ Head(s) = s[1]
  BY <1>2, HeadTailProperties, EmptySeq
<1> DEFINE rest == [i \in 0 .. Len(s) - 1 |-> trace[i + 1]]
<1>4. rest[0] = trace[1] /\ rest[Len(Tail(s))] = b
  BY <1>1, <1>2, <1>3
<1>5. ASSUME NEW i \in 1 .. Len(Tail(s)) PROVE Move(rest[i - 1], Tail(s)[i], rest[i])
  <2>1. /\ i + 1 \in 1 .. Len(s) /\ i \in 0 .. Len(s) - 1 /\ i - 1 \in 0 .. Len(s) - 1
        /\ (i - 1) + 1 = i /\ (i + 1) - 1 = i
    BY <1>2, <1>3
  <2>2. Move(trace[(i + 1) - 1], s[i + 1], trace[i + 1])
    BY <1>1, <2>1
  <2>3. rest[i - 1] = trace[i] /\ rest[i] = trace[i + 1] /\ Tail(s)[i] = s[i + 1]
    BY <1>3, <2>1
  <2>4. QED BY <2>1, <2>2, <2>3
<1> HIDE DEF rest
<1>6. Leads(Tail(s), trace[1], b)
  BY <1>3, <1>4, <1>5 DEF Leads
<1>7. Move(a, Head(s), trace[1])
  <2>1. 1 \in 1 .. Len(s) /\ 1 - 1 = 0
    BY <1>2
  <2>2. QED BY <1>1, <1>3, <2>1
<1>8. QED BY <1>6, <1>7

(* A single call.                                                            *)
LEMMA LeadsOne ==
  ASSUME NEW k \in Calls, NEW a, NEW b, Move(a, k, b)
  PROVE  Leads(<<k>>, a, b)
<1> DEFINE trace == [i \in 0 .. 1 |-> IF i = 0 THEN a ELSE b]
<1>1. <<k>> \in Seq(Calls) /\ Len(<<k>>) = 1 /\ <<k>>[1] = k
  OBVIOUS
<1>2. trace[0] = a /\ trace[1] = b
  OBVIOUS
<1> HIDE DEF trace
<1>3. \A i \in 1 .. Len(<<k>>) : Move(trace[i - 1], <<k>>[i], trace[i])
  <2>1. \A i \in 1 .. 1 : i = 1 /\ i - 1 = 0
    OBVIOUS
  <2>2. QED BY <1>1, <1>2, <2>1
<1>4. QED BY <1>1, <1>2, <1>3 DEF Leads

(* One plan after another.                                                   *)
LEMMA LeadsOn ==
  ASSUME NEW s, NEW t, NEW a, NEW b, NEW c, Leads(s, a, b), Leads(t, b, c)
  PROVE  Leads(s \o t, a, c)
<1>1. PICK r : /\ r[0] = a /\ r[Len(s)] = b
               /\ \A i \in 1 .. Len(s) : Move(r[i - 1], s[i], r[i])
  BY DEF Leads
<1>2. PICK q : /\ q[0] = b /\ q[Len(t)] = c
               /\ \A i \in 1 .. Len(t) : Move(q[i - 1], t[i], q[i])
  BY DEF Leads
<1>3. s \in Seq(Calls) /\ t \in Seq(Calls) /\ Len(s) \in Nat /\ Len(t) \in Nat
  BY LenProperties DEF Leads
<1>4. /\ s \o t \in Seq(Calls) /\ Len(s \o t) = Len(s) + Len(t)
      /\ \A i \in 1 .. Len(s) + Len(t) :
           (s \o t)[i] = IF i <= Len(s) THEN s[i] ELSE t[i - Len(s)]
  BY <1>3, ConcatProperties
<1> DEFINE n == Len(s)  m == Len(t)
           trace == [i \in 0 .. n + m |-> IF i <= n THEN r[i] ELSE q[i - n]]
<1>5. n \in Nat /\ m \in Nat
  BY <1>3
<1>6. trace[0] = a /\ trace[n + m] = c
  BY <1>1, <1>2, <1>5
<1>7. ASSUME NEW i \in 1 .. n + m PROVE Move(trace[i - 1], (s \o t)[i], trace[i])
  <2>1. i \in 0 .. n + m /\ i - 1 \in 0 .. n + m
    BY <1>5
  <2>2. CASE i <= n
    <3>1. trace[i - 1] = r[i - 1] /\ trace[i] = r[i] /\ (s \o t)[i] = s[i] /\ i \in 1 .. n
      BY <1>4, <1>5, <2>1, <2>2
    <3>2. QED BY <1>1, <3>1
  <2>3. CASE i > n
    <3>1. trace[i] = q[i - n] /\ (s \o t)[i] = t[i - n] /\ i - n \in 1 .. m
      BY <1>4, <1>5, <2>1, <2>3
    <3>2. trace[i - 1] = q[(i - n) - 1]
      <4>1. CASE i - 1 = n
        BY <1>1, <1>2, <1>5, <2>1, <4>1
      <4>2. CASE i - 1 > n
        BY <1>5, <2>1, <4>2
      <4>3. QED BY <1>5, <2>3, <4>1, <4>2
    <3>3. QED BY <1>2, <3>1, <3>2
  <2>4. QED BY <1>5, <2>2, <2>3
<1> HIDE DEF trace
<1>8. QED BY <1>4, <1>6, <1>7 DEF Leads

-----------------------------------------------------------------------------
(* The calls on a number of ports or components.                             *)

(* What OnEach returns.                                                      *)
LEMMA OnEachIs ==
  ASSUME NEW S, NEW seq \in Seq(S), NEW op, NEW to,
         \A i \in 1 .. Len(seq) : Call(op, seq[i], to) \in Calls
  PROVE  /\ OnEach(op, seq, to) \in Seq(Calls) /\ Len(OnEach(op, seq, to)) = Len(seq)
         /\ \A i \in 1 .. Len(seq) : OnEach(op, seq, to)[i] = Call(op, seq[i], to)
<1> DEFINE n == Len(seq)
           calls == [i \in 1 .. n |-> Call(op, seq[i], to)]
<1>1. n \in Nat /\ DOMAIN seq = 1 .. n
  BY LenProperties
<1>2. OnEach(op, seq, to) = calls
  BY <1>1 DEF OnEach
<1>3. calls \in [1 .. n -> Calls] /\ DOMAIN calls = 1 .. n
  OBVIOUS
<1> HIDE DEF n
<1>4. calls \in Seq(Calls)
  BY <1>1, <1>3
<1>5. Len(calls) = n
  BY <1>1, <1>3, <1>4, LenProperties
<1>6. QED BY <1>2, <1>4, <1>5 DEF n

(* A view is determined by its parts.                                        *)
LEMMA SameView ==
  ASSUME NEW e \in View, NEW f \in View,
         e.state = f.state, e.busy = f.busy, e.leaving = f.leaving, e.enabled = f.enabled,
         e.populated = f.populated, e.tunnelled = f.tunnelled, e.held = f.held,
         e.capturing = f.capturing, e.size = f.size, e.portdef = f.portdef
  PROVE  e = f
BY DEF View

Ported(e, en, bz, h) == [e EXCEPT !.enabled = en, !.busy = bz, !.held = h]

(* Only these three parts of a view change with its ports.                   *)
LEMMA PortedIs ==
  ASSUME NEW e \in View, NEW en \in SUBSET Ports, NEW bz \in SUBSET Handles, NEW h \in BOOLEAN
  PROVE  LET f == Ported(e, en, bz, h) IN
         /\ f \in View /\ f.enabled = en /\ f.busy = bz /\ f.held = h
         /\ f.leaving = e.leaving /\ f.state = e.state /\ f.populated = e.populated
         /\ f.tunnelled = e.tunnelled /\ f.capturing = e.capturing /\ f.size = e.size
         /\ f.portdef = e.portdef
BY DEF Ported, View

LEMMA PortedTwice ==
  ASSUME NEW e \in View, NEW en, NEW bz, NEW h, NEW en2, NEW bz2, NEW h2
  PROVE  Ported(Ported(e, en, bz, h), en2, bz2, h2) = Ported(e, en2, bz2, h2)
BY DEF Ported, View

LEMMA ComponentOfIs == \A p \in Ports : ComponentOf(p) \in Handles
BY DEF ComponentOf, Ports, Handles

(* The enabled ports after ports were switched.                              *)
Switched(en, ports, to) == IF to = "enabled" THEN en \cup ports ELSE en \ ports

(* EnablePort, DisablePort and the ports of a new component, one by one.     *)
LEMMA PortsSwitched ==
  ASSUME NEW e \in View, e.leaving = {}, NEW seq \in Seq(Ports), NEW to \in {"enabled", "disabled"},
         \A i \in 1 .. Len(seq) : seq[i] \in e.enabled <=> to = "disabled",
         \A i, j \in 1 .. Len(seq) : i # j => seq[i] # seq[j]
  PROVE  Leads(OnEach("port", seq, to), e,
               Ported(e, Switched(e.enabled, {seq[j] : j \in 1 .. Len(seq)}, to),
                      e.busy \ {ComponentOf(seq[j]) : j \in 1 .. Len(seq)},
                      e.held /\ \A j \in 1 .. Len(seq) : seq[j] # "201"))
<1> DEFINE n == Len(seq)
           En(i) == Switched(e.enabled, {seq[j] : j \in 1 .. i}, to)
           Bz(i) == e.busy \ {ComponentOf(seq[j]) : j \in 1 .. i}
           H(i)  == e.held /\ \A j \in 1 .. i : seq[j] # "201"
           view(i) == Ported(e, En(i), Bz(i), H(i))
           calls == OnEach("port", seq, to)
           trace == [i \in 0 .. n |-> view(i)]
<1>1. n \in Nat /\ \A i \in 1 .. n : seq[i] \in Ports
  BY ElementOfSeq, LenProperties
<1>2. /\ calls \in Seq(Calls) /\ Len(calls) = n
      /\ \A i \in 1 .. n : calls[i] = Call("port", seq[i], to)
  <2>1. \A i \in 1 .. n : Call("port", seq[i], to) \in Calls
    BY <1>1 DEF Call, Calls
  <2>2. QED BY <2>1, OnEachIs
<1>3. \A i \in 0 .. n : En(i) \in SUBSET Ports /\ Bz(i) \in SUBSET Handles /\ H(i) \in BOOLEAN
  <2> SUFFICES ASSUME NEW i \in 0 .. n
               PROVE  En(i) \in SUBSET Ports /\ Bz(i) \in SUBSET Handles /\ H(i) \in BOOLEAN
    OBVIOUS
  <2>1. \A j \in 1 .. i : seq[j] \in Ports
    BY <1>1
  <2>2. e.enabled \in SUBSET Ports /\ e.busy \in SUBSET Handles
    BY DEF View
  <2>3. QED BY <2>1, <2>2 DEF Switched
<1>4. view(0) = e
  <2>1. 1 .. 0 = {}
    OBVIOUS
  <2>2. En(0) = e.enabled /\ Bz(0) = e.busy /\ H(0) = e.held
    BY <2>1 DEF View, Switched
  <2>3. QED BY <2>2 DEF Ported, View
<1>5. ASSUME NEW i \in 1 .. n PROVE Move(view(i - 1), calls[i], view(i))
  <2>1. i - 1 \in 0 .. n /\ i \in 0 .. n /\ 1 .. i = (1 .. i - 1) \cup {i}
    BY <1>1
  <2>2. /\ En(i) = Switched(En(i - 1), {seq[i]}, to)
        /\ Bz(i) = Bz(i - 1) \ {ComponentOf(seq[i])}
        /\ H(i) = (H(i - 1) /\ seq[i] # "201")
    BY <2>1 DEF Switched
  <2>3. seq[i] \in En(i - 1) <=> to = "disabled"
    BY <1>1, <2>1 DEF Switched
  <2>4. /\ En(i - 1) \in SUBSET Ports /\ Bz(i - 1) \in SUBSET Handles /\ H(i - 1) \in BOOLEAN
    BY <1>3, <2>1
  <2> HIDE DEF En, Bz, H
  <2>5. /\ view(i - 1).enabled = En(i - 1) /\ view(i - 1).busy = Bz(i - 1)
        /\ view(i - 1).held = H(i - 1) /\ view(i - 1).leaving = {}
    BY <2>4, PortedIs
  <2>6. view(i) = Ported(view(i - 1), En(i), Bz(i), H(i))
    BY PortedTwice
  <2> HIDE DEF view
  <2>7. MovePort(view(i - 1), Call("port", seq[i], to), view(i))
    BY <1>1, <2>2, <2>3, <2>5, <2>6 DEF MovePort, Call, Ported, Switched
  <2>8. QED BY <1>2, <2>7 DEF Move
<1> HIDE DEF view, calls
<1>6. trace[0] = e /\ trace[Len(calls)] = view(n)
  BY <1>1, <1>2, <1>4
<1>7. \A i \in 1 .. Len(calls) : Move(trace[i - 1], calls[i], trace[i])
  <2>1. \A i \in 1 .. n : i - 1 \in 0 .. n /\ i \in 0 .. n
    BY <1>1
  <2>2. QED BY <1>2, <1>5, <2>1
<1> HIDE DEF trace
<1>8. Leads(calls, e, view(n))
  BY <1>2, <1>6, <1>7 DEF Leads
<1>9. QED BY <1>8 DEF calls, view

(* SwitchBufferFlush after OMX_FillThisBuffer: no flush is relied upon.      *)
LEMMA PortsFlushed ==
  ASSUME NEW e \in View, e.leaving = {}, NEW seq \in Seq(Ports)
  PROVE  Leads(OnEach("flush", seq, None), e,
               Ported(e, e.enabled, e.busy \cup {ComponentOf(seq[j]) : j \in 1 .. Len(seq)}, e.held))
<1> DEFINE n == Len(seq)
           Bz(i) == e.busy \cup {ComponentOf(seq[j]) : j \in 1 .. i}
           view(i) == Ported(e, e.enabled, Bz(i), e.held)
           calls == OnEach("flush", seq, None)
           trace == [i \in 0 .. n |-> view(i)]
<1>1. n \in Nat /\ \A i \in 1 .. n : seq[i] \in Ports
  BY ElementOfSeq, LenProperties
<1>2. /\ calls \in Seq(Calls) /\ Len(calls) = n
      /\ \A i \in 1 .. n : calls[i] = Call("flush", seq[i], None)
  <2>1. \A i \in 1 .. n : Call("flush", seq[i], None) \in Calls
    BY <1>1 DEF Call, Calls
  <2>2. QED BY <2>1, OnEachIs
<1>3. e.enabled \in SUBSET Ports /\ e.busy \in SUBSET Handles /\ e.held \in BOOLEAN
  BY DEF View
<1>4. view(0) = e
  <2>1. 1 .. 0 = {}
    OBVIOUS
  <2>2. Bz(0) = e.busy
    BY <2>1 DEF View
  <2>3. QED BY <2>2 DEF Ported, View
<1>5. ASSUME NEW i \in 1 .. n PROVE Move(view(i - 1), calls[i], view(i))
  <2>1. i - 1 \in 0 .. n /\ i \in 0 .. n /\ 1 .. i = (1 .. i - 1) \cup {i}
    BY <1>1
  <2>2. Bz(i) = Bz(i - 1) \cup {ComponentOf(seq[i])}
    BY <2>1
  <2>3. Bz(i - 1) \in SUBSET Handles
    <3>1. \A j \in 1 .. i - 1 : seq[j] \in Ports
      BY <1>1, <2>1
    <3>2. QED BY <3>1, <1>3, ComponentOfIs
  <2> HIDE DEF Bz
  <2>4. /\ view(i - 1).enabled = e.enabled /\ view(i - 1).busy = Bz(i - 1)
        /\ view(i - 1).held = e.held /\ view(i - 1).leaving = {}
    BY <1>3, <2>3, PortedIs
  <2>5. view(i) = Ported(view(i - 1), e.enabled, Bz(i), e.held)
    BY PortedTwice
  <2>6. [view(i - 1) EXCEPT !.busy = Bz(i)] = Ported(view(i - 1), e.enabled, Bz(i), e.held)
    <3>1. view(i - 1) \in View
      BY <1>3, <2>3, PortedIs
    <3> HIDE DEF view
    <3>2. QED BY <2>4, <3>1 DEF Ported, View
  <2> HIDE DEF view
  <2>7. MoveFlush(view(i - 1), Call("flush", seq[i], None), view(i))
    BY <1>1, <2>2, <2>4, <2>5, <2>6 DEF MoveFlush, Call
  <2>8. QED BY <1>2, <2>7 DEF Move
<1> HIDE DEF view, calls
<1>6. trace[0] = e /\ trace[Len(calls)] = view(n)
  BY <1>1, <1>2, <1>4
<1>7. \A i \in 1 .. Len(calls) : Move(trace[i - 1], calls[i], trace[i])
  <2>1. \A i \in 1 .. n : i - 1 \in 0 .. n /\ i \in 0 .. n
    BY <1>1
  <2>2. QED BY <1>2, <1>5, <2>1
<1> HIDE DEF trace
<1>8. Leads(calls, e, view(n))
  BY <1>2, <1>6, <1>7 DEF Leads
<1>9. QED BY <1>8 DEF calls, view

(* A call on each of the three components.                                   *)
LEMMA LeadsThree ==
  ASSUME NEW op, NEW to, NEW a, NEW b, NEW c, NEW d,
         \A h \in Handles : Call(op, h, to) \in Calls,
         Move(a, Call(op, "camera", to), b), Move(b, Call(op, "encoder", to), c),
         Move(c, Call(op, "null_sink", to), d)
  PROVE  Leads(OnEach(op, Components, to), a, d)
<1> DEFINE calls == OnEach(op, Components, to)
           trace == [i \in 0 .. 3 |-> IF i = 0 THEN a ELSE IF i = 1 THEN b ELSE IF i = 2 THEN c ELSE d]
<1>1. /\ Components \in Seq(Handles) /\ Len(Components) = 3
      /\ Components[1] = "camera" /\ Components[2] = "encoder" /\ Components[3] = "null_sink"
  BY DEF Components, Handles
<1>2. \A i \in 1 .. 3 : i = 1 \/ i = 2 \/ i = 3
  OBVIOUS
<1>3. /\ calls \in Seq(Calls) /\ Len(calls) = 3
      /\ \A i \in 1 .. 3 : calls[i] = Call(op, Components[i], to)
  <2>1. \A i \in 1 .. Len(Components) : Call(op, Components[i], to) \in Calls
    BY <1>1, ElementOfSeq
  <2>2. QED BY <1>1, <2>1, OnEachIs
<1> HIDE DEF calls
<1>4. trace[0] = a /\ trace[1] = b /\ trace[2] = c /\ trace[3] = d
  OBVIOUS
<1> HIDE DEF trace
<1>5. \A i \in 1 .. 3 : Move(trace[i - 1], calls[i], trace[i])
  <2>1. Move(trace[0], calls[1], trace[1])
    BY <1>1, <1>3, <1>4
  <2>2. Move(trace[1], calls[2], trace[2])
    BY <1>1, <1>3, <1>4
  <2>3. Move(trace[2], calls[3], trace[3])
    BY <1>1, <1>3, <1>4
  <2>4. 1 - 1 = 0 /\ 2 - 1 = 1 /\ 3 - 1 = 2
    OBVIOUS
  <2>5. QED BY <2>1, <2>2, <2>3, <2>4, <1>2
<1>6. QED BY <1>3, <1>4, <1>5 DEF Leads, calls

InState(s) == [c \in Handles |-> s]

(* SwitchIdle and SwitchExecuting: the components change one by one.         *)
LEMMA StatesSwitched ==
  ASSUME NEW e \in View, e.leaving = {}, e.busy = {}, NEW to \in {"Idle", "Executing"},
         \A c \in Handles : Enters(e, c, to)
  PROVE  Leads(OnEach("state", Components, to), e, [e EXCEPT !.state = InState(to)])
<1> DEFINE st1 == [e.state EXCEPT !["camera"] = to]
           st2 == [st1 EXCEPT !["encoder"] = to]
           st3 == [st2 EXCEPT !["null_sink"] = to]
           view(st) == [e EXCEPT !.state = st]
<1>1. e.state \in [Handles -> States] /\ to \in States
  BY DEF View, States
<1>2. /\ st1 \in [Handles -> States] /\ st2 \in [Handles -> States] /\ st3 = InState(to)
      /\ st1["encoder"] = e.state["encoder"] /\ st2["null_sink"] = e.state["null_sink"]
  BY <1>1 DEF Handles, InState
<1>3. \A h \in Handles : Call("state", h, to) \in Calls
  BY DEF Call, Calls
<1>4. ASSUME NEW st \in [Handles -> States], NEW c \in Handles, st[c] = e.state[c]
      PROVE  Move(view(st), Call("state", c, to), view([st EXCEPT ![c] = to]))
  <2>1. /\ view(st).state = st /\ view(st).leaving = {} /\ view(st).busy = {}
        /\ view(st).enabled = e.enabled /\ view(st).populated = e.populated
        /\ view(st).tunnelled = e.tunnelled
    BY DEF View
  <2>2. Enters(view(st), c, to)
    BY <1>4, <2>1 DEF Enters
  <2>3. view([st EXCEPT ![c] = to]) = [view(st) EXCEPT !.state = [@ EXCEPT ![c] = to]]
    BY DEF View
  <2> HIDE DEF view
  <2>4. MoveState(view(st), Call("state", c, to), view([st EXCEPT ![c] = to]))
    BY <2>1, <2>2, <2>3 DEF MoveState, Call
  <2>5. QED BY <2>4 DEF Move
<1>5. view(e.state) = e
  BY DEF View
<1>6. Move(view(e.state), Call("state", "camera", to), view(st1))
  BY <1>1, <1>4 DEF Handles
<1> HIDE DEF view
<1>7. Move(view(st1), Call("state", "encoder", to), view(st2))
  BY <1>2, <1>4 DEF Handles
<1>8. Move(view(st2), Call("state", "null_sink", to), view(st3))
  BY <1>2, <1>4 DEF Handles
<1>9. Leads(OnEach("state", Components, to), e, view(st3))
  BY <1>3, <1>5, <1>6, <1>7, <1>8, LeadsThree
<1>10. QED BY <1>2, <1>9 DEF view

(* SwitchStateLoaded, first half: nobody waits for the components.           *)
LEMMA StatesLoaded ==
  ASSUME NEW e \in View, e.busy = {}, e.leaving = {}, e.state = InState("Idle"), e.populated = {}
  PROVE  Leads(OnEach("load", Components, "Loaded"), e,
               [e EXCEPT !.state = InState("Loaded"), !.leaving = Handles])
<1> DEFINE view(st, lv) == [e EXCEPT !.state = st, !.leaving = lv]
           st0 == InState("Idle")
           st1 == [st0 EXCEPT !["camera"] = "Loaded"]
           st2 == [st1 EXCEPT !["encoder"] = "Loaded"]
           st3 == [st2 EXCEPT !["null_sink"] = "Loaded"]
<1>1. /\ st0 \in [Handles -> States] /\ st1 \in [Handles -> States] /\ st2 \in [Handles -> States]
      /\ st0["camera"] = "Idle" /\ st1["encoder"] = "Idle" /\ st2["null_sink"] = "Idle"
      /\ st3 = InState("Loaded")
      /\ {} \cup {"camera"} = {"camera"} /\ {"camera"} \cup {"encoder"} = {"camera", "encoder"}
      /\ {"camera", "encoder"} \cup {"null_sink"} = Handles
  BY DEF Handles, InState, States
<1>2. \A h \in Handles : Call("load", h, "Loaded") \in Calls
  BY DEF Call, Calls
<1>3. ASSUME NEW st \in [Handles -> States], NEW c \in Handles, st[c] = "Idle", NEW lv
      PROVE  Move(view(st, lv), Call("load", c, "Loaded"),
                  view([st EXCEPT ![c] = "Loaded"], lv \cup {c}))
  <2>1. /\ view(st, lv).state = st /\ view(st, lv).leaving = lv /\ view(st, lv).busy = {}
        /\ view(st, lv).populated = {}
    BY DEF View
  <2>2. Enters(view(st, lv), c, "Loaded")
    BY <1>3, <2>1 DEF Enters
  <2>3. view([st EXCEPT ![c] = "Loaded"], lv \cup {c})
          = [view(st, lv) EXCEPT !.state = [@ EXCEPT ![c] = "Loaded"], !.leaving = @ \cup {c}]
    BY DEF View
  <2> HIDE DEF view
  <2>4. MoveLoad(view(st, lv), Call("load", c, "Loaded"),
                 view([st EXCEPT ![c] = "Loaded"], lv \cup {c}))
    BY <2>1, <2>2, <2>3 DEF MoveLoad, Call
  <2>5. QED BY <2>4 DEF Move
<1>4. view(st0, {}) = e
  BY DEF View
<1> HIDE DEF view
<1>5. Move(view(st0, {}), Call("load", "camera", "Loaded"), view(st1, {"camera"}))
  <2>1. "camera" \in Handles
    BY DEF Handles
  <2>2. Move(view(st0, {}), Call("load", "camera", "Loaded"), view(st1, {} \cup {"camera"}))
    BY <1>1, <1>3, <2>1
  <2>3. QED BY <1>1, <2>2
<1>6. Move(view(st1, {"camera"}), Call("load", "encoder", "Loaded"),
           view(st2, {"camera", "encoder"}))
  <2>1. "encoder" \in Handles
    BY DEF Handles
  <2>2. Move(view(st1, {"camera"}), Call("load", "encoder", "Loaded"),
             view(st2, {"camera"} \cup {"encoder"}))
    BY <1>1, <1>3, <2>1
  <2>3. QED BY <1>1, <2>2
<1>7. Move(view(st2, {"camera", "encoder"}), Call("load", "null_sink", "Loaded"),
           view(st3, Handles))
  <2>1. "null_sink" \in Handles
    BY DEF Handles
  <2>2. Move(view(st2, {"camera", "encoder"}), Call("load", "null_sink", "Loaded"),
             view(st3, {"camera", "encoder"} \cup {"null_sink"}))
    BY <1>1, <1>3, <2>1
  <2>3. QED BY <1>1, <2>2
<1>8. Leads(OnEach("load", Components, "Loaded"), e, view(st3, Handles))
  BY <1>2, <1>4, <1>5, <1>6, <1>7, LeadsThree
<1>9. QED BY <1>1, <1>8 DEF view

(* ... and second half: OMX_FreeHandle, whatever state they have reached.    *)
LEMMA HandlesFreed ==
  ASSUME NEW e \in View, e.busy = {}, e.leaving = Handles
  PROVE  Leads(OnEach("freehandle", Components, None), e,
               [e EXCEPT !.state = InState(None), !.leaving = {}, !.tunnelled = FALSE,
                         !.capturing = {}])
<1> DEFINE view(st, lv) == [e EXCEPT !.state = st, !.leaving = lv, !.tunnelled = FALSE,
                                     !.capturing = {}]
           st1 == [e.state EXCEPT !["camera"] = None]
           st2 == [st1 EXCEPT !["encoder"] = None]
           st3 == [st2 EXCEPT !["null_sink"] = None]
<1>1. /\ e.state \in [Handles -> States] /\ st1 \in [Handles -> States] /\ st2 \in [Handles -> States]
      /\ st3 = InState(None)
      /\ Handles \ {"camera"} = {"encoder", "null_sink"}
      /\ {"encoder", "null_sink"} \ {"encoder"} = {"null_sink"}
      /\ {"null_sink"} \ {"null_sink"} = {}
      /\ "camera" \in Handles /\ "encoder" \in Handles /\ "null_sink" \in Handles
  BY DEF Handles, InState, States, View
<1>2. \A h \in Handles : Call("freehandle", h, None) \in Calls
  BY DEF Call, Calls
<1>3. Move(e, Call("freehandle", "camera", None), view(st1, {"encoder", "null_sink"}))
  <2>1. view(st1, {"encoder", "null_sink"})
          = [e EXCEPT !.state = [@ EXCEPT !["camera"] = None], !.leaving = @ \ {"camera"},
                      !.busy = @ \ {"camera"}, !.tunnelled = FALSE,
                      !.capturing = {}]
    <3> DEFINE f == [e EXCEPT !.state = [@ EXCEPT !["camera"] = None], !.leaving = @ \ {"camera"},
                      !.busy = @ \ {"camera"}, !.tunnelled = FALSE,
                      !.capturing = {}]
               g == view(st1, {"encoder", "null_sink"})
    <3>1. /\ f.state = st1 /\ f.busy = {} /\ f.leaving = {"encoder", "null_sink"}
          /\ f.tunnelled = FALSE /\ f.capturing = {} /\ f.enabled = e.enabled
          /\ f.populated = e.populated /\ f.held = e.held /\ f.size = e.size
          /\ f.portdef = e.portdef /\ f \in View
      BY <1>1 DEF View
    <3>2. /\ g.state = st1 /\ g.busy = {} /\ g.leaving = {"encoder", "null_sink"}
          /\ g.tunnelled = FALSE /\ g.capturing = {} /\ g.enabled = e.enabled
          /\ g.populated = e.populated /\ g.held = e.held /\ g.size = e.size
          /\ g.portdef = e.portdef /\ g \in View
      BY <1>1 DEF View
    <3> HIDE DEF f, g
    <3>3. f = g
      BY <3>1, <3>2, SameView
    <3>4. QED BY <3>3 DEF f, g
  <2> HIDE DEF view
  <2>2. MoveFreeHandle(e, Call("freehandle", "camera", None), view(st1, {"encoder", "null_sink"}))
    BY <1>1, <2>1 DEF MoveFreeHandle, Call
  <2>3. QED BY <2>2 DEF Move
<1>4. ASSUME NEW st \in [Handles -> States], NEW c \in {"encoder", "null_sink"},
             NEW lv \in SUBSET Handles
      PROVE  Move(view(st, lv), Call("freehandle", c, None),
                  view([st EXCEPT ![c] = None], lv \ {c}))
  <2>1. view([st EXCEPT ![c] = None], lv \ {c})
          = [view(st, lv) EXCEPT !.state = [@ EXCEPT ![c] = None], !.leaving = @ \ {c},
                      !.busy = @ \ {c}, !.tunnelled = FALSE,
                      !.capturing = {}]
    <3> DEFINE v == view(st, lv)
               f == [v EXCEPT !.state = [@ EXCEPT ![c] = None], !.leaving = @ \ {c},
                      !.busy = @ \ {c}, !.tunnelled = FALSE,
                      !.capturing = {}]
               g == view([st EXCEPT ![c] = None], lv \ {c})
    <3>1. /\ v.state = st /\ v.busy = {} /\ v.leaving = lv
          /\ v.tunnelled = FALSE /\ v.capturing = {} /\ v.enabled = e.enabled
          /\ v.populated = e.populated /\ v.held = e.held /\ v.size = e.size
          /\ v.portdef = e.portdef /\ v \in View
      BY <1>1 DEF View
    <3>2. /\ g.state = [st EXCEPT ![c] = None] /\ g.busy = {} /\ g.leaving = lv \ {c}
          /\ g.tunnelled = FALSE /\ g.capturing = {} /\ g.enabled = e.enabled
          /\ g.populated = e.populated /\ g.held = e.held /\ g.size = e.size
          /\ g.portdef = e.portdef /\ g \in View
      BY <1>1 DEF View, States
    <3> HIDE DEF v, g
    <3>3. /\ f.state = [v.state EXCEPT ![c] = None] /\ f.busy = v.busy \ {c}
          /\ f.leaving = v.leaving \ {c}
          /\ f.tunnelled = FALSE /\ f.capturing = {} /\ f.enabled = v.enabled
          /\ f.populated = v.populated /\ f.held = v.held /\ f.size = v.size
          /\ f.portdef = v.portdef
      BY <3>1 DEF View
    <3>4. f \in View
      <4>1. [v.state EXCEPT ![c] = None] \in [Handles -> States]
        BY <3>1 DEF States
      <4>2. v.busy \ {c} \in SUBSET Handles /\ v.leaving \ {c} \in SUBSET Handles
        BY <3>1
      <4>3. QED BY <3>1, <4>1, <4>2 DEF View
    <3> HIDE DEF f
    <3>5. /\ f.state = g.state /\ f.busy = g.busy /\ f.leaving = g.leaving
          /\ f.tunnelled = g.tunnelled /\ f.capturing = g.capturing /\ f.enabled = g.enabled
          /\ f.populated = g.populated /\ f.held = g.held /\ f.size = g.size
          /\ f.portdef = g.portdef
      BY <3>1, <3>2, <3>3
    <3>6. f = g
      BY <3>2, <3>5, <3>4, SameView
    <3>7. QED BY <3>6 DEF f, g, v
  <2> HIDE DEF view
  <2>2. MoveFreeHandle(view(st, lv), Call("freehandle", c, None),
                       view([st EXCEPT ![c] = None], lv \ {c}))
    BY <1>1, <2>1 DEF MoveFreeHandle, Call
  <2>3. QED BY <2>2 DEF Move
<1> HIDE DEF view
<1>5. Move(view(st1, {"encoder", "null_sink"}), Call("freehandle", "encoder", None),
           view(st2, {"null_sink"}))
  <2>1. Move(view(st1, {"encoder", "null_sink"}), Call("freehandle", "encoder", None),
             view(st2, {"encoder", "null_sink"} \ {"encoder"}))
    BY <1>1, <1>4 DEF Handles
  <2>2. QED BY <1>1, <2>1
<1>6. Move(view(st2, {"null_sink"}), Call("freehandle", "null_sink", None), view(st3, {}))
  <2>1. Move(view(st2, {"null_sink"}), Call("freehandle", "null_sink", None),
             view(st3, {"null_sink"} \ {"null_sink"}))
    BY <1>1, <1>4 DEF Handles
  <2>2. QED BY <1>1, <2>1
<1>7. Leads(OnEach("freehandle", Components, None), e, view(st3, {}))
  BY <1>2, <1>3, <1>5, <1>6, LeadsThree
<1>8. QED BY <1>1, <1>7 DEF view

-----------------------------------------------------------------------------
(* The functions of OpenMAX.                                                 *)

(* Every port once: all of them are enabled, or disabled.                    *)
LEMMA AllPorts ==
  LET all == <<"73", "70", "71", "72", "200", "201", "240">> IN
  /\ all \in Seq(Ports) /\ Len(all) = 7
  /\ {all[j] : j \in 1 .. 7} = Ports
  /\ {ComponentOf(all[j]) : j \in 1 .. 7} = Handles
  /\ \A i, j \in 1 .. 7 : i # j => all[i] # all[j]
  /\ all[6] = "201"
<1> DEFINE all == <<"73", "70", "71", "72", "200", "201", "240">>
<1>1. all \in Seq(Ports) /\ Len(all) = 7
  BY DEF Ports
<1>2. /\ all[1] = "73" /\ all[2] = "70" /\ all[3] = "71" /\ all[4] = "72"
      /\ all[5] = "200" /\ all[6] = "201" /\ all[7] = "240"
  OBVIOUS
<1> HIDE DEF all
<1>3. 1 .. 7 = {1, 2, 3, 4, 5, 6, 7}
  OBVIOUS
<1>4. {all[j] : j \in 1 .. 7} = Ports
  BY <1>2, <1>3 DEF Ports
<1>5. /\ ComponentOf("73") = "camera" /\ ComponentOf("70") = "camera" /\ ComponentOf("71") = "camera"
      /\ ComponentOf("72") = "camera" /\ ComponentOf("200") = "encoder"
      /\ ComponentOf("201") = "encoder" /\ ComponentOf("240") = "null_sink"
  BY DEF ComponentOf
<1>6. {ComponentOf(all[j]) : j \in 1 .. 7} = Handles
  BY <1>2, <1>3, <1>5 DEF Handles
<1>7. \A i, j \in 1 .. 7 : i # j => all[i] # all[j]
  BY <1>2, <1>3
<1>8. QED BY <1>1, <1>2, <1>4, <1>6, <1>7 DEF all

(* Two calls.                                                                *)
LEMMA LeadsTwo ==
  ASSUME NEW k \in Calls, NEW l \in Calls, NEW a, NEW b, NEW c, Move(a, k, b), Move(b, l, c)
  PROVE  Leads(<<k, l>>, a, c)
<1>1. Leads(<<k>>, a, b) /\ Leads(<<l>>, b, c)
  BY LeadsOne
<1>2. Leads(<<k>> \o <<l>>, a, c)
  BY <1>1, LeadsOn
<1>3. <<k>> \o <<l>> = <<k, l>>
  <2>1. /\ <<k>> \in Seq(Calls) /\ <<l>> \in Seq(Calls) /\ <<k, l>> \in Seq(Calls)
        /\ Len(<<k>>) = 1 /\ Len(<<l>>) = 1 /\ Len(<<k, l>>) = 2
        /\ <<k>>[1] = k /\ <<l>>[1] = l /\ <<k, l>>[1] = k /\ <<k, l>>[2] = l
    OBVIOUS
  <2>2. /\ <<k>> \o <<l>> \in Seq(Calls) /\ Len(<<k>> \o <<l>>) = 2
        /\ (<<k>> \o <<l>>)[1] = k /\ (<<k>> \o <<l>>)[2] = l
    BY <2>1, ConcatProperties
  <2>3. \A i \in 1 .. 2 : i = 1 \/ i = 2
    OBVIOUS
  <2>4. QED BY <2>1, <2>2, <2>3, SeqEqual
<1>4. QED BY <1>2, <1>3

(* A stage of a plan: all components are in one state.                       *)
At(e, st, bz, en, pop, h) ==
  /\ e \in View /\ e.leaving = {}
  /\ e.state = InState(st) /\ e.busy = bz /\ e.enabled = en /\ e.populated = pop /\ e.held = h

Kept(e, f) ==
  /\ f.tunnelled = e.tunnelled /\ f.capturing = e.capturing
  /\ f.size = e.size /\ f.portdef = e.portdef

(* Every port is disabled; the flushes are done then.                        *)
LEMMA DisablePortLeads ==
  ASSUME NEW e, NEW st, NEW bz, NEW pop, NEW h, At(e, st, bz, Ports, pop, h)
  PROVE  \E f : Leads(DisablePort, e, f) /\ At(f, st, {}, {}, pop, FALSE) /\ Kept(e, f)
<1> DEFINE all == <<"73", "70", "71", "72", "200", "201", "240">>
           f == Ported(e, {}, {}, FALSE)
<1>1. /\ all \in Seq(Ports) /\ Len(all) = 7
      /\ {all[j] : j \in 1 .. 7} = Ports
      /\ {ComponentOf(all[j]) : j \in 1 .. 7} = Handles
      /\ \A i, j \in 1 .. 7 : i # j => all[i] # all[j]
      /\ all[6] = "201"
  BY AllPorts
<1>2. e \in View /\ e.leaving = {} /\ e.enabled = Ports /\ e.busy \in SUBSET Handles
  BY DEF At, View
<1> HIDE DEF all
<1>3. \A i \in 1 .. Len(all) : all[i] \in Ports
  BY <1>1, ElementOfSeq
<1>4. Leads(OnEach("port", all, "disabled"), e,
            Ported(e, Switched(e.enabled, {all[j] : j \in 1 .. Len(all)}, "disabled"),
                      e.busy \ {ComponentOf(all[j]) : j \in 1 .. Len(all)},
                      e.held /\ \A j \in 1 .. Len(all) : all[j] # "201"))
  BY <1>1, <1>2, <1>3, PortsSwitched
<1>5. /\ Switched(e.enabled, {all[j] : j \in 1 .. Len(all)}, "disabled") = {}
      /\ e.busy \ {ComponentOf(all[j]) : j \in 1 .. Len(all)} = {}
      /\ (e.held /\ \A j \in 1 .. Len(all) : all[j] # "201") = FALSE
  BY <1>1, <1>2 DEF Switched
<1>6. Leads(DisablePort, e, f)
  BY <1>4, <1>5 DEF DisablePort, all
<1>7. At(f, st, {}, {}, pop, FALSE) /\ Kept(e, f)
  <2>1. /\ f \in View /\ f.enabled = {} /\ f.busy = {} /\ f.held = FALSE
        /\ f.leaving = e.leaving /\ f.state = e.state /\ f.populated = e.populated
        /\ f.tunnelled = e.tunnelled /\ f.capturing = e.capturing /\ f.size = e.size
        /\ f.portdef = e.portdef
    BY <1>2 DEF Ported, View
  <2>2. QED BY <2>1 DEF At, Kept
<1>8. QED BY <1>6, <1>7

(* Every port is enabled.                                                    *)
LEMMA EnablePortLeads ==
  ASSUME NEW e, NEW st, NEW pop, At(e, st, {}, {}, pop, FALSE)
  PROVE  \E f : Leads(EnablePort, e, f) /\ At(f, st, {}, Ports, pop, FALSE) /\ Kept(e, f)
<1> DEFINE all == <<"73", "70", "71", "72", "200", "201", "240">>
           f == Ported(e, Ports, {}, FALSE)
<1>1. /\ all \in Seq(Ports) /\ Len(all) = 7
      /\ {all[j] : j \in 1 .. 7} = Ports
      /\ \A i, j \in 1 .. 7 : i # j => all[i] # all[j]
  BY AllPorts
<1>2. e \in View /\ e.leaving = {} /\ e.enabled = {} /\ e.busy = {} /\ e.held = FALSE
  BY DEF At
<1> HIDE DEF all
<1>3. Leads(OnEach("port", all, "enabled"), e,
            Ported(e, Switched(e.enabled, {all[j] : j \in 1 .. Len(all)}, "enabled"),
                      e.busy \ {ComponentOf(all[j]) : j \in 1 .. Len(all)},
                      e.held /\ \A j \in 1 .. Len(all) : all[j] # "201"))
  BY <1>1, <1>2, PortsSwitched
<1>4. /\ Switched(e.enabled, {all[j] : j \in 1 .. Len(all)}, "enabled") = Ports
      /\ e.busy \ {ComponentOf(all[j]) : j \in 1 .. Len(all)} = {}
      /\ (e.held /\ \A j \in 1 .. Len(all) : all[j] # "201") = FALSE
  BY <1>1, <1>2 DEF Switched
<1>5. Leads(EnablePort, e, f)
  BY <1>3, <1>4 DEF EnablePort, all
<1>6. At(f, st, {}, Ports, pop, FALSE) /\ Kept(e, f)
  <2>1. /\ f \in View /\ f.enabled = Ports /\ f.busy = {} /\ f.held = FALSE
        /\ f.leaving = e.leaving /\ f.state = e.state /\ f.populated = e.populated
        /\ f.tunnelled = e.tunnelled /\ f.capturing = e.capturing /\ f.size = e.size
        /\ f.portdef = e.portdef
    BY <1>2 DEF Ported, View
  <2>2. QED BY <2>1 DEF At, Kept
<1>7. QED BY <1>5, <1>6

(* SwitchBufferFlush: the encoder has the buffer, and flushes may be pending *)
(* at every component.                                                       *)
LEMMA FlushLeads ==
  ASSUME NEW e, At(e, "Executing", {}, Ports, Allocated, FALSE)
  PROVE  \E f : /\ Leads(SwitchBufferFlush, e, f)
                /\ At(f, "Executing", Handles, Ports, Allocated, TRUE) /\ Kept(e, f)
<1> DEFINE all == <<"73", "70", "72", "71", "200", "201", "240">>
           fill == Call("fill", None, None)
           g == [e EXCEPT !.held = TRUE]
           f == Ported(g, g.enabled, Handles, g.held)
<1>1. all \in Seq(Ports) /\ Len(all) = 7
  BY DEF Ports
<1>2. {ComponentOf(all[j]) : j \in 1 .. Len(all)} = Handles
  <2>1. 1 .. 7 = {1, 2, 3, 4, 5, 6, 7}
    OBVIOUS
  <2>2. /\ all[1] = "73" /\ all[2] = "70" /\ all[3] = "72" /\ all[4] = "71"
        /\ all[5] = "200" /\ all[6] = "201" /\ all[7] = "240"
    OBVIOUS
  <2>3. /\ ComponentOf("73") = "camera" /\ ComponentOf("70") = "camera"
        /\ ComponentOf("71") = "camera" /\ ComponentOf("72") = "camera"
        /\ ComponentOf("200") = "encoder" /\ ComponentOf("201") = "encoder"
        /\ ComponentOf("240") = "null_sink"
    BY DEF ComponentOf
  <2> HIDE DEF all
  <2>4. QED BY <1>1, <2>1, <2>2, <2>3 DEF Handles
<1>3. /\ e \in View /\ e.leaving = {} /\ e.state["encoder"] = "Executing" /\ e.busy = {}
      /\ e.enabled = Ports /\ e.populated = Allocated /\ ~e.held /\ "201" \in Ports \cap Allocated
      /\ e.state = InState("Executing")
  BY DEF At, InState, Handles, Ports, Allocated
<1>4. /\ g \in View /\ g.leaving = {} /\ g.busy = {} /\ g.enabled = Ports
      /\ g.populated = Allocated /\ g.held = TRUE /\ g.state = InState("Executing")
      /\ Kept(e, g)
  BY <1>3 DEF View, Kept
<1>5. fill \in Calls
  BY DEF Call, Calls
<1>6. Move(e, fill, g)
  BY <1>3 DEF Move, MoveFill, Call
<1>7. Leads(<<fill>>, e, g)
  BY <1>5, <1>6, LeadsOne
<1> HIDE DEF all, fill, g
<1>8. Leads(OnEach("flush", all, None), g, f)
  <2>1. g.busy \cup {ComponentOf(all[j]) : j \in 1 .. Len(all)} = Handles
    BY <1>2, <1>4
  <2>2. QED BY <1>1, <1>4, <2>1, PortsFlushed
<1>9. Leads(SwitchBufferFlush, e, f)
  BY <1>7, <1>8, LeadsOn DEF SwitchBufferFlush, all, fill
<1>10. At(f, "Executing", Handles, Ports, Allocated, TRUE) /\ Kept(e, f)
  <2>1. /\ f \in View /\ f.enabled = Ports /\ f.busy = Handles /\ f.held = TRUE
        /\ f.leaving = g.leaving /\ f.state = g.state /\ f.populated = g.populated
        /\ f.tunnelled = g.tunnelled /\ f.capturing = g.capturing /\ f.size = g.size
        /\ f.portdef = g.portdef
    BY <1>4 DEF Ported, View
  <2>2. QED BY <1>4, <2>1 DEF At, Kept
<1>11. QED BY <1>9, <1>10

(* FreeBuffer, with every port disabled.                                     *)
LEMMA FreeLeads ==
  ASSUME NEW e, NEW st, At(e, st, {}, {}, Allocated, FALSE)
  PROVE  \E f : Leads(FreeBuffer, e, f) /\ At(f, st, {}, {}, {}, FALSE) /\ Kept(e, f)
<1> DEFINE f == [e EXCEPT !.populated = {}]
<1>1. /\ e \in View /\ e.leaving = {} /\ ~e.held /\ e.populated = Allocated
      /\ Allocated \cap e.enabled = {}
  BY DEF At
<1>2. At(f, st, {}, {}, {}, FALSE) /\ Kept(e, f)
  BY DEF At, Kept, View
<1>3. Call("free", None, None) \in Calls
  BY DEF Call, Calls
<1>4. Move(e, Call("free", None, None), f)
  BY <1>1 DEF Move, MoveFree, Call
<1>5. Leads(FreeBuffer, e, f)
  BY <1>3, <1>4, LeadsOne DEF FreeBuffer
<1>6. QED BY <1>2, <1>5

(* AllocateBuffer: the definition of port 72 is the one that remains.        *)
LEMMA AllocateLeads ==
  ASSUME NEW e, NEW st, At(e, st, {}, Ports, {}, FALSE)
  PROVE  \E f : /\ Leads(AllocateBuffer, e, f) /\ At(f, st, {}, Ports, Allocated, FALSE)
                /\ f.tunnelled = e.tunnelled /\ f.capturing = e.capturing /\ f.size = e.size
                /\ f.portdef = [port |-> "72", size |-> e.size]
<1> DEFINE f == [e EXCEPT !.populated = Allocated, !.portdef = [port |-> "72", size |-> e.size]]
<1>1. /\ e \in View /\ e.leaving = {} /\ ~e.held /\ e.populated = {}
      /\ Allocated \subseteq e.enabled
  BY DEF At, Allocated, Ports
<1>2. e.size \in Sizes \cup {None}
  BY <1>1 DEF View
<1>3. /\ f.tunnelled = e.tunnelled /\ f.capturing = e.capturing /\ f.size = e.size
      /\ f.portdef = [port |-> "72", size |-> e.size]
      /\ f.leaving = e.leaving /\ f.state = e.state /\ f.populated = Allocated
      /\ f.enabled = e.enabled /\ f.busy = e.busy /\ f.held = e.held
  BY <1>1 DEF View
<1>4. f \in View
  BY <1>1, <1>2 DEF View
<1>5. Call("allocate", None, None) \in Calls
  BY DEF Call, Calls
<1>6. Move(e, Call("allocate", None, None), f)
  BY <1>1 DEF Move, MoveAllocate, Call
<1>7. Leads(AllocateBuffer, e, f)
  BY <1>5, <1>6, LeadsOne DEF AllocateBuffer
<1> HIDE DEF f
<1>8. At(f, st, {}, Ports, Allocated, FALSE)
  BY <1>3, <1>4 DEF At
<1>9. QED BY <1>3, <1>7, <1>8

(* SwitchIdle: from Executing, or from Loaded with every port disabled.      *)
LEMMA IdleLeads ==
  ASSUME NEW e, NEW st, NEW en, NEW pop, At(e, st, {}, en, pop, FALSE),
         st = "Executing" \/ (st = "Loaded" /\ en = {})
  PROVE  \E f : Leads(SwitchIdle, e, f) /\ At(f, "Idle", {}, en, pop, FALSE) /\ Kept(e, f)
<1> DEFINE f == [e EXCEPT !.state = InState("Idle")]
<1>1. e \in View /\ e.leaving = {} /\ e.busy = {} /\ e.state = InState(st) /\ e.enabled = en
  BY DEF At
<1>2. \A c \in Handles : Enters(e, c, "Idle")
  BY <1>1 DEF Enters, InState
<1>3. Leads(SwitchIdle, e, f)
  BY <1>1, <1>2, StatesSwitched DEF SwitchIdle
<1>4. InState("Idle") \in [Handles -> States]
  BY DEF InState, States
<1>5. At(f, "Idle", {}, en, pop, FALSE) /\ Kept(e, f)
  BY <1>4 DEF At, Kept, View
<1>6. QED BY <1>3, <1>5

(* SwitchExecuting: tunnels and buffers are there.                           *)
LEMMA ExecutingLeads ==
  ASSUME NEW e, At(e, "Idle", {}, Ports, Allocated, FALSE), e.tunnelled = TRUE
  PROVE  \E f : /\ Leads(SwitchExecuting, e, f)
                /\ At(f, "Executing", {}, Ports, Allocated, FALSE) /\ Kept(e, f)
<1> DEFINE f == [e EXCEPT !.state = InState("Executing")]
<1>1. /\ e \in View /\ e.leaving = {} /\ e.busy = {} /\ e.state = InState("Idle")
      /\ e.enabled = Ports /\ e.populated = Allocated
  BY DEF At
<1>2. \A c \in Handles : Enters(e, c, "Executing")
  BY <1>1 DEF Enters, InState
<1>3. Leads(SwitchExecuting, e, f)
  BY <1>1, <1>2, StatesSwitched DEF SwitchExecuting
<1>4. InState("Executing") \in [Handles -> States]
  BY DEF InState, States
<1>5. At(f, "Executing", {}, Ports, Allocated, FALSE) /\ Kept(e, f)
  BY <1>4 DEF At, Kept, View
<1>6. QED BY <1>3, <1>5

(* SwitchStateLoaded: the handles are gone, whether or not the components    *)
(* have reached Loaded by then.                                              *)
LEMMA LoadedLeads ==
  ASSUME NEW e, At(e, "Idle", {}, {}, {}, FALSE)
  PROVE  \E f : Leads(SwitchStateLoaded, e, f) /\ At(f, None, {}, {}, {}, FALSE)
<1> DEFINE g == [e EXCEPT !.state = InState("Loaded"), !.leaving = Handles]
           f == [g EXCEPT !.state = InState(None), !.leaving = {}, !.tunnelled = FALSE,
                          !.capturing = {}]
<1>1. /\ e \in View /\ e.leaving = {} /\ e.busy = {} /\ e.state = InState("Idle")
      /\ e.populated = {}
  BY DEF At
<1>2. Leads(OnEach("load", Components, "Loaded"), e, g)
  BY <1>1, StatesLoaded
<1>3. InState("Loaded") \in [Handles -> States] /\ InState(None) \in [Handles -> States]
  BY DEF InState, States
<1>4. /\ g \in View /\ g.busy = {} /\ g.leaving = Handles /\ g.enabled = {} /\ g.populated = {}
      /\ g.held = FALSE
  BY <1>3 DEF At, View
<1> HIDE DEF g
<1>5. Leads(OnEach("freehandle", Components, None), g, f)
  BY <1>4, HandlesFreed
<1>6. At(f, None, {}, {}, {}, FALSE)
  BY <1>3, <1>4 DEF At, View
<1>7. Leads(SwitchStateLoaded, e, f)
  BY <1>2, <1>5, LeadsOn DEF SwitchStateLoaded
<1>8. QED BY <1>6, <1>7

(* The new size of the frames.                                               *)
Configured(to) == <<Call("configure", None, to), Call("ready", None, None)>>

Resized(e, f, to) ==
  f.tunnelled = e.tunnelled /\ f.capturing = e.capturing /\ f.size = to

LEMMA ConfigureLeads ==
  ASSUME NEW to \in Sizes, NEW e, NEW st, At(e, st, {}, {}, {}, FALSE)
  PROVE  \E f : /\ Leads(Configured(to), e, f)
                /\ At(f, st, {}, {}, {}, FALSE)
                /\ Resized(e, f, to)
<1> DEFINE k == Call("configure", None, to)
           l == Call("ready", None, None)
           pd == [port |-> "70", size |-> to]
           f == [e EXCEPT !.size = to, !.portdef = pd]
<1>1. e \in View /\ e.leaving = {}
  BY DEF At
<1>2. /\ k \in Calls /\ k.op = "configure" /\ k.to = to
      /\ l \in Calls /\ l.op = "ready"
  BY DEF Call, Calls
<1>3. pd \in [port : {None, "70", "72"}, size : Sizes \cup {None}]
  OBVIOUS
<1> HIDE DEF k, l
<1>4. f = [e EXCEPT !.size = k.to, !.portdef = [port |-> "70", size |-> k.to]]
  BY <1>2
<1> HIDE DEF pd
<1>5. /\ f.tunnelled = e.tunnelled /\ f.capturing = e.capturing /\ f.size = to
      /\ At(f, st, {}, {}, {}, FALSE)
  BY <1>3 DEF At, View
<1> HIDE DEF f
<1>6. Move(e, k, f)
  BY <1>1, <1>2, <1>4 DEF Move, MoveConfigure
<1>7. Move(f, l, f)
  BY <1>2, <1>5 DEF Move, MoveOther, At
<1>8. Leads(<<k, l>>, e, f)
  BY <1>2, <1>6, <1>7, LeadsTwo
<1>9. QED BY <1>5, <1>8 DEF k, l, Configured, Resized

(* A call that leaves the view as it is.                                     *)
LEMMA LeadsOther ==
  ASSUME NEW e, NEW st, NEW en, NEW pop, At(e, st, {}, en, pop, FALSE),
         NEW op \in {"clear", "driver"}
  PROVE  Leads(<<Call(op, None, None)>>, e, e)
<1>1. Call(op, None, None) \in Calls
  BY DEF Call, Calls
<1>2. Move(e, Call(op, None, None), e)
  BY DEF At, Move, MoveOther, Call
<1>3. QED BY <1>1, <1>2, LeadsOne

(* InitOpenMAXPort.                                                          *)
LEMMA TunnelLeads ==
  ASSUME NEW e, NEW st, NEW en, NEW pop, At(e, st, {}, en, pop, FALSE)
  PROVE  \E f : /\ Leads(InitOpenMAXPort, e, f) /\ At(f, st, {}, en, pop, FALSE)
                /\ f.tunnelled = TRUE /\ f.size = e.size
<1> DEFINE f == [e EXCEPT !.tunnelled = TRUE]
<1>1. Call("tunnel", None, None) \in Calls
  BY DEF Call, Calls
<1>2. Move(e, Call("tunnel", None, None), f)
  BY DEF At, Move, MoveTunnel, Call
<1>3. Leads(InitOpenMAXPort, e, f)
  BY <1>1, <1>2, LeadsOne DEF InitOpenMAXPort
<1>4. At(f, st, {}, en, pop, FALSE) /\ f.tunnelled = TRUE /\ f.size = e.size
  BY DEF At, View
<1>5. QED BY <1>3, <1>4

(* init_component_handle: a handle whose ports are all disabled.             *)
LEMMA HandleLeads ==
  ASSUME NEW e \in View, e.leaving = {}, e.busy = {}, e.enabled = {}, e.held = FALSE,
         NEW c \in Handles, NEW seq \in Seq(Ports),
         {seq[j] : j \in 1 .. Len(seq)} = PortsOf(c),
         \A i, j \in 1 .. Len(seq) : i # j => seq[i] # seq[j]
  PROVE  Leads(init_component_handle(c, seq), e, [e EXCEPT !.state = [@ EXCEPT ![c] = "Loaded"]])
<1> DEFINE k == Call("gethandle", c, None)
           st == [e.state EXCEPT ![c] = "Loaded"]
           g == [e EXCEPT !.state = st, !.enabled = PortsOf(c)]
           f == [e EXCEPT !.state = st]
<1>1. st \in [Handles -> States] /\ PortsOf(c) \in SUBSET Ports
  BY DEF View, States, PortsOf
<1>2. k \in Calls
  BY DEF Call, Calls
<1>3. Move(e, k, g)
  <2>1. g = [e EXCEPT !.state = [@ EXCEPT ![c] = "Loaded"], !.enabled = @ \cup PortsOf(c)]
    BY DEF View
  <2> HIDE DEF g
  <2>2. QED BY <2>1 DEF Move, MoveGetHandle, Call
<1> HIDE DEF k, st
<1>4. /\ g \in View /\ g.leaving = {} /\ g.busy = {} /\ g.enabled = PortsOf(c) /\ g.held = FALSE
      /\ f \in View /\ f.enabled = {} /\ f.busy = {} /\ f.held = FALSE
  BY <1>1 DEF View
<1>5. Leads(OnEach("port", seq, "disabled"), g,
            Ported(g, Switched(g.enabled, {seq[j] : j \in 1 .. Len(seq)}, "disabled"),
                      g.busy \ {ComponentOf(seq[j]) : j \in 1 .. Len(seq)},
                      g.held /\ \A j \in 1 .. Len(seq) : seq[j] # "201"))
  <2> HIDE DEF g
  <2>1. \A i \in 1 .. Len(seq) : seq[i] \in g.enabled
    BY <1>4
  <2>2. QED BY <1>4, <2>1, PortsSwitched
<1>6. Switched(g.enabled, {seq[j] : j \in 1 .. Len(seq)}, "disabled") = {}
  BY <1>4 DEF Switched
<1>7. /\ g.busy \ {ComponentOf(seq[j]) : j \in 1 .. Len(seq)} = {}
      /\ (g.held /\ \A j \in 1 .. Len(seq) : seq[j] # "201") = FALSE
  BY <1>4
<1>8. Ported(g, {}, {}, FALSE) = f
  BY <1>1 DEF Ported, View
<1>9. Leads(OnEach("port", seq, "disabled"), g, f)
  BY <1>5, <1>6, <1>7, <1>8
<1>10. Leads(<<k>>, e, g)
  BY <1>2, <1>3, LeadsOne
<1> HIDE DEF f, g
<1>11. Leads(init_component_handle(c, seq), e, f)
  BY <1>9, <1>10, LeadsOn DEF init_component_handle, k
<1>12. QED BY <1>11 DEF f, st

(* The ports of each component.                                              *)
LEMMA PortsOfIs ==
  /\ PortsOf("camera") = {"70", "71", "72", "73"}
  /\ PortsOf("encoder") = {"200", "201"} /\ PortsOf("null_sink") = {"240"}
<1>1. /\ ComponentOf("73") = "camera" /\ ComponentOf("70") = "camera"
      /\ ComponentOf("71") = "camera" /\ ComponentOf("72") = "camera"
      /\ ComponentOf("200") = "encoder" /\ ComponentOf("201") = "encoder"
      /\ ComponentOf("240") = "null_sink"
  BY DEF ComponentOf
<1>2. QED BY <1>1 DEF PortsOf, Ports

(* InitComponent.                                                            *)
LEMMA ComponentLeads ==
  ASSUME NEW e, At(e, None, {}, {}, {}, FALSE)
  PROVE  \E f : Leads(InitComponent, e, f) /\ At(f, "Loaded", {}, {}, {}, FALSE)
<1> DEFINE f1 == [e EXCEPT !.state = [@ EXCEPT !["camera"] = "Loaded"]]
           f2 == [f1 EXCEPT !.state = [@ EXCEPT !["encoder"] = "Loaded"]]
           f3 == [f2 EXCEPT !.state = [@ EXCEPT !["null_sink"] = "Loaded"]]
           p1 == <<"70", "71", "72", "73">>
           p2 == <<"200", "201">>
           p3 == <<"240">>
<1>1. Leads(<<Call("clear", None, None)>>, e, e)
  BY LeadsOther
<1>2. /\ p1 \in Seq(Ports) /\ {p1[j] : j \in 1 .. Len(p1)} = PortsOf("camera")
      /\ \A i, j \in 1 .. Len(p1) : i # j => p1[i] # p1[j]
  <2>1. p1 \in Seq(Ports) /\ Len(p1) = 4
    BY DEF Ports
  <2>2. p1[1] = "70" /\ p1[2] = "71" /\ p1[3] = "72" /\ p1[4] = "73"
    OBVIOUS
  <2>3. 1 .. 4 = {1, 2, 3, 4}
    OBVIOUS
  <2> HIDE DEF p1
  <2>4. QED BY <2>1, <2>2, <2>3, PortsOfIs
<1>3. /\ p2 \in Seq(Ports) /\ {p2[j] : j \in 1 .. Len(p2)} = PortsOf("encoder")
      /\ \A i, j \in 1 .. Len(p2) : i # j => p2[i] # p2[j]
  <2>1. p2 \in Seq(Ports) /\ Len(p2) = 2
    BY DEF Ports
  <2>2. p2[1] = "200" /\ p2[2] = "201"
    OBVIOUS
  <2>3. 1 .. 2 = {1, 2}
    OBVIOUS
  <2> HIDE DEF p2
  <2>4. QED BY <2>1, <2>2, <2>3, PortsOfIs
<1>4. /\ p3 \in Seq(Ports) /\ {p3[j] : j \in 1 .. Len(p3)} = PortsOf("null_sink")
      /\ \A i, j \in 1 .. Len(p3) : i # j => p3[i] # p3[j]
  <2>1. p3 \in Seq(Ports) /\ Len(p3) = 1
    BY DEF Ports
  <2>2. p3[1] = "240"
    OBVIOUS
  <2>3. 1 .. 1 = {1}
    OBVIOUS
  <2> HIDE DEF p3
  <2>4. QED BY <2>1, <2>2, <2>3, PortsOfIs
<1>5. /\ e \in View /\ e.leaving = {} /\ e.busy = {} /\ e.enabled = {} /\ e.populated = {}
      /\ e.held = FALSE /\ e.state \in [Handles -> States]
  BY DEF At, View
<1>6. /\ f1 \in View /\ f1.leaving = {} /\ f1.busy = {} /\ f1.enabled = {} /\ f1.held = FALSE
      /\ f1.state = [e.state EXCEPT !["camera"] = "Loaded"] /\ f1.populated = {}
  BY <1>5 DEF View, States
<1>7. "camera" \in Handles /\ "encoder" \in Handles /\ "null_sink" \in Handles
  BY DEF Handles
<1> HIDE DEF p1, p2, p3
<1>8. Leads(init_component_handle("camera", p1), e, f1)
  BY <1>2, <1>5, <1>7, HandleLeads
<1> HIDE DEF f1
<1>9. Leads(init_component_handle("encoder", p2), f1, f2)
  BY <1>3, <1>6, <1>7, HandleLeads
<1>10. /\ f2 \in View /\ f2.leaving = {} /\ f2.busy = {} /\ f2.enabled = {} /\ f2.held = FALSE
       /\ f2.state = [f1.state EXCEPT !["encoder"] = "Loaded"] /\ f2.populated = {}
  BY <1>6 DEF View, States
<1> HIDE DEF f2
<1>11. Leads(init_component_handle("null_sink", p3), f2, f3)
  BY <1>4, <1>10, <1>7, HandleLeads
<1>12. /\ f3 \in View /\ f3.leaving = {} /\ f3.busy = {} /\ f3.enabled = {} /\ f3.held = FALSE
       /\ f3.state = [f2.state EXCEPT !["null_sink"] = "Loaded"] /\ f3.populated = {}
  BY <1>10 DEF View, States
<1> HIDE DEF f3
<1>13. f3.state = InState("Loaded")
  BY <1>5, <1>6, <1>10, <1>12 DEF InState, Handles
<1>14. At(f3, "Loaded", {}, {}, {}, FALSE)
  BY <1>12, <1>13 DEF At
<1>15. Leads(<<Call("clear", None, None)>> \o init_component_handle("camera", p1), e, f1)
  BY <1>1, <1>8, LeadsOn
<1>16. Leads(<<Call("clear", None, None)>> \o init_component_handle("camera", p1)
               \o init_component_handle("encoder", p2), e, f2)
  BY <1>15, <1>9, LeadsOn
<1>17. Leads(InitComponent, e, f3)
  BY <1>16, <1>11, LeadsOn DEF InitComponent, p1, p2, p3
<1>18. QED BY <1>14, <1>17

(* The view between two sequences of calls.                                  *)
Steady(e) ==
  /\ At(e, "Executing", {}, Ports, Allocated, FALSE)
  /\ e.tunnelled = TRUE /\ e.size \in Sizes
  /\ e.portdef = [port |-> "72", size |-> e.size]

(* SwitchCapturePort.                                                        *)
LEMMA CaptureLeads ==
  ASSUME NEW e, Steady(e), NEW port \in {"71", "72"}, NEW to \in {"on", "off"}
  PROVE  \E f : /\ Leads(SwitchCapturePort(port, to), e, f) /\ Steady(f)
                /\ to = "on" => f.capturing = e.capturing \cup {port}
<1> DEFINE k == Call("capture", port, to)
           cap == IF to = "on" THEN e.capturing \cup {port} ELSE e.capturing \ {port}
           f == [e EXCEPT !.capturing = cap]
<1>1. e \in View /\ e.leaving = {}
  BY DEF At, Steady
<1>2. cap \in SUBSET {"71", "72"}
  BY <1>1 DEF View
<1>3. k \in Calls /\ k.op = "capture" /\ k.on = port /\ k.to = to
  BY DEF Call, Calls, Ports
<1> HIDE DEF k
<1>4. f = [e EXCEPT !.capturing = IF k.to = "on" THEN @ \cup {k.on} ELSE @ \ {k.on}]
  BY <1>1, <1>3
<1>5. f.capturing = cap
  BY <1>1 DEF View
<1> HIDE DEF cap
<1>6. Steady(f)
  <2>1. /\ f \in View /\ f.leaving = e.leaving /\ f.state = e.state /\ f.busy = e.busy
        /\ f.enabled = e.enabled /\ f.populated = e.populated /\ f.held = e.held
        /\ f.tunnelled = e.tunnelled /\ f.size = e.size /\ f.portdef = e.portdef
    BY <1>1, <1>2 DEF View
  <2> HIDE DEF f
  <2>2. QED BY <2>1 DEF Steady, At
<1> HIDE DEF f
<1>7. Move(e, k, f)
  BY <1>1, <1>3, <1>4 DEF Move, MoveCapture
<1>8. Leads(SwitchCapturePort(port, to), e, f)
  BY <1>3, <1>7, LeadsOne DEF SwitchCapturePort, k
<1>9. to = "on" => f.capturing = e.capturing \cup {port}
  BY <1>5 DEF cap
<1>10. QED BY <1>6, <1>8, <1>9

(* Build, from no component at all.                                          *)
LEMMA BuildLeads ==
  ASSUME NEW e, At(e, None, {}, {}, {}, FALSE)
  PROVE  \E f : Leads(Build, e, f) /\ Steady(f)
<1>0. Streaming \in Sizes
  BY DEF Sizes
<1>1. PICK f1 : Leads(InitComponent, e, f1) /\ At(f1, "Loaded", {}, {}, {}, FALSE)
  BY ComponentLeads
<1>2. Leads(Load_camera_driver, f1, f1)
  BY <1>1, LeadsOther DEF Load_camera_driver
<1>3. PICK f3 : /\ Leads(Configured(Streaming), f1, f3) /\ At(f3, "Loaded", {}, {}, {}, FALSE)
                /\ Resized(f1, f3, Streaming)
  BY <1>0, <1>1, ConfigureLeads
<1>4. PICK f4 : /\ Leads(InitOpenMAXPort, f3, f4) /\ At(f4, "Loaded", {}, {}, {}, FALSE)
                /\ f4.tunnelled = TRUE /\ f4.size = f3.size
  BY <1>3, TunnelLeads
<1>5. PICK f5 : /\ Leads(SwitchIdle, f4, f5) /\ At(f5, "Idle", {}, {}, {}, FALSE)
                /\ Kept(f4, f5)
  BY <1>4, IdleLeads
<1>6. PICK f6 : /\ Leads(EnablePort, f5, f6) /\ At(f6, "Idle", {}, Ports, {}, FALSE)
                /\ Kept(f5, f6)
  BY <1>5, EnablePortLeads
<1>7. PICK f7 : /\ Leads(AllocateBuffer, f6, f7) /\ At(f7, "Idle", {}, Ports, Allocated, FALSE)
                /\ f7.tunnelled = f6.tunnelled /\ f7.capturing = f6.capturing /\ f7.size = f6.size
                /\ f7.portdef = [port |-> "72", size |-> f6.size]
  BY <1>6, AllocateLeads
<1>8. f7.tunnelled = TRUE /\ f7.size = Streaming
  BY <1>3, <1>4, <1>5, <1>6, <1>7 DEF Kept, Resized
<1>9. PICK f9 : /\ Leads(SwitchExecuting, f7, f9)
                /\ At(f9, "Executing", {}, Ports, Allocated, FALSE) /\ Kept(f7, f9)
  BY <1>7, <1>8, ExecutingLeads
<1>10. Steady(f9)
  <2>1. f9.tunnelled = TRUE /\ f9.size = Streaming /\ f9.portdef = [port |-> "72", size |-> f9.size]
    BY <1>7, <1>8, <1>9 DEF Kept
  <2>2. QED BY <1>0, <1>9, <2>1 DEF Steady
<1>11. "72" \in {"71", "72"} /\ "on" \in {"on", "off"}
  OBVIOUS
<1>12. PICK f : Leads(SwitchCapturePort("72", "on"), f9, f) /\ Steady(f)
  BY <1>10, <1>11, CaptureLeads
<1>13. Leads(InitComponent \o Load_camera_driver, e, f1)
  BY <1>1, <1>2, LeadsOn
<1>14. Leads(InitComponent \o Load_camera_driver \o ConfigOpenMAX, e, f3)
  BY <1>13, <1>3, LeadsOn DEF ConfigOpenMAX, Configured
<1>15. Leads(InitComponent \o Load_camera_driver \o ConfigOpenMAX \o InitOpenMAXPort, e, f4)
  BY <1>14, <1>4, LeadsOn
<1>16. Leads(InitComponent \o Load_camera_driver \o ConfigOpenMAX \o InitOpenMAXPort
               \o SwitchIdle, e, f5)
  BY <1>15, <1>5, LeadsOn
<1>17. Leads(InitComponent \o Load_camera_driver \o ConfigOpenMAX \o InitOpenMAXPort
               \o SwitchIdle \o EnablePort, e, f6)
  BY <1>16, <1>6, LeadsOn
<1>18. Leads(InitComponent \o Load_camera_driver \o ConfigOpenMAX \o InitOpenMAXPort
               \o SwitchIdle \o EnablePort \o AllocateBuffer, e, f7)
  BY <1>17, <1>7, LeadsOn
<1>19. Leads(InitComponent \o Load_camera_driver \o ConfigOpenMAX \o InitOpenMAXPort
               \o SwitchIdle \o EnablePort \o AllocateBuffer \o SwitchExecuting, e, f9)
  BY <1>18, <1>9, LeadsOn
<1>20. Leads(Build, e, f)
  BY <1>19, <1>12, LeadsOn DEF Build
<1>21. QED BY <1>12, <1>20

(* ResetConfigure: the pipeline stops, is set up anew and runs again.        *)
LEMMA ResetConfigureLeads ==
  ASSUME NEW e, Steady(e), NEW to \in Sizes, NEW port \in {"71", "72"}
  PROVE  \E f : /\ Leads(ResetConfigure(to, port), e, f) /\ Steady(f)
                /\ f.capturing = e.capturing \cup {port}
<1>0. At(e, "Executing", {}, Ports, Allocated, FALSE) /\ e.tunnelled = TRUE
  BY DEF Steady
<1>1. PICK f1 : /\ Leads(SwitchBufferFlush, e, f1)
                /\ At(f1, "Executing", Handles, Ports, Allocated, TRUE) /\ Kept(e, f1)
  BY <1>0, FlushLeads
<1>2. PICK f2 : /\ Leads(DisablePort, f1, f2) /\ At(f2, "Executing", {}, {}, Allocated, FALSE)
                /\ Kept(f1, f2)
  BY <1>1, DisablePortLeads
<1>3. PICK f3 : /\ Leads(FreeBuffer, f2, f3) /\ At(f3, "Executing", {}, {}, {}, FALSE)
                /\ Kept(f2, f3)
  BY <1>2, FreeLeads
<1>4. PICK f4 : /\ Leads(Configured(to), f3, f4) /\ At(f4, "Executing", {}, {}, {}, FALSE)
                /\ Resized(f3, f4, to)
  BY <1>3, ConfigureLeads
<1>5. PICK f5 : /\ Leads(SwitchIdle, f4, f5) /\ At(f5, "Idle", {}, {}, {}, FALSE)
                /\ Kept(f4, f5)
  BY <1>4, IdleLeads
<1>6. PICK f6 : /\ Leads(EnablePort, f5, f6) /\ At(f6, "Idle", {}, Ports, {}, FALSE)
                /\ Kept(f5, f6)
  BY <1>5, EnablePortLeads
<1>7. PICK f7 : /\ Leads(AllocateBuffer, f6, f7) /\ At(f7, "Idle", {}, Ports, Allocated, FALSE)
                /\ f7.tunnelled = f6.tunnelled /\ f7.capturing = f6.capturing /\ f7.size = f6.size
                /\ f7.portdef = [port |-> "72", size |-> f6.size]
  BY <1>6, AllocateLeads
<1>8. f7.tunnelled = TRUE /\ f7.size = to /\ f7.capturing = e.capturing
  BY <1>0, <1>1, <1>2, <1>3, <1>4, <1>5, <1>6, <1>7 DEF Kept, Resized
<1>9. PICK f9 : /\ Leads(SwitchExecuting, f7, f9)
                /\ At(f9, "Executing", {}, Ports, Allocated, FALSE) /\ Kept(f7, f9)
  BY <1>7, <1>8, ExecutingLeads
<1>10. Steady(f9) /\ f9.capturing = e.capturing
  <2>1. f9.tunnelled = TRUE /\ f9.size = to /\ f9.portdef = [port |-> "72", size |-> f9.size]
    BY <1>7, <1>8, <1>9 DEF Kept
  <2>2. f9.capturing = e.capturing
    BY <1>8, <1>9 DEF Kept
  <2>3. QED BY <1>9, <2>1, <2>2 DEF Steady
<1>11. "on" \in {"on", "off"}
  OBVIOUS
<1>12. PICK f : /\ Leads(SwitchCapturePort(port, "on"), f9, f) /\ Steady(f)
                /\ "on" = "on" => f.capturing = f9.capturing \cup {port}
  BY <1>10, <1>11, CaptureLeads
<1>13. Leads(SwitchBufferFlush \o DisablePort, e, f2)
  BY <1>1, <1>2, LeadsOn
<1>14. Leads(SwitchBufferFlush \o DisablePort \o FreeBuffer, e, f3)
  BY <1>13, <1>3, LeadsOn
<1>15. Leads(SwitchBufferFlush \o DisablePort \o FreeBuffer \o Configured(to), e, f4)
  BY <1>14, <1>4, LeadsOn
<1>16. Leads(SwitchBufferFlush \o DisablePort \o FreeBuffer \o Configured(to) \o SwitchIdle, e, f5)
  BY <1>15, <1>5, LeadsOn
<1>17. Leads(SwitchBufferFlush \o DisablePort \o FreeBuffer \o Configured(to) \o SwitchIdle
               \o EnablePort, e, f6)
  BY <1>16, <1>6, LeadsOn
<1>18. Leads(SwitchBufferFlush \o DisablePort \o FreeBuffer \o Configured(to) \o SwitchIdle
               \o EnablePort \o AllocateBuffer, e, f7)
  BY <1>17, <1>7, LeadsOn
<1>19. Leads(SwitchBufferFlush \o DisablePort \o FreeBuffer \o Configured(to) \o SwitchIdle
               \o EnablePort \o AllocateBuffer \o SwitchExecuting, e, f9)
  BY <1>18, <1>9, LeadsOn
<1>20. Leads(ResetConfigure(to, port), e, f)
  BY <1>19, <1>12, LeadsOn DEF ResetConfigure, Configured
<1>21. QED BY <1>10, <1>12, <1>20

(* VideoEncode and StartStreaming.                                           *)
LEMMA EncodeLeads ==
  ASSUME NEW e, Steady(e), "71" \in e.capturing
  PROVE  Leads(VideoEncode, e, e)
<1>1. Call("encode", None, None) \in Calls
  BY DEF Call, Calls
<1>2. Running(e, "71") /\ e.leaving = {}
  BY DEF Steady, At, Running, InState
<1>3. Move(e, Call("encode", None, None), e)
  BY <1>2 DEF Move, MoveUse, Call
<1>4. QED BY <1>1, <1>3, LeadsOne DEF VideoEncode

(* OMXCaptureFrame: from the capturing port, and with its definition.        *)
LEMMA FrameLeads ==
  ASSUME NEW e, Steady(e), "72" \in e.capturing
  PROVE  Leads(OMXCaptureFrame, e, e)
<1>1. Call("frame", None, None) \in Calls
  BY DEF Call, Calls
<1>2. Running(e, "72") /\ e.leaving = {} /\ e.portdef = [port |-> "72", size |-> e.size]
  BY DEF Steady, At, Running, InState
<1>3. Move(e, Call("frame", None, None), e)
  BY <1>2 DEF Move, MoveUse, Call
<1>4. QED BY <1>1, <1>3, LeadsOne DEF OMXCaptureFrame

(* A picture, after other calls.                                             *)
LEMMA PictureLeads ==
  ASSUME NEW s, NEW a, NEW e, Leads(s, a, e), Steady(e)
  PROVE  \E f : /\ Leads(s \o SwitchCapturePort("72", "on") \o OMXCaptureFrame
                           \o SwitchCapturePort("72", "off"), a, f)
                /\ Steady(f)
<1>1. "72" \in {"71", "72"} /\ "on" \in {"on", "off"} /\ "off" \in {"on", "off"}
  OBVIOUS
<1>2. PICK f1 : /\ Leads(SwitchCapturePort("72", "on"), e, f1) /\ Steady(f1)
                /\ "on" = "on" => f1.capturing = e.capturing \cup {"72"}
  BY <1>1, CaptureLeads
<1>3. Leads(OMXCaptureFrame, f1, f1)
  <2>1. "72" \in f1.capturing
    BY <1>2
  <2>2. QED BY <1>2, <2>1, FrameLeads
<1>4. PICK f : Leads(SwitchCapturePort("72", "off"), f1, f) /\ Steady(f)
  BY <1>1, <1>2, CaptureLeads
<1>5. Leads(s \o SwitchCapturePort("72", "on"), a, f1)
  BY <1>2, LeadsOn
<1>6. Leads(s \o SwitchCapturePort("72", "on") \o OMXCaptureFrame, a, f1)
  BY <1>3, <1>5, LeadsOn
<1>7. Leads(s \o SwitchCapturePort("72", "on") \o OMXCaptureFrame
              \o SwitchCapturePort("72", "off"), a, f)
  BY <1>4, <1>6, LeadsOn
<1>8. QED BY <1>4, <1>7

(* No calls, before others.                                                  *)
LEMMA NothingFirst ==
  ASSUME NEW s \in Seq(Calls)
  PROVE  <<>> \o s = s
OBVIOUS

LEMMA NothingLeads ==
  ASSUME NEW e
  PROVE  Leads(<<>>, e, e)
<1> DEFINE trace == [i \in 0 .. 0 |-> e]
<1>1. trace[0] = e
  OBVIOUS
<1>2. <<>> \in Seq(Calls) /\ Len(<<>>) = 0 /\ 1 .. 0 = {}
  OBVIOUS
<1> HIDE DEF trace
<1>3. QED BY <1>1, <1>2 DEF Leads

(* CaptureImage.                                                             *)
LEMMA CaptureImageLeads ==
  ASSUME NEW e, Steady(e)
  PROVE  \E f : Leads(CaptureImage, e, f) /\ Steady(f)
<1>1. PICK f : /\ Leads(<<>> \o SwitchCapturePort("72", "on") \o OMXCaptureFrame
                          \o SwitchCapturePort("72", "off"), e, f)
               /\ Steady(f)
  BY NothingLeads, PictureLeads
<1>2. SwitchCapturePort("72", "on") \in Seq(Calls)
  <2>1. Call("capture", "72", "on") \in Calls
    BY DEF Call, Calls, Ports
  <2>2. QED BY <2>1 DEF SwitchCapturePort
<1>3. <<>> \o SwitchCapturePort("72", "on") = SwitchCapturePort("72", "on")
  BY <1>2, NothingFirst
<1>4. QED BY <1>1, <1>3 DEF CaptureImage

(* BackgroundSubtraction: two pictures.                                      *)
LEMMA SubtractionLeads ==
  ASSUME NEW e, Steady(e)
  PROVE  \E f : Leads(BackgroundSubtraction, e, f) /\ Steady(f)
<1>1. PICK f1 : Leads(CaptureImage, e, f1) /\ Steady(f1)
  BY CaptureImageLeads
<1>2. PICK f : /\ Leads(CaptureImage \o SwitchCapturePort("72", "on") \o OMXCaptureFrame
                          \o SwitchCapturePort("72", "off"), e, f)
               /\ Steady(f)
  BY <1>1, PictureLeads
<1>3. QED BY <1>2 DEF BackgroundSubtraction, CaptureImage

(* Stream.                                                                   *)
LEMMA StreamLeads ==
  ASSUME NEW e, Steady(e)
  PROVE  \E f : Leads(Stream, e, f) /\ Steady(f)
<1>1. /\ "71" \in {"71", "72"} /\ "72" \in {"71", "72"} /\ "off" \in {"on", "off"}
      /\ Streaming \in Sizes /\ Detection \in Sizes
  BY DEF Sizes
<1>2. PICK f1 : /\ Leads(ResetConfigure(Streaming, "71"), e, f1) /\ Steady(f1)
                /\ f1.capturing = e.capturing \cup {"71"}
  BY <1>1, ResetConfigureLeads
<1>3. Leads(VideoEncode, f1, f1)
  BY <1>2, EncodeLeads
<1>4. PICK f3 : Leads(SwitchCapturePort("72", "off"), f1, f3) /\ Steady(f3)
  BY <1>1, <1>2, CaptureLeads
<1>5. PICK f : Leads(ResetConfigure(Detection, "72"), f3, f) /\ Steady(f)
  BY <1>1, <1>4, ResetConfigureLeads
<1>6. Leads(ResetConfigure(Streaming, "71") \o VideoEncode, e, f1)
  BY <1>2, <1>3, LeadsOn
<1>7. Leads(ResetConfigure(Streaming, "71") \o VideoEncode \o SwitchCapturePort("72", "off"),
            e, f3)
  BY <1>4, <1>6, LeadsOn
<1>8. Leads(Stream, e, f)
  BY <1>5, <1>7, LeadsOn DEF Stream
<1>9. QED BY <1>5, <1>8

(* DetectEvent: the components are given up after the recording, and the     *)
(* pipeline is built again.                                                  *)
LEMMA DetectEventLeads ==
  ASSUME NEW e, Steady(e)
  PROVE  \E f : Leads(DetectEvent, e, f) /\ Steady(f)
<1>1. "71" \in {"71", "72"} /\ "off" \in {"on", "off"} /\ Recording \in Sizes
  BY DEF Sizes
<1>2. PICK f1 : Leads(BackgroundSubtraction, e, f1) /\ Steady(f1)
  BY SubtractionLeads
<1>3. PICK f2 : /\ Leads(ResetConfigure(Recording, "71"), f1, f2) /\ Steady(f2)
                /\ f2.capturing = f1.capturing \cup {"71"}
  BY <1>1, <1>2, ResetConfigureLeads
<1>4. Leads(VideoEncode, f2, f2)
  BY <1>3, EncodeLeads
<1>5. PICK f3 : Leads(SwitchCapturePort("71", "off"), f2, f3) /\ Steady(f3)
  BY <1>1, <1>3, CaptureLeads
<1>6. PICK f4 : /\ Leads(SwitchBufferFlush, f3, f4)
                /\ At(f4, "Executing", Handles, Ports, Allocated, TRUE) /\ Kept(f3, f4)
  BY <1>5, FlushLeads DEF Steady
<1>7. PICK f5 : /\ Leads(DisablePort, f4, f5) /\ At(f5, "Executing", {}, {}, Allocated, FALSE)
                /\ Kept(f4, f5)
  BY <1>6, DisablePortLeads
<1>8. PICK f6 : /\ Leads(FreeBuffer, f5, f6) /\ At(f6, "Executing", {}, {}, {}, FALSE)
                /\ Kept(f5, f6)
  BY <1>7, FreeLeads
<1>9. PICK f7 : /\ Leads(SwitchIdle, f6, f7) /\ At(f7, "Idle", {}, {}, {}, FALSE)
                /\ Kept(f6, f7)
  BY <1>8, IdleLeads
<1>10. PICK f8 : Leads(SwitchStateLoaded, f7, f8) /\ At(f8, None, {}, {}, {}, FALSE)
  BY <1>9, LoadedLeads
<1>11. PICK f : Leads(Build, f8, f) /\ Steady(f)
  BY <1>10, BuildLeads
<1>12. Leads(BackgroundSubtraction \o ResetConfigure(Recording, "71"), e, f2)
  BY <1>2, <1>3, LeadsOn
<1>13. Leads(BackgroundSubtraction \o ResetConfigure(Recording, "71") \o VideoEncode, e, f2)
  BY <1>12, <1>4, LeadsOn
<1> DEFINE recorded == BackgroundSubtraction \o ResetConfigure(Recording, "71") \o VideoEncode
                         \o SwitchCapturePort("71", "off")
<1>14. Leads(recorded, e, f3)
  BY <1>13, <1>5, LeadsOn
<1> HIDE DEF recorded
<1>15. Leads(recorded \o SwitchBufferFlush, e, f4)
  BY <1>14, <1>6, LeadsOn
<1>16. Leads(recorded \o SwitchBufferFlush \o DisablePort, e, f5)
  BY <1>15, <1>7, LeadsOn
<1>17. Leads(recorded \o SwitchBufferFlush \o DisablePort \o FreeBuffer, e, f6)
  BY <1>16, <1>8, LeadsOn
<1>18. Leads(recorded \o SwitchBufferFlush \o DisablePort \o FreeBuffer \o SwitchIdle, e, f7)
  BY <1>17, <1>9, LeadsOn
<1>19. Leads(recorded \o SwitchBufferFlush \o DisablePort \o FreeBuffer \o SwitchIdle
               \o SwitchStateLoaded, e, f8)
  BY <1>18, <1>10, LeadsOn
<1>20. Leads(DetectEvent, e, f)
  BY <1>19, <1>11, LeadsOn DEF DetectEvent, recorded
<1>21. QED BY <1>11, <1>20

(* The constructors: from no component to a steady view.                     *)
LEMMA StartLeads ==
  ASSUME NEW e, At(e, None, {}, {}, {}, FALSE)
  PROVE  \E f : Leads(Build \o CaptureImage, e, f) /\ Steady(f)
<1>1. PICK f1 : Leads(Build, e, f1) /\ Steady(f1)
  BY BuildLeads
<1>2. PICK f : Leads(CaptureImage, f1, f) /\ Steady(f)
  BY <1>1, CaptureImageLeads
<1>3. QED BY <1>1, <1>2, LeadsOn

-----------------------------------------------------------------------------
(* The invariant.                                                            *)

(* What the program set is as in the view.                                   *)
Fields(v) ==
  /\ enabled = v.enabled /\ populated = v.populated
  /\ size = v.size /\ camera_portdef = v.portdef
  /\ v.tunnelled = TRUE => tunnelled = TRUE
  /\ v.capturing \subseteq capturing
  /\ v.held = FALSE => owner = "program"

Flushes(s) == \A i \in 1 .. Len(s) : s[i].op = "flush"

(* A component has done what it was sent, except for flushes; or it has yet  *)
(* to go to Loaded.                                                          *)
Quiet(v, c) ==
  /\ Flushes(commands[c]) /\ (commands[c] # <<>> => c \in v.busy)
  /\ state[c] = v.state[c]

Leaving(v, c) ==
  /\ c \in v.leaving /\ commands[c] = <<Call("load", c, "Loaded")>>
  /\ state[c] = "Idle" /\ v.state[c] = "Loaded"
  /\ PortsOf(c) \cap populated = {}

Settled(v) ==
  /\ Fields(v)
  /\ \A c \in Handles : Quiet(v, c) \/ Leaving(v, c)

Target(k) == IF k.op = "state" THEN k.on ELSE ComponentOf(k.on)

(* The call k was sent to its component and not executed.                    *)
UnderWay(v, k) ==
  /\ Fields(v)
  /\ \A c \in Handles \ {Target(k)} : Quiet(v, c)
  /\ LET c == Target(k) IN
     /\ commands[c] # <<>> /\ state[c] = v.state[c]
     /\ commands[c][Len(commands[c])] = k
     /\ \A i \in 1 .. Len(commands[c]) - 1 : commands[c][i].op = "flush"
     /\ Len(commands[c]) > 1 => c \in v.busy

(* The plan of the calls s: the first leads from e to f, the others to b.    *)
Planned(s, e, f, b) ==
  /\ e \in View /\ f \in View /\ b \in View /\ Steady(b)
  /\ s = <<>> => e = b /\ f = b
  /\ s # <<>> => Move(e, Head(s), f) /\ Leads(Tail(s), f, b)

Matches(e, f) ==
  /\ sent = FALSE => Settled(e)
  /\ sent = TRUE => /\ script # <<>> /\ Now.op \in {"state", "port", "flush"}
                    /\ \/ Settled(f)
                       \/ Now.op \in {"state", "port"} /\ UnderWay(e, Now)

Inv == TypeOK /\ \E e, f, b : Planned(script, e, f, b) /\ Matches(e, f)

(* The call decides which move it is.                                        *)
LEMMA MoveIs ==
  ASSUME NEW e, NEW k, NEW f, Move(e, k, f)
  PROVE  /\ k.op = "state" => MoveState(e, k, f)
         /\ k.op = "port" => MovePort(e, k, f)
         /\ k.op = "flush" => MoveFlush(e, k, f)
         /\ k.op = "load" => MoveLoad(e, k, f)
         /\ k.op = "freehandle" => MoveFreeHandle(e, k, f)
         /\ k.op = "gethandle" => MoveGetHandle(e, k, f)
         /\ k.op = "configure" => MoveConfigure(e, k, f)
         /\ k.op = "tunnel" => MoveTunnel(e, k, f)
         /\ k.op = "capture" => MoveCapture(e, k, f)
         /\ k.op \in {"clear", "driver", "ready"} => MoveOther(e, k, f)
         /\ k.op = "allocate" => MoveAllocate(e, k, f)
         /\ k.op = "free" => MoveFree(e, k, f)
         /\ k.op = "fill" => MoveFill(e, k, f)
         /\ k.op \in {"encode", "frame"} => MoveUse(e, k, f)
<1>1. /\ MoveState(e, k, f) => k.op = "state"
      /\ MovePort(e, k, f) => k.op = "port"
      /\ MoveFlush(e, k, f) => k.op = "flush"
      /\ MoveLoad(e, k, f) => k.op = "load"
      /\ MoveFreeHandle(e, k, f) => k.op = "freehandle"
      /\ MoveGetHandle(e, k, f) => k.op = "gethandle"
      /\ MoveConfigure(e, k, f) => k.op = "configure"
  BY DEF MoveState, MovePort, MoveFlush, MoveLoad, MoveFreeHandle, MoveGetHandle, MoveConfigure
<1>2. /\ MoveTunnel(e, k, f) => k.op = "tunnel"
      /\ MoveCapture(e, k, f) => k.op = "capture"
      /\ MoveOther(e, k, f) => k.op \in {"clear", "driver", "ready"}
      /\ MoveAllocate(e, k, f) => k.op = "allocate"
      /\ MoveFree(e, k, f) => k.op = "free"
      /\ MoveFill(e, k, f) => k.op = "fill"
      /\ MoveUse(e, k, f) => k.op \in {"encode", "frame"}
  BY DEF MoveTunnel, MoveCapture, MoveOther, MoveAllocate, MoveFree, MoveFill, MoveUse
<1>3. QED BY <1>1, <1>2 DEF Move

(* A move leads to a view.                                                   *)
LEMMA MoveKeepsView ==
  ASSUME NEW e \in View, NEW k, NEW f, Move(e, k, f)
  PROVE  f \in View
<1>1. CASE MoveState(e, k, f)
  <2>1. [e.state EXCEPT ![k.on] = k.to] \in [Handles -> States]
    BY <1>1 DEF MoveState, View, States
  <2>2. QED BY <1>1, <2>1 DEF MoveState, View
<1>2. CASE MovePort(e, k, f)
  <2>1. /\ e.enabled \cup {k.on} \in SUBSET Ports /\ e.enabled \ {k.on} \in SUBSET Ports
        /\ e.busy \ {ComponentOf(k.on)} \in SUBSET Handles /\ (e.held /\ k.on # "201") \in BOOLEAN
    BY <1>2 DEF MovePort, View
  <2>2. QED BY <1>2, <2>1 DEF MovePort, View
<1>3. CASE MoveFlush(e, k, f)
  <2>1. e.busy \cup {ComponentOf(k.on)} \in SUBSET Handles
    BY <1>3, ComponentOfIs DEF MoveFlush, View
  <2>2. QED BY <1>3, <2>1 DEF MoveFlush, View
<1>4. CASE MoveLoad(e, k, f)
  <2>1. /\ [e.state EXCEPT ![k.on] = "Loaded"] \in [Handles -> States]
        /\ e.leaving \cup {k.on} \in SUBSET Handles
    BY <1>4 DEF MoveLoad, View, States
  <2>2. QED BY <1>4, <2>1 DEF MoveLoad, View
<1>5. CASE MoveFreeHandle(e, k, f)
  <2>1. /\ [e.state EXCEPT ![k.on] = None] \in [Handles -> States]
        /\ e.leaving \ {k.on} \in SUBSET Handles /\ e.busy \ {k.on} \in SUBSET Handles
    BY <1>5 DEF MoveFreeHandle, View, States
  <2>2. QED BY <1>5, <2>1 DEF MoveFreeHandle, View
<1>6. CASE MoveGetHandle(e, k, f)
  <2>1. /\ [e.state EXCEPT ![k.on] = "Loaded"] \in [Handles -> States]
        /\ e.enabled \cup PortsOf(k.on) \in SUBSET Ports
    BY <1>6 DEF MoveGetHandle, View, States, PortsOf
  <2>2. QED BY <1>6, <2>1 DEF MoveGetHandle, View
<1>7. CASE MoveConfigure(e, k, f)
  <2>1. [port |-> "70", size |-> k.to] \in [port : {None, "70", "72"}, size : Sizes \cup {None}]
    BY <1>7 DEF MoveConfigure
  <2>2. QED BY <1>7, <2>1 DEF MoveConfigure, View
<1>8. CASE MoveTunnel(e, k, f)
  BY <1>8 DEF MoveTunnel, View
<1>9. CASE MoveCapture(e, k, f)
  <2>1. /\ e.capturing \cup {k.on} \in SUBSET {"71", "72"}
        /\ e.capturing \ {k.on} \in SUBSET {"71", "72"}
    BY <1>9 DEF MoveCapture, View
  <2>2. QED BY <1>9, <2>1 DEF MoveCapture, View
<1>10. CASE MoveOther(e, k, f)
  BY <1>10 DEF MoveOther
<1>11. CASE MoveAllocate(e, k, f)
  <2>1. [port |-> "72", size |-> e.size] \in [port : {None, "70", "72"}, size : Sizes \cup {None}]
    BY <1>11 DEF MoveAllocate, View
  <2>2. QED BY <1>11, <2>1 DEF MoveAllocate, View
<1>12. CASE MoveFree(e, k, f)
  BY <1>12 DEF MoveFree, View
<1>13. CASE MoveFill(e, k, f)
  BY <1>13 DEF MoveFill, View
<1>14. CASE MoveUse(e, k, f)
  BY <1>14 DEF MoveUse
<1>15. QED BY <1>1, <1>2, <1>3, <1>4, <1>5, <1>6, <1>7, <1>8, <1>9, <1>10, <1>11, <1>12, <1>13,
              <1>14 DEF Move

(* There is a plan for calls that lead on.                                   *)
LEMMA PlanOf ==
  ASSUME NEW s, NEW e \in View, NEW b \in View, Steady(b), Leads(s, e, b)
  PROVE  \E f : Planned(s, e, f, b)
<1>1. CASE s = <<>>
  BY <1>1, LeadsNowhere DEF Planned
<1>2. CASE s # <<>>
  <2>1. PICK f : Move(e, Head(s), f) /\ Leads(Tail(s), f, b)
    BY <1>2, LeadsHead
  <2>2. f \in View
    BY <2>1, MoveKeepsView
  <2>3. Planned(s, e, f, b)
    BY <1>2, <2>1, <2>2 DEF Planned
  <2>4. QED BY <2>3
<1>3. QED BY <1>1, <1>2

(* The call at hand is done.                                                 *)
LEMMA NextCall ==
  ASSUME NEW e, NEW f, NEW b, Planned(script, e, f, b), script # <<>>, Done,
         TypeOK', Settled(f)'
  PROVE  Inv'
<1>1. f \in View /\ b \in View /\ Steady(b) /\ Leads(script', f, b)
  BY DEF Planned, Done
<1>2. PICK g : Planned(script', f, g, b)
  BY <1>1, PlanOf
<1>3. Matches(f, g)'
  BY DEF Matches, Done
<1>4. QED BY <1>2, <1>3 DEF Inv

(* The configuration or the buffers changed, and no component.               *)
LEMMA StillSettled ==
  ASSUME NEW e, NEW f, Settled(e), e.leaving = {},
         f.state = e.state, f.busy = e.busy, UNCHANGED <<state, commands>>, Fields(f)'
  PROVE  Settled(f)'
BY DEF Settled, Quiet, Leaving, Flushes

(* The call at hand.                                                         *)
LEMMA AtHand ==
  ASSUME NEW e, NEW f, NEW b, TypeOK, Planned(script, e, f, b), Matches(e, f), script # <<>>
  PROVE  /\ Now \in Calls /\ Tail(script) \in Seq(Calls) /\ Move(e, Now, f)
         /\ e \in View /\ f \in View
         /\ Now.op \notin {"state", "port", "flush"} => sent = FALSE /\ Settled(e)
<1>1. script \in Seq(Calls) /\ sent \in BOOLEAN
  BY DEF TypeOK
<1>2. Head(script) \in Calls /\ Tail(script) \in Seq(Calls)
  BY <1>1, HeadTailProperties, EmptySeq
<1>3. QED BY <1>1, <1>2 DEF Planned, Matches, Now

-----------------------------------------------------------------------------
(* The steps of the program.                                                 *)

(* The calls that change the configuration, or nothing.                      *)
LEMMA StepClear ==
  ASSUME NEW e, NEW f, NEW b, TypeOK, Planned(script, e, f, b), Matches(e, f), ClearContext
  PROVE  Inv'
<1>1. script # <<>> /\ Now.op = "clear" /\ Done
  BY DEF ClearContext, Turn
<1>2. Move(e, Now, f) /\ Settled(e) /\ Tail(script) \in Seq(Calls)
  BY <1>1, AtHand
<1>3. f = e /\ e.leaving = {}
  BY <1>1, <1>2, MoveIs DEF MoveOther
<1>4. TypeOK'
  BY <1>1, <1>2 DEF ClearContext, TypeOK, Done, omx, config
<1>5. Fields(f)'
  BY <1>2, <1>3 DEF Settled, Fields, ClearContext, omx, config
<1>6. UNCHANGED <<state, commands>>
  BY DEF ClearContext, omx
<1>7. QED BY <1>1, <1>2, <1>3, <1>4, <1>5, <1>6, StillSettled, NextCall

LEMMA StepDriver ==
  ASSUME NEW e, NEW f, NEW b, TypeOK, Planned(script, e, f, b), Matches(e, f), LoadCameraDriver
  PROVE  Inv'
<1>1. script # <<>> /\ Now.op = "driver" /\ Done
  BY DEF LoadCameraDriver, Turn
<1>2. Move(e, Now, f) /\ Settled(e) /\ Tail(script) \in Seq(Calls)
  BY <1>1, AtHand
<1>3. f = e /\ e.leaving = {}
  BY <1>1, <1>2, MoveIs DEF MoveOther
<1>4. TypeOK'
  BY <1>1, <1>2 DEF LoadCameraDriver, TypeOK, Done, omx, config
<1>5. Fields(f)'
  BY <1>2, <1>3 DEF Settled, Fields, LoadCameraDriver, omx, config
<1>6. UNCHANGED <<state, commands>>
  BY DEF LoadCameraDriver, omx
<1>7. QED BY <1>1, <1>2, <1>3, <1>4, <1>5, <1>6, StillSettled, NextCall

LEMMA StepReady ==
  ASSUME NEW e, NEW f, NEW b, TypeOK, Planned(script, e, f, b), Matches(e, f), AwaitCameraReady
  PROVE  Inv'
<1>1. script # <<>> /\ Now.op = "ready" /\ Done
  BY DEF AwaitCameraReady, Turn
<1>2. Move(e, Now, f) /\ Settled(e) /\ Tail(script) \in Seq(Calls)
  BY <1>1, AtHand
<1>3. f = e /\ e.leaving = {}
  BY <1>1, <1>2, MoveIs DEF MoveOther
<1>4. TypeOK'
  BY <1>1, <1>2 DEF AwaitCameraReady, TypeOK, Done, omx, ctx, config
<1>5. Fields(f)'
  BY <1>2, <1>3 DEF Settled, Fields, AwaitCameraReady, omx, config
<1>6. UNCHANGED <<state, commands>>
  BY DEF AwaitCameraReady, omx
<1>7. QED BY <1>1, <1>2, <1>3, <1>4, <1>5, <1>6, StillSettled, NextCall

LEMMA StepUse ==
  ASSUME NEW e, NEW f, NEW b, TypeOK, Planned(script, e, f, b), Matches(e, f), Use
  PROVE  Inv'
<1>1. script # <<>> /\ Now.op \in {"encode", "frame"} /\ Done
  BY DEF Use, Turn
<1>2. Move(e, Now, f) /\ Settled(e) /\ Tail(script) \in Seq(Calls)
  BY <1>1, AtHand
<1>3. f = e /\ e.leaving = {}
  BY <1>1, <1>2, MoveIs DEF MoveUse
<1>4. TypeOK'
  BY <1>1, <1>2 DEF Use, TypeOK, Done, omx, ctx, config
<1>5. Fields(f)'
  BY <1>2, <1>3 DEF Settled, Fields, Use, omx, config
<1>6. UNCHANGED <<state, commands>>
  BY DEF Use, omx
<1>7. QED BY <1>1, <1>2, <1>3, <1>4, <1>5, <1>6, StillSettled, NextCall

LEMMA StepConfigure ==
  ASSUME NEW e, NEW f, NEW b, TypeOK, Planned(script, e, f, b), Matches(e, f), Configure
  PROVE  Inv'
<1>1. script # <<>> /\ Now.op = "configure" /\ Done
  BY DEF Configure, Turn
<1>2. Move(e, Now, f) /\ Settled(e) /\ Tail(script) \in Seq(Calls) /\ e \in View
  BY <1>1, AtHand
<1>3. MoveConfigure(e, Now, f)
  BY <1>1, <1>2, MoveIs
<1>4. Now.to \in Sizes /\ e.leaving = {}
  BY <1>3 DEF MoveConfigure
<1>5. /\ f.state = e.state /\ f.busy = e.busy /\ f.enabled = e.enabled
      /\ f.populated = e.populated /\ f.tunnelled = e.tunnelled /\ f.held = e.held
      /\ f.capturing = e.capturing /\ f.size = Now.to /\ f.portdef = [port |-> "70", size |-> Now.to]
  BY <1>2, <1>3 DEF MoveConfigure, View
<1>6. TypeOK'
  <2>1. [port |-> "70", size |-> Now.to] \in [port : {None, "70", "72"}, size : Sizes \cup {None}]
    BY <1>4
  <2>2. QED BY <1>1, <1>2, <1>4, <2>1 DEF Configure, TypeOK, Done, omx, ctx
<1>7. Fields(f)'
  BY <1>2, <1>5 DEF Settled, Fields, Configure, omx
<1>8. UNCHANGED <<state, commands>>
  BY DEF Configure, omx
<1>9. QED BY <1>1, <1>2, <1>4, <1>5, <1>6, <1>7, <1>8, StillSettled, NextCall

LEMMA StepTunnel ==
  ASSUME NEW e, NEW f, NEW b, TypeOK, Planned(script, e, f, b), Matches(e, f), SetupTunnel
  PROVE  Inv'
<1>1. script # <<>> /\ Now.op = "tunnel" /\ Done
  BY DEF SetupTunnel, Turn
<1>2. Move(e, Now, f) /\ Settled(e) /\ Tail(script) \in Seq(Calls) /\ e \in View
  BY <1>1, AtHand
<1>3. MoveTunnel(e, Now, f)
  BY <1>1, <1>2, MoveIs
<1>4. /\ f.state = e.state /\ f.busy = e.busy /\ f.enabled = e.enabled
      /\ f.populated = e.populated /\ f.held = e.held /\ f.capturing = e.capturing
      /\ f.size = e.size /\ f.portdef = e.portdef /\ e.leaving = {}
  BY <1>2, <1>3 DEF MoveTunnel, View
<1>5. TypeOK'
  BY <1>1, <1>2 DEF SetupTunnel, TypeOK, Done, ctx, config
<1>6. Fields(f)'
  BY <1>2, <1>4 DEF Settled, Fields, SetupTunnel, config
<1>7. UNCHANGED <<state, commands>>
  BY DEF SetupTunnel
<1>8. QED BY <1>1, <1>2, <1>4, <1>5, <1>6, <1>7, StillSettled, NextCall

LEMMA StepCapture ==
  ASSUME NEW e, NEW f, NEW b, TypeOK, Planned(script, e, f, b), Matches(e, f), SetCapturing
  PROVE  Inv'
<1>1. script # <<>> /\ Now.op = "capture" /\ Done
  BY DEF SetCapturing, Turn
<1>2. Move(e, Now, f) /\ Settled(e) /\ Tail(script) \in Seq(Calls) /\ e \in View
  BY <1>1, AtHand
<1>3. MoveCapture(e, Now, f)
  BY <1>1, <1>2, MoveIs
<1>4. /\ f.state = e.state /\ f.busy = e.busy /\ f.enabled = e.enabled
      /\ f.populated = e.populated /\ f.held = e.held /\ f.tunnelled = e.tunnelled
      /\ f.size = e.size /\ f.portdef = e.portdef /\ e.leaving = {} /\ Now.on \in {"71", "72"}
      /\ f.capturing = IF Now.to = "on" THEN e.capturing \cup {Now.on} ELSE e.capturing \ {Now.on}
  BY <1>2, <1>3 DEF MoveCapture, View
<1>5. TypeOK'
  BY <1>1, <1>2, <1>4 DEF SetCapturing, TypeOK, Done, ctx, config
<1>6. Fields(f)'
  BY <1>2, <1>4 DEF Settled, Fields, SetCapturing, config
<1>7. UNCHANGED <<state, commands>>
  BY DEF SetCapturing
<1>8. QED BY <1>1, <1>2, <1>4, <1>5, <1>6, <1>7, StillSettled, NextCall

(* The calls that allocate, free and hand over the buffers.                  *)
LEMMA StepAllocate ==
  ASSUME NEW e, NEW f, NEW b, TypeOK, Planned(script, e, f, b), Matches(e, f), Allocate
  PROVE  Inv'
<1>1. script # <<>> /\ Now.op = "allocate" /\ Done
  BY DEF Allocate, Turn
<1>2. Move(e, Now, f) /\ Settled(e) /\ Tail(script) \in Seq(Calls) /\ e \in View
  BY <1>1, AtHand
<1>3. MoveAllocate(e, Now, f)
  BY <1>1, <1>2, MoveIs
<1>4. /\ f.state = e.state /\ f.busy = e.busy /\ f.enabled = e.enabled
      /\ f.populated = Allocated /\ f.held = e.held /\ f.tunnelled = e.tunnelled
      /\ f.capturing = e.capturing /\ f.size = e.size /\ e.leaving = {}
      /\ f.portdef = [port |-> "72", size |-> e.size]
  BY <1>2, <1>3 DEF MoveAllocate, View
<1>5. TypeOK'
  <2>1. [port |-> "72", size |-> size] \in [port : {None, "70", "72"}, size : Sizes \cup {None}]
    BY DEF TypeOK
  <2>2. QED BY <1>1, <1>2, <2>1 DEF Allocate, TypeOK, Done, ctx
<1>6. Fields(f)'
  BY <1>2, <1>4 DEF Settled, Fields, Allocate
<1>7. UNCHANGED <<state, commands>>
  BY DEF Allocate
<1>8. QED BY <1>1, <1>2, <1>4, <1>5, <1>6, <1>7, StillSettled, NextCall

LEMMA StepFree ==
  ASSUME NEW e, NEW f, NEW b, TypeOK, Planned(script, e, f, b), Matches(e, f), Free
  PROVE  Inv'
<1>1. script # <<>> /\ Now.op = "free" /\ Done
  BY DEF Free, Turn
<1>2. Move(e, Now, f) /\ Settled(e) /\ Tail(script) \in Seq(Calls) /\ e \in View
  BY <1>1, AtHand
<1>3. MoveFree(e, Now, f)
  BY <1>1, <1>2, MoveIs
<1>4. /\ f.state = e.state /\ f.busy = e.busy /\ f.enabled = e.enabled
      /\ f.populated = {} /\ f.held = e.held /\ f.tunnelled = e.tunnelled
      /\ f.capturing = e.capturing /\ f.size = e.size /\ e.leaving = {}
      /\ f.portdef = e.portdef
  BY <1>2, <1>3 DEF MoveFree, View
<1>5. TypeOK'
  BY <1>1, <1>2 DEF Free, TypeOK, Done, ctx, config
<1>6. Fields(f)'
  BY <1>2, <1>4 DEF Settled, Fields, Free, config
<1>7. UNCHANGED <<state, commands>>
  BY DEF Free
<1>8. QED BY <1>1, <1>2, <1>4, <1>5, <1>6, <1>7, StillSettled, NextCall

LEMMA StepFill ==
  ASSUME NEW e, NEW f, NEW b, TypeOK, Planned(script, e, f, b), Matches(e, f), FillThisBuffer
  PROVE  Inv'
<1>1. script # <<>> /\ Now.op = "fill" /\ Done
  BY DEF FillThisBuffer, Turn
<1>2. Move(e, Now, f) /\ Settled(e) /\ Tail(script) \in Seq(Calls) /\ e \in View
  BY <1>1, AtHand
<1>3. MoveFill(e, Now, f)
  BY <1>1, <1>2, MoveIs
<1>4. /\ f.state = e.state /\ f.busy = e.busy /\ f.enabled = e.enabled
      /\ f.populated = e.populated /\ f.held = TRUE /\ f.tunnelled = e.tunnelled
      /\ f.capturing = e.capturing /\ f.size = e.size /\ e.leaving = {}
      /\ f.portdef = e.portdef
  BY <1>2, <1>3 DEF MoveFill, View
<1>5. TypeOK'
  BY <1>1, <1>2 DEF FillThisBuffer, TypeOK, Done, ctx, config
<1>6. Fields(f)'
  BY <1>2, <1>4 DEF Settled, Fields, FillThisBuffer, config
<1>7. UNCHANGED <<state, commands>>
  BY DEF FillThisBuffer
<1>8. QED BY <1>1, <1>2, <1>4, <1>5, <1>6, <1>7, StillSettled, NextCall

(* The commands that components are sent.                                    *)
Commands == {k \in Calls : k.op \in {"state", "load", "port", "flush"}}

LEMMA Appended ==
  ASSUME NEW s \in Seq(Commands), NEW k \in Commands
  PROVE  /\ Append(s, k) \in Seq(Commands) /\ Append(s, k) # <<>>
         /\ Len(s) \in Nat /\ Len(Append(s, k)) = Len(s) + 1
         /\ \A i \in 1 .. Len(s) : Append(s, k)[i] = s[i]
         /\ Append(s, k)[Len(s) + 1] = k
         /\ s = <<>> => Append(s, k) = <<k>>
<1>1. /\ Append(s, k) \in Seq(Commands) /\ Append(s, k) # <<>>
      /\ Len(Append(s, k)) = Len(s) + 1
      /\ \A i \in 1 .. Len(s) : Append(s, k)[i] = s[i]
      /\ Append(s, k)[Len(s) + 1] = k
  BY AppendProperties
<1>2. Len(s) \in Nat
  BY LenProperties
<1>3. Append(<<>>, k) = <<k>>
  OBVIOUS
<1>4. QED BY <1>1, <1>2, <1>3

(* OMX_FreeHandle: what was pending at the component is gone with it.        *)
LEMMA StepFreeHandle ==
  ASSUME NEW e, NEW f, NEW b, TypeOK, Planned(script, e, f, b), Matches(e, f), FreeHandle
  PROVE  Inv'
<1>1. script # <<>> /\ Now.op = "freehandle" /\ Done
  BY DEF FreeHandle, Turn
<1>2. Move(e, Now, f) /\ Settled(e) /\ Tail(script) \in Seq(Calls) /\ e \in View
  BY <1>1, AtHand
<1>3. MoveFreeHandle(e, Now, f)
  BY <1>1, <1>2, MoveIs
<1>4. /\ f.state = [e.state EXCEPT ![Now.on] = None] /\ f.busy = e.busy \ {Now.on}
      /\ f.leaving = e.leaving \ {Now.on} /\ f.enabled = e.enabled
      /\ f.populated = e.populated /\ f.held = e.held /\ f.tunnelled = FALSE
      /\ f.capturing = {} /\ f.size = e.size /\ f.portdef = e.portdef
      /\ Now.on \in Handles /\ e.state \in [Handles -> States]
  BY <1>2, <1>3 DEF MoveFreeHandle, View
<1>5. TypeOK'
  <2>1. /\ state' \in [Handles -> {None, "Loaded", "Idle", "Executing"}]
        /\ commands' \in [Handles -> Seq(Commands)]
    <3>1. state' \in [Handles -> {None, "Loaded", "Idle", "Executing"}]
      BY DEF FreeHandle, TypeOK
    <3>2. commands \in [Handles -> Seq(Commands)] /\ <<>> \in Seq(Commands)
      BY DEF TypeOK, Commands
    <3>3. commands' = [commands EXCEPT ![Now.on] = <<>>]
      BY DEF FreeHandle
    <3>4. QED BY <3>1, <3>2, <3>3
  <2>2. QED BY <1>1, <1>2, <2>1 DEF FreeHandle, TypeOK, Done, ctx, config, Commands
<1>6. Fields(f)'
  BY <1>2, <1>4 DEF Settled, Fields, FreeHandle, config
<1>7. ASSUME NEW c \in Handles PROVE Quiet(f, c)' \/ Leaving(f, c)'
  <2>1. CASE c = Now.on
    <3>1. commands'[c] = <<>> /\ state'[c] = None
      BY <2>1 DEF FreeHandle, TypeOK
    <3>2. Len(commands'[c]) = 0 /\ 1 .. 0 = {}
      BY <3>1
    <3>3. QED BY <1>4, <2>1, <3>1, <3>2 DEF Quiet, Flushes
  <2>2. CASE c # Now.on
    <3>1. commands'[c] = commands[c] /\ state'[c] = state[c] /\ populated' = populated
      BY <2>2 DEF FreeHandle, TypeOK
    <3>2. f.state[c] = e.state[c]
      BY <1>4, <2>2
    <3>3. Quiet(e, c) \/ Leaving(e, c)
      BY <1>2 DEF Settled
    <3>4. QED BY <1>4, <2>2, <3>1, <3>2, <3>3 DEF Quiet, Leaving, Flushes
  <2>3. QED BY <2>1, <2>2
<1>8. Settled(f)'
  BY <1>6, <1>7 DEF Settled
<1>9. QED BY <1>1, <1>5, <1>8, NextCall

(* OMX_GetHandle.                                                            *)
LEMMA StepGetHandle ==
  ASSUME NEW e, NEW f, NEW b, TypeOK, Planned(script, e, f, b), Matches(e, f), GetHandle
  PROVE  Inv'
<1>1. script # <<>> /\ Now.op = "gethandle" /\ Done
  BY DEF GetHandle, Turn
<1>2. Move(e, Now, f) /\ Settled(e) /\ Tail(script) \in Seq(Calls) /\ e \in View
  BY <1>1, AtHand
<1>3. MoveGetHandle(e, Now, f)
  BY <1>1, <1>2, MoveIs
<1>4. /\ f.state = [e.state EXCEPT ![Now.on] = "Loaded"] /\ f.busy = e.busy
      /\ f.leaving = {} /\ e.leaving = {} /\ f.enabled = e.enabled \cup PortsOf(Now.on)
      /\ f.populated = e.populated /\ f.held = e.held /\ f.tunnelled = e.tunnelled
      /\ f.capturing = e.capturing /\ f.size = e.size /\ f.portdef = e.portdef
      /\ Now.on \in Handles /\ e.state \in [Handles -> States]
  BY <1>2, <1>3 DEF MoveGetHandle, View
<1>5. TypeOK'
  <2>1. /\ state' \in [Handles -> {None, "Loaded", "Idle", "Executing"}]
        /\ enabled' \subseteq Ports
    BY DEF GetHandle, TypeOK, PortsOf
  <2>2. QED BY <1>1, <1>2, <2>1 DEF GetHandle, TypeOK, Done, ctx, config
<1>6. Fields(f)'
  BY <1>2, <1>4 DEF Settled, Fields, GetHandle, config
<1>7. ASSUME NEW c \in Handles PROVE Quiet(f, c)'
  <2>1. commands'[c] = commands[c] /\ state'[c] = IF c = Now.on THEN "Loaded" ELSE state[c]
    BY DEF GetHandle, TypeOK
  <2>2. f.state[c] = IF c = Now.on THEN "Loaded" ELSE e.state[c]
    BY <1>4
  <2>3. Quiet(e, c)
    BY <1>2, <1>4 DEF Settled, Leaving
  <2>4. QED BY <1>4, <2>1, <2>2, <2>3 DEF Quiet, Flushes
<1>8. Settled(f)'
  BY <1>6, <1>7 DEF Settled
<1>9. QED BY <1>1, <1>5, <1>8, NextCall

(* OMX_SendCommand of SwitchStateLoaded, which goes on at once.              *)
LEMMA StepSendLoaded ==
  ASSUME NEW e, NEW f, NEW b, TypeOK, Planned(script, e, f, b), Matches(e, f), SendLoaded
  PROVE  Inv'
<1>1. script # <<>> /\ Now.op = "load" /\ Done
  BY DEF SendLoaded, Turn
<1>2. /\ Move(e, Now, f) /\ Settled(e) /\ Tail(script) \in Seq(Calls) /\ e \in View
      /\ Now \in Calls
  BY <1>1, AtHand
<1>3. MoveLoad(e, Now, f)
  BY <1>1, <1>2, MoveIs
<1>4. /\ f.state = [e.state EXCEPT ![Now.on] = "Loaded"] /\ f.busy = e.busy
      /\ f.leaving = e.leaving \cup {Now.on} /\ f.enabled = e.enabled
      /\ f.populated = e.populated /\ f.held = e.held /\ f.tunnelled = e.tunnelled
      /\ f.capturing = e.capturing /\ f.size = e.size /\ f.portdef = e.portdef
      /\ Now.on \in Handles /\ e.state \in [Handles -> States]
      /\ Now.on \notin e.busy /\ Now.to = "Loaded"
  BY <1>2, <1>3 DEF MoveLoad, View
<1>5. e.state[Now.on] = "Idle" /\ PortsOf(Now.on) \cap e.populated = {}
  BY <1>3 DEF MoveLoad, Enters
<1>6. commands[Now.on] = <<>> /\ state[Now.on] = "Idle"
  BY <1>2, <1>4, <1>5 DEF Settled, Quiet, Leaving
<1>7. Now \in Commands /\ Now = Call("load", Now.on, "Loaded")
  BY <1>1, <1>2, <1>4 DEF Commands, Calls, Call
<1>8. Append(commands[Now.on], Now) = <<Now>> /\ <<Now>> \in Seq(Commands)
  BY <1>6, <1>7, Appended
<1>9. commands' = [commands EXCEPT ![Now.on] = <<Now>>]
  BY <1>8 DEF SendLoaded
<1>10. TypeOK'
  <2>1. commands' \in [Handles -> Seq(Commands)]
    BY <1>8, <1>9 DEF TypeOK, Commands
  <2>2. QED BY <1>1, <1>2, <2>1 DEF SendLoaded, TypeOK, Done, ctx, config, Commands
<1>11. Fields(f)'
  BY <1>2, <1>4 DEF Settled, Fields, SendLoaded, config
<1>12. ASSUME NEW c \in Handles PROVE Quiet(f, c)' \/ Leaving(f, c)'
  <2>1. state' = state /\ populated' = populated /\ populated = e.populated
    BY <1>2 DEF SendLoaded, Settled, Fields
  <2>2. CASE c = Now.on
    <3>1. commands'[c] = <<Call("load", c, "Loaded")>>
      BY <1>7, <1>9, <2>2 DEF TypeOK
    <3>2. QED BY <1>4, <1>5, <1>6, <2>1, <2>2, <3>1 DEF Leaving
  <2>3. CASE c # Now.on
    <3>1. commands'[c] = commands[c] /\ f.state[c] = e.state[c]
      BY <1>4, <1>9, <2>3 DEF TypeOK
    <3>2. Quiet(e, c) \/ Leaving(e, c)
      BY <1>2 DEF Settled
    <3>3. QED BY <1>4, <2>1, <2>3, <3>1, <3>2 DEF Quiet, Leaving, Flushes
  <2>4. QED BY <2>2, <2>3
<1>13. Settled(f)'
  BY <1>11, <1>12 DEF Settled
<1>14. QED BY <1>1, <1>10, <1>13, NextCall

(* OMX_SendCommand of a call that waits: the call is under way; a flush is   *)
(* as good as done, since nothing relies on it.                              *)
LEMMA StepSendCommand ==
  ASSUME NEW e, NEW f, NEW b, TypeOK, Planned(script, e, f, b), Matches(e, f), SendCommand
  PROVE  Inv'
<1>0. PICK k, c : k = Now /\ c = Target(k)
  OBVIOUS
<1>1. /\ script # <<>> /\ k.op \in {"state", "port", "flush"} /\ sent = FALSE
      /\ commands' = [commands EXCEPT ![c] = Append(@, k)]
      /\ sent' = TRUE /\ quit' \in BOOLEAN
      /\ UNCHANGED <<script, state, enabled, populated, tunnelled, owner, capturing, ctx, config>>
  BY <1>0 DEF SendCommand, Turn, Target, TypeOK
<1>2. Move(e, k, f) /\ Settled(e) /\ e \in View /\ f \in View /\ k \in Calls
  <2>1. Settled(e)
    BY <1>1 DEF Matches
  <2>2. QED BY <1>0, <1>1, <2>1, AtHand
<1>3. /\ k.op = "state" => MoveState(e, k, f)
      /\ k.op = "port" => MovePort(e, k, f)
      /\ k.op = "flush" => MoveFlush(e, k, f)
  BY <1>2, MoveIs
<1>4. e.leaving = {} /\ c \in Handles
  BY <1>0, <1>1, <1>3, ComponentOfIs DEF MoveState, MovePort, MoveFlush, Target
<1>5. \A d \in Handles : Quiet(e, d)
  BY <1>2, <1>4 DEF Settled, Leaving
<1>6. k \in Commands /\ commands \in [Handles -> Seq(Commands)]
  BY <1>1, <1>2 DEF Commands, TypeOK
<1> DEFINE s == commands[c]
           t == Append(s, k)
<1>7. s \in Seq(Commands)
  BY <1>4, <1>6
<1> HIDE DEF s, t
<1>8. /\ commands' \in [Handles -> Seq(Commands)] /\ commands'[c] = t
      /\ \A d \in Handles \ {c} : commands'[d] = commands[d]
  <2>1. t \in Seq(Commands)
    BY <1>6, <1>7, Appended DEF t
  <2>2. QED BY <1>1, <1>4, <1>6, <2>1 DEF s, t
<1>9. /\ t # <<>> /\ Len(s) \in Nat /\ Len(t) = Len(s) + 1
      /\ \A i \in 1 .. Len(s) : t[i] = s[i]
      /\ t[Len(s) + 1] = k
  BY <1>6, <1>7, Appended DEF t
<1>10. TypeOK'
  BY <1>1, <1>8 DEF TypeOK, Commands, ctx, config
<1>11. Fields(e)'
  BY <1>1, <1>2 DEF Settled, Fields, config
<1>12. \A d \in Handles \ {c} : Quiet(e, d)'
  BY <1>1, <1>5, <1>8 DEF Quiet, Flushes
<1>13. /\ Flushes(s) /\ (s # <<>> => c \in e.busy) /\ state[c] = e.state[c]
  BY <1>4, <1>5 DEF Quiet, s
<1>14. script' = script /\ Now' = k /\ Planned(script', e, f, b)
  BY <1>0, <1>1 DEF Now
<1>15. CASE k.op \in {"state", "port"}
  <2>1. Len(t) > 1 => c \in e.busy
    <3>1. Len(t) > 1 => Len(s) # 0
      BY <1>9
    <3>2. Len(s) # 0 => s # <<>>
      BY <1>7, EmptySeq
    <3>3. QED BY <1>13, <3>1, <3>2
  <2>2. t[Len(t)] = k /\ \A i \in 1 .. Len(t) - 1 : t[i].op = "flush"
    <3>1. Len(t) - 1 = Len(s)
      BY <1>9
    <3>2. QED BY <1>9, <1>13, <3>1 DEF Flushes
  <2>3. state'[c] = e.state[c] /\ c = Target(k)
    BY <1>0, <1>1, <1>13
  <2>4. UnderWay(e, k)'
    <3>1. commands'[Target(k)] = t /\ state'[Target(k)] = e.state[Target(k)]
      BY <1>8, <2>3
    <3>2. \A d \in Handles \ {Target(k)} : Quiet(e, d)'
      BY <1>12, <2>3
    <3>3. QED BY <1>9, <1>11, <2>1, <2>2, <2>3, <3>1, <3>2 DEF UnderWay
  <2>5. Matches(e, f)'
    BY <1>1, <1>14, <1>15, <2>4 DEF Matches
  <2>6. QED BY <1>10, <1>14, <2>5 DEF Inv
<1>16. CASE k.op = "flush"
  <2>1. /\ f.state = e.state /\ f.busy = e.busy \cup {c} /\ f.enabled = e.enabled
        /\ f.populated = e.populated /\ f.held = e.held /\ f.tunnelled = e.tunnelled
        /\ f.capturing = e.capturing /\ f.size = e.size /\ f.portdef = e.portdef
    BY <1>0, <1>2, <1>3, <1>16 DEF MoveFlush, View, Target
  <2>2. Fields(f)'
    BY <1>11, <2>1 DEF Fields
  <2>3. Quiet(f, c)'
    <3>1. Flushes(t)
      <4>1. \A i \in 1 .. Len(t) : i \in 1 .. Len(s) \/ i = Len(s) + 1
        BY <1>9
      <4>2. QED BY <1>9, <1>13, <1>16, <4>1 DEF Flushes
    <3>2. QED BY <1>1, <1>8, <1>13, <2>1, <3>1 DEF Quiet
  <2>4. \A d \in Handles \ {c} : Quiet(f, d)'
    BY <1>12, <2>1 DEF Quiet
  <2>5. Settled(f)'
    BY <2>2, <2>3, <2>4 DEF Settled
  <2>6. Matches(e, f)'
    BY <1>1, <1>14, <1>16, <2>5 DEF Matches
  <2>7. QED BY <1>10, <1>14, <2>6 DEF Inv
<1>17. QED BY <1>1, <1>15, <1>16

(* The waits: what they see was not so before the command was executed.      *)
LEMMA StepStateChanged ==
  ASSUME NEW e, NEW f, NEW b, TypeOK, Planned(script, e, f, b), Matches(e, f),
         block_until_state_changed
  PROVE  Inv'
<1>1. script # <<>> /\ Now.op = "state" /\ Done /\ state[Now.on] = Now.to /\ sent = TRUE
  BY DEF block_until_state_changed, Turn, TypeOK
<1>2. Move(e, Now, f) /\ Tail(script) \in Seq(Calls)
  BY <1>1, AtHand
<1>3. MoveState(e, Now, f)
  BY <1>1, <1>2, MoveIs
<1>4. e.state[Now.on] # Now.to
  BY <1>3 DEF MoveState, Enters
<1>5. ~UnderWay(e, Now)
  BY <1>1, <1>4 DEF UnderWay, Target
<1>6. Settled(f)
  BY <1>1, <1>5 DEF Matches
<1>7. TypeOK'
  BY <1>1, <1>2 DEF block_until_state_changed, TypeOK, Done, omx, ctx, config
<1>8. Settled(f)'
  BY <1>6 DEF block_until_state_changed, Settled, Fields, Quiet, Leaving, Flushes, omx, config
<1>9. QED BY <1>1, <1>7, <1>8, NextCall

LEMMA StepPortChanged ==
  ASSUME NEW e, NEW f, NEW b, TypeOK, Planned(script, e, f, b), Matches(e, f),
         block_until_port_changed
  PROVE  Inv'
<1>1. /\ script # <<>> /\ Now.op = "port" /\ Done /\ sent = TRUE
      /\ Now.on \in enabled <=> Now.to = "enabled"
  BY DEF block_until_port_changed, Turn, TypeOK
<1>2. Move(e, Now, f) /\ Tail(script) \in Seq(Calls)
  BY <1>1, AtHand
<1>3. MovePort(e, Now, f)
  BY <1>1, <1>2, MoveIs
<1>4. Now.on \in e.enabled <=> Now.to # "enabled"
  BY <1>3 DEF MovePort
<1>5. ~UnderWay(e, Now)
  BY <1>1, <1>4 DEF UnderWay, Fields
<1>6. Settled(f)
  BY <1>1, <1>5 DEF Matches
<1>7. TypeOK'
  BY <1>1, <1>2 DEF block_until_port_changed, TypeOK, Done, omx, ctx, config
<1>8. Settled(f)'
  BY <1>6 DEF block_until_port_changed, Settled, Fields, Quiet, Leaving, Flushes, omx, config
<1>9. QED BY <1>1, <1>7, <1>8, NextCall

LEMMA StepFlushed ==
  ASSUME NEW e, NEW f, NEW b, TypeOK, Planned(script, e, f, b), Matches(e, f),
         block_until_flushed
  PROVE  Inv'
<1>1. script # <<>> /\ Now.op = "flush" /\ Done /\ sent = TRUE
  BY DEF block_until_flushed, Turn, TypeOK
<1>2. Tail(script) \in Seq(Calls)
  BY <1>1, AtHand
<1>3. Settled(f)
  BY <1>1 DEF Matches
<1>4. TypeOK'
  BY <1>1, <1>2 DEF block_until_flushed, TypeOK, Done, omx, config
<1>5. Settled(f)'
  BY <1>3 DEF block_until_flushed, Settled, Fields, Quiet, Leaving, Flushes, omx, config
<1>6. QED BY <1>1, <1>4, <1>5, NextCall

-----------------------------------------------------------------------------
(* The steps of the components.                                              *)
LEMMA Executed ==
  ASSUME NEW s \in Seq(Commands), s # <<>>
  PROVE  /\ Head(s) = s[1] /\ Head(s) \in Commands /\ Tail(s) \in Seq(Commands)
         /\ Len(s) \in Nat /\ Len(s) >= 1 /\ Len(Tail(s)) = Len(s) - 1
         /\ \A i \in 1 .. Len(s) - 1 : Tail(s)[i] = s[i + 1]
         /\ Flushes(s) => Head(s).op = "flush" /\ Flushes(Tail(s))
         /\ Tail(s) = <<>> <=> Len(s) = 1
<1>1. /\ Head(s) \in Commands /\ Tail(s) \in Seq(Commands)
      /\ Len(Tail(s)) = Len(s) - 1
      /\ \A i \in 1 .. Len(Tail(s)) : Tail(s)[i] = s[i + 1]
  BY HeadTailProperties
<1>2. Len(s) \in Nat /\ Len(s) # 0
  BY LenProperties, EmptySeq
<1>3. Head(s) = s[1]
  OBVIOUS
<1>4. \A i \in 1 .. Len(s) - 1 : i + 1 \in 1 .. Len(s)
  BY <1>2
<1>5. Flushes(s) => Head(s).op = "flush" /\ Flushes(Tail(s))
  BY <1>1, <1>2, <1>3, <1>4 DEF Flushes
<1>6. Tail(s) = <<>> <=> Len(Tail(s)) = 0
  BY <1>1, EmptySeq
<1>7. QED BY <1>1, <1>2, <1>3, <1>5, <1>6

(* A component that has settled executes a flush, or goes to Loaded.         *)
LEMMA SettledKept ==
  ASSUME NEW v, TypeOK, Settled(v), NEW c \in Handles, Component(c)
  PROVE  Settled(v)' /\ TypeOK'
<1> DEFINE s == commands[c]
<1>1. commands \in [Handles -> Seq(Commands)] /\ s \in Seq(Commands)
  BY DEF TypeOK, Commands
<1>2. s # <<>> /\ Complete(c)
  BY DEF Component, ChangeState, ChangePort, Flush
<1>3. /\ Head(s) = s[1] /\ Head(s) \in Commands /\ Tail(s) \in Seq(Commands)
      /\ Flushes(s) => Head(s).op = "flush" /\ Flushes(Tail(s))
  BY <1>1, <1>2, Executed
<1>4. /\ commands' \in [Handles -> Seq(Commands)] /\ commands'[c] = Tail(s)
      /\ \A d \in Handles \ {c} : commands'[d] = commands[d]
  <2>1. commands' = [commands EXCEPT ![c] = Tail(@)]
    BY <1>2 DEF Complete
  <2>2. QED BY <1>1, <1>3, <2>1
<1>5. Quiet(v, c) \/ Leaving(v, c)
  BY DEF Settled
<1>6. CASE Quiet(v, c)
  <2>1. Head(s).op = "flush" /\ Flushes(Tail(s)) /\ c \in v.busy /\ state[c] = v.state[c]
    BY <1>2, <1>3, <1>6 DEF Quiet
  <2>2. Flush(c)
    BY <2>1 DEF Component, ChangeState, ChangePort
  <2>3. TypeOK'
    BY <1>4, <2>2 DEF TypeOK, Flush, program, config, Commands
  <2>4. Fields(v)'
    BY <2>2 DEF Settled, Fields, Flush, config
  <2>5. Quiet(v, c)'
    BY <1>4, <2>1, <2>2 DEF Quiet, Flush
  <2>6. ASSUME NEW d \in Handles \ {c} PROVE Quiet(v, d)' \/ Leaving(v, d)'
    <3>1. commands'[d] = commands[d] /\ state' = state /\ populated' = populated
      BY <1>4, <2>2 DEF Flush
    <3>2. Quiet(v, d) \/ Leaving(v, d)
      BY DEF Settled
    <3>3. QED BY <3>1, <3>2 DEF Quiet, Leaving
  <2>7. QED BY <2>3, <2>4, <2>5, <2>6 DEF Settled
<1>7. CASE Leaving(v, c)
  <2>1. s = <<Call("load", c, "Loaded")>> /\ state[c] = "Idle" /\ PortsOf(c) \cap populated = {}
    BY <1>7 DEF Leaving
  <2>2. Head(s) = Call("load", c, "Loaded") /\ Tail(s) = <<>>
    BY <2>1
  <2>3. Head(s).op = "load" /\ Head(s).to = "Loaded"
    BY <2>2 DEF Call
  <2>4. ChangeState(c)
    BY <2>3 DEF Component, Flush, ChangePort
  <2>5. MayEnter(c, "Loaded")
    BY <2>1 DEF MayEnter
  <2>6. state' = [state EXCEPT ![c] = "Loaded"]
    BY <2>3, <2>4, <2>5 DEF ChangeState
  <2>7. TypeOK'
    BY <1>4, <2>4, <2>6 DEF TypeOK, ChangeState, program, ctx, config, Commands
  <2>8. Fields(v)'
    BY <2>4 DEF Settled, Fields, ChangeState, config
  <2>9. Quiet(v, c)'
    <3>1. Flushes(<<>>)
      BY DEF Flushes
    <3>2. state'[c] = "Loaded" /\ v.state[c] = "Loaded"
      BY <1>7, <2>6 DEF TypeOK, Leaving
    <3>3. QED BY <1>4, <2>2, <3>1, <3>2 DEF Quiet
  <2>10. ASSUME NEW d \in Handles \ {c} PROVE Quiet(v, d)' \/ Leaving(v, d)'
    <3>1. commands'[d] = commands[d] /\ state'[d] = state[d] /\ populated' = populated
      BY <1>4, <2>4, <2>6 DEF ChangeState, TypeOK
    <3>2. Quiet(v, d) \/ Leaving(v, d)
      BY DEF Settled
    <3>3. QED BY <3>1, <3>2 DEF Quiet, Leaving
  <2>11. QED BY <2>7, <2>8, <2>9, <2>10 DEF Settled
<1>8. QED BY <1>5, <1>6, <1>7

(* The component of a call that is under way executes a flush sent before,   *)
(* or the call; another component executes a flush.                          *)
LEMMA UnderWayKept ==
  ASSUME NEW e \in View, NEW k, NEW f, Move(e, k, f), k \in Calls, k.op \in {"state", "port"},
         TypeOK, UnderWay(e, k), NEW c \in Handles, Component(c)
  PROVE  (UnderWay(e, k)' \/ Settled(f)') /\ TypeOK'
<1> DEFINE s == commands[c]
<1>1. commands \in [Handles -> Seq(Commands)] /\ s \in Seq(Commands)
  BY DEF TypeOK, Commands
<1>2. s # <<>> /\ Complete(c)
  BY DEF Component, ChangeState, ChangePort, Flush
<1>3. /\ Head(s) = s[1] /\ Head(s) \in Commands /\ Tail(s) \in Seq(Commands)
      /\ Len(s) \in Nat /\ Len(s) >= 1 /\ Len(Tail(s)) = Len(s) - 1
      /\ \A i \in 1 .. Len(s) - 1 : Tail(s)[i] = s[i + 1]
      /\ Flushes(s) => Head(s).op = "flush" /\ Flushes(Tail(s))
      /\ Tail(s) = <<>> <=> Len(s) = 1
  BY <1>1, <1>2, Executed
<1>4. /\ commands' \in [Handles -> Seq(Commands)] /\ commands'[c] = Tail(s)
      /\ \A d \in Handles \ {c} : commands'[d] = commands[d]
  <2>1. commands' = [commands EXCEPT ![c] = Tail(@)]
    BY <1>2 DEF Complete
  <2>2. QED BY <1>1, <1>3, <2>1
<1>5. (k.op = "state" => MoveState(e, k, f)) /\ (k.op = "port" => MovePort(e, k, f))
  BY MoveIs
<1>6. /\ Fields(e) /\ \A d \in Handles \ {Target(k)} : Quiet(e, d)
      /\ commands[Target(k)] # <<>> /\ state[Target(k)] = e.state[Target(k)]
      /\ commands[Target(k)][Len(commands[Target(k)])] = k
      /\ \A i \in 1 .. Len(commands[Target(k)]) - 1 : commands[Target(k)][i].op = "flush"
      /\ Len(commands[Target(k)]) > 1 => Target(k) \in e.busy
  BY DEF UnderWay
<1> HIDE DEF s
<1>7. CASE Head(s).op = "flush"
  <2>1. Flush(c)
    BY <1>7 DEF Component, ChangeState, ChangePort, s
  <2>2. TypeOK'
    BY <1>4, <2>1 DEF TypeOK, Flush, program, config, Commands
  <2>3. Fields(e)' /\ UNCHANGED state
    BY <1>6, <2>1 DEF Fields, Flush, config
  <2>4. ASSUME NEW d \in Handles \ {Target(k), c} PROVE Quiet(e, d)'
    BY <1>4, <1>6, <2>3 DEF Quiet
  <2>5. CASE c # Target(k)
    <3>1. Quiet(e, c)
      BY <1>6, <2>5
    <3>2. Quiet(e, c)'
      BY <1>2, <1>3, <1>4, <2>3, <3>1 DEF Quiet, s
    <3>3. commands'[Target(k)] = commands[Target(k)]
      <4>1. Target(k) \in Handles
        BY <1>5, ComponentOfIs DEF Target, MoveState, MovePort
      <4>2. QED BY <1>4, <2>5, <4>1
    <3>4. UnderWay(e, k)'
      BY <1>6, <2>3, <2>4, <3>2, <3>3 DEF UnderWay
    <3>5. QED BY <2>2, <3>4
  <2>6. CASE c = Target(k)
    <3>1. Len(s) > 1
      <4>1. s[Len(s)] = k
        BY <1>6, <2>6 DEF s
      <4>2. s[1].op # k.op
        BY <1>3, <1>7
      <4>3. QED BY <1>3, <4>1, <4>2
    <3>2. Tail(s) # <<>> /\ Tail(s)[Len(Tail(s))] = k
      <4>1. Len(s) - 1 \in 1 .. Len(s) - 1 /\ (Len(s) - 1) + 1 = Len(s)
        BY <1>3, <3>1
      <4>2. Tail(s)[Len(s) - 1] = s[Len(s)]
        BY <1>3, <4>1
      <4>3. QED BY <1>3, <1>6, <2>6, <3>1, <4>2 DEF s
    <3>3. \A i \in 1 .. Len(Tail(s)) - 1 : Tail(s)[i].op = "flush"
      <4>1. \A i \in 1 .. Len(s) - 2 : i \in 1 .. Len(s) - 1 /\ i + 1 \in 1 .. Len(s) - 1
        BY <1>3
      <4>2. Len(Tail(s)) - 1 = Len(s) - 2
        BY <1>3
      <4>3. QED BY <1>3, <1>6, <2>6, <4>1, <4>2 DEF s
    <3>4. c \in e.busy
      BY <1>6, <2>6, <3>1 DEF s
    <3>5. \A d \in Handles \ {Target(k)} : Quiet(e, d)'
      BY <2>4, <2>6
    <3>6. UnderWay(e, k)'
      BY <1>4, <1>6, <2>3, <2>6, <3>2, <3>3, <3>4, <3>5 DEF UnderWay
    <3>7. QED BY <2>2, <3>6
  <2>7. QED BY <2>5, <2>6
<1>8. CASE Head(s).op # "flush"
  <2>1. c = Target(k)
    BY <1>3, <1>6, <1>8 DEF Quiet, s
  <2>2. Len(s) = 1
    <3>1. \A i \in 1 .. Len(s) - 1 : s[i].op = "flush"
      BY <1>6, <2>1 DEF s
    <3>2. Len(s) > 1 => 1 \in 1 .. Len(s) - 1
      BY <1>3
    <3>3. QED BY <1>3, <1>8, <3>1, <3>2
  <2>3. Head(s) = k /\ commands'[c] = <<>>
    BY <1>3, <1>4, <1>6, <2>1, <2>2 DEF s
  <2>4. /\ state[c] = e.state[c] /\ e.leaving = {} /\ Flushes(<<>>)
    BY <1>5, <1>6, <2>1 DEF MoveState, MovePort, Flushes
  <2>5. CASE k.op = "state"
    <3>1. /\ c = k.on /\ Enters(e, c, k.to) /\ k.to \in {"Idle", "Executing"}
          /\ f = [e EXCEPT !.state = [@ EXCEPT ![c] = k.to]]
      BY <1>5, <2>1, <2>5 DEF MoveState, Target
    <3>2. /\ f.state = [e.state EXCEPT ![c] = k.to] /\ f.busy = e.busy /\ f.enabled = e.enabled
          /\ f.populated = e.populated /\ f.held = e.held /\ f.tunnelled = e.tunnelled
          /\ f.capturing = e.capturing /\ f.size = e.size /\ f.portdef = e.portdef
          /\ e.tunnelled \in BOOLEAN /\ e.state \in [Handles -> States]
      BY <3>1 DEF View
    <3>3. ChangeState(c)
      BY <2>3, <2>5 DEF Component, ChangePort, Flush, s
    <3>4. MayEnter(c, k.to)
      <4>1. enabled = e.enabled /\ populated = e.populated /\ (e.tunnelled = TRUE => tunnelled = TRUE)
        BY <1>6 DEF Fields
      <4>2. CASE k.to = "Executing"
        BY <2>4, <3>1, <3>2, <4>1, <4>2 DEF Enters, MayEnter
      <4>3. CASE k.to = "Idle"
        BY <2>4, <3>1, <4>1, <4>3 DEF Enters, MayEnter
      <4>4. QED BY <3>1, <4>2, <4>3
    <3>5. state' = [state EXCEPT ![c] = k.to]
      BY <2>3, <3>3, <3>4 DEF ChangeState, s
    <3>6. TypeOK'
      BY <1>4, <3>1, <3>3, <3>5 DEF TypeOK, ChangeState, program, ctx, config, Commands
    <3>7. Fields(f)'
      BY <1>6, <3>2, <3>3 DEF Fields, ChangeState, config
    <3>8. Quiet(f, c)'
      BY <2>3, <2>4, <3>2, <3>5 DEF Quiet, TypeOK
    <3>9. ASSUME NEW d \in Handles \ {c} PROVE Quiet(f, d)'
      <4>1. commands'[d] = commands[d] /\ state'[d] = state[d] /\ f.state[d] = e.state[d]
        BY <1>4, <3>2, <3>5 DEF TypeOK
      <4>2. Quiet(e, d)
        BY <1>6, <2>1
      <4>3. QED BY <3>2, <4>1, <4>2 DEF Quiet
    <3>10. QED BY <3>6, <3>7, <3>8, <3>9 DEF Settled
  <2>6. CASE k.op = "port"
    <3>1. MovePort(e, k, f) /\ c = ComponentOf(k.on) /\ k.on \in Ports
      BY <1>5, <2>1, <2>6 DEF MovePort, Target
    <3>2. ChangePort(c)
      BY <2>3, <2>6 DEF Component, ChangeState, Flush, s
    <3>3. /\ f.state = e.state /\ f.busy = e.busy \ {c}
          /\ f.enabled = IF k.to = "enabled" THEN e.enabled \cup {k.on} ELSE e.enabled \ {k.on}
          /\ f.populated = e.populated /\ f.held = (e.held /\ k.on # "201")
          /\ f.tunnelled = e.tunnelled /\ e.held \in BOOLEAN
          /\ f.capturing = e.capturing /\ f.size = e.size /\ f.portdef = e.portdef
      BY <3>1 DEF MovePort, View
    <3>4. /\ enabled' = IF k.to = "enabled" THEN enabled \cup {k.on} ELSE enabled \ {k.on}
          /\ owner' = IF k.on = "201" THEN "program" ELSE owner
          /\ UNCHANGED <<program, state, populated, tunnelled, capturing, ctx, config>>
      BY <2>3, <3>2 DEF ChangePort, s
    <3>5. TypeOK'
      BY <1>4, <3>1, <3>4 DEF TypeOK, program, ctx, config, Commands
    <3>6. Fields(f)'
      BY <1>6, <3>3, <3>4 DEF Fields, config
    <3>7. Quiet(f, c)'
      BY <2>3, <2>4, <3>3, <3>4 DEF Quiet
    <3>8. ASSUME NEW d \in Handles \ {c} PROVE Quiet(f, d)'
      <4>1. commands'[d] = commands[d] /\ state' = state /\ (d \in e.busy => d \in f.busy)
        BY <1>4, <3>3, <3>4
      <4>2. Quiet(e, d)
        BY <1>6, <2>1
      <4>3. QED BY <3>3, <4>1, <4>2 DEF Quiet
    <3>9. QED BY <3>5, <3>6, <3>7, <3>8 DEF Settled
  <2>7. QED BY <2>5, <2>6
<1>9. QED BY <1>7, <1>8

-----------------------------------------------------------------------------
(* The invariant is inductive.                                               *)

(* No component, and the constructors to come.                               *)
LEMMA InitInv == Init => Inv
<1> SUFFICES ASSUME Init PROVE Inv
  OBVIOUS
<1> DEFINE pd == [port |-> None, size |-> None]
           e == [state |-> InState(None), busy |-> {}, leaving |-> {}, enabled |-> {},
                 populated |-> {}, tunnelled |-> FALSE, held |-> FALSE, capturing |-> {},
                 size |-> None, portdef |-> pd]
<1>1. InState(None) \in [Handles -> States]
  BY DEF InState, States
<1>2. pd \in [port : {None, "70", "72"}, size : Sizes \cup {None}]
  OBVIOUS
<1>3. size = None /\ camera_portdef = pd
  BY DEF Init
<1> HIDE DEF pd
<1>4. /\ e \in View /\ e.state = InState(None) /\ e.busy = {} /\ e.leaving = {}
      /\ e.enabled = {} /\ e.populated = {} /\ e.tunnelled = FALSE /\ e.held = FALSE
      /\ e.capturing = {} /\ e.size = None /\ e.portdef = pd
  BY <1>1, <1>2 DEF View
<1> HIDE DEF e
<1>5. At(e, None, {}, {}, {}, FALSE)
  BY <1>4 DEF At
<1>6. PICK b : Leads(Build \o CaptureImage, e, b) /\ Steady(b)
  BY <1>5, StartLeads
<1>7. script \in Seq(Calls) /\ sent = FALSE /\ Leads(script, e, b)
  BY <1>6 DEF Init, Leads
<1>8. PICK f : Planned(script, e, f, b)
  <2>1. b \in View
    BY <1>6 DEF Steady, At
  <2>2. QED BY <1>4, <1>6, <1>7, <2>1, PlanOf
<1>9. TypeOK
  <2>1. state \in [Handles -> {None, "Loaded", "Idle", "Executing"}]
    BY DEF Init
  <2>2. commands \in [Handles -> Seq(Commands)]
    <3>1. <<>> \in Seq(Commands)
      OBVIOUS
    <3>2. QED BY <3>1 DEF Init
  <2>3. QED BY <1>2, <1>3, <1>7, <2>1, <2>2 DEF Init, TypeOK, Commands
<1>10. Fields(e)
  BY <1>3, <1>4 DEF Init, Fields
<1>11. ASSUME NEW c \in Handles PROVE Quiet(e, c)
  <2>1. commands[c] = <<>> /\ state[c] = None /\ e.state[c] = None
    BY <1>4 DEF Init, InState
  <2>2. Flushes(<<>>)
    BY DEF Flushes
  <2>3. QED BY <2>1, <2>2 DEF Quiet
<1>12. Matches(e, f)
  BY <1>7, <1>10, <1>11 DEF Matches, Settled
<1>13. QED BY <1>8, <1>9, <1>12 DEF Inv

(* Settled(f) is about the components and what the program set.              *)
LEMMA StepBegin ==
  ASSUME NEW e, NEW f, NEW b, TypeOK, Planned(script, e, f, b), Matches(e, f), Begin
  PROVE  Inv'
<1>1. /\ script = <<>> /\ script' \in {BackgroundSubtraction, DetectEvent, Stream}
      /\ UNCHANGED <<sent, quit, omx, ctx, config>>
  BY DEF Begin
<1>2. sent = FALSE /\ Settled(e)
  BY <1>1 DEF Matches, TypeOK
<1>3. e \in View /\ Steady(e)
  BY <1>1 DEF Planned
<1>4. PICK b2 : Leads(script', e, b2) /\ Steady(b2)
  BY <1>1, <1>3, SubtractionLeads, DetectEventLeads, StreamLeads
<1>5. PICK g : Planned(script', e, g, b2)
  <2>1. b2 \in View
    BY <1>4 DEF Steady, At
  <2>2. QED BY <1>3, <1>4, <2>1, PlanOf
<1>6. script' \in Seq(Calls)
  BY <1>4 DEF Leads
<1>7. TypeOK'
  BY <1>1, <1>6 DEF TypeOK, omx, ctx, config
<1>8. Settled(e)'
  BY <1>1, <1>2 DEF Settled, Fields, Quiet, Leaving, Flushes, omx, config
<1>9. Matches(e, g)'
  BY <1>1, <1>2, <1>8 DEF Matches
<1>10. QED BY <1>5, <1>7, <1>9 DEF Inv

LEMMA StepCameraReady ==
  ASSUME NEW e, NEW f, NEW b, TypeOK, Planned(script, e, f, b), Matches(e, f),
         CameraReady \/ UNCHANGED vars
  PROVE  Inv'
<1>1. UNCHANGED <<program, omx, flushed, config>> /\ camera_ready' \in BOOLEAN /\ loading' \in BOOLEAN
  BY DEF CameraReady, vars, ctx, TypeOK
<1>2. UNCHANGED <<script, sent, quit, state, commands, enabled, populated, tunnelled, owner,
                  capturing, size, camera_portdef, flushed>>
  BY <1>1 DEF program, omx, config
<1>3. TypeOK'
  BY <1>1, <1>2 DEF TypeOK
<1>4. \A v : Settled(v) => Settled(v)'
  BY <1>2 DEF Settled, Fields, Quiet, Leaving, Flushes
<1>5. UnderWay(e, Now) => UnderWay(e, Now)'
  BY <1>2 DEF UnderWay, Fields, Quiet, Flushes, Now, Target
<1>6. Now' = Now /\ Planned(script', e, f, b)
  BY <1>2 DEF Now
<1>7. Matches(e, f)'
  BY <1>2, <1>4, <1>5, <1>6 DEF Matches
<1>8. QED BY <1>3, <1>6, <1>7 DEF Inv

LEMMA StepComponent ==
  ASSUME NEW e, NEW f, NEW b, TypeOK, Planned(script, e, f, b), Matches(e, f),
         NEW c \in Handles, Component(c)
  PROVE  Inv'
<1>1. UNCHANGED <<script, sent, quit>>
  BY DEF Component, ChangeState, ChangePort, Flush, program
<1>2. Now' = Now /\ Planned(script', e, f, b)
  BY <1>1 DEF Now
<1>3. CASE sent = FALSE
  <2>1. Settled(e)' /\ TypeOK'
    BY <1>3, SettledKept DEF Matches
  <2>2. Matches(e, f)'
    BY <1>1, <1>3, <2>1 DEF Matches
  <2>3. QED BY <1>2, <2>1, <2>2 DEF Inv
<1>4. CASE sent = TRUE /\ Settled(f)
  <2>1. Settled(f)' /\ TypeOK'
    BY <1>4, SettledKept
  <2>2. Matches(e, f)'
    BY <1>1, <1>2, <1>4, <2>1 DEF Matches
  <2>3. QED BY <1>2, <2>1, <2>2 DEF Inv
<1>5. CASE sent = TRUE /\ ~Settled(f)
  <2>0. PICK k : k = Now
    OBVIOUS
  <2>1. script # <<>> /\ k.op \in {"state", "port"} /\ UnderWay(e, k)
    BY <1>5, <2>0 DEF Matches
  <2>2. k \in Calls /\ Move(e, k, f) /\ e \in View
    BY <2>0, <2>1, AtHand
  <2>3. (UnderWay(e, k)' \/ Settled(f)') /\ TypeOK'
    BY <2>1, <2>2, UnderWayKept
  <2>4. Matches(e, f)'
    BY <1>1, <1>2, <1>5, <2>0, <2>1, <2>3 DEF Matches
  <2>5. QED BY <1>2, <2>3, <2>4 DEF Inv
<1>6. QED BY <1>3, <1>4, <1>5 DEF TypeOK

LEMMA NextInv == Inv /\ [Next]_vars => Inv'
<1> SUFFICES ASSUME Inv, [Next]_vars PROVE Inv'
  OBVIOUS
<1>1. PICK e, f, b : TypeOK /\ Planned(script, e, f, b) /\ Matches(e, f)
  BY DEF Inv
<1>2. CASE Program
  BY <1>1, <1>2, StepSendCommand, StepStateChanged, StepPortChanged, StepFlushed, StepSendLoaded,
     StepFreeHandle, StepClear, StepGetHandle, StepDriver, StepConfigure, StepReady, StepTunnel,
     StepAllocate, StepFree, StepFill, StepCapture, StepUse DEF Program
<1>3. CASE Begin
  BY <1>1, <1>3, StepBegin
<1>4. CASE \E c \in Handles : Component(c)
  BY <1>1, <1>4, StepComponent
<1>5. CASE CameraReady \/ UNCHANGED vars
  BY <1>1, <1>5, StepCameraReady
<1>6. QED BY <1>2, <1>3, <1>4, <1>5 DEF Next

LEMMA Invariant == Spec => []Inv
<1>1. QED BY InitInv, NextInv, PTL DEF Spec

-----------------------------------------------------------------------------
(* What the invariant says of the calls.                                     *)

(* Every call finds and leaves the components, the buffers and the           *)
(* configuration in their ranges: the sizes that OMX is configured with are  *)
(* the three of the program, and only its own three ports get buffers.       *)
THEOREM TypeCorrect == Spec => []TypeOK
<1>1. Inv => TypeOK
  BY DEF Inv
<1>2. QED BY <1>1, Invariant, PTL

(* Buffers are freed and handed over only when no component may write to     *)
(* them, allocated only for enabled ports without buffers: FreeBuffer,       *)
(* AllocateBuffer and SwitchBufferFlush, also when block_until_flushed does  *)
(* not wait.                                                                 *)
THEOREM BuffersStayInHand == Spec => []BuffersInHand
<1>1. Inv => BuffersInHand
  <2> SUFFICES ASSUME Inv, script # <<>> PROVE BuffersInHand
    BY DEF BuffersInHand, Turn
  <2>1. PICK e, f, b : TypeOK /\ Planned(script, e, f, b) /\ Matches(e, f)
    BY DEF Inv
  <2>2. Move(e, Now, f) /\ (Now.op \in {"free", "allocate", "fill"} => Settled(e)) /\ e \in View
    BY <2>1, AtHand
  <2>3. e.held \in BOOLEAN
    BY <2>2 DEF View
  <2>4. ASSUME Now.op = "free"
        PROVE  owner = "program" /\ populated = Allocated /\ Allocated \cap enabled = {}
    <3>1. MoveFree(e, Now, f) /\ Fields(e)
      BY <2>2, <2>4, MoveIs DEF Settled
    <3>2. QED BY <2>3, <3>1 DEF MoveFree, Fields
  <2>5. ASSUME Now.op = "allocate" PROVE populated = {} /\ Allocated \subseteq enabled
    <3>1. MoveAllocate(e, Now, f) /\ Fields(e)
      BY <2>2, <2>5, MoveIs DEF Settled
    <3>2. QED BY <3>1 DEF MoveAllocate, Fields
  <2>6. ASSUME Now.op = "fill"
        PROVE  /\ owner = "program" /\ state["encoder"] = "Executing"
               /\ "201" \in enabled \cap populated
    <3>1. MoveFill(e, Now, f) /\ Settled(e)
      BY <2>2, <2>6, MoveIs
    <3>2. owner = "program" /\ "201" \in enabled \cap populated
      BY <2>3, <3>1 DEF MoveFill, Settled, Fields
    <3>3. Quiet(e, "encoder")
      BY <3>1 DEF Settled, Leaving, MoveFill, Handles
    <3>4. QED BY <3>1, <3>2, <3>3 DEF MoveFill, Quiet
  <2>7. QED BY <2>4, <2>5, <2>6 DEF BuffersInHand, Turn
<1>2. QED BY <1>1, Invariant, PTL

(* SwitchIdle, SwitchExecuting and SwitchStateLoaded ask a component only    *)
(* for transitions that it can make, and only when nothing else is pending   *)
(* there.                                                                    *)
THEOREM TransitionsStayLegal == Spec => []TransitionsLegal
<1>1. Inv => TransitionsLegal
  <2> SUFFICES ASSUME Inv, script # <<>>, sent = FALSE, Now.op \in {"state", "load"}
               PROVE  commands[Now.on] = <<>> /\ MayEnter(Now.on, Now.to)
    BY DEF TransitionsLegal, Turn, Inv, TypeOK
  <2>1. PICK e, f, b : TypeOK /\ Planned(script, e, f, b) /\ Matches(e, f)
    BY DEF Inv
  <2>2. Move(e, Now, f) /\ Settled(e) /\ e \in View
    BY <2>1, AtHand DEF Matches
  <2>3. /\ enabled = e.enabled /\ populated = e.populated /\ (e.tunnelled = TRUE => tunnelled = TRUE)
        /\ e.tunnelled \in BOOLEAN
    BY <2>2 DEF Settled, Fields, View
  <2>4. CASE Now.op = "state"
    <3>1. MoveState(e, Now, f)
      BY <2>2, <2>4, MoveIs
    <3>2. Quiet(e, Now.on)
      BY <2>2, <3>1 DEF MoveState, Settled, Leaving
    <3>3. commands[Now.on] = <<>> /\ state[Now.on] = e.state[Now.on]
      BY <3>1, <3>2 DEF MoveState, Quiet
    <3>4. CASE Now.to = "Executing"
      BY <2>3, <3>1, <3>3, <3>4 DEF MoveState, Enters, MayEnter
    <3>5. CASE Now.to = "Idle"
      BY <2>3, <3>1, <3>3, <3>5 DEF MoveState, Enters, MayEnter
    <3>6. QED BY <3>1, <3>3, <3>4, <3>5 DEF MoveState
  <2>5. CASE Now.op = "load"
    <3>1. MoveLoad(e, Now, f)
      BY <2>2, <2>5, MoveIs
    <3>2. e.state[Now.on] = "Idle" /\ Now.on \in Handles \ e.busy /\ Now.to = "Loaded"
      BY <3>1 DEF MoveLoad, Enters
    <3>3. Quiet(e, Now.on)
      BY <2>2, <3>2 DEF Settled, Leaving
    <3>4. commands[Now.on] = <<>> /\ state[Now.on] = "Idle"
      BY <3>2, <3>3 DEF Quiet
    <3>5. PortsOf(Now.on) \cap populated = {}
      BY <2>3, <3>1 DEF MoveLoad, Enters
    <3>6. QED BY <3>2, <3>4, <3>5 DEF MayEnter
  <2>6. QED BY <2>4, <2>5
<1>2. QED BY <1>1, Invariant, PTL

(* When VideoEncode or OMXCaptureFrame begins, the pipeline executes with    *)
(* all ports and buffers, the port in question captures, nothing is pending, *)
(* and camera_portdef is that of port 72 and of the size at hand.            *)
THEOREM PipelineReady == Spec => []ReadyForUse
<1>1. Inv => ReadyForUse
  <2> SUFFICES ASSUME Inv, script # <<>>, Now.op \in {"encode", "frame"} PROVE ReadyForUse
    BY DEF ReadyForUse, Turn
  <2>1. PICK e, f, b : TypeOK /\ Planned(script, e, f, b) /\ Matches(e, f)
    BY DEF Inv
  <2>2. Move(e, Now, f) /\ Settled(e) /\ e \in View
    BY <2>1, AtHand
  <2>3. MoveUse(e, Now, f) /\ Fields(e) /\ e.leaving = {} /\ e.held \in BOOLEAN
    <3>1. MoveUse(e, Now, f)
      BY <2>2, MoveIs
    <3>2. Fields(e) /\ e.held \in BOOLEAN
      BY <2>2 DEF Settled, View
    <3>3. QED BY <3>1, <3>2 DEF MoveUse
  <2>4. \A c \in Handles : Quiet(e, c)
    BY <2>2, <2>3 DEF Settled, Leaving
  <2>5. ASSUME NEW port, Running(e, port) PROVE Ready(port)
    <3>1. \A c \in Handles : state[c] = "Executing" /\ commands[c] = <<>>
      BY <2>4, <2>5 DEF Running, Quiet
    <3>2. enabled = Ports /\ populated = Allocated /\ owner = "program" /\ port \in capturing
      BY <2>3, <2>5 DEF Running, Fields
    <3>3. QED BY <3>1, <3>2 DEF Ready
  <2>6. Now.op = "encode" => Ready("71")
    BY <2>3, <2>5 DEF MoveUse
  <2>7. Now.op = "frame" => Ready("72") /\ camera_portdef = [port |-> "72", size |-> size]
    BY <2>3, <2>5 DEF MoveUse, Fields
  <2>8. QED BY <2>6, <2>7 DEF ReadyForUse, Turn
<1>2. QED BY <1>1, Invariant, PTL
=============================================================================
