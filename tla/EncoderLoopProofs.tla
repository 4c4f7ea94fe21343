-------------------------- MODULE EncoderLoopProofs --------------------------
(***************************************************************************)
(* For every record_time: the loops of VideoEncode and StartStreaming use  *)
(* the encoder's buffer only while it is theirs, end at a frame boundary   *)
(* and never cut a recording short.                                        *)
(***************************************************************************)
EXTENDS EncoderLoop, TLAPS

(* Whose the buffer is, as far as the flags of the loop tell: available means *)
(* new content unless the loop has just used it and needs it refilled.        *)
OwnerInv ==
  /\ task \in {"between", "ready"} => owner = "program"
  /\ task = "ready" => buffer.state = "used"
  /\ owner = "encoder" => buffer.state = "empty"
  /\ task \in Calls =>
       /\ need => (owner = "program" /\ buffer.state = "used")
       /\ (available /\ need) => pc = "refill"
       /\ (available /\ ~need) => (owner = "program" /\ buffer.state = "filled")
       /\ pc = "process" => (available /\ ~need)
       /\ pc = "fill" => (~available /\ ~need /\ owner = "program" /\ buffer.state = "used")

(* In the middle of a frame the next buffer continues it, and carries the     *)
(* sync flag that the end was detected with.                                  *)
TailInv ==
  /\ task \notin Calls => tail = "whole"
  /\ (task \in Calls /\ tail = "open") =>
       /\ buffer.state # "filled" => ~buffer.last
       /\ quit # "no" => buffer.sync = quit

(* The end of a recording is detected in second record_time, not before.      *)
TimeInv ==
  /\ end <= elapsed
  /\ (task = "record" /\ quit # "no") => end >= record_time

Inv == TypeOK /\ OwnerInv /\ TailInv /\ TimeInv

(* No loop runs at the start.                                                *)
LEMMA InitInv == Init => Inv
  <1> SUFFICES ASSUME Init PROVE Inv
    OBVIOUS
  <1>1. end \in 0 .. record_time + 1 /\ elapsed \in 0 .. record_time + 1
    BY RecordTimeAssumption DEF Init
  <1>2. TypeOK
    BY <1>1 DEF Init, TypeOK, Calls, LoopPCs, Sync
  <1>3. OwnerInv /\ TailInv
    BY DEF Init, OwnerInv, TailInv, Calls
  <1>4. TimeInv
    BY DEF Init, TimeInv
  <1>5. QED
    BY <1>2, <1>3, <1>4 DEF Inv

(* The four parts of Inv, action by action.                                   *)
LEMMA TypeKept == Inv /\ [Next]_vars => TypeOK'
  <1> SUFFICES ASSUME Inv, [Next]_vars PROVE TypeOK'
    OBVIOUS
  <1> USE RecordTimeAssumption DEF Inv, TypeOK, Calls, LoopPCs, Sync
  <1>1. CASE Flush
    BY <1>1 DEF Flush
  <1>2. CASE Flushed
    BY <1>2 DEF Flushed
  <1>3. ASSUME NEW call \in Calls, Begin(call) PROVE TypeOK'
    <2>1. end' \in 0 .. record_time + 1 /\ elapsed' \in 0 .. record_time + 1
      BY <1>3 DEF Begin
    <2>2. is_end' \in BOOLEAN
      BY <1>3 DEF Begin
    <2>3. QED
      BY <1>3, <2>1, <2>2 DEF Begin
  <1>4. CASE Time
    BY <1>4 DEF Time
  <1>5. CASE Test
    BY <1>5 DEF Test
  <1>6. CASE Exit
    BY <1>6 DEF Exit, QuitNow
  <1>7. CASE Write
    <2>1. quit' \in {"no"} \cup Sync /\ tail' \in {"whole", "open"}
      BY <1>7 DEF Write, QuitNow
    <2>2. served' \in BOOLEAN
      BY <1>7 DEF Write
    <2>3. buffer' \in [state : {"empty", "filled", "used"}, sync : Sync, last : BOOLEAN]
      BY <1>7 DEF Write
    <2>4. QED
      BY <1>7, <2>1, <2>2, <2>3 DEF Write
  <1>8. CASE Refill
    BY <1>8, ZenonT(60) DEF Refill
  <1>9. CASE Fill
    BY <1>9 DEF Fill
  <1>10. ASSUME NEW sync \in Sync, FillDone(sync) PROVE TypeOK'
    BY <1>10 DEF FillDone, program
  <1>11. CASE SignalEnd
    BY <1>11 DEF SignalEnd, program
  <1>12. CASE Tick
    <2>1. elapsed' \in 0 .. record_time + 1
      BY <1>12 DEF Tick
    <2>2. served' = FALSE /\ UNCHANGED <<program, available, is_end, owner, buffer>>
      BY <1>12 DEF Tick
    <2>3. served' \in BOOLEAN
      BY <2>2, ZenonT(60)
    <2>4. UNCHANGED <<task, pc, need, quit, end, tail, available, is_end, owner, buffer>>
      BY <2>2 DEF program
    <2>5. QED
      BY <2>1, <2>3, <2>4
  <1>13. CASE UNCHANGED vars
    BY <1>13 DEF vars, program
  <1>14. QED
    BY <1>1, <1>2, <1>3, <1>4, <1>5, <1>6, <1>7, <1>8, <1>9, <1>10, <1>11, <1>12, <1>13
    DEF Next, LoopStep

(* The buffer has one owner at a time.                                       *)
LEMMA OwnerKept == Inv /\ [Next]_vars => OwnerInv'
  <1> SUFFICES ASSUME Inv, [Next]_vars PROVE OwnerInv'
    OBVIOUS
  <1> USE DEF Inv, TypeOK, OwnerInv, Calls, LoopPCs, Sync
  <1>1. CASE Flush
    BY <1>1 DEF Flush
  <1>2. CASE Flushed
    BY <1>2 DEF Flushed
  <1>3. ASSUME NEW call \in Calls, Begin(call) PROVE OwnerInv'
    BY <1>3 DEF Begin
  <1>4. CASE Time
    BY <1>4 DEF Time
  <1>5. CASE Test
    BY <1>5 DEF Test
  <1>6. CASE Exit
    BY <1>6 DEF Exit
  <1>7. CASE Write
    BY <1>7 DEF Write
  <1>8. CASE Refill
    BY <1>8 DEF Refill
  <1>9. CASE Fill
    BY <1>9 DEF Fill
  <1>10. ASSUME NEW sync \in Sync, FillDone(sync) PROVE OwnerInv'
    BY <1>10 DEF FillDone, program
  <1>11. CASE SignalEnd
    BY <1>11 DEF SignalEnd, program
  <1>12. CASE Tick
    BY <1>12 DEF Tick, program
  <1>13. CASE UNCHANGED vars
    BY <1>13 DEF vars, program
  <1>14. QED
    BY <1>1, <1>2, <1>3, <1>4, <1>5, <1>6, <1>7, <1>8, <1>9, <1>10, <1>11, <1>12, <1>13
    DEF Next, LoopStep

(* The end of a frame is where the sync flag is set.                         *)
LEMMA TailKept == Inv /\ [Next]_vars => TailInv'
  <1> SUFFICES ASSUME Inv, [Next]_vars PROVE TailInv'
    OBVIOUS
  <1> USE DEF Inv, TypeOK, TailInv, Calls, LoopPCs, Sync
  <1>1. CASE Flush
    BY <1>1 DEF Flush
  <1>2. CASE Flushed
    BY <1>2 DEF Flushed
  <1>3. ASSUME NEW call \in Calls, Begin(call) PROVE TailInv'
    BY <1>3 DEF Begin
  <1>4. CASE Time
    BY <1>4 DEF Time
  <1>5. CASE Test
    BY <1>5 DEF Test
  <1>6. CASE Exit
    BY <1>6 DEF Exit, QuitNow
  <1>7. CASE Write
    BY <1>7 DEF Write, QuitNow
  <1>8. CASE Refill
    BY <1>8 DEF Refill
  <1>9. CASE Fill
    BY <1>9 DEF Fill, OwnerInv
  <1>10. ASSUME NEW sync \in Sync, FillDone(sync) PROVE TailInv'
    <2>1. buffer.state # "filled"
      BY <1>10 DEF FillDone, OwnerInv
    <2>2. QED
      BY <1>10, <2>1 DEF FillDone, program
  <1>11. CASE SignalEnd
    BY <1>11 DEF SignalEnd, program
  <1>12. CASE Tick
    BY <1>12 DEF Tick, program
  <1>13. CASE UNCHANGED vars
    BY <1>13 DEF vars, program
  <1>14. QED
    BY <1>1, <1>2, <1>3, <1>4, <1>5, <1>6, <1>7, <1>8, <1>9, <1>10, <1>11, <1>12, <1>13
    DEF Next, LoopStep

(* The time passed is measured from the start of the call.                   *)
LEMMA TimeKept == Inv /\ [Next]_vars => TimeInv'
  <1> SUFFICES ASSUME Inv, [Next]_vars PROVE TimeInv'
    OBVIOUS
  <1> USE RecordTimeAssumption DEF Inv, TypeOK, TimeInv, Calls
  <1>1. CASE Flush \/ Flushed
    BY <1>1 DEF Flush, Flushed
  <1>2. ASSUME NEW call \in Calls, Begin(call) PROVE TimeInv'
    BY <1>2 DEF Begin
  <1>3. CASE Time
    BY <1>3 DEF Time
  <1>4. CASE Test \/ Refill \/ Fill
    BY <1>4 DEF Test, Refill, Fill
  <1>5. CASE Exit
    BY <1>5 DEF Exit
  <1>6. CASE Write
    BY <1>6 DEF Write, QuitNow, Sync
  <1>7. ASSUME NEW sync \in Sync, FillDone(sync) PROVE TimeInv'
    BY <1>7 DEF FillDone, program
  <1>8. CASE SignalEnd
    BY <1>8 DEF SignalEnd, program
  <1>9. CASE Tick
    BY <1>9 DEF Tick, program
  <1>10. CASE UNCHANGED vars
    BY <1>10 DEF vars, program
  <1>11. QED
    BY <1>1, <1>2, <1>3, <1>4, <1>5, <1>6, <1>7, <1>8, <1>9, <1>10 DEF Next, LoopStep

(* The inductive invariant of the encoder loops.                              *)
THEOREM LoopInvariance == Spec => []Inv
  <1>1. Inv /\ [Next]_vars => Inv'
    BY TypeKept, OwnerKept, TailKept, TimeKept DEF Inv
  <1>2. QED
    BY <1>1, InitInv, PTL DEF Spec

(* The types of the loop state, for every record_time.                        *)
THEOREM LoopTypeCorrect == Spec => []TypeOK
  <1>1. Inv => TypeOK
    BY DEF Inv
  <1>2. QED
    BY <1>1, LoopInvariance, PTL

(* The buffer is looked at and handed over by its owner only, and no content  *)
(* is looked at twice or handed back unused.                                  *)
THEOREM DisciplineKept == Spec => []BufferDiscipline
  <1>1. Inv => BufferDiscipline
    BY DEF Inv, TypeOK, OwnerInv, BufferDiscipline, Calls
  <1>2. QED
    BY <1>1, LoopInvariance, PTL

(* Recordings and streams end with a whole frame.                             *)
THEOREM FramesWhole == Spec => []WholeFrames
  <1>1. Inv => WholeFrames
    BY DEF Inv, TailInv, WholeFrames
  <1>2. QED
    BY <1>1, LoopInvariance, PTL

(* No recording ends before record_time.                                      *)
THEOREM RecordsFullTime == Spec => FullTime
  <1>1. Inv /\ [Next]_vars =>
          [task = "record" /\ task' # "record" => end >= record_time]_vars
    <2> SUFFICES ASSUME Inv, Next, task = "record", task' # "record"
                 PROVE end >= record_time
      OBVIOUS
    <2>1. Exit
      BY DEF Next, Flush, Flushed, Begin, LoopStep, Time, Test, Write, Refill, Fill,
             FillDone, SignalEnd, Tick, program
    <2>2. QED
      BY <2>1, RecordTimeAssumption DEF Exit, QuitNow, Inv, TypeOK, TimeInv
  <1>2. QED
    BY <1>1, LoopInvariance, PTL DEF Spec, FullTime
=============================================================================
