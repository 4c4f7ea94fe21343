----------------------------- MODULE EncoderLoop -----------------------------
(***************************************************************************)
(* The two loops of OpenMAX that drain the video encoder: VideoEncode,     *)
(* which records for record_time seconds into a file, and StartStreaming,  *)
(* which pushes to the RTSP buffer until is_end is set.  Both hand the one *)
(* output buffer to the encoder with OMX_FillThisBuffer and learn from     *)
(* fill_output_buffer_done_handler, which runs in a thread of OMX, through *)
(* ctx.encoder_output_buffer_available that it is theirs again.            *)
(*                                                                         *)
(* The encoder is external: it fills the buffer it owns with the next part *)
(* of its stream.  A frame takes one buffer or more, all of which carry    *)
(* OMX_BUFFERFLAG_SYNCFRAME if it is a key frame.                          *)
(***************************************************************************)
EXTENDS Naturals

CONSTANTS
  record_time,   \* seconds to record
  Steady         \* whether the loop gets a buffer in every second

ASSUME RecordTimeAssumption == record_time \in Nat \ {0}
ASSUME SteadyAssumption == Steady \in BOOLEAN

VARIABLES
  task,       \* the call in progress, or where the pipeline is between calls
  pc,         \* position in the loop
  need,       \* need_next_buffer_to_be_filled
  quit,       \* quit_detected and quit_in_keyframe
  end,        \* end_time - start_time
  available,  \* ctx.encoder_output_buffer_available
  is_end,     \* OpenMAX::is_end
  owner,      \* who may use the buffer
  buffer,     \* [state, sync, last]: what is in it
  tail,       \* whether what was written last is the end of its frame
  elapsed,    \* seconds since start_time; more than record_time + 1 is the same
  served      \* a buffer was processed in this second

program == <<task, pc, need, quit, end, tail>>
vars == <<program, available, is_end, owner, buffer, elapsed, served>>

Sync == {"key", "delta"}
Calls == {"record", "stream"}
LoopPCs == {"time", "test", "process", "refill", "fill"}

(* The types of the loop: in particular the loop runs exactly during a call. *)
TypeOK ==
  /\ task \in {"between", "flushing", "ready"} \cup Calls
  /\ pc \in {"off"} \cup LoopPCs
  /\ pc = "off" <=> task \notin Calls
  /\ need \in BOOLEAN
  /\ quit \in {"no"} \cup Sync
  /\ end \in 0 .. record_time + 1
  /\ available \in BOOLEAN
  /\ is_end \in BOOLEAN
  /\ owner \in {"program", "encoder"}
  /\ buffer \in [state : {"empty", "filled", "used"}, sync : Sync, last : BOOLEAN]
  /\ tail \in {"whole", "open"}
  /\ elapsed \in 0 .. record_time + 1
  /\ served \in BOOLEAN

Init ==
  /\ task = "between" /\ pc = "off" /\ need = FALSE /\ quit = "no" /\ end = 0
  /\ tail = "whole" /\ available = FALSE /\ is_end = FALSE /\ owner = "program"
  /\ buffer = [state |-> "used", sync |-> "delta", last |-> TRUE]
  /\ elapsed = 0 /\ served = FALSE

-----------------------------------------------------------------------------
(* Before every call the pipeline is reconfigured: SwitchBufferFlush hands   *)
(* the buffer to the encoder once more, and the flush returns it.  The flag  *)
(* that the handler sets then is left over when the loop begins.             *)
Flush ==
  /\ task \in {"between", "ready"}
  /\ task' = "flushing"
  /\ owner' = "encoder"
  /\ buffer' = [buffer EXCEPT !.state = "empty"]
  /\ UNCHANGED <<pc, need, quit, end, tail, available, is_end, elapsed, served>>

Flushed ==
  /\ task = "flushing"
  /\ task' = "ready"
  /\ owner' = "program"
  /\ available' = TRUE
  /\ buffer' = [state |-> "used", sync |-> "delta", last |-> TRUE]
  /\ UNCHANGED <<pc, need, quit, end, tail, is_end, elapsed, served>>

(* Mutant: the flag is not cleared before the loop.                          *)
BeginKeepsFlag(call) ==
  /\ task = "ready"
  /\ task' = call
  /\ pc' = "time"
  /\ need' = TRUE
  /\ quit' = "no"
  /\ end' = 0 /\ elapsed' = 0 /\ served' = FALSE
  /\ is_end' = IF call = "stream" THEN FALSE ELSE is_end
  /\ UNCHANGED <<tail, available, owner, buffer>>

(* The entry of VideoEncode or StartStreaming.                               *)
Begin(call) ==
  /\ task = "ready"
  /\ task' = call
  /\ pc' = "time"
  /\ need' = TRUE
  /\ quit' = "no"
  /\ end' = 0 /\ elapsed' = 0 /\ served' = FALSE
  /\ is_end' = IF call = "stream" THEN FALSE ELSE is_end
  /\ available' = FALSE
  /\ UNCHANGED <<tail, owner, buffer>>

(* time(&end_time); StartStreaming does not ask for the time.                *)
Time ==
  /\ pc = "time"
  /\ end' = IF task = "record" THEN elapsed ELSE end
  /\ pc' = "test"
  /\ UNCHANGED <<task, need, quit, tail, available, is_end, owner, buffer, elapsed, served>>

Test ==
  /\ pc = "test"
  /\ pc' = IF available THEN "process" ELSE "refill"
  /\ UNCHANGED <<task, need, quit, end, tail, available, is_end, owner, buffer, elapsed,
                 served>>

(* Mutant: the loop is left as soon as the end was detected.                 *)
QuitNowAtOnce ==
  CASE task = "record" /\ end = record_time -> IF buffer.sync = "key" THEN "delta" ELSE "key"
    [] task = "stream" /\ is_end /\ quit = "no" ->
         IF buffer.sync = "key" THEN "delta" ELSE "key"
    [] OTHER -> quit

(* Mutant: the end of the stream is detected again with every buffer.        *)
QuitNowRelatches ==
  CASE task = "record" /\ end = record_time -> buffer.sync
    [] task = "stream" /\ is_end -> buffer.sync
    [] OTHER -> quit

(* Mutant: the end of a recording is detected a second early, once.          *)
QuitNowEarly ==
  CASE task = "record" /\ end + 1 >= record_time /\ quit = "no" -> buffer.sync
    [] task = "stream" /\ is_end /\ quit = "no" -> buffer.sync
    [] OTHER -> quit

(* quit_detected and quit_in_keyframe after the buffer at hand was looked    *)
(* at: VideoEncode sets them with every buffer of second record_time and in  *)
(* no other second, StartStreaming once.                                     *)
QuitNow ==
  CASE task = "record" /\ end = record_time -> buffer.sync
    [] task = "stream" /\ is_end /\ quit = "no" -> buffer.sync
    [] OTHER -> quit

Exit ==
  /\ pc = "process"
  /\ QuitNow \notin {"no", buffer.sync}
  /\ quit' = QuitNow
  /\ task' = "between"
  /\ pc' = "off"
  /\ available' = IF task = "stream" THEN FALSE ELSE available
  /\ served' = TRUE
  /\ UNCHANGED <<need, end, tail, is_end, owner, buffer, elapsed>>

(* fwrite or push_frame_data.                                                *)
Write ==
  /\ pc = "process"
  /\ QuitNow \in {"no", buffer.sync}
  /\ quit' = QuitNow
  /\ tail' = IF buffer.last THEN "whole" ELSE "open"
  /\ buffer' = [buffer EXCEPT !.state = "used"]
  /\ need' = TRUE
  /\ pc' = "refill"
  /\ served' = (served \/ end = elapsed)
  /\ UNCHANGED <<task, end, available, is_end, owner, elapsed>>

(* Mutant: the flag is cleared in every round.                               *)
RefillClearsAlways ==
  /\ pc = "refill"
  /\ need' = FALSE
  /\ available' = FALSE
  /\ pc' = IF need THEN "fill" ELSE "time"
  /\ UNCHANGED <<task, quit, end, tail, is_end, owner, buffer, elapsed, served>>

Refill ==
  /\ pc = "refill"
  /\ need' = FALSE
  /\ available' = IF need THEN FALSE ELSE available
  /\ pc' = IF need THEN "fill" ELSE "time"
  /\ UNCHANGED <<task, quit, end, tail, is_end, owner, buffer, elapsed, served>>

(* OMX_FillThisBuffer.                                                       *)
Fill ==
  /\ pc = "fill"
  /\ owner' = "encoder"
  /\ buffer' = [buffer EXCEPT !.state = "empty"]
  /\ pc' = "time"
  /\ UNCHANGED <<task, need, quit, end, tail, available, is_end, elapsed, served>>

LoopStep == Time \/ Test \/ Exit \/ Write \/ Refill \/ Fill

(* The encoder fills the buffer and calls fill_output_buffer_done_handler.   *)
(* It goes on with its frame, or begins one when the last was complete.      *)
FillDone(sync) ==
  /\ owner = "encoder"
  /\ task \in Calls
  /\ ~buffer.last => sync = buffer.sync
  /\ \E last \in BOOLEAN :
       buffer' = [state |-> "filled", sync |-> sync, last |-> last]
  /\ owner' = "program"
  /\ available' = TRUE
  /\ UNCHANGED <<program, is_end, elapsed, served>>

(* CommunicationService, when the server stops the stream.                   *)
SignalEnd ==
  /\ task = "stream"
  /\ is_end' = TRUE
  /\ UNCHANGED <<program, available, owner, buffer, elapsed, served>>

(* The clock.  If Steady, a second passes only after the loop has processed  *)
(* a buffer in it.                                                           *)
Tick ==
  /\ task = "record"
  /\ Steady => served
  /\ elapsed' = IF elapsed > record_time THEN elapsed ELSE elapsed + 1
  /\ served' = FALSE
  /\ UNCHANGED <<program, available, is_end, owner, buffer>>

Next ==
  \/ Flush \/ Flushed
  \/ \E call \in Calls : Begin(call)
  \/ LoopStep
  \/ \E sync \in Sync : FillDone(sync)
  \/ SignalEnd
  \/ Tick

Spec == Init /\ [][Next]_vars

(* The loop runs on, time passes, the encoder fills every buffer it has, and *)
(* it emits key frames and others, and ends of frames, again and again.      *)
Fairness ==
  /\ WF_vars(Flush) /\ WF_vars(Flushed)
  /\ WF_vars(LoopStep)
  /\ WF_vars(\E sync \in Sync : FillDone(sync))
  /\ \A sync \in Sync : SF_vars(FillDone(sync) /\ buffer'.last)
  /\ WF_vars(Tick)

FairSpec == Spec /\ Fairness

-----------------------------------------------------------------------------
(* The loop looks at the buffer only while it owns it and only when there is *)
(* something new in it, whatever flag an earlier call or flush left over; it *)
(* never hands over a buffer whose content it has not used.                  *)
BufferDiscipline ==
  /\ pc = "process" => (owner = "program" /\ buffer.state = "filled")
  /\ pc = "fill" => (owner = "program" /\ buffer.state # "filled")

(* OpenMax.cpp:1043-1049: the loops end at a frame boundary, so that the     *)
(* last frame of a file or a stream is whole.                                *)
WholeFrames == task \notin Calls => tail = "whole"

(* No recording is cut short: it goes on at least until record_time.         *)
FullTime == [][task = "record" /\ task' # "record" => end >= record_time]_vars

(* A recording ends, and a stream that was told to ends.                     *)
RecordingEnds == (task = "record") ~> (task = "between")
StreamEnds == (task = "stream" /\ is_end) ~> (task = "between")

(* OpenMax.cpp:1048-1049: exiting is delayed a little, up to the next frame  *)
(* boundary, even when the second record_time passes without a buffer.       *)
RecordingEndsSoon == (task = "record") ~> (task = "between")
=============================================================================
