-------------------------- MODULE RtspBufferProofs --------------------------
(***************************************************************************)
(* Theorems of RtspBuffer, for any size of the buffer, any lengths and any *)
(* number of pieces, frames and parameter sets.                            *)
(***************************************************************************)
EXTENDS RtspBuffer, SequenceTheorems, TLAPS

(* The lengths say whether there is anything; what was refused leaves the    *)
(* frame before in its place.                                                *)
LengthInv ==
  /\ temp_data_len > 0 <=> Len(temp_data) > 0
  /\ frame_data_len > 0 => Len(frame_data) > 0
  /\ delivered.kind = "frame" => Len(delivered.data) > 0
  /\ ~headless /\ emitted.frame > 0 => temp_data_len > 0

(* Frames are only emitted, and hence read, after both parameter sets.       *)
SetsInv ==
  /\ ppsDue => sets > 0
  /\ sets > 0 => sps > 0
  /\ sets > 0 /\ ~ppsDue => pps > 0
  /\ emitted.frame > 0 => sps > 0 /\ pps > 0
  /\ temp_data_len > 0 => emitted.frame > 0
  /\ frame_data_len > 0 => emitted.frame > 0
  /\ nFrameIdx > 0 => emitted.frame > 0

(* What is collected is newer than what was flushed, which is newest.        *)
NewestInv ==
  /\ temp_data_len > 0 => /\ newest < temp_data[1].frame
                          /\ temp_data[1].frame <= emitted.frame
  /\ temp_data_len = 0 => newest = 0

(* What is collected belongs to the frame at hand, in order, and is all of   *)
(* it unless a piece was refused.                                            *)
Entire(data, refused) ==
  data[1].frame \notin refused => data[Len(data)].part = Len(data) /\ data[Len(data)].last

CollectedInv ==
  /\ OneFrame(temp_data) /\ temp_data[1].frame = emitted.frame
  /\ \A i \in 1 .. Len(temp_data) : temp_data[i].part <= emitted.part
  /\ emitted.frame \notin gaps =>
       temp_data[Len(temp_data)] = emitted /\ emitted.part = Len(temp_data)

PiecesInv ==
  ~headless =>
    /\ temp_data_len > 0 => CollectedInv
    /\ frame_data_len > 0 => OneFrame(frame_data) /\ Entire(frame_data, gaps)
    /\ delivered.kind = "frame" => OneFrame(delivered.data) /\ Entire(delivered.data, gaps)

Inv == TypeOK /\ BufferBound /\ ParameterSetsSaved /\ LengthInv /\ SetsInv /\ NewestInv /\ PiecesInv

-----------------------------------------------------------------------------
(* What the assumptions say of the bounds.                                   *)
LEMMA Constants ==
  /\ RTSP_INPUT_BUFFER_MAX \in Nat /\ PARAMETER_SET_DISTANCE \in Nat
  /\ PARAMETER_SET_DISTANCE > 0 /\ \A length \in Lengths : length \in Nat /\ length > 0
BY MaxAssumption, LengthsAssumption, BoundsAssumption

(* The empty buffer satisfies the invariant.                                 *)
LEMMA InvInit == Init => Inv
<1> SUFFICES ASSUME Init PROVE Inv
  OBVIOUS
<1>1. TypeOK
  <2>1. /\ ppsDue \in BOOLEAN /\ headless \in BOOLEAN /\ gaps \subseteq Nat
        /\ emitted \in {[frame |-> 0, part |-> 0, last |-> TRUE]}
    BY DEF Init
  <2>2. /\ sets \in Nat /\ sps \in Nat /\ pps \in Nat /\ newest \in Nat
        /\ temp_data_len \in Nat /\ frame_data_len \in Nat
        /\ nFrameIdx \in 0 .. PARAMETER_SET_DISTANCE + 1
    BY Constants DEF Init, Unset
  <2>3. /\ temp_data \in Seq(Piece) /\ frame_data \in Seq(Piece)
        /\ delivered \in [kind : {"none", "frame", "sps", "pps"}, data : Seq(Piece), set : Nat]
    BY DEF Init, Unset
  <2>4. QED BY <2>1, <2>2, <2>3 DEF TypeOK
<1>2. BufferBound /\ ParameterSetsSaved
  BY Constants DEF Init, BufferBound, ParameterSetsSaved
<1>3. LengthInv /\ SetsInv /\ NewestInv
  BY DEF Init, LengthInv, SetsInv, NewestInv
<1>4. PiecesInv
  BY DEF Init, PiecesInv
<1>5. QED BY <1>1, <1>2, <1>3, <1>4 DEF Inv

(* The numbers, and the sequences, of TypeOK.                                *)
LEMMA Numbers ==
  ASSUME TypeOK
  PROVE  /\ emitted.frame \in Nat /\ emitted.part \in Nat
         /\ sets \in Nat /\ sps \in Nat /\ pps \in Nat /\ newest \in Nat
         /\ temp_data_len \in Nat /\ frame_data_len \in Nat /\ nFrameIdx \in Nat
BY Constants DEF TypeOK, Piece

(* What TypeOK says of the pieces collected so far.                          *)
LEMMA Collected ==
  ASSUME TypeOK
  PROVE  /\ Len(temp_data) \in Nat
         /\ \A i \in 1 .. Len(temp_data) : temp_data[i] \in Piece
         /\ \A i \in 1 .. Len(temp_data) :
              temp_data[i].frame \in Nat /\ temp_data[i].part \in Nat
         /\ DOMAIN temp_data = 1 .. Len(temp_data)
<1>1. temp_data \in Seq(Piece)
  BY DEF TypeOK
<1>2. Len(temp_data) \in Nat /\ DOMAIN temp_data = 1 .. Len(temp_data)
  BY <1>1, LenProperties
<1>3. \A i \in 1 .. Len(temp_data) : temp_data[i] \in Piece
  BY <1>1, ElementOfSeq
<1>4. \A u \in Piece : u.frame \in Nat /\ u.part \in Nat
  BY DEF Piece
<1>5. QED BY <1>2, <1>3, <1>4

(* The parameter sets concern nothing but themselves.                        *)
LEMMA SetsKeep == ASSUME Inv, PushSps \/ PushPps PROVE Inv'
<1>1. UNCHANGED <<emitted, writer, shared, reader, history>>
  BY DEF PushSps, PushPps
<1>2. /\ sets' \in Nat /\ ppsDue' \in BOOLEAN /\ sps' \in Nat /\ pps' \in Nat
  <2>1. sets \in Nat /\ sps \in Nat /\ pps \in Nat
    BY DEF Inv, TypeOK
  <2>2. ppsDue' \in BOOLEAN
    BY DEF PushSps, PushPps
  <2>3. sets' \in Nat /\ sps' \in Nat /\ pps' \in Nat
    BY <2>1 DEF PushSps, PushPps
  <2>4. QED BY <2>2, <2>3
<1>3. TypeOK'
  BY <1>1, <1>2 DEF Inv, TypeOK, writer, shared, reader, history
<1>4. BufferBound' /\ ParameterSetsSaved' /\ LengthInv' /\ NewestInv' /\ PiecesInv'
  BY <1>1 DEF Inv, BufferBound, ParameterSetsSaved, LengthInv, NewestInv, PiecesInv, CollectedInv,
              Entire, OneFrame, writer, shared, reader, history
<1>5. SetsInv'
  BY <1>1 DEF Inv, TypeOK, SetsInv, PushSps, PushPps, writer, shared, reader
<1>6. QED BY <1>3, <1>4, <1>5 DEF Inv

(* The next frame begins.                                                    *)
LEMMA NextFrame ==
  ASSUME Inv, NEW length \in Lengths, NEW last \in BOOLEAN, PushStart(length, last)
  PROVE  /\ emitted.frame \in Nat /\ emitted.part \in Nat
         /\ emitted' = [frame |-> emitted.frame + 1, part |-> 1, last |-> last]
         /\ emitted' \in Piece
         /\ emitted'.frame = emitted.frame + 1 /\ emitted'.part = 1 /\ emitted'.last = last
         /\ UNCHANGED <<sets, ppsDue, sps, pps, reader>> /\ emitted.last
<1>1. emitted.frame \in Nat /\ emitted.part \in Nat
  BY DEF Inv, TypeOK, Piece
<1>2. QED BY <1>1 DEF PushStart, Piece

(* The first piece of a frame does not fit: the frame is headless.           *)
LEMMA StartRefused ==
  ASSUME Inv, NEW length \in Lengths, NEW last \in BOOLEAN, PushStart(length, last),
         length + StartCode > RTSP_INPUT_BUFFER_MAX
  PROVE  Inv'
<1>1. /\ headless' = TRUE /\ gaps' = gaps \cup {emitted'.frame}
      /\ UNCHANGED <<writer, shared, newest>>
  BY NextFrame DEF PushStart
<1>2. TypeOK'
  <2>1. gaps' \subseteq Nat /\ headless' \in BOOLEAN
    <3>1. emitted'.frame \in Nat
      BY NextFrame
    <3>2. QED BY <1>1, <3>1 DEF Inv, TypeOK
  <2>2. QED BY <1>1, <2>1, NextFrame DEF Inv, TypeOK, writer, shared, reader
<1>3. BufferBound' /\ ParameterSetsSaved'
  BY <1>1, NextFrame DEF Inv, BufferBound, ParameterSetsSaved, writer, shared, reader
<1>4. LengthInv' /\ NewestInv'
  <2>1. LengthInv'
    BY <1>1, NextFrame DEF Inv, LengthInv, writer, shared, reader
  <2>2. temp_data_len > 0 => temp_data[1].frame \in Nat
    BY Collected DEF Inv, LengthInv
  <2>3. NewestInv'
    BY <1>1, <2>2, NextFrame DEF Inv, NewestInv, writer
  <2>4. QED BY <2>1, <2>3
<1>5. SetsInv'
  <2>1. sets > 0 /\ ~ppsDue /\ sets \in Nat /\ sps > 0 /\ pps > 0
    BY Numbers DEF Inv, SetsInv, PushStart
  <2>2. emitted'.frame > 0
    BY NextFrame
  <2>3. QED BY <2>1, <2>2, NextFrame DEF SetsInv
<1>6. PiecesInv'
  BY <1>1 DEF PiecesInv
<1>7. QED BY <1>2, <1>3, <1>4, <1>5, <1>6 DEF Inv

(* A frame that was collected is flushed when the next one begins.           *)
LEMMA StartAccepted ==
  ASSUME Inv, NEW length \in Lengths, NEW last \in BOOLEAN, PushStart(length, last),
         ~(length + StartCode > RTSP_INPUT_BUFFER_MAX)
  PROVE  Inv'
<1>1. /\ flush_frame_data
      /\ temp_data' = <<emitted'>> /\ temp_data_len' = length
      /\ UNCHANGED <<gaps, headless>>
  BY NextFrame DEF PushStart
<1>2. /\ temp_data' \in Seq(Piece) /\ Len(temp_data') = 1 /\ temp_data'[1] = emitted'
      /\ length \in Nat /\ length > 0 /\ length <= RTSP_INPUT_BUFFER_MAX
  BY <1>1, NextFrame, Constants DEF StartCode
<1>3. TypeOK
  BY DEF Inv
<1>4. temp_data_len > 0 => temp_data[1] \in Piece /\ temp_data[1].frame \in Nat
  BY <1>3, Collected DEF Inv, LengthInv
<1>5. /\ frame_data' \in Seq(Piece) /\ frame_data_len' \in Nat /\ newest' \in Nat
      /\ frame_data_len' <= RTSP_INPUT_BUFFER_MAX
      /\ frame_data_len' > 0 => Len(frame_data') > 0
  BY <1>1, <1>3, <1>4 DEF flush_frame_data, TypeOK, Inv, BufferBound, LengthInv, shared
<1>6. TypeOK'
  BY <1>1, <1>2, <1>3, <1>5, NextFrame DEF TypeOK, reader
<1>7. BufferBound' /\ ParameterSetsSaved'
  BY <1>1, <1>2, <1>5, NextFrame DEF Inv, BufferBound, ParameterSetsSaved, reader
<1>8. LengthInv'
  BY <1>1, <1>2, <1>5, NextFrame DEF Inv, LengthInv, reader
<1>9. SetsInv'
  <2>1. sets > 0 /\ ~ppsDue /\ sets \in Nat /\ sps > 0 /\ pps > 0
    BY <1>3, Numbers DEF Inv, SetsInv, PushStart
  <2>2. emitted'.frame > 0
    BY NextFrame
  <2>3. QED BY <2>1, <2>2, NextFrame DEF SetsInv
<1>10. NewestInv'
  <2>1. newest' < emitted'.frame
    <3>1. CASE temp_data_len > 0
      BY <1>1, <1>4, <3>1, NextFrame DEF Inv, NewestInv, flush_frame_data
    <3>2. CASE ~(temp_data_len > 0)
      <4>1. temp_data_len = 0
        BY <1>3, <3>2, Numbers
      <4>2. newest' = 0
        BY <1>1, <3>2, <4>1 DEF Inv, NewestInv, flush_frame_data
      <4>3. QED BY <4>2, NextFrame
    <3>3. QED BY <3>1, <3>2
  <2>2. emitted'.frame \in Nat
    BY NextFrame
  <2>3. QED BY <1>1, <1>2, <2>1, <2>2 DEF NewestInv
<1>11. PiecesInv'
  <2> SUFFICES ASSUME ~headless' PROVE PiecesInv'
    BY DEF PiecesInv
  <2>1. CollectedInv'
    BY <1>2, NextFrame DEF CollectedInv, OneFrame
  <2>2. frame_data_len' > 0 => OneFrame(frame_data') /\ Entire(frame_data', gaps')
    <3>1. CASE temp_data_len > 0
      <4>1. CollectedInv /\ frame_data' = temp_data /\ gaps' = gaps
        BY <1>1, <3>1 DEF Inv, PiecesInv, flush_frame_data
      <4>2. emitted.last
        BY NextFrame
      <4>3. OneFrame(temp_data) /\ Entire(temp_data, gaps)
        BY <4>1, <4>2 DEF CollectedInv, Entire
      <4>4. QED BY <4>1, <4>3
    <3>2. CASE ~(temp_data_len > 0)
      <4>1. UNCHANGED <<frame_data, frame_data_len, gaps, headless>>
        BY <1>1, <3>2 DEF flush_frame_data, shared
      <4>2. QED BY <1>1, <4>1 DEF Inv, PiecesInv
    <3>3. QED BY <3>1, <3>2
  <2>3. delivered'.kind = "frame" => OneFrame(delivered'.data) /\ Entire(delivered'.data, gaps')
    BY <1>1, NextFrame DEF Inv, PiecesInv, reader
  <2>4. QED BY <2>1, <2>2, <2>3 DEF PiecesInv
<1>12. QED BY <1>6, <1>7, <1>8, <1>9, <1>10, <1>11 DEF Inv

(* A further piece of the frame at hand, appended or refused.                *)
LEMMA TrailingKeeps ==
  ASSUME Inv, NEW length \in Lengths, NEW last \in BOOLEAN, PushTrailing(length, last)
  PROVE  Inv'
<1>1. TypeOK /\ emitted.frame \in Nat /\ emitted.part \in Nat /\ Len(temp_data) \in Nat
  BY Numbers, Collected DEF Inv
<1>2. emitted \in Piece /\ emitted.frame > 0
  <2>1. ~emitted.last /\ emitted \in Piece \cup {[frame |-> 0, part |-> 0, last |-> TRUE]}
    BY <1>1 DEF PushTrailing, TypeOK
  <2>2. [frame |-> 0, part |-> 0, last |-> TRUE].last
    OBVIOUS
  <2>3. emitted \in Piece
    BY <2>1, <2>2
  <2>4. emitted.frame \in Nat \ {0}
    BY <2>3 DEF Piece
  <2>5. QED BY <2>3, <2>4
<1>3. /\ emitted' = [emitted EXCEPT !.part = @ + 1, !.last = last] /\ emitted' \in Piece
      /\ emitted'.frame = emitted.frame /\ emitted'.part = emitted.part + 1
  <2>1. emitted' = [emitted EXCEPT !.part = @ + 1, !.last = last]
    BY DEF PushTrailing
  <2>2. /\ emitted = [frame |-> emitted.frame, part |-> emitted.part, last |-> emitted.last]
        /\ emitted.frame \in Nat \ {0} /\ emitted.part \in Nat \ {0}
    BY <1>2 DEF Piece
  <2>3. emitted' = [frame |-> emitted.frame, part |-> emitted.part + 1, last |-> last]
    BY <2>1, <2>2
  <2>4. emitted.part + 1 \in Nat \ {0}
    BY <2>2
  <2>5. emitted' \in Piece
    BY <2>2, <2>3, <2>4 DEF Piece
  <2>6. emitted'.frame = emitted.frame /\ emitted'.part = emitted.part + 1
    BY <2>3
  <2>7. QED BY <2>1, <2>5, <2>6
<1>4. UNCHANGED <<sets, ppsDue, shared, sps, pps, reader, newest, headless>>
  BY DEF PushTrailing
<1>5. gaps' \subseteq Nat /\ gaps \subseteq gaps'
  BY <1>1, <1>2, <1>3 DEF PushTrailing, TypeOK
<1>6. /\ ParameterSetsSaved' /\ frame_data_len' <= RTSP_INPUT_BUFFER_MAX
      /\ frame_data_len' > 0 => Len(frame_data') > 0
      /\ delivered'.kind = "frame" => Len(delivered'.data) > 0
  BY <1>4 DEF Inv, ParameterSetsSaved, BufferBound, LengthInv, shared, reader
<1>7. ~headless' =>
        /\ frame_data_len' > 0 => OneFrame(frame_data') /\ Entire(frame_data', gaps')
        /\ delivered'.kind = "frame" => OneFrame(delivered'.data) /\ Entire(delivered'.data, gaps')
  BY <1>4, <1>5 DEF Inv, PiecesInv, Entire, shared, reader
<1>8. CASE Fits(length)
  <2>1. /\ temp_data' = Append(temp_data, emitted') /\ temp_data_len' = temp_data_len + length
        /\ gaps' = gaps
    BY <1>3, <1>8 DEF PushTrailing
  <2>2. /\ temp_data' \in Seq(Piece) /\ Len(temp_data') = Len(temp_data) + 1
        /\ \A i \in 1 .. Len(temp_data) : temp_data'[i] = temp_data[i]
        /\ temp_data'[Len(temp_data) + 1] = emitted'
    BY <1>1, <1>3, <2>1, AppendProperties DEF TypeOK
  <2>3. /\ temp_data_len' \in Nat /\ temp_data_len' > 0
        /\ temp_data_len' <= RTSP_INPUT_BUFFER_MAX
    BY <1>1, <1>8, <2>1, Numbers, Constants DEF Fits
  <2>4. TypeOK'
    BY <1>1, <1>3, <1>4, <1>5, <2>2, <2>3 DEF TypeOK, shared, reader
  <2>5. BufferBound' /\ LengthInv'
    BY <1>1, <1>6, <2>2, <2>3 DEF BufferBound, LengthInv
  <2>6. SetsInv'
    BY <1>2, <1>3, <1>4 DEF Inv, SetsInv, shared, reader
  <2>7. NewestInv'
    <3>1. CASE temp_data_len > 0
      <4>1. temp_data'[1] = temp_data[1]
        BY <1>1, <2>2, <3>1 DEF Inv, LengthInv
      <4>2. QED BY <1>3, <1>4, <2>3, <3>1, <4>1 DEF Inv, NewestInv
    <3>2. CASE ~(temp_data_len > 0)
      <4>1. Len(temp_data) = 0 /\ temp_data_len = 0
        BY <1>1, <3>2, Numbers DEF Inv, LengthInv
      <4>2. temp_data'[1] = emitted' /\ newest' = 0
        BY <1>4, <2>2, <4>1 DEF Inv, NewestInv
      <4>3. QED BY <1>1, <1>2, <1>3, <2>3, <4>2 DEF NewestInv
    <3>3. QED BY <3>1, <3>2
  <2>8. PiecesInv'
    <3> SUFFICES ASSUME ~headless' PROVE CollectedInv'
      BY <1>7 DEF PiecesInv
    <3>1. CollectedInv /\ Len(temp_data) > 0
      BY <1>2, <1>4 DEF Inv, LengthInv, PiecesInv
    <3>2. \A i \in 1 .. Len(temp_data) + 1 :
            \/ i \in 1 .. Len(temp_data) /\ temp_data'[i] = temp_data[i]
            \/ i = Len(temp_data) + 1 /\ temp_data'[i] = emitted'
      BY <1>1, <2>2
    <3>3. temp_data'[1] = temp_data[1] /\ temp_data[1].frame = emitted.frame
      BY <1>1, <2>2, <3>1 DEF CollectedInv
    <3>4. \A i \in 1 .. Len(temp_data) :
            /\ temp_data[i].part \in Nat /\ temp_data[i].part < emitted'.part
            /\ temp_data[i].frame = emitted'.frame
      BY <1>1, <1>3, <3>1, Collected DEF CollectedInv, OneFrame
    <3>5. DOMAIN temp_data' = 1 .. Len(temp_data) + 1 /\ DOMAIN temp_data = 1 .. Len(temp_data)
      BY <1>1, <2>2, LenProperties, Collected
    <3>6. OneFrame(temp_data')
      <4> SUFFICES ASSUME NEW i \in 1 .. Len(temp_data) + 1, NEW j \in 1 .. Len(temp_data) + 1
                   PROVE  /\ temp_data'[i].frame = temp_data'[j].frame
                          /\ i < j => temp_data'[i].part < temp_data'[j].part
        BY <3>1, <3>3, <3>5 DEF OneFrame, CollectedInv
      <4>1. temp_data'[i].frame = temp_data'[j].frame
        BY <3>2, <3>4
      <4>2. ASSUME i < j PROVE temp_data'[i].part < temp_data'[j].part
        <5>1. i \in 1 .. Len(temp_data) /\ temp_data'[i] = temp_data[i]
          BY <1>1, <3>2, <4>2
        <5>2. CASE j \in 1 .. Len(temp_data) /\ temp_data'[j] = temp_data[j]
          BY <3>1, <3>5, <4>2, <5>1, <5>2 DEF CollectedInv, OneFrame
        <5>3. CASE temp_data'[j] = emitted'
          BY <3>4, <5>1, <5>3
        <5>4. QED BY <3>2, <5>2, <5>3
      <4>3. QED BY <4>1, <4>2
    <3>7. \A i \in 1 .. Len(temp_data) + 1 : temp_data'[i].part <= emitted'.part
      <4> SUFFICES ASSUME NEW i \in 1 .. Len(temp_data) + 1
                   PROVE  temp_data'[i].part <= emitted'.part
        OBVIOUS
      <4>1. emitted'.part \in Nat
        BY <1>1, <1>3
      <4>2. CASE i \in 1 .. Len(temp_data) /\ temp_data'[i] = temp_data[i]
        <5>1. temp_data[i].part \in Nat /\ temp_data[i].part < emitted'.part
          BY <3>4, <4>2
        <5>2. QED BY <4>1, <4>2, <5>1
      <4>3. CASE temp_data'[i] = emitted'
        BY <4>1, <4>3
      <4>4. QED BY <3>2, <4>2, <4>3
    <3>8. emitted'.frame \notin gaps' =>
            temp_data'[Len(temp_data) + 1] = emitted' /\ emitted'.part = Len(temp_data) + 1
      BY <1>3, <2>1, <2>2, <3>1 DEF CollectedInv
    <3>9. QED BY <1>3, <2>2, <3>3, <3>6, <3>7, <3>8 DEF CollectedInv
  <2>9. QED BY <1>6, <2>4, <2>5, <2>6, <2>7, <2>8 DEF Inv
<1>9. CASE ~Fits(length)
  <2>1. UNCHANGED writer /\ gaps' = gaps \cup {emitted.frame}
    BY <1>3, <1>9 DEF PushTrailing
  <2>2. TypeOK'
    BY <1>1, <1>3, <1>4, <1>5, <2>1 DEF TypeOK, shared, reader, writer
  <2>3. BufferBound' /\ LengthInv'
    BY <1>3, <1>4, <1>6, <2>1 DEF Inv, BufferBound, LengthInv, writer, shared
  <2>4. SetsInv' /\ NewestInv'
    BY <1>3, <1>4, <2>1 DEF Inv, SetsInv, NewestInv, writer, shared, reader
  <2>5. PiecesInv'
    <3> SUFFICES ASSUME ~headless', temp_data_len' > 0 PROVE CollectedInv'
      BY <1>7 DEF PiecesInv
    <3>1. CollectedInv
      BY <1>4, <2>1 DEF Inv, PiecesInv, writer
    <3>2. \A i \in 1 .. Len(temp_data) : temp_data[i].part <= emitted'.part
      BY <1>1, <1>3, <3>1, Collected DEF CollectedInv
    <3>3. emitted'.frame \in gaps'
      BY <1>3, <2>1
    <3>4. temp_data' = temp_data
      BY <2>1 DEF writer
    <3>5. QED BY <1>3, <3>1, <3>2, <3>3, <3>4 DEF CollectedInv
  <2>6. QED BY <1>6, <2>2, <2>3, <2>4, <2>5 DEF Inv
<1>10. QED BY <1>8, <1>9

(* The reader takes the frame that is ready, or a parameter set.             *)
LEMMA ReaderKeeps == ASSUME Inv, doGetNextFrame PROVE Inv'
<1>1. UNCHANGED <<encoder, writer, frame_data, sps, pps, history>>
  BY DEF doGetNextFrame, ReadFrame, ReadSps, ReadPps, shared
<1>2. TypeOK
  BY DEF Inv
<1>3. frame_data_len' \in {0, frame_data_len} /\ frame_data_len' \in Nat
  BY <1>2 DEF doGetNextFrame, ReadFrame, ReadSps, ReadPps, shared, TypeOK
<1>4. nFrameIdx' \in 0 .. PARAMETER_SET_DISTANCE + 1 /\ nFrameIdx' > 0
  BY <1>2, Constants DEF doGetNextFrame, ReadFrame, ReadSps, ReadPps, TypeOK
<1>5. emitted.frame > 0 /\ sps > 0 /\ pps > 0
  <2>1. nFrameIdx > 0 \/ frame_data_len > 0
    BY <1>2, Constants DEF doGetNextFrame, ReadFrame, ReadSps, ReadPps, TypeOK
  <2>2. QED BY <2>1 DEF Inv, SetsInv
<1>6. \/ /\ delivered' = [kind |-> "frame", data |-> frame_data, set |-> Unset]
         /\ frame_data_len > 0
      \/ delivered' = [kind |-> "sps", data |-> <<>>, set |-> sps]
      \/ delivered' = [kind |-> "pps", data |-> <<>>, set |-> pps]
  BY DEF doGetNextFrame, ReadFrame, ReadSps, ReadPps
<1>7. delivered' \in [kind : {"none", "frame", "sps", "pps"}, data : Seq(Piece), set : Nat]
  <2>1. frame_data \in Seq(Piece) /\ sps \in Nat /\ pps \in Nat /\ Unset \in Nat
    BY <1>2 DEF TypeOK, Unset
  <2>2. <<>> \in Seq(Piece)
    OBVIOUS
  <2>3. CASE delivered' = [kind |-> "frame", data |-> frame_data, set |-> Unset]
    BY <2>1, <2>3
  <2>4. CASE delivered' = [kind |-> "sps", data |-> <<>>, set |-> sps]
    BY <2>1, <2>2, <2>4
  <2>5. CASE delivered' = [kind |-> "pps", data |-> <<>>, set |-> pps]
    BY <2>1, <2>2, <2>5
  <2>6. QED BY <1>6, <2>3, <2>4, <2>5
<1>8. TypeOK'
  BY <1>1, <1>2, <1>3, <1>4, <1>7 DEF TypeOK, encoder, writer, history
<1>9. BufferBound'
  BY <1>1, <1>3, Constants DEF Inv, BufferBound, writer
<1>10. ParameterSetsSaved'
  BY <1>1, <1>5, <1>6 DEF ParameterSetsSaved, Unset
<1>11. LengthInv'
  BY <1>1, <1>3, <1>6 DEF Inv, LengthInv, encoder, writer, history
<1>12. SetsInv'
  BY <1>1, <1>3, <1>5 DEF Inv, SetsInv, encoder, writer
<1>13. NewestInv'
  BY <1>1 DEF Inv, NewestInv, encoder, writer, history
<1>14. PiecesInv'
  <2>1. UNCHANGED <<emitted, temp_data, temp_data_len, frame_data, gaps, headless>>
    BY <1>1 DEF encoder, writer, history
  <2>2. CollectedInv => CollectedInv'
    BY <2>1 DEF CollectedInv, OneFrame
  <2>3. QED BY <1>3, <1>6, <2>1, <2>2 DEF Inv, PiecesInv
<1>15. QED
  BY <1>8, <1>9, <1>10, <1>11, <1>12, <1>13, <1>14 DEF Inv

(* Every step keeps the invariant.                                           *)
LEMMA InvStep == ASSUME Inv, [Next]_vars PROVE Inv'
<1>1. CASE PushSps \/ PushPps
  BY <1>1, SetsKeep
<1>2. ASSUME NEW length \in Lengths, NEW last \in BOOLEAN, PushStart(length, last)
      PROVE  Inv'
  BY <1>2, StartRefused, StartAccepted
<1>3. ASSUME NEW length \in Lengths, NEW last \in BOOLEAN, PushTrailing(length, last)
      PROVE  Inv'
  BY <1>3, TrailingKeeps
<1>4. CASE doGetNextFrame
  BY <1>4, ReaderKeeps
<1>5. CASE UNCHANGED vars
  <2>1. UNCHANGED <<encoder, writer, shared, sps, pps, reader, history>>
    BY <1>5 DEF vars
  <2>2. QED
    BY <2>1 DEF Inv, TypeOK, BufferBound, ParameterSetsSaved, LengthInv, SetsInv, NewestInv,
                PiecesInv, CollectedInv, encoder, writer, shared, reader, history
<1>6. QED
  BY <1>1, <1>2, <1>3, <1>4, <1>5 DEF Next

(* The inductive invariant holds in every reachable state.                   *)
LEMMA Invariance == Spec => []Inv
<1>1. Inv /\ [Next]_vars => Inv'
  BY InvStep
<1>2. QED BY InvInit, <1>1, PTL DEF Spec

-----------------------------------------------------------------------------
(* The types of the buffer: in particular nFrameIdx comes back.              *)
THEOREM BufferTypeCorrect == Spec => []TypeOK
<1>1. Inv => TypeOK
  BY DEF Inv
<1>2. QED BY <1>1, Invariance, PTL

(* Neither array is filled beyond its size, whatever the encoder emits.      *)
THEOREM BufferBounded == Spec => []BufferBound
<1>1. Inv => BufferBound
  BY DEF Inv
<1>2. QED BY <1>1, Invariance, PTL

(* sps_len and pps_len, which nobody initialises, are not read before both   *)
(* sets were saved.                                                          *)
THEOREM SetsSavedFirst == Spec => []ParameterSetsSaved
<1>1. Inv => ParameterSetsSaved
  BY DEF Inv
<1>2. QED BY <1>1, Invariance, PTL

(* What is handed to live555 as a frame is one, and all of it unless a piece *)
(* of it was refused.                                                        *)
THEOREM FramesDelivered == Spec => []WholeFrames
<1>1. Inv => WholeFrames
  BY DEF Inv, PiecesInv, Entire, WholeFrames
<1>2. QED BY <1>1, Invariance, PTL

-----------------------------------------------------------------------------
(* The cell that the buffer implements.                                      *)
cellValue == IF frame_data_len = 0 THEN 0 ELSE frame_data[1].frame
outValue  == IF delivered.kind = "frame" THEN delivered.data[1].frame ELSE 0

(* Every step is a step of the cell of the newest frame, or a stutter.       *)
LEMMA CellSimulated ==
  ASSUME Inv, [Next]_vars
  PROVE  [Cell!Put \/ Cell!Take \/ Cell!Drop]_<<cellValue, newest, outValue>>
<1>1. TypeOK /\ frame_data_len \in Nat /\ temp_data_len \in Nat
  BY Numbers DEF Inv
<1>2. CASE PushSps \/ PushPps
  BY <1>2 DEF PushSps, PushPps, shared, reader, history, cellValue, outValue
<1>3. ASSUME NEW length \in Lengths, NEW last \in BOOLEAN, PushTrailing(length, last)
      PROVE  UNCHANGED <<cellValue, newest, outValue>>
  BY <1>3 DEF PushTrailing, shared, reader, cellValue, outValue
<1>4. ASSUME NEW length \in Lengths, NEW last \in BOOLEAN, PushStart(length, last)
      PROVE  Cell!Put \/ UNCHANGED <<cellValue, newest, outValue>>
  <2>1. UNCHANGED outValue
    BY <1>4 DEF PushStart, reader, outValue
  <2>2. CASE length + StartCode > RTSP_INPUT_BUFFER_MAX
    BY <1>4, <2>1, <2>2 DEF PushStart, shared, cellValue
  <2>3. CASE ~(length + StartCode > RTSP_INPUT_BUFFER_MAX)
    <3>1. flush_frame_data
      BY <1>4, <2>3 DEF PushStart
    <3>2. CASE temp_data_len > 0
      <4>1. /\ frame_data_len' = temp_data_len /\ frame_data' = temp_data
            /\ newest' = temp_data[1].frame
        BY <3>1, <3>2 DEF flush_frame_data
      <4>2. cellValue' = temp_data[1].frame /\ newest < temp_data[1].frame
        BY <1>1, <3>2, <4>1 DEF cellValue, Inv, NewestInv
      <4>3. QED BY <2>1, <4>1, <4>2 DEF Cell!Put, cellValue, outValue
    <3>3. CASE ~(temp_data_len > 0)
      BY <2>1, <3>1, <3>3 DEF flush_frame_data, shared, cellValue
    <3>4. QED BY <3>2, <3>3
  <2>4. QED BY <2>2, <2>3
<1>5. CASE ReadFrame
  <2>1. newest' = newest /\ cellValue' = 0 /\ outValue' = cellValue
    BY <1>1, <1>5 DEF ReadFrame, history, cellValue, outValue
  <2>2. cellValue # 0
    <3>1. frame_data_len > 0 /\ frame_data \in Seq(Piece) /\ Len(frame_data) > 0
      BY <1>1, <1>5 DEF ReadFrame, TypeOK, Inv, LengthInv
    <3>2. frame_data[1] \in Piece
      <4>1. Len(frame_data) \in Nat /\ 1 \in 1 .. Len(frame_data)
        BY <3>1, LenProperties
      <4>2. QED BY <3>1, <4>1, ElementOfSeq
    <3>3. frame_data[1].frame # 0
      BY <3>2 DEF Piece
    <3>4. QED BY <1>1, <3>1, <3>3 DEF cellValue
  <2>3. QED BY <2>1, <2>2 DEF Cell!Take, cellValue, outValue
<1>6. CASE ReadSps \/ ReadPps
  BY <1>6 DEF ReadSps, ReadPps, shared, history, cellValue, outValue, Cell!Drop
<1>7. CASE UNCHANGED vars
  BY <1>7 DEF vars, shared, reader, history, cellValue, outValue
<1>8. QED
  BY <1>2, <1>3, <1>4, <1>5, <1>6, <1>7 DEF Next, doGetNextFrame

(* The buffer is a cell of the newest frame: the reader takes each frame at  *)
(* most once, and none that is older than one it took before.                *)
THEOREM CellImplemented == Spec => NewestFrameOnce
<1>1. Init => Cell!CellInit
  BY DEF Init, Cell!CellInit
<1>2. Inv /\ [Next]_vars
        => [Cell!Put \/ Cell!Take \/ Cell!Drop]_<<cellValue, newest, outValue>>
  BY CellSimulated
<1>3. QED
  BY <1>1, <1>2, Invariance, PTL DEF Spec, NewestFrameOnce, Cell!CellSpec, Cell!cellVars, cellValue,
     outValue
=============================================================================
