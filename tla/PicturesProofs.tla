--------------------------- MODULE PicturesProofs ---------------------------
(***************************************************************************)
(* Theorems of Pictures and of its parts, for pictures of every format:    *)
(* what is copied stays inside the frame, the frame that a capture returns *)
(* is one whole picture of the camera, the comparison counts the           *)
(* differences of the two frames although it overwrites one of them, the   *)
(* file of the snapshot shows the picture with its primary colours in      *)
(* place, and motion is reported exactly if the two scenes differ.         *)
(***************************************************************************)
EXTENDS Pictures, FiniteSetTheorems, TLAPS

-----------------------------------------------------------------------------
(* Products and quotients.                                                   *)
LEMMA Products == \A a, b, d \in Nat : a <= b => a * d \in Nat /\ a * d <= b * d
<1> SUFFICES ASSUME NEW a \in Nat, NEW b \in Nat, NEW d \in Nat, a <= b
             PROVE  a * d \in Nat /\ a * d <= b * d
  OBVIOUS
<1>1. PICK k \in Nat : b = a + k
  <2> WITNESS b - a \in Nat
  <2> QED
    OBVIOUS
<1>2. b * d = a * d + k * d /\ k * d \in Nat /\ a * d \in Nat
  BY <1>1
<1> QED
  BY <1>2

(* A place in a row lies before every later row and behind every earlier one. *)
LEMMA RowsOrdered ==
  \A a, b, d, c \in Nat : c < d => (a < b <=> a * d + c < b * d) /\ a * d + c \in Nat
<1> SUFFICES ASSUME NEW a \in Nat, NEW b \in Nat, NEW d \in Nat, NEW c \in Nat, c < d
             PROVE  (a < b <=> a * d + c < b * d) /\ a * d + c \in Nat
  OBVIOUS
<1>1. a * d \in Nat /\ b * d \in Nat
  OBVIOUS
<1>2. CASE a < b
  <2>1. (a + 1) * d <= b * d
    BY <1>2, Products
  <2>2. (a + 1) * d = a * d + d
    OBVIOUS
  <2> QED
    BY <1>1, <1>2, <2>1, <2>2
<1>3. CASE b <= a
  <2>1. b * d <= a * d
    BY <1>3, Products
  <2> QED
    BY <1>1, <1>3, <2>1
<1> QED
  BY <1>2, <1>3

(* Division with a remainder.                                                *)
LEMMA Division ==
  \A a \in Nat, s \in Nat \ {0} :
    a \div s \in Nat /\ a % s \in 0 .. s - 1 /\ a = (a \div s) * s + (a % s)
OBVIOUS

LEMMA Quotient ==
  \A q, m \in Nat, s \in Nat \ {0} :
    m < s => (q * s + m) \div s = q /\ (q * s + m) % s = m
<1> SUFFICES ASSUME NEW q \in Nat, NEW m \in Nat, NEW s \in Nat \ {0}, m < s
             PROVE  (q * s + m) \div s = q /\ (q * s + m) % s = m
  OBVIOUS
<1> DEFINE a == q * s + m
           p == a \div s
           n == a % s
<1>1. a \in Nat /\ p \in Nat /\ n \in Nat /\ n < s /\ a = p * s + n /\ q * s \in Nat
  BY Division
<1>2. ~(p < q)
  BY <1>1, RowsOrdered
<1>3. ~(q < p)
  BY <1>1, RowsOrdered
<1> HIDE DEF p, n
<1>4. p = q
  BY <1>1, <1>2, <1>3
<1>5. n = m
  BY <1>1, <1>4
<1> QED
  BY <1>4, <1>5 DEF p, n

-----------------------------------------------------------------------------
(* The layout of the frame and of the buffers: the planes of both have the   *)
(* same rows, one after the other, and nothing else.                         *)
Stride(i) == frame_info.p_stride[i]
Offset(i) == frame_info.p_offset[i]

LEMMA FormatOK ==
  ASSUME format \in Formats
  PROVE  /\ format.width \in Nat \ {0} /\ format.width % 4 = 0
         /\ format.height \in Nat /\ format.height % 2 = 0
         /\ format.buf_slice_height \in Nat \ {0} /\ format.buf_slice_height % 2 = 0
         /\ format.buf_slice_height <= format.height - 2
         /\ format.buf_stride = format.width
BY FormatsAssumption

(* get_i420_frame_info of a picture of even height, without padding of Y.    *)
LEMMA Layout ==
  ASSUME NEW w \in Nat \ {0}, w % 4 = 0, NEW k \in Nat
  PROVE  \E c \in Nat :
           /\ 2 * c >= w
           /\ c = ROUND_UP_4(ROUND_UP_2(w) \div 2)
           /\ get_i420_frame_info(w, 2 * k) =
                [p_stride |-> [i \in Planes |-> IF i = 0 THEN w ELSE c],
                 p_offset |-> [i \in Planes |-> <<0, w * (2 * k), w * (2 * k) + c * k>>[i + 1]],
                 size     |-> w * (2 * k) + c * k + c * k]
<1> DEFINE c == ROUND_UP_4(ROUND_UP_2(w) \div 2)
<1>1. ROUND_UP_4(w) = w /\ ROUND_UP_2(2 * k) = 2 * k /\ (2 * k) \div 2 = k
  BY DEF ROUND_UP_4, ROUND_UP_2
<1>2. c \in Nat /\ 2 * c >= w
  BY DEF ROUND_UP_4, ROUND_UP_2
<1> HIDE DEF c
<1>3. get_i420_frame_info(w, 2 * k) =
        [p_stride |-> [i \in Planes |-> IF i = 0 THEN w ELSE c],
         p_offset |-> [i \in Planes |-> <<0, w * (2 * k), w * (2 * k) + c * k>>[i + 1]],
         size     |-> w * (2 * k) + c * k + c * k]
  BY <1>1 DEF get_i420_frame_info, c
<1> QED
  BY <1>2, <1>3 DEF c

(* Rows of a frame and of a slice.                                           *)
LEMMA RowCounts ==
  ASSUME format \in Formats
  PROVE  /\ \A i \in Planes : /\ max_spans(i) \in Nat \ {0} /\ Rows(i) \in Nat
                              /\ max_spans(i) <= Rows(i)
         /\ max_spans(1) = max_spans(2) /\ max_spans(0) = 2 * max_spans(1)
         /\ Rows(1) = Rows(2) /\ Rows(0) = 2 * Rows(1)
         /\ format.height = Rows(0) /\ format.buf_slice_height = max_spans(0)
BY FormatOK DEF max_spans, Rows, Planes

(* The planes of a frame lie one behind the other.                           *)
LEMMA FrameLayout ==
  ASSUME format \in Formats
  PROVE  /\ \A i \in Planes : Stride(i) \in Nat /\ Offset(i) \in Nat
         /\ Stride(1) = Stride(2) /\ Stride(0) = format.width /\ 2 * Stride(1) >= format.width
         /\ Offset(0) = 0
         /\ Offset(1) = Rows(0) * Stride(0)
         /\ Offset(2) = Rows(0) * Stride(0) + Rows(1) * Stride(1)
         /\ frame_info.size = Rows(0) * Stride(0) + Rows(1) * Stride(1) + Rows(2) * Stride(2)
         /\ frame_info.size \in Nat
<1> DEFINE w == format.width
           k == Rows(1)
<1>1. w \in Nat \ {0} /\ w % 4 = 0 /\ k \in Nat /\ format.height = 2 * k
  BY FormatOK, RowCounts DEF Planes
<1>2. PICK c \in Nat :
        /\ 2 * c >= w
        /\ get_i420_frame_info(w, 2 * k) =
             [p_stride |-> [i \in Planes |-> IF i = 0 THEN w ELSE c],
              p_offset |-> [i \in Planes |-> <<0, w * (2 * k), w * (2 * k) + c * k>>[i + 1]],
              size     |-> w * (2 * k) + c * k + c * k]
  BY <1>1, Layout
<1>3. frame_info = get_i420_frame_info(w, 2 * k)
  BY <1>1 DEF frame_info, FrameInfo
<1>4. /\ Stride(0) = w /\ Stride(1) = c /\ Stride(2) = c
      /\ Offset(0) = 0 /\ Offset(1) = w * (2 * k) /\ Offset(2) = w * (2 * k) + c * k
      /\ frame_info.size = w * (2 * k) + c * k + c * k
  BY <1>2, <1>3 DEF Stride, Offset, Planes
<1>5. Rows(0) = 2 * k /\ Rows(2) = k
  BY <1>1, RowCounts
<1> HIDE DEF w, k
<1>6. /\ w * (2 * k) = Rows(0) * Stride(0) /\ c * k = Rows(1) * Stride(1)
      /\ c * k = Rows(2) * Stride(2)
      /\ w * (2 * k) \in Nat /\ c * k \in Nat
  <2>1. Rows(1) = k
    BY DEF k
  <2>2. \A a, b \in Nat : a * b = b * a /\ a * b \in Nat
    OBVIOUS
  <2>3. 2 * k \in Nat
    BY <1>1
  <2>4. w * (2 * k) = (2 * k) * w /\ c * k = k * c /\ w * (2 * k) \in Nat /\ c * k \in Nat
    BY <1>1, <2>2, <2>3
  <2> QED
    BY <1>4, <1>5, <2>1, <2>4
<1>7. \A i \in Planes : i = 0 \/ i = 1 \/ i = 2
  BY DEF Planes
<1> QED
  BY <1>1, <1>2, <1>4, <1>5, <1>6, <1>7 DEF w

(* The planes of a slice lie in the buffer as those of a frame do.           *)
LEMMA BufferLayout ==
  ASSUME format \in Formats
  PROVE  /\ \A i \in Planes : buf_info.p_stride[i] = Stride(i) /\ buf_info.p_offset[i] \in Nat
         /\ buf_info.p_offset[0] = 0
         /\ buf_info.p_offset[1] = max_spans(0) * Stride(0)
         /\ buf_info.p_offset[2] = max_spans(0) * Stride(0) + max_spans(1) * Stride(1)
<1> DEFINE w == format.width
           k == max_spans(1)
           m == Rows(1)
<1>1. /\ w \in Nat \ {0} /\ w % 4 = 0
      /\ k \in Nat /\ format.buf_slice_height = 2 * k
      /\ m \in Nat /\ format.height = 2 * m
      /\ format.buf_stride = w
  BY FormatOK, RowCounts DEF Planes
<1> HIDE DEF w, k, m
<1>2. PICK c \in Nat :
        /\ c = ROUND_UP_4(ROUND_UP_2(w) \div 2)
        /\ get_i420_frame_info(w, 2 * k) =
             [p_stride |-> [i \in Planes |-> IF i = 0 THEN w ELSE c],
              p_offset |-> [i \in Planes |-> <<0, w * (2 * k), w * (2 * k) + c * k>>[i + 1]],
              size     |-> w * (2 * k) + c * k + c * k]
  BY <1>1, Layout
<1>3. get_i420_frame_info(w, 2 * m).p_stride = [i \in Planes |-> IF i = 0 THEN w ELSE c]
  <2>1. PICK e \in Nat :
          /\ e = ROUND_UP_4(ROUND_UP_2(w) \div 2)
          /\ get_i420_frame_info(w, 2 * m) =
               [p_stride |-> [i \in Planes |-> IF i = 0 THEN w ELSE e],
                p_offset |-> [i \in Planes |-> <<0, w * (2 * m), w * (2 * m) + e * m>>[i + 1]],
                size     |-> w * (2 * m) + e * m + e * m]
    BY <1>1, Layout
  <2>2. e = c
    BY <1>2, <2>1
  <2> QED
    BY <2>1, <2>2
<1>4. /\ buf_info = get_i420_frame_info(w, 2 * k)
      /\ frame_info = get_i420_frame_info(w, 2 * m)
  BY <1>1 DEF buf_info, BufInfo, frame_info, FrameInfo, w
<1>5. /\ \A i \in Planes : buf_info.p_stride[i] = Stride(i)
      /\ Stride(0) = w /\ Stride(1) = c
      /\ buf_info.p_offset[0] = 0 /\ buf_info.p_offset[1] = w * (2 * k)
      /\ buf_info.p_offset[2] = w * (2 * k) + c * k
  BY <1>2, <1>3, <1>4 DEF Stride, Planes
<1>6. max_spans(0) = 2 * k /\ max_spans(1) = k
  BY <1>1, RowCounts DEF k
<1>7. /\ w * (2 * k) = max_spans(0) * Stride(0) /\ c * k = max_spans(1) * Stride(1)
      /\ w * (2 * k) \in Nat /\ c * k \in Nat
  <2>1. \A a, b \in Nat : a * b = b * a /\ a * b \in Nat
    OBVIOUS
  <2>2. 2 * k \in Nat
    BY <1>1
  <2>3. w * (2 * k) = (2 * k) * w /\ c * k = k * c /\ w * (2 * k) \in Nat /\ c * k \in Nat
    BY <1>1, <2>1, <2>2
  <2> QED
    BY <1>5, <1>6, <2>3
<1>8. \A i \in Planes : i = 0 \/ i = 1 \/ i = 2
  BY DEF Planes
<1> QED
  BY <1>5, <1>7, <1>8

(* Where the byte of a row and column of a plane lies in the frame.          *)
Place(i, row, column) == Offset(i) + row * Stride(i) + column

(* No plane reaches into another one or beyond the frame.                    *)
LEMMA PlanesApart ==
  ASSUME format \in Formats, NEW i \in Planes
  PROVE  /\ Rows(i) * Stride(i) \in Nat
         /\ Offset(i) + Rows(i) * Stride(i) <= frame_info.size
         /\ \A j \in Planes : i < j => Offset(i) + Rows(i) * Stride(i) <= Offset(j)
<1>1. \A j \in Planes : Rows(j) \in Nat /\ Stride(j) \in Nat
  BY RowCounts, FrameLayout
<1>2. \A a, b \in Nat : a * b \in Nat
  OBVIOUS
<1>3. \A j \in Planes : Rows(j) * Stride(j) \in Nat
  BY <1>1, <1>2
<1>4. \A j \in Planes : j = 0 \/ j = 1 \/ j = 2
  BY DEF Planes
<1>5. 0 \in Planes /\ 1 \in Planes /\ 2 \in Planes
  BY DEF Planes
<1>6. Rows(1) * Stride(1) = Rows(2) * Stride(2)
  BY RowCounts, FrameLayout
<1> DEFINE a == Rows(0) * Stride(0)
           b == Rows(1) * Stride(1)
<1>7. a \in Nat /\ b \in Nat
  BY <1>3, <1>5
<1>8. /\ Offset(0) = 0 /\ Offset(1) = a /\ Offset(2) = a + b /\ frame_info.size = a + b + b
  BY <1>6, FrameLayout
<1>9. \A j \in Planes : Rows(j) * Stride(j) = IF j = 0 THEN a ELSE b
  BY <1>4, <1>6
<1> HIDE DEF a, b
<1> QED
  BY <1>4, <1>7, <1>8, <1>9

(* A row of a plane lies in it, before the rows that follow.                 *)
LEMMA PlaceInPlane ==
  ASSUME format \in Formats, NEW i \in Planes,
         NEW row \in Nat, NEW column \in 0 .. Stride(i) - 1
  PROVE  /\ Place(i, row, column) \in Nat /\ Offset(i) <= Place(i, row, column)
         /\ \A n \in Nat : row < n <=> Place(i, row, column) < Offset(i) + n * Stride(i)
<1>1. Stride(i) \in Nat /\ Offset(i) \in Nat /\ column \in Nat /\ column < Stride(i)
  BY FrameLayout
<1>2. /\ row * Stride(i) \in Nat /\ row * Stride(i) + column \in Nat
      /\ \A n \in Nat : n * Stride(i) \in Nat
      /\ \A n \in Nat : row < n <=> row * Stride(i) + column < n * Stride(i)
  BY <1>1, RowsOrdered, Products
<1>3. \A o, a, c, e \in Nat : a + c < e <=> o + a + c < o + e
  OBVIOUS
<1>4. Place(i, row, column) = Offset(i) + row * Stride(i) + column
  BY DEF Place
<1> DEFINE a == row * Stride(i)
<1>5. a \in Nat /\ a + column \in Nat
  BY <1>2
<1>6. \A n \in Nat : row < n <=> Offset(i) + a + column < Offset(i) + n * Stride(i)
  BY <1>1, <1>2, <1>3
<1> HIDE DEF a
<1>7. Offset(i) + a + column \in Nat /\ Offset(i) <= Offset(i) + a + column
  BY <1>1, <1>5
<1> QED
  BY <1>4, <1>6, <1>7 DEF a

-----------------------------------------------------------------------------
(* The slices of an image: all are full but for the last one, and their rows *)
(* are the rows of the image.                                                *)
LastRows(i) ==
  LET rows == format.buf_slice_height - Padding(format.height, format.buf_slice_height)
  IN IF i = 0 THEN rows ELSE rows \div 2

LEMMA SliceCount ==
  ASSUME format \in Formats
  PROVE  /\ Slices \in Nat /\ Slices >= 2
         /\ \A i \in Planes : /\ LastRows(i) \in 1 .. max_spans(i)
                              /\ (Slices - 1) * max_spans(i) + LastRows(i) = Rows(i)
<1> DEFINE h == format.height
           s == format.buf_slice_height
           q == h \div s
           m == h % s
           last == s - Padding(h, s)
           n == (h + s - 1) \div s
<1>1. h \in Nat /\ s \in Nat \ {0} /\ s <= h - 2 /\ h % 2 = 0 /\ s % 2 = 0
  BY FormatOK
<1>2. n = Slices /\ LastRows(0) = last /\ LastRows(1) = last \div 2 /\ LastRows(2) = last \div 2
  BY DEF Slices, LastRows
<1>3. q \in Nat /\ m \in 0 .. s - 1 /\ h = q * s + m /\ q * s \in Nat
  <2> HIDE DEF h, s
  <2>1. h \div s \in Nat /\ h % s \in 0 .. s - 1 /\ h = (h \div s) * s + (h % s)
    BY <1>1, Division
  <2> HIDE DEF q, m
  <2>2. q \in Nat /\ m \in 0 .. s - 1 /\ h = q * s + m
    BY <2>1 DEF q, m
  <2>3. q * s \in Nat
    BY <1>1, <2>2
  <2> QED
    BY <2>2, <2>3
<1>4. Padding(h, s) = IF m > 0 THEN s - m ELSE 0
  BY <1>1 DEF Padding
<1> HIDE DEF h, s, q, m, n, last
<1>5. q # 0 /\ (m = 0 => q # 1)
  BY <1>1, <1>3
<1>6. /\ n \in Nat /\ n >= 2 /\ last \in 1 .. s /\ (n - 1) * s + last = h
  <2>1. CASE m = 0
    <3>1. s - 1 \in Nat /\ s - 1 < s /\ h + s - 1 = q * s + (s - 1)
      BY <1>1, <1>3, <2>1
    <3>2. n = q
      BY <1>1, <1>3, <3>1, Quotient DEF n
    <3>3. last = s
      BY <1>1, <1>4, <2>1 DEF last
    <3>4. (q - 1) * s + s = q * s
      BY <1>1, <1>3
    <3> QED
      BY <1>1, <1>3, <1>5, <2>1, <3>2, <3>3, <3>4
  <2>2. CASE m > 0
    <3>1. /\ m - 1 \in Nat /\ m - 1 < s /\ q + 1 \in Nat
          /\ h + s - 1 = (q + 1) * s + (m - 1)
      BY <1>1, <1>3, <2>2
    <3>2. n = q + 1
      <4>1. ((q + 1) * s + (m - 1)) \div s = q + 1
        BY <1>1, <3>1, Quotient
      <4> QED
        BY <3>1, <4>1 DEF n
    <3>3. last = m
      BY <1>1, <1>3, <1>4, <2>2 DEF last
    <3>4. (q + 1 - 1) * s = q * s
      BY <1>3
    <3> QED
      BY <1>1, <1>3, <1>5, <2>2, <3>2, <3>3, <3>4
  <2> QED
    BY <1>3, <2>1, <2>2
<1>7. PICK t \in Nat : s = 2 * t /\ max_spans(1) = t /\ max_spans(2) = t /\ max_spans(0) = s
  <2>1. s \div 2 \in Nat /\ s = 2 * (s \div 2)
    BY <1>1
  <2> QED
    BY <2>1 DEF max_spans, s
<1>8. PICK k \in Nat : h = 2 * k /\ Rows(1) = k /\ Rows(2) = k /\ Rows(0) = h
  <2>1. h \div 2 \in Nat /\ h = 2 * (h \div 2)
    BY <1>1
  <2> QED
    BY <2>1 DEF Rows, h
<1>9. (n - 1) * t \in Nat /\ (n - 1) * s = 2 * ((n - 1) * t)
  BY <1>6, <1>7
<1> DEFINE r == (n - 1) * t
<1>10. r \in Nat /\ 2 * r + last = 2 * k
  BY <1>6, <1>8, <1>9
<1> HIDE DEF r
<1>11. last \div 2 \in 1 .. t /\ r + (last \div 2) = k
  BY <1>6, <1>7, <1>10
<1>12. \A i \in Planes : i = 0 \/ i = 1 \/ i = 2
  BY DEF Planes
<1> QED
  BY <1>2, <1>6, <1>7, <1>8, <1>11, <1>12 DEF r

-----------------------------------------------------------------------------
(* What is copied from a slice: all its rows, to behind the rows of the      *)
(* slices before it.                                                         *)
InTurn ==
  /\ format \in Formats
  /\ buf_num \in 0 .. Slices - 1
  /\ buffer.flags = "ENDOFFRAME" <=> buf_num = Slices - 1

Before(i) == buf_num * max_spans(i)
UpTo(i)   == Before(i) + valid_spans(i)

LEMMA SliceRows ==
  ASSUME InTurn, NEW i \in Planes
  PROVE  /\ Before(i) \in Nat /\ valid_spans(i) \in 1 .. max_spans(i) /\ max_spans(i) \in Nat \ {0}
         /\ UpTo(i) \in Nat /\ UpTo(i) <= Rows(i) /\ Rows(i) \in Nat
         /\ buffer.flags = "ENDOFFRAME" => UpTo(i) = Rows(i)
         /\ buffer.flags # "ENDOFFRAME" => UpTo(i) = (buf_num + 1) * max_spans(i)
<1> DEFINE M == max_spans(i)
           n == Slices - 1
<1>1. /\ buf_num \in Nat /\ buf_num <= n /\ n \in Nat /\ M \in Nat \ {0} /\ Rows(i) \in Nat
      /\ LastRows(i) \in 1 .. M /\ n * M + LastRows(i) = Rows(i)
  BY SliceCount, RowCounts DEF InTurn
<1>2. buf_num * M \in Nat /\ n * M \in Nat
  BY <1>1
<1>3. CASE buffer.flags = "ENDOFFRAME"
  <2>1. valid_spans(i) = LastRows(i) /\ buf_num = n
    BY <1>3 DEF valid_spans, LastRows, InTurn
  <2> HIDE DEF M, n
  <2>2. Before(i) = n * M
    BY <2>1 DEF Before, M
  <2> QED
    BY <1>1, <1>2, <1>3, <2>1, <2>2 DEF UpTo, M
<1>4. CASE buffer.flags # "ENDOFFRAME"
  <2>1. valid_spans(i) = M
    BY <1>4, FormatOK DEF valid_spans, max_spans, InTurn
  <2>2. buf_num + 1 <= n
    BY <1>1, <1>4 DEF InTurn
  <2> HIDE DEF M, n
  <2>3. (buf_num + 1) * M <= n * M /\ (buf_num + 1) * M = buf_num * M + M
    BY <1>1, <2>2, Products
  <2>4. Before(i) = buf_num * M
    BY DEF Before, M
  <2> QED
    BY <1>1, <1>2, <1>4, <2>1, <2>3, <2>4 DEF UpTo, M
<1> QED
  BY <1>3, <1>4

(* Where the rows are copied from and to.                                    *)
LEMMA SpanIs ==
  ASSUME InTurn, NEW i \in Planes
  PROVE  /\ Span(i).to = Offset(i) + Before(i) * Stride(i) /\ Span(i).to \in Nat
         /\ Span(i).to + Span(i).bytes = Offset(i) + UpTo(i) * Stride(i)
         /\ Span(i).bytes = valid_spans(i) * Stride(i) /\ Span(i).bytes \in Nat
         /\ Span(i).from = buf_info.p_offset[i]
         /\ Offset(i) <= Span(i).to
         /\ Span(i).to + Span(i).bytes <= Offset(i) + Rows(i) * Stride(i)
<1> DEFINE d == Stride(i)
           v == valid_spans(i)
           M == max_spans(i)
<1>1. /\ d \in Nat /\ Offset(i) \in Nat /\ v \in Nat /\ M \in Nat /\ Before(i) \in Nat
      /\ buf_num \in Nat /\ UpTo(i) \in Nat /\ UpTo(i) <= Rows(i) /\ Rows(i) \in Nat
  BY SliceRows, FrameLayout, SliceCount DEF InTurn
<1>2. /\ Span(i).to = Offset(i) + buf_num * d * M
      /\ Span(i).bytes = d * v
      /\ Span(i).from = buf_info.p_offset[i]
  BY DEF Span, Offset, Stride
<1>3. Before(i) = buf_num * M /\ UpTo(i) = Before(i) + v
  BY DEF Before, UpTo
<1> HIDE DEF d, v, M
<1>4. /\ buf_num * d * M = buf_num * M * d /\ d * v = v * d
      /\ (Before(i) + v) * d = Before(i) * d + v * d
      /\ Before(i) * d \in Nat /\ v * d \in Nat
  BY <1>1
<1>5. UpTo(i) * d <= Rows(i) * d /\ UpTo(i) * d \in Nat
  BY <1>1, Products
<1>6. \A o, a, b, c, e \in Nat : c = a + b /\ c <= e =>
        o + a \in Nat /\ o <= o + a /\ o + a + b = o + c /\ o + a + b <= o + e
  OBVIOUS
<1>7. Rows(i) * d \in Nat
  BY <1>1
<1>8. /\ Span(i).to = Offset(i) + Before(i) * d /\ Span(i).bytes = v * d
      /\ UpTo(i) * d = Before(i) * d + v * d
  BY <1>2, <1>3, <1>4
<1> QED
  BY <1>1, <1>2, <1>4, <1>5, <1>6, <1>7, <1>8 DEF d, v

(* A byte lies in the span of a plane.                                       *)
Within(i, b) == Span(i).to <= b /\ b < Span(i).to + Span(i).bytes

LEMMA PlaceInSpan ==
  ASSUME InTurn, NEW i \in Planes,
         NEW row \in 0 .. Rows(i) - 1, NEW column \in 0 .. Stride(i) - 1
  PROVE  /\ Place(i, row, column) \in 0 .. frame_info.size - 1
         /\ Within(i, Place(i, row, column)) <=> Before(i) <= row /\ row < UpTo(i)
         /\ \A j \in Planes : Within(j, Place(i, row, column)) => j = i
<1> DEFINE b == Place(i, row, column)
<1>1. /\ format \in Formats /\ row \in Nat /\ Rows(i) \in Nat /\ row < Rows(i)
      /\ Before(i) \in Nat /\ UpTo(i) \in Nat
  BY SliceRows DEF InTurn
<1>2. /\ b \in Nat /\ Offset(i) <= b
      /\ \A n \in Nat : row < n <=> b < Offset(i) + n * Stride(i)
  BY <1>1, PlaceInPlane
<1> HIDE DEF b
<1>3. /\ b < Offset(i) + Rows(i) * Stride(i)
      /\ row < Before(i) <=> b < Span(i).to
      /\ row < UpTo(i) <=> b < Span(i).to + Span(i).bytes
  BY <1>1, <1>2, SpanIs
<1>4. /\ Rows(i) * Stride(i) \in Nat /\ frame_info.size \in Nat /\ Offset(i) \in Nat
      /\ Offset(i) + Rows(i) * Stride(i) <= frame_info.size
  BY <1>1, PlanesApart, FrameLayout
<1>5. b \in 0 .. frame_info.size - 1
  BY <1>2, <1>3, <1>4
<1>6. Within(i, b) <=> Before(i) <= row /\ row < UpTo(i)
  <2>1. Span(i).to \in Nat
    BY SpanIs
  <2>2. Span(i).to <= b <=> ~(b < Span(i).to)
    BY <1>2, <2>1
  <2>3. Before(i) <= row <=> ~(row < Before(i))
    BY <1>1
  <2> QED
    BY <1>3, <2>2, <2>3 DEF Within
<1>7. \A j \in Planes : Within(j, b) => j = i
  <2> SUFFICES ASSUME NEW j \in Planes, Within(j, b), j # i PROVE FALSE
    OBVIOUS
  <2>1. /\ Offset(j) <= Span(j).to /\ Span(j).to \in Nat /\ Span(j).bytes \in Nat
        /\ Span(j).to + Span(j).bytes <= Offset(j) + Rows(j) * Stride(j)
    BY SpanIs
  <2>2. Span(j).to <= b /\ b < Span(j).to + Span(j).bytes
    BY DEF Within
  <2>3. Offset(j) \in Nat /\ Rows(j) * Stride(j) \in Nat
    BY <1>1, PlanesApart, FrameLayout
  <2>4. CASE i < j
    <3>1. Offset(i) + Rows(i) * Stride(i) <= Offset(j)
      BY <1>1, <2>4, PlanesApart
    <3> QED
      BY <1>2, <1>3, <1>4, <2>1, <2>2, <2>3, <3>1
  <2>5. CASE j < i
    <3>1. Offset(j) + Rows(j) * Stride(j) <= Offset(i)
      BY <1>1, <2>5, PlanesApart
    <3> QED
      BY <1>2, <1>4, <2>1, <2>2, <2>3, <3>1
  <2> QED
    BY <2>4, <2>5 DEF Planes
<1> QED
  BY <1>5, <1>6, <1>7 DEF b

(* What becomes of a byte.                                                   *)
LEMMA UnpackedIs ==
  ASSUME InTurn, NEW b \in DOMAIN frame, b \in Nat
  PROVE  /\ (\A i \in Planes : ~Within(i, b)) => Unpacked[b] = frame[b]
         /\ \A i \in Planes :
              Within(i, b) /\ (\A j \in Planes : Within(j, b) => j = i) =>
                Unpacked[b] = [image |-> buffer.image, slice |-> buffer.slice,
                               at |-> Span(i).from + (b - Span(i).to)]
<1> DEFINE span == [i \in Planes |-> Span(i)]
           in(i) == span[i].to .. span[i].to + span[i].bytes - 1
           planes(c) == {i \in Planes : c \in in(i)}
<1>1. \A i \in Planes : i \in planes(b) <=> Within(i, b)
  <2> SUFFICES ASSUME NEW i \in Planes PROVE b \in in(i) <=> Within(i, b)
    OBVIOUS
  <2>1. Span(i).to \in Nat /\ Span(i).bytes \in Nat
    BY SpanIs
  <2>2. span[i] = Span(i)
    OBVIOUS
  <2> QED
    BY <2>1, <2>2 DEF Within
<1>2. Unpacked[b] =
        IF planes(b) = {} THEN frame[b]
        ELSE LET i == CHOOSE i \in planes(b) : TRUE
             IN [image |-> buffer.image, slice |-> buffer.slice,
                 at |-> span[i].from + (b - span[i].to)]
  BY DEF Unpacked
<1>3. ASSUME \A i \in Planes : ~Within(i, b) PROVE Unpacked[b] = frame[b]
  <2>1. planes(b) = {}
    BY <1>1, <1>3
  <2> QED
    BY <1>2, <2>1
<1>4. ASSUME NEW i \in Planes, Within(i, b), \A j \in Planes : Within(j, b) => j = i
      PROVE  Unpacked[b] = [image |-> buffer.image, slice |-> buffer.slice,
                            at |-> Span(i).from + (b - Span(i).to)]
  <2>1. planes(b) = {i}
    <3>1. i \in planes(b) /\ \A j \in planes(b) : j = i
      BY <1>1, <1>4
    <3> HIDE DEF planes
    <3> QED
      BY <3>1
  <2>2. (CHOOSE k \in planes(b) : TRUE) = i /\ planes(b) # {}
    <3> HIDE DEF planes
    <3> QED
      BY <2>1
  <2>3. span[i] = Span(i)
    OBVIOUS
  <2> HIDE DEF planes, span
  <2> QED
    BY <1>2, <2>2, <2>3
<1> QED
  BY <1>3, <1>4

(* The first rows of a plane are those of an image.                          *)
Shows(fr, n, i, rows) ==
  \A row \in 0 .. rows - 1, column \in 0 .. Stride(i) - 1 :
    fr[Place(i, row, column)] = Pixel(buf_info, n, i, row, column)

(* A slice continues the image with its rows.                                *)
LEMMA SliceContinues ==
  ASSUME InTurn, DOMAIN frame = 0 .. frame_info.size - 1,
         buffer.slice = buf_num + 1, NEW i \in Planes,
         Shows(frame, buffer.image, i, Before(i))
  PROVE  Shows(Unpacked, buffer.image, i, UpTo(i))
<1> SUFFICES ASSUME NEW row \in 0 .. UpTo(i) - 1, NEW column \in 0 .. Stride(i) - 1
             PROVE  Unpacked[Place(i, row, column)] = Pixel(buf_info, buffer.image, i, row, column)
  BY DEF Shows
<1> DEFINE b == Place(i, row, column)
           d == Stride(i)
           M == max_spans(i)
<1>1. /\ Before(i) \in Nat /\ UpTo(i) \in Nat /\ UpTo(i) <= Rows(i) /\ Rows(i) \in Nat
      /\ valid_spans(i) \in 1 .. M /\ M \in Nat \ {0} /\ buf_num \in Nat
  BY SliceRows, SliceCount DEF InTurn
<1>2. row \in 0 .. Rows(i) - 1 /\ row \in Nat /\ row < UpTo(i)
  BY <1>1
<1>3. /\ b \in 0 .. frame_info.size - 1
      /\ Within(i, b) <=> Before(i) <= row
      /\ \A j \in Planes : Within(j, b) => j = i
  BY <1>2, PlaceInSpan
<1>4. b \in DOMAIN frame /\ b \in Nat
  BY <1>3, FrameLayout DEF InTurn
<1>5. CASE row < Before(i)
  <2>1. ~Within(i, b)
    BY <1>1, <1>2, <1>3, <1>5
  <2>2. Unpacked[b] = frame[b]
    BY <1>3, <1>4, <2>1, UnpackedIs
  <2>3. row \in 0 .. Before(i) - 1
    BY <1>1, <1>2, <1>5
  <2> QED
    BY <2>2, <2>3 DEF Shows
<1>6. CASE Before(i) <= row
  <2>1. Unpacked[b] = [image |-> buffer.image, slice |-> buffer.slice,
                       at |-> Span(i).from + (b - Span(i).to)]
    BY <1>3, <1>4, <1>6, UnpackedIs
  <2> DEFINE r == row - Before(i)
  <2>2. r \in Nat /\ r < M /\ row = buf_num * M + r
    <3>1. Before(i) = buf_num * M /\ UpTo(i) = Before(i) + valid_spans(i)
      BY DEF Before, UpTo
    <3> HIDE DEF M
    <3> QED
      BY <1>1, <1>2, <1>6, <3>1
  <2>3. row \div M = buf_num /\ row % M = r
    <3> HIDE DEF M, r
    <3>1. (buf_num * M + r) \div M = buf_num /\ (buf_num * M + r) % M = r
      BY <1>1, <2>2, Quotient
    <3> QED
      BY <2>2, <3>1
  <2>4. Span(i).from + (b - Span(i).to) = buf_info.p_offset[i] + r * d + column
    <3>1. /\ Span(i).from = buf_info.p_offset[i] /\ Span(i).to = Offset(i) + Before(i) * d
          /\ b = Offset(i) + row * d + column
      BY SpanIs DEF Place
    <3>2. d \in Nat /\ Offset(i) \in Nat /\ buf_info.p_offset[i] \in Nat /\ column \in Nat
      BY FrameLayout, BufferLayout DEF InTurn
    <3>3. row = Before(i) + r /\ Before(i) \in Nat
      BY <1>1, <1>2
    <3> HIDE DEF b, d, r
    <3>4. \A p, q, e \in Nat : (p + q) * e = p * e + q * e /\ p * e \in Nat
      OBVIOUS
    <3>5. row * d = Before(i) * d + r * d /\ Before(i) * d \in Nat /\ r * d \in Nat
      BY <2>2, <3>2, <3>3, <3>4
    <3>6. \A f, o, p, q, c \in Nat : f + ((o + (p + q) + c) - (o + p)) = f + q + c
      OBVIOUS
    <3> QED
      BY <3>1, <3>2, <3>5, <3>6
  <2>5. Pixel(buf_info, buffer.image, i, row, column) =
          [image |-> buffer.image, slice |-> buf_num + 1,
           at |-> buf_info.p_offset[i] + r * d + column]
    BY <2>3, BufferLayout DEF Pixel, InTurn
  <2> QED
    BY <2>1, <2>4, <2>5
<1> QED
  BY <1>1, <1>2, <1>5, <1>6

-----------------------------------------------------------------------------
(* The bytes that were copied from the slices before this one.               *)
Copied == Before(0) * Stride(0) + Before(1) * Stride(1) + Before(2) * Stride(2)

LEMMA Counted ==
  ASSUME InTurn
  PROVE  /\ Copied \in 0 .. frame_info.size
         /\ Copied + AllSpans \in 0 .. frame_info.size
         /\ buffer.flags = "ENDOFFRAME" => Copied + AllSpans = frame_info.size
         /\ buffer.flags # "ENDOFFRAME" =>
              Copied + AllSpans =
                (buf_num + 1) * max_spans(0) * Stride(0) + (buf_num + 1) * max_spans(1) * Stride(1)
                  + (buf_num + 1) * max_spans(2) * Stride(2)
<1> DEFINE c(i) == Before(i) * Stride(i)
           u(i) == UpTo(i) * Stride(i)
           r(i) == Rows(i) * Stride(i)
<1>1. ASSUME NEW i \in Planes
      PROVE  /\ c(i) \in Nat /\ u(i) \in Nat /\ r(i) \in Nat /\ u(i) <= r(i)
             /\ Span(i).bytes \in Nat /\ c(i) + Span(i).bytes = u(i)
             /\ buffer.flags = "ENDOFFRAME" => u(i) = r(i)
             /\ buffer.flags # "ENDOFFRAME" => u(i) = (buf_num + 1) * max_spans(i) * Stride(i)
  <2>1. /\ Before(i) \in Nat /\ UpTo(i) \in Nat /\ UpTo(i) <= Rows(i) /\ Rows(i) \in Nat
        /\ valid_spans(i) \in Nat /\ UpTo(i) = Before(i) + valid_spans(i)
        /\ Stride(i) \in Nat
    BY SliceRows, FrameLayout DEF UpTo, InTurn
  <2>2. u(i) <= r(i) /\ u(i) \in Nat /\ r(i) \in Nat
    BY <2>1, Products
  <2>3. c(i) \in Nat /\ c(i) + valid_spans(i) * Stride(i) = u(i)
    BY <2>1
  <2> HIDE DEF c, u, r
  <2> QED
    BY <2>2, <2>3, SpanIs, SliceRows DEF u, r
<1>2. 0 \in Planes /\ 1 \in Planes /\ 2 \in Planes
  BY DEF Planes
<1>3. frame_info.size = r(0) + r(1) + r(2) /\ Copied = c(0) + c(1) + c(2)
  BY FrameLayout DEF Copied, InTurn
<1> HIDE DEF c, u, r
<1>4. /\ c(0) \in Nat /\ c(1) \in Nat /\ c(2) \in Nat /\ u(0) \in Nat /\ u(1) \in Nat /\ u(2) \in Nat
      /\ r(0) \in Nat /\ r(1) \in Nat /\ r(2) \in Nat
      /\ u(0) <= r(0) /\ u(1) <= r(1) /\ u(2) <= r(2)
      /\ Span(0).bytes \in Nat /\ Span(1).bytes \in Nat /\ Span(2).bytes \in Nat
      /\ c(0) + Span(0).bytes = u(0) /\ c(1) + Span(1).bytes = u(1) /\ c(2) + Span(2).bytes = u(2)
  BY <1>1, <1>2
<1>5. /\ Copied + AllSpans = u(0) + u(1) + u(2) /\ Copied \in 0 .. frame_info.size
      /\ Copied + AllSpans \in 0 .. frame_info.size
  BY <1>3, <1>4 DEF AllSpans
<1> QED
  BY <1>1, <1>2, <1>3, <1>5

-----------------------------------------------------------------------------
(* The buffer is with the camera, or filled and not yet looked at, or to be  *)
(* given to the camera.                                                      *)
Turn ==
  /\ pc = "idle" => /\ need = FALSE /\ available = FALSE /\ owner = "program"
                    /\ event = FALSE /\ buff_eos = FALSE
  /\ available = TRUE => owner = "program" /\ need = FALSE
  /\ owner = "camera" => need = FALSE
  /\ pc # "idle" => owner = "camera" \/ available = TRUE \/ need = TRUE

(* Until the last slice is taken the slices come one after the other, all of *)
(* one image, and the end of the stream is not reported.                     *)
Coming ==
  /\ buff_eos = FALSE
  /\ available = TRUE =>
       /\ buffer.image = shot /\ buffer.slice = buf_num + 1
       /\ buffer.flags = "ENDOFFRAME" <=> buf_num = Slices - 1
       /\ slice = IF buf_num = Slices - 1 THEN 0 ELSE buf_num + 2
  /\ available = FALSE => slice = buf_num + 1
  /\ event = TRUE <=> slice = 0

(* Then comes a buffer with nothing, and one of the next image at most:      *)
(* before it is looked at, the end of the stream is reported.                *)
Over ==
  /\ available = FALSE => /\ event = TRUE <=> buff_eos = FALSE
                          /\ (slice = 0 /\ buf_num = 0) \/ (slice = 1 /\ buf_num = 1)
  /\ available = TRUE =>
       \/ /\ slice = 1 /\ buf_num = 0 /\ buffer.flags = "none"
          /\ event = TRUE <=> buff_eos = FALSE
       \/ slice = 2 /\ buff_eos = TRUE /\ event = FALSE

(* The image that was taken last.                                            *)
Pictured == IF slice = 0 THEN shot ELSE 3 - shot

(* What the frames contain.                                                  *)
Contents ==
  /\ buf_num <= Slices - 1 /\ frame_bytes = Copied
  /\ pc # "idle" /\ offset = 0 => \A i \in Planes : Shows(frame, shot, i, Before(i))
  /\ offset # 0 => \A i \in Planes : Shows(frame_buffer, Pictured, i, Rows(i))

CaptureInv ==
  /\ CaptureTypeOK
  /\ Turn
  /\ pc # "idle" => (offset = 0 => Coming) /\ (offset # 0 => Over)
  /\ Contents

-----------------------------------------------------------------------------
(* The size of the pictures does not change.                                 *)
LEMMA SameFormat ==
  ASSUME format' = format
  PROVE  frame_info' = frame_info /\ Slices' = Slices
BY DEF frame_info, Slices

LEMMA ContentsNext ==
  ASSUME format' = format,
         buf_num' <= Slices - 1,
         frame_bytes' = buf_num' * max_spans(0) * Stride(0) + buf_num' * max_spans(1) * Stride(1)
                          + buf_num' * max_spans(2) * Stride(2),
         pc' # "idle" /\ offset' = 0 =>
           \A i \in Planes : Shows(frame', shot', i, buf_num' * max_spans(i)),
         offset' # 0 => \A i \in Planes : Shows(frame_buffer', Pictured', i, Rows(i))
  PROVE  Contents'
<1>1. buf_num' <= (Slices - 1)' /\ frame_bytes' = Copied'
  BY DEF Slices, Copied, Before, max_spans, Stride, frame_info
<1>2. pc' # "idle" /\ offset' = 0 => \A i \in Planes : Shows(frame, shot, i, Before(i))'
  BY DEF Shows, Before, Place, Pixel, max_spans, Stride, Offset, frame_info, buf_info
<1>3. offset' # 0 => \A i \in Planes : Shows(frame_buffer, Pictured, i, Rows(i))'
  BY DEF Shows, Place, Pixel, max_spans, Stride, Offset, frame_info, buf_info, Rows
<1> QED
  BY <1>1, <1>2, <1>3 DEF Contents

(* Nothing is copied.                                                        *)
LEMMA ContentsStay ==
  ASSUME Contents, UNCHANGED <<format, buf_num, frame_bytes, frame, frame_buffer, offset>>,
         Pictured' = Pictured,
         pc' # "idle" /\ offset = 0 => pc # "idle" /\ shot' = shot
  PROVE  Contents'
<1>1. frame_bytes' = buf_num' * max_spans(0) * Stride(0) + buf_num' * max_spans(1) * Stride(1)
                       + buf_num' * max_spans(2) * Stride(2)
  BY DEF Contents, Copied, Before
<1>2. pc' # "idle" /\ offset' = 0 =>
        \A i \in Planes : Shows(frame', shot', i, buf_num' * max_spans(i))
  BY DEF Contents, Before
<1>3. offset' # 0 => \A i \in Planes : Shows(frame_buffer', Pictured', i, Rows(i))
  BY DEF Contents
<1> QED
  BY <1>1, <1>2, <1>3, ContentsNext DEF Contents

(* At the start of a capture nothing is there.                               *)
LEMMA NothingYet ==
  ASSUME format \in Formats
  PROVE  /\ 0 * max_spans(0) * Stride(0) + 0 * max_spans(1) * Stride(1)
              + 0 * max_spans(2) * Stride(2) = 0
         /\ \A fr, n : \A i \in Planes : Shows(fr, n, i, 0 * max_spans(i))
<1>1. \A i \in Planes : max_spans(i) \in Nat /\ Stride(i) \in Nat
  BY RowCounts, FrameLayout
<1>2. \A m, d \in Nat : 0 * m = 0 /\ 0 * m * d = 0
  OBVIOUS
<1>3. \A i \in Planes : 0 * max_spans(i) = 0 /\ 0 * max_spans(i) * Stride(i) = 0
  BY <1>1, <1>2
<1>4. 0 \in Planes /\ 1 \in Planes /\ 2 \in Planes
  BY DEF Planes
<1>5. \A fr, n : \A i \in Planes : Shows(fr, n, i, 0 * max_spans(i))
  BY <1>3 DEF Shows
<1> QED
  BY <1>3, <1>4, <1>5

LEMMA CaptureInvInit == CaptureInit => CaptureInv
<1> SUFFICES ASSUME CaptureInit PROVE CaptureInv
  OBVIOUS
<1>1. format \in Formats
  BY DEF CaptureInit
<1>2. frame_info.size \in Nat /\ Slices \in Nat /\ Slices >= 2
  BY <1>1, FrameLayout, SliceCount
<1>3. CaptureTypeOK
  <2>1. DOMAIN Empty = 0 .. frame_info.size - 1
    BY DEF Empty
  <2>2. buffer \in [image : {0} \cup Images, slice : 0 .. Slices, flags : {"none", "ENDOFFRAME"}]
    BY <1>2 DEF CaptureInit
  <2>3. 1 \in 0 .. Slices /\ 0 \in 0 .. Slices /\ 0 \in 0 .. frame_info.size /\ 1 \in Images
    BY <1>2 DEF Images
  <2> QED
    BY <2>1, <2>2, <2>3 DEF CaptureInit, CaptureTypeOK
<1>4. Turn
  BY DEF CaptureInit, Turn
<1>5. Contents
  BY <1>1, <1>2, NothingYet DEF CaptureInit, Contents, Copied, Before
<1> QED
  BY <1>3, <1>4, <1>5 DEF CaptureInv, CaptureInit

(* A capture begins.                                                         *)
LEMMA BeginKeeps == ASSUME CaptureInv, Begin PROVE CaptureInv'
<1>1. format \in Formats /\ format' = format /\ Slices \in Nat /\ Slices >= 2
  BY SliceCount DEF CaptureInv, CaptureTypeOK, Begin
<1>2. CaptureTypeOK'
  <2>1. DOMAIN Empty = 0 .. frame_info.size - 1
    BY DEF Empty
  <2>2. frame_info.size \in Nat
    BY <1>1, FrameLayout
  <2>3. shot' \in Images
    BY DEF Begin, CaptureInv, CaptureTypeOK, Images
  <2> QED
    BY <1>1, <2>1, <2>2, <2>3, SameFormat DEF Begin, CaptureInv, CaptureTypeOK
<1>3. Turn'
  BY DEF Begin, CaptureInv, Turn
<1>4. Coming' /\ offset' = 0
  BY DEF Begin, CaptureInv, CaptureTypeOK, Turn, Coming
<1>5. Contents'
  <2>1. /\ buf_num' = 0 /\ frame_bytes' = 0 /\ offset' = 0
    BY DEF Begin
  <2> QED
    BY <1>1, <2>1, NothingYet, ContentsNext
<1> QED
  BY <1>2, <1>3, <1>4, <1>5 DEF CaptureInv

(* The capture is left, or goes round its loop without a buffer.             *)
LEMMA LoopKeeps ==
  ASSUME CaptureInv, Leave \/ NoBuffer \/ Refill \/ UNCHANGED captureVars PROVE CaptureInv'
<1>1. /\ UNCHANGED <<format, buf_num, frame_bytes, frame, frame_buffer, offset, shot, slice, event,
                     buffer>>
      /\ Pictured' = Pictured
      /\ pc' # "idle" => pc # "idle"
  BY DEF Leave, NoBuffer, Refill, Looked, camera, unpack, captureVars, loop, Pictured
<1>2. CaptureTypeOK'
  BY <1>1, SameFormat DEF Leave, NoBuffer, Refill, camera, captureVars, loop, CaptureInv,
                          CaptureTypeOK
<1>3. Turn'
  <2>1. CASE Leave
    <3>1. event = FALSE
      BY <2>1 DEF Leave, Looked, CaptureInv, CaptureTypeOK, Coming, Over
    <3> QED
      BY <1>1, <2>1, <3>1 DEF Leave, Looked, CaptureInv, Turn, camera
  <2>2. CASE NoBuffer
    BY <2>2 DEF NoBuffer, CaptureInv, Turn, camera
  <2>3. CASE Refill
    BY <2>3 DEF Refill, CaptureInv, Turn
  <2>4. CASE UNCHANGED captureVars
    BY <2>4 DEF captureVars, camera, loop, CaptureInv, Turn
  <2> QED
    BY <2>1, <2>2, <2>3, <2>4
<1>4. Contents'
  BY <1>1, ContentsStay DEF CaptureInv
<1>5. pc' # "idle" => (offset' = 0 => Coming') /\ (offset' # 0 => Over')
  <2> SUFFICES ASSUME pc' # "idle" PROVE (offset = 0 => Coming') /\ (offset # 0 => Over')
    BY <1>1
  <2>1. UNCHANGED <<available, buff_eos>>
    BY DEF Leave, NoBuffer, Refill, CaptureInv, CaptureTypeOK, Turn, captureVars
  <2>2. Slices' = Slices
    BY <1>1, SameFormat
  <2> QED
    BY <1>1, <2>1, <2>2 DEF CaptureInv, Coming, Over
<1> QED
  BY <1>2, <1>3, <1>4, <1>5 DEF CaptureInv

(* The camera fills the buffer.                                              *)
LEMMA FillDoneKeeps == ASSUME CaptureInv, FillDone PROVE CaptureInv'
<1>1. /\ UNCHANGED <<format, pc, need, buff_eos, buf_num, frame_bytes, frame, frame_buffer, offset>>
      /\ owner = "camera" /\ owner' = "program" /\ available' = TRUE
      /\ slice = 0 \/ event = FALSE
      /\ buffer' = [image |-> shot, slice |-> slice,
                    flags |-> IF slice = Slices THEN "ENDOFFRAME" ELSE "none"]
      /\ slice' = IF slice = Slices THEN 0 ELSE slice + 1
      /\ shot' = IF slice = 0 THEN 3 - shot ELSE shot
      /\ event' = TRUE <=> event = TRUE \/ slice = Slices
      /\ event' \in BOOLEAN
  <2>1. event \in BOOLEAN
    BY DEF CaptureInv, CaptureTypeOK
  <2>2. event' = (event \/ slice = Slices) /\ (slice = 0 \/ ~event)
    BY DEF FillDone
  <2>3. (event' = TRUE <=> event = TRUE \/ slice = Slices) /\ event' \in BOOLEAN
        /\ (slice = 0 \/ event = FALSE)
    BY <2>1, <2>2
  <2> QED
    BY <2>3 DEF FillDone, loop, unpack
<1>2. /\ format \in Formats /\ Slices \in Nat /\ Slices >= 2 /\ slice \in 0 .. Slices
      /\ buf_num \in 0 .. Slices - 1 /\ shot \in Images
  BY SliceCount DEF CaptureInv, CaptureTypeOK, Contents
<1>3. pc # "idle" /\ available = FALSE /\ need = FALSE
  BY <1>1 DEF CaptureInv, CaptureTypeOK, Turn
<1>4. CaptureTypeOK'
  <2>1. /\ slice' \in 0 .. Slices /\ shot' \in Images
        /\ buffer' \in [image : {0} \cup Images, slice : 0 .. Slices, flags : {"none", "ENDOFFRAME"}]
    BY <1>1, <1>2 DEF Images
  <2>2. available' \in BOOLEAN /\ owner' \in {"program", "camera"}
    BY <1>1
  <2> QED
    BY <1>1, <2>1, <2>2, SameFormat DEF CaptureInv, CaptureTypeOK
<1>5. Turn'
  BY <1>1, <1>3 DEF Turn
<1>6. CASE offset = 0
  <2>1. Coming /\ slice = buf_num + 1 /\ event = FALSE /\ buff_eos = FALSE
    BY <1>1, <1>2, <1>3, <1>6 DEF CaptureInv, CaptureTypeOK, Coming
  <2>2. Coming'
    BY <1>1, <1>2, <2>1, SameFormat DEF Coming
  <2>3. shot' = shot
    BY <1>1, <1>2, <2>1
  <2>4. Contents'
    <3>1. offset' = 0
      BY <1>1, <1>6
    <3>2. \A i \in Planes : Shows(frame', shot', i, buf_num' * max_spans(i))
      BY <1>1, <1>3, <1>6, <2>3 DEF CaptureInv, Contents, Before
    <3>3. frame_bytes' = buf_num' * max_spans(0) * Stride(0) + buf_num' * max_spans(1) * Stride(1)
                           + buf_num' * max_spans(2) * Stride(2)
      BY <1>1 DEF CaptureInv, Contents, Copied, Before
    <3> QED
      BY <1>1, <1>2, <3>1, <3>2, <3>3, ContentsNext
  <2> QED
    BY <1>1, <1>4, <1>5, <1>6, <2>2, <2>4 DEF CaptureInv
<1>7. CASE offset # 0
  <2>1. /\ event = TRUE <=> buff_eos = FALSE
        /\ (slice = 0 /\ buf_num = 0) \/ (slice = 1 /\ buf_num = 1)
    BY <1>3, <1>7 DEF CaptureInv, Over
  <2>2. Over'
    <3>1. CASE slice = 0
      BY <1>1, <1>2, <2>1, <3>1 DEF Over
    <3>2. CASE slice = 1
      <4>1. buff_eos = TRUE /\ event = FALSE
        BY <1>1, <2>1, <3>2 DEF CaptureInv, CaptureTypeOK
      <4> QED
        BY <1>1, <1>2, <2>1, <3>2, <4>1 DEF Over
    <3> QED
      BY <2>1, <3>1, <3>2
  <2>3. Pictured' = Pictured
    BY <1>1, <1>2, <2>1 DEF Pictured, Images
  <2>4. Contents'
    BY <1>1, <1>7, <2>3, ContentsStay DEF CaptureInv
  <2> QED
    BY <1>1, <1>4, <1>5, <1>7, <2>2, <2>4 DEF CaptureInv
<1> QED
  BY <1>6, <1>7

(* The end of the stream is reported.                                        *)
LEMMA BufferFlagKeeps == ASSUME CaptureInv, BufferFlag PROVE CaptureInv'
<1>1. /\ UNCHANGED <<format, pc, need, available, owner, buffer, shot, slice, buf_num, frame_bytes,
                     frame, frame_buffer, offset>>
      /\ event = TRUE /\ event' = FALSE /\ buff_eos' = TRUE
      /\ slice = 1 \/ owner = "camera"
      /\ event \in BOOLEAN
  BY DEF BufferFlag, loop, unpack, CaptureInv, CaptureTypeOK
<1>2. pc # "idle"
  BY <1>1 DEF CaptureInv, Turn
<1>3. CaptureTypeOK'
  BY <1>1, SameFormat DEF CaptureInv, CaptureTypeOK
<1>4. Turn'
  BY <1>1, <1>2 DEF CaptureInv, Turn
<1>5. offset # 0
  <2> SUFFICES ASSUME offset = 0 PROVE FALSE
    OBVIOUS
  <2>1. slice = 0 /\ Coming
    BY <1>1, <1>2 DEF CaptureInv, Coming
  <2>2. available = TRUE
    BY <2>1, SliceCount DEF CaptureInv, CaptureTypeOK, Coming
  <2> QED
    BY <1>1, <2>1, <2>2 DEF CaptureInv, Turn
<1>6. Over'
  BY <1>1, <1>2, <1>5 DEF CaptureInv, Over
<1>7. Contents'
  BY <1>1, <1>2, <1>5, ContentsStay DEF CaptureInv, Pictured
<1> QED
  BY <1>1, <1>3, <1>4, <1>5, <1>6, <1>7 DEF CaptureInv

(* A buffer that is looked at in time is the next slice of an image.         *)
LEMMA TakenInTurn ==
  ASSUME CaptureInv, Looked, ~buff_eos
  PROVE  /\ InTurn
         /\ offset # 0 => buffer.flags # "ENDOFFRAME"
<1>1. /\ format \in Formats /\ Slices \in Nat /\ Slices >= 2 /\ buf_num \in 0 .. Slices - 1
      /\ pc = "test" /\ available = TRUE /\ buff_eos = FALSE
  BY SliceCount DEF CaptureInv, CaptureTypeOK, Contents, Looked
<1>2. CASE offset = 0
  BY <1>1, <1>2 DEF CaptureInv, Coming, InTurn
<1>3. CASE offset # 0
  BY <1>1, <1>3 DEF CaptureInv, Over, InTurn
<1> QED
  BY <1>2, <1>3

(* A frame is not empty.                                                     *)
LEMMA FrameNotEmpty == ASSUME format \in Formats PROVE frame_info.size # 0
<1>1. \A i \in Planes : Rows(i) \in Nat /\ Stride(i) \in Nat
  BY RowCounts, FrameLayout
<1>2. 0 \in Planes /\ 1 \in Planes /\ 2 \in Planes
  BY DEF Planes
<1>3. Rows(0) # 0 /\ Stride(0) # 0
  <2>1. max_spans(0) \in Nat \ {0} /\ max_spans(0) <= Rows(0)
    BY RowCounts, <1>2
  <2>2. Stride(0) \in Nat \ {0}
    BY FrameLayout, FormatOK
  <2> QED
    BY <1>1, <1>2, <2>1, <2>2
<1>4. \A a, b \in Nat : a * b \in Nat /\ (a # 0 /\ b # 0 => a * b # 0)
  OBVIOUS
<1> DEFINE r0 == Rows(0) * Stride(0)
           r1 == Rows(1) * Stride(1)
           r2 == Rows(2) * Stride(2)
<1>5. r0 \in Nat /\ r1 \in Nat /\ r2 \in Nat /\ r0 # 0
  BY <1>1, <1>2, <1>3, <1>4
<1>6. frame_info.size = r0 + r1 + r2
  BY FrameLayout
<1> HIDE DEF r0, r1, r2
<1> QED
  BY <1>5, <1>6

(* The last slice completes the frame.                                       *)
LEMMA TakeLastKeeps ==
  ASSUME CaptureInv, TakeBuffer, buffer.flags = "ENDOFFRAME" PROVE CaptureInv'
<1>1. /\ InTurn /\ offset = 0 /\ pc = "test" /\ available = TRUE /\ buff_eos = FALSE
      /\ format \in Formats /\ Slices \in Nat
  BY TakenInTurn, SliceCount DEF TakeBuffer, Looked, CaptureInv, CaptureTypeOK
<1>2. /\ UNCHANGED <<format, buff_eos, owner, buffer, shot, slice, event>>
      /\ frame_buffer' = Unpacked /\ offset' = 0 + frame_info.size /\ frame_bytes' = 0
      /\ frame' = Empty /\ buf_num' = 0
      /\ pc' = "refill" /\ need' = TRUE /\ available' = FALSE
  BY <1>1 DEF TakeBuffer, camera, NextNum
<1>3. frame_info.size \in Nat /\ offset' = frame_info.size /\ offset' # 0
  BY <1>1, <1>2, FrameLayout, FrameNotEmpty
<1>4. Coming /\ buf_num = Slices - 1 /\ slice = 0 /\ event = TRUE
      /\ buffer.image = shot /\ buffer.slice = buf_num + 1
  BY <1>1 DEF CaptureInv, Coming, InTurn
<1>5. CaptureTypeOK'
  <2>1. DOMAIN frame' = 0 .. frame_info.size - 1 /\ DOMAIN frame_buffer' = 0 .. frame_info.size - 1
    BY <1>2 DEF Empty, Unpacked, CaptureInv, CaptureTypeOK
  <2>2. 0 \in 0 .. frame_info.size /\ 0 \in 0 .. Slices
    BY <1>1, <1>3
  <2> QED
    BY <1>2, <1>3, <2>1, <2>2, SameFormat DEF CaptureInv, CaptureTypeOK
<1>6. Turn'
  BY <1>1, <1>2 DEF CaptureInv, Turn
<1>7. Over'
  BY <1>1, <1>2, <1>4 DEF Over
<1>8. Contents'
  <2>1. \A i \in Planes : Shows(frame_buffer', Pictured', i, Rows(i))
    <3> SUFFICES ASSUME NEW i \in Planes PROVE Shows(Unpacked, shot, i, Rows(i))
      BY <1>2, <1>4 DEF Pictured
    <3>1. Shows(frame, shot, i, Before(i)) /\ UpTo(i) = Rows(i)
      BY <1>1, SliceRows DEF CaptureInv, Contents
    <3>2. DOMAIN frame = 0 .. frame_info.size - 1
      BY DEF CaptureInv, CaptureTypeOK
    <3> QED
      BY <1>1, <1>4, <3>1, <3>2, SliceContinues
  <2>2. /\ buf_num' = 0 /\ buf_num' <= Slices - 1 /\ frame_bytes' = 0
    BY <1>1, <1>2, SliceCount
  <2> QED
    BY <1>1, <1>2, <1>3, <2>1, <2>2, NothingYet, ContentsNext
<1> QED
  BY <1>2, <1>3, <1>5, <1>6, <1>7, <1>8 DEF CaptureInv

(* Another slice fills the next rows.                                        *)
LEMMA TakeOneKeeps ==
  ASSUME CaptureInv, TakeBuffer, buffer.flags # "ENDOFFRAME" PROVE CaptureInv'
<1>1. /\ InTurn /\ pc = "test" /\ available = TRUE /\ buff_eos = FALSE
      /\ format \in Formats /\ Slices \in Nat /\ Slices >= 2
  BY TakenInTurn, SliceCount DEF TakeBuffer, Looked, CaptureInv, CaptureTypeOK
<1>2. /\ UNCHANGED <<format, buff_eos, owner, buffer, shot, slice, event, frame_buffer, offset>>
      /\ frame' = Unpacked /\ frame_bytes' = frame_bytes + AllSpans
      /\ buf_num' = buf_num + 1
      /\ pc' = "refill" /\ need' = TRUE /\ available' = FALSE
  BY DEF TakeBuffer, camera, NextNum
<1>3. buf_num \in Nat /\ buf_num + 1 <= Slices - 1
  BY <1>1 DEF InTurn
<1>4. frame_bytes' \in 0 .. frame_info.size
  BY <1>1, <1>2, Counted DEF CaptureInv, Contents
<1>5. CaptureTypeOK'
  <2>1. DOMAIN frame' = 0 .. frame_info.size - 1
    BY <1>2 DEF Unpacked, CaptureInv, CaptureTypeOK
  <2>2. buf_num' \in 0 .. Slices
    BY <1>1, <1>2, <1>3
  <2> QED
    BY <1>2, <1>4, <2>1, <2>2, SameFormat DEF CaptureInv, CaptureTypeOK
<1>6. Turn'
  BY <1>1, <1>2 DEF CaptureInv, Turn
<1>7. CASE offset = 0
  <2>1. /\ Coming /\ slice = buf_num + 2 /\ event \in BOOLEAN
        /\ buffer.image = shot /\ buffer.slice = buf_num + 1
    BY <1>1, <1>3, <1>7 DEF CaptureInv, CaptureTypeOK, Coming
  <2>2. Coming'
    BY <1>1, <1>2, <1>3, <2>1 DEF Coming
  <2>3. \A i \in Planes : Shows(frame', shot', i, buf_num' * max_spans(i))
    <3> SUFFICES ASSUME NEW i \in Planes PROVE Shows(Unpacked, shot, i, (buf_num + 1) * max_spans(i))
      BY <1>2
    <3>1. Shows(frame, shot, i, Before(i)) /\ UpTo(i) = (buf_num + 1) * max_spans(i)
      BY <1>1, <1>7, SliceRows DEF CaptureInv, Contents
    <3>2. DOMAIN frame = 0 .. frame_info.size - 1
      BY DEF CaptureInv, CaptureTypeOK
    <3> QED
      BY <1>1, <2>1, <3>1, <3>2, SliceContinues
  <2>4. Contents'
    <3>1. offset' = 0
      BY <1>2, <1>7
    <3>2. frame_bytes' = buf_num' * max_spans(0) * Stride(0) + buf_num' * max_spans(1) * Stride(1)
                           + buf_num' * max_spans(2) * Stride(2)
      BY <1>1, <1>2, Counted DEF CaptureInv, Contents
    <3> QED
      BY <1>2, <1>3, <2>3, <3>1, <3>2, ContentsNext
  <2> QED
    BY <1>2, <1>5, <1>6, <1>7, <2>2, <2>4 DEF CaptureInv
<1>8. CASE offset # 0
  <2>1. /\ slice = 1 /\ buf_num = 0 /\ event = TRUE <=> buff_eos = FALSE
    BY <1>1, <1>8 DEF CaptureInv, Over
  <2>2. Over'
    BY <1>1, <1>2, <2>1 DEF Over
  <2>3. Contents'
    <3>1. \A i \in Planes : Shows(frame_buffer', Pictured', i, Rows(i))
      BY <1>2, <1>8 DEF CaptureInv, Contents, Pictured
    <3>2. frame_bytes' = buf_num' * max_spans(0) * Stride(0) + buf_num' * max_spans(1) * Stride(1)
                           + buf_num' * max_spans(2) * Stride(2)
      BY <1>1, <1>2, Counted DEF CaptureInv, Contents
    <3> QED
      BY <1>2, <1>3, <1>8, <3>1, <3>2, ContentsNext
  <2> QED
    BY <1>2, <1>5, <1>6, <1>8, <2>2, <2>3 DEF CaptureInv
<1> QED
  BY <1>7, <1>8

(* Every step keeps the invariant.                                           *)
LEMMA CaptureInvStep == ASSUME CaptureInv, [CaptureNext]_captureVars PROVE CaptureInv'
BY BeginKeeps, LoopKeeps, TakeLastKeeps, TakeOneKeeps, FillDoneKeeps, BufferFlagKeeps
DEF CaptureNext, LoopStep

(* The invariant holds for pictures of every format.                         *)
THEOREM CaptureInvariance == CaptureSpec => []CaptureInv
BY CaptureInvInit, CaptureInvStep, PTL DEF CaptureSpec

(* The variables have their types: no row is counted beyond the frame.       *)
THEOREM CaptureTypeCorrect == CaptureSpec => []CaptureTypeOK
<1>1. CaptureInv => CaptureTypeOK
  BY DEF CaptureInv
<1> QED
  BY <1>1, CaptureInvariance, PTL

(* memcpy stays inside the frame, and the bytes of a complete frame add up.  *)
LEMMA Fits == CaptureInv => FrameFits
<1> SUFFICES ASSUME CaptureInv, Looked, ~buff_eos
             PROVE  /\ \A i \in Planes : Span(i).to + Span(i).bytes <= frame_info.size
                    /\ buffer.flags = "ENDOFFRAME" =>
                         offset = 0 /\ frame_bytes + AllSpans = frame_info.size
  BY DEF FrameFits
<1>1. InTurn /\ format \in Formats
  BY TakenInTurn DEF CaptureInv, CaptureTypeOK
<1>2. ASSUME NEW i \in Planes PROVE Span(i).to + Span(i).bytes <= frame_info.size
  <2>1. /\ Span(i).to + Span(i).bytes <= Offset(i) + Rows(i) * Stride(i)
        /\ Offset(i) + Rows(i) * Stride(i) <= frame_info.size
        /\ Rows(i) * Stride(i) \in Nat /\ Offset(i) \in Nat /\ frame_info.size \in Nat
        /\ Span(i).to \in Nat /\ Span(i).bytes \in Nat
    BY <1>1, SpanIs, PlanesApart, FrameLayout
  <2> QED
    BY <2>1
<1>3. buffer.flags = "ENDOFFRAME" => offset = 0 /\ frame_bytes + AllSpans = frame_info.size
  BY <1>1, TakenInTurn, Counted DEF CaptureInv, Contents
<1> QED
  BY <1>2, <1>3

THEOREM FramesFit == CaptureSpec => []FrameFits
BY CaptureInvariance, Fits, PTL

(* What the capture returns is a whole picture.                              *)
LEMMA Whole == CaptureInv => WholePicture
<1> SUFFICES ASSUME CaptureInv, offset # 0
             PROVE  \E n \in Images : \A i \in Planes :
                      \A row \in 0 .. Rows(i) - 1, column \in 0 .. frame_info.p_stride[i] - 1 :
                        frame_buffer[frame_info.p_offset[i] + row * frame_info.p_stride[i] + column]
                          = Pixel(buf_info, n, i, row, column)
  BY DEF WholePicture
<1>1. Pictured \in Images
  BY DEF Pictured, CaptureInv, CaptureTypeOK, Images
<1>2. \A i \in Planes : Shows(frame_buffer, Pictured, i, Rows(i))
  BY DEF CaptureInv, Contents
<1> QED
  BY <1>1, <1>2 DEF Shows, Place, Offset, Stride

THEOREM PicturesWhole == CaptureSpec => []WholePicture
BY CaptureInvariance, Whole, PTL

-----------------------------------------------------------------------------
(* Subtraction: the pixels that are still to be compared have not been       *)
(* overwritten.                                                              *)

(* The rest of the first frame is as it was captured.                        *)
Untouched == \A p \in Index : p >= at => temp[p] = first[p]

SubInv == SubTypeOK /\ Untouched /\ CountsDifferences

(* The difference of two luminances is an integer that is not negative.      *)
LEMMA AbsType == \A n \in Int : abs(n) \in Nat
BY DEF abs

(* The pixels that differ among the first n.                                 *)
DifferingTo(im, fr, n) == {p \in Index : p < n /\ abs(im[p] - fr[p]) >= threshold1 + 1}

(* Counting one more pixel adds one if it differs.                           *)
LEMMA OneMore ==
  ASSUME NEW im \in Frames, NEW fr \in Frames, NEW n \in Index
  PROVE  /\ Cardinality(DifferingTo(im, fr, n)) \in Nat
         /\ Cardinality(DifferingTo(im, fr, n + 1)) =
              IF abs(im[n] - fr[n]) > threshold1
                THEN Cardinality(DifferingTo(im, fr, n)) + 1
                ELSE Cardinality(DifferingTo(im, fr, n))
<1> DEFINE D == DifferingTo(im, fr, n)
<1>1. IsFiniteSet(D)
  <2>1. IsFiniteSet(0 .. Pixels - 1)
    BY PixelsAssumption, FS_Interval
  <2> QED
    BY <2>1, FS_Subset DEF DifferingTo, Index
<1>2. n \notin D
  BY DEF DifferingTo, Index
<1>3. Values \subseteq Int
  BY ValuesAssumption
<1>4. im[n] - fr[n] \in Int
  <2>1. im[n] \in Values /\ fr[n] \in Values
    BY DEF Frames
  <2>2. im[n] \in Int /\ fr[n] \in Int
    BY <2>1, <1>3
  <2> QED
    BY <2>2
<1>5. abs(im[n] - fr[n]) \in Nat
  BY <1>4, AbsType
<1>6. Cardinality(D) \in Nat
  BY <1>1, FS_CardinalityType
<1>7. CASE abs(im[n] - fr[n]) > threshold1
  <2>1. DifferingTo(im, fr, n + 1) = D \cup {n}
    BY <1>5, <1>7, ThresholdAssumption, PixelsAssumption DEF DifferingTo, Index
  <2> QED
    BY <2>1, <1>1, <1>2, <1>6, <1>7, FS_AddElement
<1>8. CASE ~(abs(im[n] - fr[n]) > threshold1)
  <2>1. DifferingTo(im, fr, n + 1) = D
    BY <1>5, <1>8, ThresholdAssumption, PixelsAssumption DEF DifferingTo, Index
  <2> QED
    BY <2>1, <1>6, <1>8
<1> QED
  BY <1>6, <1>7, <1>8

(* The set that the property counts.                                         *)
LEMMA DifferingIs == Differing(threshold1 + 1) = Cardinality(DifferingTo(image, first, at))
BY DEF Differing, DifferingTo

(* No pixel has been compared: nothing differs.                              *)
LEMMA NoneYet ==
  ASSUME NEW im, NEW fr
  PROVE  Cardinality(DifferingTo(im, fr, 0)) = 0
<1>1. DifferingTo(im, fr, 0) = {}
  BY PixelsAssumption DEF DifferingTo, Index
<1> QED
  BY <1>1, FS_EmptySet

(* Before the first frame nothing is counted.                                *)
LEMMA SubInvInit == SubInit => SubInv
<1> SUFFICES ASSUME SubInit PROVE SubInv
  OBVIOUS
<1>1. PICK v \in Values : image = [p \in Index |-> v] /\ temp = image /\ first = image
  BY DEF SubInit
<1>2. SubTypeOK
  <2>1. image \in Frames /\ first \in Frames /\ temp \in [Index -> Values \cup {Black}]
    BY <1>1 DEF Frames
  <2>2. at \in 0 .. Pixels /\ cnt \in 0 .. at
    BY PixelsAssumption DEF SubInit
  <2>3. calling \in BOOLEAN
    BY DEF SubInit
  <2> QED
    BY <2>1, <2>2, <2>3 DEF SubTypeOK
<1>3. Untouched
  BY <1>1 DEF Untouched
<1>4. CountsDifferences
  BY DifferingIs, NoneYet DEF CountsDifferences, SubInit
<1> QED
  BY <1>2, <1>3, <1>4 DEF SubInv

(* A capture starts the comparison anew.                                     *)
LEMMA CaptureKeeps == SubInv /\ Capture => SubInv'
<1> SUFFICES ASSUME SubInv, Capture PROVE SubInv'
  OBVIOUS
<1>1. SubTypeOK'
  BY PixelsAssumption DEF SubInv, SubTypeOK, Capture, Frames
<1>2. Untouched'
  BY DEF Untouched, Capture
<1>3. Differing(threshold1 + 1)' = Cardinality(DifferingTo(image', first', at'))
  BY DEF Differing, DifferingTo
<1>4. CountsDifferences'
  BY <1>3, NoneYet DEF CountsDifferences, Capture
<1> QED
  BY <1>1, <1>2, <1>4 DEF SubInv

(* A pixel is compared before it is overwritten, and counted once.           *)
LEMMA ComparePixelKeeps == SubInv /\ ComparePixel => SubInv'
<1> SUFFICES ASSUME SubInv, ComparePixel PROVE SubInv'
  OBVIOUS
<1>1. at \in Index /\ at' = at + 1 /\ at \in Int
  BY PixelsAssumption DEF SubInv, SubTypeOK, ComparePixel, Index
<1>2. temp[at] = first[at]
  BY <1>1 DEF SubInv, Untouched
<1> DEFINE differs == abs(image[at] - first[at]) > threshold1
<1>3. /\ temp' = [temp EXCEPT ![at] = IF differs THEN image[at] ELSE Black]
      /\ cnt' = IF differs THEN cnt + 1 ELSE cnt
      /\ UNCHANGED <<calling, image, first>>
  BY <1>2 DEF ComparePixel
<1>4. SubTypeOK'
  <2>1. image[at] \in Values
    BY <1>1 DEF SubInv, SubTypeOK, Frames
  <2>2. temp' \in [Index -> Values \cup {Black}]
    BY <1>3, <2>1 DEF SubInv, SubTypeOK
  <2>3. at' \in 0 .. Pixels /\ cnt' \in 0 .. at'
    BY <1>1, <1>3, PixelsAssumption DEF SubInv, SubTypeOK, Index
  <2> QED
    BY <1>3, <2>2, <2>3 DEF SubInv, SubTypeOK
<1>5. Untouched'
  <2> SUFFICES ASSUME NEW p \in Index, p >= at' PROVE temp'[p] = first'[p]
    BY DEF Untouched
  <2>1. p # at /\ p >= at
    BY <1>1, PixelsAssumption DEF Index
  <2> QED
    BY <1>3, <2>1 DEF SubInv, Untouched, SubTypeOK
<1>6. CountsDifferences'
  <2>1. image \in Frames /\ first \in Frames
    BY DEF SubInv, SubTypeOK
  <2>2. Differing(threshold1 + 1)' = Cardinality(DifferingTo(image, first, at + 1))
    BY <1>1, <1>3 DEF Differing, DifferingTo
  <2>3. cnt = Cardinality(DifferingTo(image, first, at))
    BY DifferingIs DEF SubInv, CountsDifferences
  <2> QED
    BY <1>1, <1>3, <2>1, <2>2, <2>3, OneMore DEF CountsDifferences
<1> QED
  BY <1>4, <1>5, <1>6 DEF SubInv

(* The other steps leave the count alone.                                    *)
LEMMA OthersKeep == SubInv /\ (Return \/ UNCHANGED subVars) => SubInv'
<1> SUFFICES ASSUME SubInv, Return \/ UNCHANGED subVars PROVE SubInv'
  OBVIOUS
<1>1. UNCHANGED <<image, temp, at, cnt, first>> /\ calling' \in BOOLEAN
  BY DEF SubInv, SubTypeOK, Return, subVars
<1> QED
  BY <1>1 DEF SubInv, SubTypeOK, Untouched, CountsDifferences, Differing

(* The invariant holds for frames of every size and every threshold.         *)
THEOREM SubtractionInvariance == SubSpec => []SubInv
<1>1. SubInv /\ [SubNext]_subVars => SubInv'
  BY CaptureKeeps, ComparePixelKeeps, OthersKeep DEF SubNext
<1> QED
  BY SubInvInit, <1>1, PTL DEF SubSpec

(* The variables have their types: the loop stays within the frame.          *)
THEOREM SubtractionTypeCorrect == SubSpec => []SubTypeOK
<1>1. SubInv => SubTypeOK
  BY DEF SubInv
<1> QED
  BY <1>1, SubtractionInvariance, PTL

(* What is counted are the differences between the captured frames.          *)
THEOREM DifferencesCounted == SubSpec => []CountsDifferences
<1>1. SubInv => CountsDifferences
  BY DEF SubInv
<1> QED
  BY <1>1, SubtractionInvariance, PTL

-----------------------------------------------------------------------------
(* Snapshot: the pointers are at the samples of the block at hand, and the   *)
(* blocks before it are converted from their own samples.                    *)
Samples(row, column) ==
  [luma |-> frame_buffer[Place(0, row, column)],
   u    |-> frame_buffer[Place(2, row \div 2, column \div 2)],
   v    |-> frame_buffer[Place(1, row \div 2, column \div 2)]]

Converted(row, column) == row < y \/ (row < y + 2 /\ column < x)

Pointers ==
  /\ x \in 0 .. format.width - 2 /\ x % 2 = 0
  /\ y \in 0 .. format.height /\ y % 2 = 0
  /\ pY = Place(0, y, x) /\ pU = Place(2, y \div 2, x \div 2) /\ pV = Place(1, y \div 2, x \div 2)

Blocks ==
  /\ DOMAIN rgb = 0 .. format.width * format.height - 1
  /\ \A row \in 0 .. format.height - 1, column \in 0 .. format.width - 1 :
       rgb[row * format.width + column] =
         IF Converted(row, column) THEN Samples(row, column) ELSE Unwritten

Lines ==
  /\ jpeg \in Seq({Scanline(row) : row \in 0 .. format.height - 1})
  /\ \A k \in 1 .. Len(jpeg) : jpeg[k] = Scanline(k - 1)

SnapInv ==
  /\ stage \in {"none", "convert", "write", "done", "failed"}
  /\ IF stage = "none"
       THEN x = 0 /\ y = 0 /\ pY = 0 /\ pU = 0 /\ pV = 0 /\ jpeg = <<>>
              /\ rgb = [p \in 0 .. format.width * format.height - 1 |-> Unwritten]
       ELSE /\ format.width % 8 = 0 /\ pc = "idle" /\ offset # 0
            /\ Pointers /\ Blocks /\ Lines
  /\ stage = "convert" => y < format.height /\ jpeg = <<>>
  /\ stage \in {"write", "done", "failed"} => x = 0 /\ y = format.height
  /\ stage = "write" => Len(jpeg) < format.height
  /\ stage = "done" => Len(jpeg) = format.height
  /\ stage = "failed" => jpeg = <<>>

-----------------------------------------------------------------------------
(* The rows and columns of a picture number its pixels.                      *)
LEMMA RowAndColumn ==
  ASSUME NEW w \in Nat \ {0}, NEW h \in Nat, NEW p \in 0 .. w * h - 1
  PROVE  p \div w \in 0 .. h - 1 /\ p % w \in 0 .. w - 1 /\ p = (p \div w) * w + (p % w)
<1>1. w \in Nat /\ h \in Nat /\ w * h = h * w /\ w * h \in Nat
  OBVIOUS
<1>2. p \in Nat /\ p < h * w
  BY <1>1
<1> DEFINE r == p \div w
           c == p % w
<1>3. r \in Nat /\ c \in 0 .. w - 1 /\ p = r * w + c
  BY <1>2, Division
<1> HIDE DEF r, c
<1>4. c \in Nat /\ c < w
  BY <1>3
<1>5. r < h
  BY <1>1, <1>2, <1>3, <1>4, RowsOrdered
<1> QED
  BY <1>3, <1>5 DEF r, c

LEMMA PixelsNumbered ==
  ASSUME NEW w \in Nat \ {0}, NEW h \in Nat
  PROVE  /\ \A r1, r2 \in Nat, c1, c2 \in 0 .. w - 1 :
              r1 * w + c1 = r2 * w + c2 <=> r1 = r2 /\ c1 = c2
         /\ \A row \in 0 .. h - 1, column \in 0 .. w - 1 :
              row * w + column \in 0 .. w * h - 1
<1>1. w \in Nat /\ h \in Nat
  OBVIOUS
<1>2. \A r1, r2 \in Nat, c1, c2 \in 0 .. w - 1 :
        r1 * w + c1 = r2 * w + c2 <=> r1 = r2 /\ c1 = c2
  <2> SUFFICES ASSUME NEW r1 \in Nat, NEW r2 \in Nat, NEW c1 \in 0 .. w - 1, NEW c2 \in 0 .. w - 1,
                      r1 * w + c1 = r2 * w + c2
               PROVE  r1 = r2 /\ c1 = c2
    OBVIOUS
  <2>1. /\ (r1 * w + c1) \div w = r1 /\ (r1 * w + c1) % w = c1
        /\ (r2 * w + c2) \div w = r2 /\ (r2 * w + c2) % w = c2
    BY Quotient
  <2> QED
    BY <2>1
<1>3. w * h = h * w /\ w * h \in Nat
  OBVIOUS
<1>4. \A row \in 0 .. h - 1, column \in 0 .. w - 1 : row * w + column \in 0 .. w * h - 1
  <2> SUFFICES ASSUME NEW row \in 0 .. h - 1, NEW column \in 0 .. w - 1
               PROVE  row * w + column \in 0 .. w * h - 1
    OBVIOUS
  <2>1. row \in Nat /\ column \in Nat /\ column < w /\ row < h
    OBVIOUS
  <2>2. row * w + column < h * w /\ row * w + column \in Nat
    BY <2>1, <1>1, RowsOrdered
  <2> QED
    BY <2>2, <1>3
<1> QED
  BY <1>2, <1>4

(* A chroma row of a picture that is converted has half the bytes of a row.  *)
LEMMA HalfStride ==
  ASSUME format \in Formats, format.width % 8 = 0
  PROVE  2 * Stride(1) = format.width /\ 2 * Stride(2) = format.width
<1> DEFINE w == format.width
           k == Rows(1)
<1>1. w \in Nat \ {0} /\ w % 4 = 0 /\ k \in Nat /\ format.height = 2 * k
  BY FormatOK, RowCounts DEF Planes
<1>2. PICK c \in Nat :
        /\ c = ROUND_UP_4(ROUND_UP_2(w) \div 2)
        /\ get_i420_frame_info(w, 2 * k) =
             [p_stride |-> [i \in Planes |-> IF i = 0 THEN w ELSE c],
              p_offset |-> [i \in Planes |-> <<0, w * (2 * k), w * (2 * k) + c * k>>[i + 1]],
              size     |-> w * (2 * k) + c * k + c * k]
  BY <1>1, Layout
<1>3. 2 * c = w
  <2>1. w % 8 = 0
    OBVIOUS
  <2> HIDE DEF w
  <2>2. PICK n \in Nat : w = 8 * n
    <3>1. w \div 8 \in Nat /\ w = 8 * (w \div 8)
      BY <1>1, <2>1
    <3> QED
      BY <3>1
  <2>3. ROUND_UP_2(w) = 8 * n
    BY <2>2 DEF ROUND_UP_2
  <2>4. (8 * n) \div 2 = 4 * n /\ ROUND_UP_4(4 * n) = 4 * n
    BY DEF ROUND_UP_4
  <2> QED
    BY <1>2, <2>2, <2>3, <2>4
<1>4. frame_info = get_i420_frame_info(w, 2 * k)
  BY <1>1 DEF frame_info, FrameInfo
<1>5. Stride(1) = c /\ Stride(2) = c
  BY <1>2, <1>4 DEF Stride, Planes
<1> QED
  BY <1>3, <1>5

(* The picture that is converted, in numbers.                                *)
LEMMA Picture ==
  ASSUME format \in Formats
  PROVE  /\ format.width \in Nat \ {0} /\ format.height \in Nat /\ format.height >= 4
         /\ format.width % 2 = 0 /\ format.width >= 4 /\ format.height % 2 = 0
         /\ Stride(0) = format.width /\ Offset(0) = 0 /\ Rows(0) = format.height
         /\ Stride(1) = Stride(2) /\ Stride(1) \in Nat /\ Rows(1) = Rows(2) /\ Rows(1) \in Nat
         /\ 2 * Rows(1) = format.height
         /\ Offset(1) \in Nat /\ Offset(2) \in Nat /\ frame_info.size \in Nat
<1>1. 0 \in Planes /\ 1 \in Planes /\ 2 \in Planes
  BY DEF Planes
<1> QED
  BY <1>1, FormatOK, RowCounts, FrameLayout

-----------------------------------------------------------------------------
(* The parts of the invariant after a step of the conversion.                *)
LEMMA PointersNext ==
  ASSUME format' = format,
         x' \in 0 .. format.width - 2, x' % 2 = 0, y' \in 0 .. format.height, y' % 2 = 0,
         pY' = Place(0, y', x'), pU' = Place(2, y' \div 2, x' \div 2),
         pV' = Place(1, y' \div 2, x' \div 2)
  PROVE  Pointers'
BY DEF Pointers, Place, Offset, Stride, frame_info

LEMMA BlocksNext ==
  ASSUME format' = format, frame_buffer' = frame_buffer,
         DOMAIN rgb' = 0 .. format.width * format.height - 1,
         \A row \in 0 .. format.height - 1, column \in 0 .. format.width - 1 :
           rgb'[row * format.width + column] =
             IF row < y' \/ (row < y' + 2 /\ column < x') THEN Samples(row, column) ELSE Unwritten
  PROVE  Blocks'
BY DEF Blocks, Converted, Samples, Place, Offset, Stride, frame_info

LEMMA NoLines == ASSUME jpeg' = <<>> PROVE Lines'
BY DEF Lines

LEMMA LinesStay == ASSUME Lines, UNCHANGED <<format, rgb, jpeg>> PROVE Lines'
BY DEF Lines, Scanline

(* The invariant of the snapshot after a step of it.                         *)
LEMMA SnapNext ==
  ASSUME UNCHANGED <<format, pc, offset>>, SnapInv, stage # "none",
         Pointers', Blocks', Lines',
         stage' \in {"convert", "write", "done", "failed"},
         stage' = "convert" => y' < format.height /\ jpeg' = <<>>,
         stage' \in {"write", "done", "failed"} => x' = 0 /\ y' = format.height,
         stage' = "write" => Len(jpeg') < format.height,
         stage' = "done" => Len(jpeg') = format.height,
         stage' = "failed" => jpeg' = <<>>
  PROVE  SnapInv'
BY DEF SnapInv

(* The capture is left when the frame is complete.                           *)
LEMMA LeftComplete == ASSUME CaptureInv, Leave PROVE offset # 0
BY DEF CaptureInv, Leave, Looked, Coming

(* The conversion begins at the first samples of the three planes.           *)
LEMMA BeginConversionKeeps ==
  ASSUME CaptureInv, SnapInv, stage = "none", Leave, BeginConversion, format.width % 8 = 0
  PROVE  SnapInv'
<1> DEFINE w == format.width
           h == format.height
<1>1. /\ format \in Formats /\ UNCHANGED <<format, offset, frame_buffer>> /\ pc' = "idle"
      /\ offset # 0
  BY LeftComplete DEF CaptureInv, CaptureTypeOK, Leave, unpack
<1>2. /\ w \in Nat \ {0} /\ h \in Nat /\ h >= 4 /\ w >= 4
      /\ Stride(0) = w /\ Offset(0) = 0 /\ Rows(0) = h
      /\ Rows(1) \in Nat /\ 2 * Rows(1) = h /\ Stride(1) \in Nat /\ Stride(1) = Stride(2)
      /\ Offset(1) = Rows(0) * Stride(0)
      /\ Offset(2) = Rows(0) * Stride(0) + Rows(1) * Stride(1)
      /\ 2 * Stride(1) = w
  BY <1>1, Picture, FrameLayout, HalfStride
<1>3. /\ stage' = "convert" /\ x' = 0 /\ y' = 0 /\ pY' = 0
      /\ pV' = w * h /\ pU' = w * h + ((w * h) \div 4) /\ UNCHANGED <<rgb, jpeg>>
  BY DEF BeginConversion
<1>4. jpeg = <<>> /\ rgb = [p \in 0 .. w * h - 1 |-> Unwritten]
  BY DEF SnapInv
<1> HIDE DEF w, h
<1>5. w * h = Rows(0) * Stride(0) /\ (w * h) \div 4 = Rows(1) * Stride(1)
  <2> DEFINE a == Stride(1)
             b == Rows(1)
  <2>1. a \in Nat /\ b \in Nat /\ w = 2 * a /\ h = 2 * b
    BY <1>2
  <2> HIDE DEF a, b
  <2>2. w * h = 4 * (b * a) /\ b * a \in Nat /\ w * h = h * w
    BY <2>1
  <2>3. \A n \in Nat : (4 * n) \div 4 = n
    OBVIOUS
  <2> QED
    BY <1>2, <2>2, <2>3 DEF a, b
<1>6. 0 \div 2 = 0 /\ 0 % 2 = 0
  OBVIOUS
<1>7. \A i \in Planes : Place(i, 0, 0) = Offset(i)
  <2>1. \A o, d \in Nat : o + 0 * d + 0 = o
    OBVIOUS
  <2> QED
    BY <1>1, <2>1, FrameLayout DEF Place
<1>8. Pointers'
  <2>1. 0 \in Planes /\ 1 \in Planes /\ 2 \in Planes
    BY DEF Planes
  <2>2. pY' = Place(0, y', x') /\ pU' = Place(2, y' \div 2, x' \div 2)
        /\ pV' = Place(1, y' \div 2, x' \div 2)
    BY <1>2, <1>3, <1>5, <1>6, <1>7, <2>1
  <2>3. x' \in 0 .. format.width - 2 /\ x' % 2 = 0 /\ y' \in 0 .. format.height /\ y' % 2 = 0
    BY <1>2, <1>3, <1>6 DEF w, h
  <2> QED
    BY <1>1, <2>2, <2>3, PointersNext
<1>9. Blocks'
  <2>1. DOMAIN rgb' = 0 .. format.width * format.height - 1
    BY <1>3, <1>4 DEF w, h
  <2>2. \A row \in 0 .. h - 1, column \in 0 .. w - 1 :
          rgb'[row * w + column] =
            IF row < y' \/ (row < y' + 2 /\ column < x') THEN Samples(row, column) ELSE Unwritten
    <3> SUFFICES ASSUME NEW row \in 0 .. h - 1, NEW column \in 0 .. w - 1
                 PROVE  /\ rgb'[row * w + column] = Unwritten
                        /\ ~(row < y' \/ (row < y' + 2 /\ column < x'))
      OBVIOUS
    <3>1. row * w + column \in 0 .. w * h - 1
      BY <1>2, PixelsNumbered
    <3> QED
      BY <1>2, <1>3, <1>4, <3>1
  <2> QED
    BY <1>1, <2>1, <2>2, BlocksNext DEF w, h
<1>10. Lines'
  BY <1>3, <1>4, NoLines
<1> QED
  BY <1>1, <1>2, <1>3, <1>4, <1>8, <1>9, <1>10 DEF SnapInv, h

(* A block of two by two pixels is converted.                                *)
LEMMA ConvertBlockKeeps ==
  ASSUME CaptureInv, SnapInv, ConvertBlock, UNCHANGED captureVars PROVE SnapInv'
<1> DEFINE w == format.width
           h == format.height
           d == Stride(1)
<1>1. /\ format \in Formats /\ UNCHANGED <<format, offset, frame_buffer, pc>>
      /\ stage = "convert" /\ Pointers /\ Blocks /\ y < h /\ jpeg = <<>> /\ jpeg' = <<>>
      /\ format.width % 8 = 0
  BY DEF CaptureInv, CaptureTypeOK, captureVars, unpack, loop, SnapInv, ConvertBlock
<1>2. /\ w \in Nat \ {0} /\ h \in Nat /\ h >= 4 /\ w >= 4 /\ w % 2 = 0 /\ h % 2 = 0
      /\ Stride(0) = w /\ Offset(0) = 0 /\ d \in Nat /\ d = Stride(2) /\ 2 * d = w
      /\ Offset(1) \in Nat /\ Offset(2) \in Nat
  BY <1>1, Picture, HalfStride
<1>3. /\ x \in 0 .. w - 2 /\ x % 2 = 0 /\ y \in 0 .. h /\ y % 2 = 0
      /\ pY = Place(0, y, x) /\ pU = Place(2, y \div 2, x \div 2) /\ pV = Place(1, y \div 2, x \div 2)
  BY <1>1 DEF Pointers
<1>4. /\ DOMAIN rgb = 0 .. w * h - 1
      /\ \A row \in 0 .. h - 1, column \in 0 .. w - 1 :
           rgb[row * w + column] =
             IF row < y \/ (row < y + 2 /\ column < x) THEN Samples(row, column) ELSE Unwritten
  BY <1>1 DEF Blocks, Converted
<1> DEFINE p == w * y + x
           pixel(n) == [luma |-> frame_buffer[n], u |-> frame_buffer[pU], v |-> frame_buffer[pV]]
<1>5. /\ rgb' = [rgb EXCEPT ![p] = pixel(pY), ![p + 1] = pixel(pY + 1),
                            ![p + w] = pixel(pY + w), ![p + w + 1] = pixel(pY + w + 1)]
      /\ pU' = pU + 1 /\ pV' = pV + 1 /\ pY' = AfterBlock
      /\ IF x + 2 <= w - 2
           THEN x' = x + 2 /\ UNCHANGED <<y, stage>>
           ELSE /\ x' = 0 /\ y' = y + 2
                /\ stage' = IF y + 2 <= h - 2 THEN "convert" ELSE "write"
  BY DEF ConvertBlock
<1>6. AfterBlock = IF x + 2 <= w - 2 THEN pY + 2 ELSE pY + 2 + w
  BY DEF AfterBlock
<1> HIDE DEF w, h, d, p, pixel
<1>7. PICK by \in Nat, bx \in Nat :
        /\ y = 2 * by /\ x = 2 * bx /\ y \div 2 = by /\ x \div 2 = bx
        /\ (y + 1) \div 2 = by /\ (x + 1) \div 2 = bx
        /\ (y + 2) \div 2 = by + 1 /\ (x + 2) \div 2 = bx + 1
  <2>1. x \in Nat /\ y \in Nat
    BY <1>2, <1>3
  <2>2. \A n \in Nat : n % 2 = 0 => /\ n = 2 * (n \div 2) /\ n \div 2 \in Nat
                                    /\ (n + 1) \div 2 = n \div 2 /\ (n + 2) \div 2 = (n \div 2) + 1
    OBVIOUS
  <2> QED
    BY <1>3, <2>1, <2>2
<1>8. /\ y * w \in Nat /\ p = y * w + x /\ pY = y * w + x
      /\ (y + 1) * w = y * w + w /\ (y + 2) * w = y * w + 2 * w
      /\ by * d \in Nat /\ (by + 1) * d = by * d + d
  <2>1. \A a, b \in Nat : a * b \in Nat /\ a * b = b * a
                          /\ (a + 1) * b = a * b + b /\ (a + 2) * b = a * b + 2 * b
    OBVIOUS
  <2>2. x \in Nat /\ y \in Nat /\ w \in Nat
    BY <1>2, <1>3
  <2>3. pY = 0 + y * w + x
    BY <1>2, <1>3 DEF Place
  <2> QED
    BY <1>2, <1>7, <2>1, <2>2, <2>3 DEF p
<1> DEFINE Flat(r, c) == r * w + c
<1>luma. \A r, c \in Nat : Place(0, r, c) = Flat(r, c)
  <2>1. \A r, c \in Nat : Place(0, r, c) = 0 + r * w + c
    BY <1>2 DEF Place
  <2>2. \A r, c \in Nat : r * w \in Nat
    BY <1>2
  <2>3. \A a, c \in Nat : 0 + a + c = a + c
    OBVIOUS
  <2> QED
    BY <2>1, <2>2, <2>3
<1>9. pU = Offset(2) + by * d + bx /\ pV = Offset(1) + by * d + bx
  BY <1>2, <1>3, <1>7 DEF Place, d
<1>10. /\ x \in Nat /\ x + 1 \in 0 .. w - 1 /\ x \in 0 .. w - 1
       /\ y \in Nat /\ y + 1 \in Nat /\ y + 2 <= h
  <2>1. \A m, n \in Nat : m % 2 = 0 /\ n % 2 = 0 /\ m < n => m + 2 <= n
    OBVIOUS
  <2>2. y < h
    BY <1>1 DEF h
  <2> QED
    BY <1>2, <1>3, <2>1, <2>2
<1>11. /\ Samples(y, x) = pixel(pY) /\ Samples(y, x + 1) = pixel(pY + 1)
       /\ Samples(y + 1, x) = pixel(pY + w) /\ Samples(y + 1, x + 1) = pixel(pY + w + 1)
  <2>1. /\ Place(0, y, x) = pY /\ Place(0, y, x + 1) = pY + 1
        /\ Place(0, y + 1, x) = pY + w /\ Place(0, y + 1, x + 1) = pY + w + 1
    <3>1. /\ Flat(y, x) = pY /\ Flat(y, x + 1) = pY + 1
          /\ Flat(y + 1, x) = pY + w /\ Flat(y + 1, x + 1) = pY + w + 1
      <4>1. \A a, b, c \in Nat : /\ a + (b + 1) = a + b + 1 /\ a + c + b = a + b + c
                                 /\ a + c + (b + 1) = a + b + c + 1
        OBVIOUS
      <4> QED
        BY <1>2, <1>8, <1>10, <4>1
    <3> HIDE DEF Flat
    <3> QED
      BY <1>10, <1>luma, <3>1
  <2>2. Place(2, by, bx) = pU /\ Place(1, by, bx) = pV
    BY <1>3, <1>7
  <2> QED
    BY <1>7, <2>1, <2>2 DEF Samples, pixel
<1>12. ASSUME NEW row \in 0 .. h - 1, NEW column \in 0 .. w - 1
       PROVE  rgb'[row * w + column] =
                IF row < y \/ (row < y + 2 /\ column < x + 2)
                  THEN Samples(row, column) ELSE Unwritten
  <2> DEFINE q == row * w + column
  <2>1. /\ q \in 0 .. w * h - 1
        /\ q = p <=> row = y /\ column = x
        /\ q = p + 1 <=> row = y /\ column = x + 1
        /\ q = p + w <=> row = y + 1 /\ column = x
        /\ q = p + w + 1 <=> row = y + 1 /\ column = x + 1
    <3>1. row \in Nat /\ column \in Nat
      OBVIOUS
    <3>2. /\ q \in 0 .. w * h - 1
          /\ \A r \in Nat, c \in 0 .. w - 1 : q = r * w + c <=> row = r /\ column = c
      BY <1>2, <3>1, PixelsNumbered
    <3>3. /\ p = y * w + x /\ p + 1 = y * w + (x + 1)
          /\ p + w = (y + 1) * w + x /\ p + w + 1 = (y + 1) * w + (x + 1)
      <4>1. \A a, b, c \in Nat : /\ a + b + 1 = a + (b + 1) /\ a + b + c = a + c + b
                                 /\ a + b + c + 1 = a + c + (b + 1)
        OBVIOUS
      <4> QED
        BY <1>2, <1>8, <1>10, <4>1
    <3> HIDE DEF q
    <3> QED
      BY <1>10, <3>2, <3>3
  <2> HIDE DEF q
  <2>2. rgb'[q] =
          IF row = y + 1 /\ column = x + 1 THEN pixel(pY + w + 1)
          ELSE IF row = y + 1 /\ column = x THEN pixel(pY + w)
          ELSE IF row = y /\ column = x + 1 THEN pixel(pY + 1)
          ELSE IF row = y /\ column = x THEN pixel(pY) ELSE rgb[q]
    BY <1>4, <1>5, <2>1
  <2>3. rgb[q] = IF row < y \/ (row < y + 2 /\ column < x) THEN Samples(row, column) ELSE Unwritten
    BY <1>4 DEF q
  <2>4. CASE (row = y \/ row = y + 1) /\ (column = x \/ column = x + 1)
    <3>1. rgb'[q] = Samples(row, column)
      BY <1>10, <1>11, <2>2, <2>4
    <3>2. row < y + 2 /\ column < x + 2
      BY <1>10, <2>4
    <3> QED
      BY <3>1, <3>2 DEF q
  <2>5. CASE ~((row = y \/ row = y + 1) /\ (column = x \/ column = x + 1))
    <3>1. rgb'[q] = rgb[q]
      BY <2>2, <2>5
    <3>2. row < y \/ (row < y + 2 /\ column < x) <=> row < y \/ (row < y + 2 /\ column < x + 2)
      BY <1>10, <2>5
    <3> QED
      BY <2>3, <3>1, <3>2 DEF q
  <2> QED
    BY <2>4, <2>5
<1>13. DOMAIN rgb' = 0 .. w * h - 1
  BY <1>4, <1>5
<1>14. Lines'
  BY <1>1, NoLines
<1>15. CASE x + 2 <= w - 2
  <2>1. /\ x' = x + 2 /\ y' = y /\ stage' = "convert" /\ pY' = pY + 2
        /\ pU' = pU + 1 /\ pV' = pV + 1
    BY <1>1, <1>5, <1>6, <1>15
  <2>2. Pointers'
    <3>1. /\ Place(0, y, x + 2) = pY + 2
          /\ Place(2, by, bx + 1) = pU + 1 /\ Place(1, by, bx + 1) = pV + 1
      <4>1. Flat(y, x + 2) = pY + 2
        BY <1>8, <1>10
      <4>2. Place(0, y, x + 2) = Flat(y, x + 2)
        <5> HIDE DEF Flat
        <5> QED
          BY <1>10, <1>luma
      <4>3. Place(2, by, bx + 1) = pU + 1 /\ Place(1, by, bx + 1) = pV + 1
        <5>1. /\ Place(2, by, bx + 1) = Offset(2) + by * d + (bx + 1)
              /\ Place(1, by, bx + 1) = Offset(1) + by * d + (bx + 1)
          BY <1>2 DEF Place, d
        <5>2. \A a, b, c \in Nat : a + b + (c + 1) = a + b + c + 1
          OBVIOUS
        <5> HIDE DEF d
        <5> QED
          BY <1>2, <1>7, <1>8, <1>9, <5>1, <5>2
      <4> QED
        BY <4>1, <4>2, <4>3
    <3>2. x' \in 0 .. w - 2 /\ x' % 2 = 0 /\ y' \in 0 .. h /\ y' % 2 = 0
      BY <1>2, <1>3, <1>10, <1>15, <2>1
    <3>3. /\ pY' = Place(0, y', x') /\ pU' = Place(2, y' \div 2, x' \div 2)
          /\ pV' = Place(1, y' \div 2, x' \div 2)
      BY <1>7, <2>1, <3>1
    <3> QED
      BY <1>1, <3>2, <3>3, PointersNext DEF w, h
  <2>3. Blocks'
    BY <1>1, <1>12, <1>13, <2>1, BlocksNext DEF w, h
  <2> QED
    BY <1>1, <1>14, <2>1, <2>2, <2>3, SnapNext DEF h
<1>16. CASE ~(x + 2 <= w - 2)
  <2>1. /\ x' = 0 /\ y' = y + 2 /\ pY' = pY + 2 + w
        /\ stage' = IF y + 2 <= h - 2 THEN "convert" ELSE "write"
        /\ pU' = pU + 1 /\ pV' = pV + 1
    BY <1>5, <1>6, <1>16
  <2>2. x + 2 = w /\ bx + 1 = d
    <3>1. \A m, n \in Nat : m % 2 = 0 /\ n % 2 = 0 /\ m <= n - 2 /\ ~(m + 2 <= n - 2) => m + 2 = n
      OBVIOUS
    <3> QED
      BY <1>2, <1>3, <1>7, <1>10, <1>16, <3>1
  <2>3. Pointers'
    <3>1. 0 \div 2 = 0 /\ 0 % 2 = 0
      OBVIOUS
    <3>2. Place(0, y + 2, 0) = pY + 2 + w
      <4>1. Flat(y + 2, 0) = pY + 2 + w
        BY <1>2, <1>8, <1>10, <2>2
      <4>2. Place(0, y + 2, 0) = Flat(y + 2, 0)
        <5> HIDE DEF Flat
        <5> QED
          BY <1>10, <1>luma
      <4> QED
        BY <4>1, <4>2
    <3>3. Place(2, by + 1, 0) = pU + 1 /\ Place(1, by + 1, 0) = pV + 1
      BY <1>2, <1>7, <1>8, <1>9, <2>2 DEF Place, d
    <3>4. x' \in 0 .. w - 2 /\ x' % 2 = 0 /\ y' \in 0 .. h /\ y' % 2 = 0
      BY <1>2, <1>3, <1>10, <2>1, <3>1
    <3>5. /\ pY' = Place(0, y', x') /\ pU' = Place(2, y' \div 2, x' \div 2)
          /\ pV' = Place(1, y' \div 2, x' \div 2)
      BY <1>7, <2>1, <3>1, <3>2, <3>3
    <3> QED
      BY <1>1, <3>4, <3>5, PointersNext DEF w, h
  <2>4. Blocks'
    <3>1. ASSUME NEW row \in 0 .. h - 1, NEW column \in 0 .. w - 1
          PROVE  row < y \/ (row < y + 2 /\ column < x + 2)
                   <=> row < y' \/ (row < y' + 2 /\ column < x')
      BY <1>10, <2>1, <2>2
    <3> QED
      BY <1>1, <1>12, <1>13, <3>1, BlocksNext DEF w, h
  <2>5. stage' = "convert" => y' < h
    BY <1>2, <1>10, <2>1
  <2>6. stage' = "write" => y' = h /\ Len(jpeg') < h
    <3>1. \A m, n \in Nat : m % 2 = 0 /\ n % 2 = 0 /\ m + 2 <= n /\ ~(m + 2 <= n - 2) => m + 2 = n
      OBVIOUS
    <3> QED
      BY <1>1, <1>2, <1>3, <1>10, <2>1, <3>1
  <2> QED
    BY <1>1, <1>14, <2>1, <2>3, <2>4, <2>5, <2>6, SnapNext DEF h
<1> QED
  BY <1>15, <1>16

LEMMA LinesNext ==
  ASSUME UNCHANGED <<format, rgb>>,
         jpeg' \in Seq({Scanline(row) : row \in 0 .. format.height - 1}),
         \A k \in 1 .. Len(jpeg') : jpeg'[k] = Scanline(k - 1)
  PROVE  Lines'
BY DEF Lines, Scanline

(* The picture stays as it is converted.                                     *)
LEMMA ConversionStays ==
  ASSUME Pointers, Blocks, UNCHANGED <<format, frame_buffer, x, y, pY, pU, pV, rgb>>
  PROVE  Pointers' /\ Blocks'
BY DEF Pointers, Blocks, Converted, Samples, Place, Offset, Stride, frame_info

LEMMA OpenFailsKeeps ==
  ASSUME SnapInv, OpenFails, UNCHANGED captureVars PROVE SnapInv'
<1>1. /\ UNCHANGED <<format, pc, offset, frame_buffer, x, y, pY, pU, pV, rgb, jpeg>>
      /\ stage = "write" /\ stage' = "failed" /\ jpeg = <<>>
  BY DEF OpenFails, captureVars, unpack, loop
<1>2. Pointers /\ Blocks /\ Lines /\ x = 0 /\ y = format.height
  BY <1>1 DEF SnapInv
<1>3. Pointers' /\ Blocks' /\ Lines'
  BY <1>1, <1>2, ConversionStays, LinesStay
<1> QED
  BY <1>1, <1>2, <1>3, SnapNext

(* The next row of the picture is written.                                   *)
LEMMA WriteScanlineKeeps ==
  ASSUME CaptureInv, SnapInv, WriteScanline, UNCHANGED captureVars PROVE SnapInv'
<1> DEFINE S == {Scanline(row) : row \in 0 .. format.height - 1}
<1>1. /\ UNCHANGED <<format, pc, offset, frame_buffer, x, y, pY, pU, pV, rgb>>
      /\ stage = "write" /\ jpeg' = Append(jpeg, Scanline(Len(jpeg)))
      /\ stage' = IF Len(jpeg') = format.height THEN "done" ELSE "write"
  BY DEF WriteScanline, captureVars, unpack, loop
<1>2. /\ Pointers /\ Blocks /\ Lines /\ x = 0 /\ y = format.height
      /\ Len(jpeg) < format.height
  BY <1>1 DEF SnapInv
<1>3. format.height \in Nat
  BY FormatOK DEF CaptureInv, CaptureTypeOK
<1>4. jpeg \in Seq(S) /\ \A k \in 1 .. Len(jpeg) : jpeg[k] = Scanline(k - 1)
  BY <1>2 DEF Lines
<1>5. Len(jpeg) \in 0 .. format.height - 1
  BY <1>2, <1>3, <1>4
<1>6. Scanline(Len(jpeg)) \in S
  BY <1>5
<1> HIDE DEF S
<1>7. jpeg' \in Seq(S) /\ Len(jpeg') = Len(jpeg) + 1
      /\ \A k \in 1 .. Len(jpeg') : jpeg'[k] = IF k = Len(jpeg) + 1 THEN Scanline(Len(jpeg))
                                              ELSE jpeg[k]
  BY <1>1, <1>4, <1>6
<1>8. \A k \in 1 .. Len(jpeg') : jpeg'[k] = Scanline(k - 1)
  <2> SUFFICES ASSUME NEW k \in 1 .. Len(jpeg') PROVE jpeg'[k] = Scanline(k - 1)
    OBVIOUS
  <2>1. CASE k = Len(jpeg) + 1
    <3>1. k - 1 = Len(jpeg)
      BY <1>5, <2>1
    <3> QED
      BY <1>7, <2>1, <3>1
  <2>2. CASE k # Len(jpeg) + 1
    <3>1. k \in 1 .. Len(jpeg)
      BY <1>5, <1>7, <2>2
    <3> QED
      BY <1>4, <1>7, <2>2, <3>1
  <2> QED
    BY <2>1, <2>2
<1>9. Lines'
  BY <1>1, <1>7, <1>8, LinesNext DEF S
<1>10. Pointers' /\ Blocks'
  BY <1>1, <1>2, ConversionStays
<1>11. stage' = "write" => Len(jpeg') < format.height
  BY <1>1, <1>3, <1>5, <1>7
<1> QED
  BY <1>1, <1>2, <1>9, <1>10, <1>11, SnapNext

LEMMA CloseFileKeeps ==
  ASSUME SnapInv, CloseFile, UNCHANGED captureVars PROVE SnapInv'
<1>1. Blocks
  BY DEF SnapInv, CloseFile
<1>2. DOMAIN rgb = 0 .. format.width * format.height - 1
  BY <1>1 DEF Blocks
<1>3. /\ format' = format /\ stage' = "none" /\ x' = 0 /\ y' = 0 /\ pY' = 0 /\ pU' = 0 /\ pV' = 0
      /\ jpeg' = <<>> /\ rgb' = [p \in 0 .. format.width * format.height - 1 |-> Unwritten]
  BY <1>2 DEF CloseFile, captureVars
<1> QED
  BY <1>3 DEF SnapInv

(* A step that is not of the snapshot: none is at hand, or the frame that it *)
(* is taken from stays.                                                      *)
LEMMA SnapStays ==
  ASSUME SnapInv, UNCHANGED <<snapVars, format>>,
         stage = "none" \/ UNCHANGED <<pc, offset, frame_buffer>>
  PROVE  SnapInv'
<1>1. UNCHANGED <<stage, x, y, pY, pU, pV, rgb, jpeg, format>>
  BY DEF snapVars
<1>2. CASE stage = "none"
  BY <1>1, <1>2 DEF SnapInv
<1>3. CASE stage # "none" /\ UNCHANGED <<pc, offset, frame_buffer>>
  <2>1. Pointers /\ Blocks /\ Lines
    BY <1>3 DEF SnapInv
  <2>2. Pointers' /\ Blocks' /\ Lines'
    BY <1>1, <1>3, <2>1, ConversionStays, LinesStay
  <2> QED
    BY <1>1, <1>3, <2>2 DEF SnapInv
<1> QED
  BY <1>2, <1>3

LEMMA SnapStepKeeps ==
  ASSUME CaptureInv, SnapInv, SnapStep, UNCHANGED captureVars PROVE SnapInv'
BY ConvertBlockKeeps, OpenFailsKeeps, WriteScanlineKeeps, CloseFileKeeps DEF SnapStep

-----------------------------------------------------------------------------
(* The types of the snapshot: the pointers stay within the frame.            *)
LEMMA PlaceWithin ==
  ASSUME format \in Formats, NEW i \in Planes, NEW row \in Nat, NEW column \in Nat,
         \/ row < Rows(i) /\ column < Stride(i)
         \/ row = Rows(i) /\ column = 0
  PROVE  Place(i, row, column) \in 0 .. frame_info.size
<1>1. /\ Rows(i) \in Nat /\ Stride(i) \in Nat /\ Offset(i) \in Nat /\ frame_info.size \in Nat
      /\ Rows(i) * Stride(i) \in Nat
      /\ Offset(i) + Rows(i) * Stride(i) <= frame_info.size
  BY RowCounts, FrameLayout, PlanesApart
<1>2. CASE row < Rows(i) /\ column < Stride(i)
  <2>1. column \in 0 .. Stride(i) - 1
    BY <1>1, <1>2
  <2>2. Place(i, row, column) \in Nat /\ Place(i, row, column) < Offset(i) + Rows(i) * Stride(i)
    BY <1>1, <1>2, <2>1, PlaceInPlane
  <2> QED
    BY <1>1, <2>2
<1>3. CASE row = Rows(i) /\ column = 0
  BY <1>1, <1>3 DEF Place
<1> QED
  BY <1>2, <1>3

LEMMA SnapTypes == ASSUME CaptureInv, SnapInv PROVE SnapTypeOK
<1>1. format \in Formats
  BY DEF CaptureInv, CaptureTypeOK
<1>2. /\ format.width \in Nat /\ format.height \in Nat /\ format.width >= 4
      /\ frame_info.size \in Nat
      /\ Stride(0) = format.width /\ Rows(0) = format.height
      /\ Stride(1) = Stride(2) /\ Stride(1) \in Nat
      /\ Rows(1) = Rows(2) /\ 2 * Rows(1) = format.height /\ Rows(1) \in Nat
  BY <1>1, Picture
<1>3. CASE stage = "none"
  <2>1. /\ x = 0 /\ y = 0 /\ pY = 0 /\ pU = 0 /\ pV = 0 /\ jpeg = <<>>
        /\ DOMAIN rgb = 0 .. format.width * format.height - 1
    BY <1>3 DEF SnapInv
  <2> QED
    BY <1>2, <1>3, <2>1 DEF SnapTypeOK
<1>4. CASE stage # "none"
  <2>1. /\ format.width % 8 = 0 /\ Pointers /\ Blocks /\ Lines
        /\ stage \in {"convert", "write", "done", "failed"}
        /\ stage = "convert" => y < format.height
        /\ stage # "convert" => x = 0 /\ y = format.height
    BY <1>4 DEF SnapInv
  <2>2. 2 * Stride(1) = format.width
    BY <1>1, <2>1, HalfStride
  <2>3. /\ x \in 0 .. format.width - 2 /\ x % 2 = 0
        /\ y \in 0 .. format.height /\ y % 2 = 0
        /\ pY = Place(0, y, x) /\ pU = Place(2, y \div 2, x \div 2)
        /\ pV = Place(1, y \div 2, x \div 2)
    BY <2>1 DEF Pointers
  <2>4. y < format.height \/ (x = 0 /\ y = format.height)
    BY <2>1
  <2>5. /\ x \in Nat /\ y \in Nat /\ x \div 2 \in Nat /\ y \div 2 \in Nat /\ x < format.width
        /\ \/ y < format.height /\ y \div 2 < Rows(1) /\ x \div 2 < Stride(1)
           \/ y = format.height /\ x = 0 /\ y \div 2 = Rows(1) /\ x \div 2 = 0
    BY <1>2, <2>2, <2>3, <2>4
  <2>6. 0 \in Planes /\ 1 \in Planes /\ 2 \in Planes
    BY DEF Planes
  <2>7. pY \in 0 .. frame_info.size
    BY <1>1, <1>2, <2>3, <2>5, <2>6, PlaceWithin
  <2>8. pU \in 0 .. frame_info.size /\ pV \in 0 .. frame_info.size
    <3>1. /\ \/ y \div 2 < Rows(1) /\ x \div 2 < Stride(1)
             \/ y \div 2 = Rows(1) /\ x \div 2 = 0
          /\ \/ y \div 2 < Rows(2) /\ x \div 2 < Stride(2)
             \/ y \div 2 = Rows(2) /\ x \div 2 = 0
      BY <1>2, <2>5
    <3> QED
      BY <1>1, <2>3, <2>5, <2>6, <3>1, PlaceWithin
  <2>9. Len(jpeg) \in 0 .. format.height
    <3>1. Len(jpeg) \in Nat
      BY <2>1 DEF Lines
    <3> QED
      BY <1>2, <2>1, <3>1 DEF SnapInv
  <2> QED
    BY <2>1, <2>3, <2>7, <2>8, <2>9 DEF SnapTypeOK, Blocks
<1> QED
  BY <1>3, <1>4

(* What a converted pixel is made from.                                      *)
LEMMA SamplesAre ==
  ASSUME CaptureInv, stage # "none", SnapInv,
         NEW row \in 0 .. format.height - 1, NEW column \in 0 .. format.width - 1
  PROVE  Samples(row, column) =
           [luma |-> Pixel(buf_info, Pictured, 0, row, column),
            u    |-> Pixel(buf_info, Pictured, 2, row \div 2, column \div 2),
            v    |-> Pixel(buf_info, Pictured, 1, row \div 2, column \div 2)]
<1>1. format \in Formats /\ offset # 0 /\ format.width % 8 = 0
  BY DEF CaptureInv, CaptureTypeOK, SnapInv
<1>2. /\ format.width \in Nat /\ format.height \in Nat
      /\ Stride(0) = format.width /\ Rows(0) = format.height
      /\ Stride(1) = Stride(2) /\ Stride(1) \in Nat /\ 2 * Stride(1) = format.width
      /\ Rows(1) = Rows(2) /\ 2 * Rows(1) = format.height /\ Rows(1) \in Nat
  BY <1>1, Picture, HalfStride
<1>3. /\ row \in 0 .. Rows(0) - 1 /\ column \in 0 .. Stride(0) - 1
      /\ row \div 2 \in 0 .. Rows(1) - 1 /\ column \div 2 \in 0 .. Stride(1) - 1
  BY <1>2
<1>4. \A i \in Planes : Shows(frame_buffer, Pictured, i, Rows(i))
  BY <1>1 DEF CaptureInv, Contents
<1>5. 0 \in Planes /\ 1 \in Planes /\ 2 \in Planes
  BY DEF Planes
<1>6. /\ frame_buffer[Place(0, row, column)] = Pixel(buf_info, Pictured, 0, row, column)
      /\ \A i \in {1, 2} : frame_buffer[Place(i, row \div 2, column \div 2)]
                             = Pixel(buf_info, Pictured, i, row \div 2, column \div 2)
  BY <1>2, <1>3, <1>4, <1>5 DEF Shows
<1> QED
  BY <1>6 DEF Samples

LEMMA SnapShows == ASSUME CaptureInv, SnapInv PROVE SnapshotShowsPicture
<1> DEFINE Shown(n) ==
             \A row \in 0 .. format.height - 1, column \in 0 .. format.width - 1 :
               /\ jpeg[row + 1][column].luma = Pixel(buf_info, n, 0, row, column)
               /\ {jpeg[row + 1][column].u, jpeg[row + 1][column].v}
                    = {Pixel(buf_info, n, 1, row \div 2, column \div 2),
                       Pixel(buf_info, n, 2, row \div 2, column \div 2)}
<1> SUFFICES ASSUME stage = "done" PROVE \E n \in Images : Shown(n)
  BY DEF SnapshotShowsPicture
<1>1. format \in Formats /\ Pictured \in Images
  BY DEF Pictured, CaptureInv, CaptureTypeOK, Images
<1>2. format.width \in Nat /\ format.height \in Nat
  BY <1>1, FormatOK
<1>3. Blocks /\ Lines /\ y = format.height /\ Len(jpeg) = format.height
  BY DEF SnapInv
<1>4. ASSUME NEW row \in 0 .. format.height - 1, NEW column \in 0 .. format.width - 1
      PROVE  jpeg[row + 1][column] =
               [luma |-> Pixel(buf_info, Pictured, 0, row, column),
                u    |-> Pixel(buf_info, Pictured, 2, row \div 2, column \div 2),
                v    |-> Pixel(buf_info, Pictured, 1, row \div 2, column \div 2)]
  <2>1. row + 1 \in 1 .. Len(jpeg) /\ (row + 1) - 1 = row
    BY <1>2, <1>3
  <2>2. jpeg[row + 1] = Scanline(row)
    BY <1>3, <2>1 DEF Lines
  <2>3. jpeg[row + 1][column] = rgb[row * format.width + column]
    BY <2>2 DEF Scanline
  <2>4. row < y
    BY <1>2, <1>3
  <2>5. rgb[row * format.width + column] = Samples(row, column)
    BY <1>3, <2>4 DEF Blocks, Converted
  <2> QED
    BY <2>3, <2>5, SamplesAre
<1>5. Shown(Pictured)
  <2> SUFFICES ASSUME NEW row \in 0 .. format.height - 1, NEW column \in 0 .. format.width - 1
               PROVE  /\ jpeg[row + 1][column].luma = Pixel(buf_info, Pictured, 0, row, column)
                      /\ {jpeg[row + 1][column].u, jpeg[row + 1][column].v}
                           = {Pixel(buf_info, Pictured, 1, row \div 2, column \div 2),
                              Pixel(buf_info, Pictured, 2, row \div 2, column \div 2)}
    OBVIOUS
  <2> DEFINE r == jpeg[row + 1][column]
             l == Pixel(buf_info, Pictured, 0, row, column)
             v == Pixel(buf_info, Pictured, 1, row \div 2, column \div 2)
             u == Pixel(buf_info, Pictured, 2, row \div 2, column \div 2)
  <2>1. r = [luma |-> l, u |-> u, v |-> v]
    BY <1>4
  <2>2. r.luma = l /\ {r.u, r.v} = {v, u}
    <3> HIDE DEF r, l, u, v
    <3> QED
      BY <2>1
  <2> QED
    BY <2>2
<1> HIDE DEF Shown
<1> QED
  BY <1>1, <1>5

-----------------------------------------------------------------------------
(* From which plane of the slice a byte is.                                  *)
LEMMA PixelInPlane ==
  ASSUME format \in Formats, NEW i \in Planes, NEW n, NEW row \in Nat,
         NEW column \in 0 .. Stride(i) - 1
  PROVE  /\ Pixel(buf_info, n, i, row, column).at \in Nat
         /\ buf_info.p_offset[i] <= Pixel(buf_info, n, i, row, column).at
         /\ Pixel(buf_info, n, i, row, column).at
              < buf_info.p_offset[i] + max_spans(i) * Stride(i)
<1> DEFINE m == max_spans(i)
           d == Stride(i)
           o == buf_info.p_offset[i]
           r == row % m
<1>1. m \in Nat \ {0} /\ d \in Nat /\ o \in Nat /\ buf_info.p_stride[i] = d
  BY RowCounts, FrameLayout, BufferLayout
<1>2. Pixel(buf_info, n, i, row, column).at = o + r * d + column
  BY <1>1 DEF Pixel
<1>3. column \in Nat /\ column < d
  BY <1>1
<1> HIDE DEF m, d, o
<1>4. r \in Nat /\ r < m
  BY <1>1, Division
<1> HIDE DEF r
<1>5. r * d + column < m * d /\ r * d + column \in Nat /\ r * d \in Nat /\ m * d \in Nat
  BY <1>1, <1>3, <1>4, RowsOrdered, Products
<1>6. \A a, b, c, e \in Nat : b + c < e => a + b + c \in Nat /\ a <= a + b + c /\ a + b + c < a + e
  OBVIOUS
<1> QED
  BY <1>1, <1>2, <1>3, <1>5, <1>6 DEF m, d, o

(* What becomes of the primary colours.                                      *)
LEMMA PrimaryColours ==
  \A colour \in Primaries : \A i \in (1 .. 3) \ {colour.byte} :
    Channels(colour.y, colour.v, colour.u)[i]
      < Channels(colour.y, colour.v, colour.u)[colour.byte]
<1>1. Channels(81, 240, 90) = <<255, 63, 15>>
  BY DEF Channels, YUV_B, YUV_G, YUV_R, Clip, YY, BU, GU, GV, RV
<1>2. Channels(145, 34, 54) = <<0, 248, 32>>
  BY DEF Channels, YUV_B, YUV_G, YUV_R, Clip, YY, BU, GU, GV, RV
<1>3. Channels(41, 110, 240) = <<0, 0, 207>>
  BY DEF Channels, YUV_B, YUV_G, YUV_R, Clip, YY, BU, GU, GV, RV
<1>4. \A colour \in Primaries :
        \/ Channels(colour.y, colour.v, colour.u) = <<255, 63, 15>> /\ colour.byte = 1
        \/ Channels(colour.y, colour.v, colour.u) = <<0, 248, 32>> /\ colour.byte = 2
        \/ Channels(colour.y, colour.v, colour.u) = <<0, 0, 207>> /\ colour.byte = 3
  BY <1>1, <1>2, <1>3 DEF Primaries
<1>5. /\ \A i \in (1 .. 3) \ {1} : <<255, 63, 15>>[i] < <<255, 63, 15>>[1]
      /\ \A i \in (1 .. 3) \ {2} : <<0, 248, 32>>[i] < <<0, 248, 32>>[2]
      /\ \A i \in (1 .. 3) \ {3} : <<0, 0, 207>>[i] < <<0, 0, 207>>[3]
  OBVIOUS
<1> SUFFICES ASSUME NEW colour \in Primaries, NEW i \in (1 .. 3) \ {colour.byte}
             PROVE  Channels(colour.y, colour.v, colour.u)[i]
                      < Channels(colour.y, colour.v, colour.u)[colour.byte]
  OBVIOUS
<1> QED
  BY <1>4, <1>5

(* The bytes of a converted pixel are taken for Y, V and U of its plane.     *)
LEMMA Primary == ASSUME CaptureInv, SnapInv PROVE PrimariesKept
<1> DEFINE w == format.width
           h == format.height
<1> SUFFICES ASSUME NEW p \in DOMAIN rgb, rgb[p] # Unwritten
             PROVE  /\ \A colour \in Primaries :
                         /\ ByteOf(colour, rgb[p].luma) = colour.y
                         /\ ByteOf(colour, rgb[p].u) = colour.v
                         /\ ByteOf(colour, rgb[p].v) = colour.u
  BY PrimaryColours DEF PrimariesKept
<1>1. stage # "none" /\ Blocks /\ format.width % 8 = 0 /\ format \in Formats
  BY DEF SnapInv, CaptureInv, CaptureTypeOK
<1>2. /\ w \in Nat \ {0} /\ h \in Nat /\ w = Stride(0) /\ h = Rows(0)
      /\ Stride(1) = Stride(2) /\ Stride(1) \in Nat /\ 2 * Stride(1) = w
  BY <1>1, Picture, HalfStride
<1>3. p \in 0 .. w * h - 1
  BY <1>1 DEF Blocks
<1> DEFINE row == p \div w
           column == p % w
<1> HIDE DEF w, h
<1>4. row \in 0 .. h - 1 /\ column \in 0 .. w - 1 /\ p = row * w + column
  BY <1>2, <1>3, RowAndColumn
<1> HIDE DEF row, column
<1>5. rgb[p] = IF Converted(row, column) THEN Samples(row, column) ELSE Unwritten
  BY <1>1, <1>4 DEF Blocks, w, h
<1> DEFINE n == Pictured
<1>6. rgb[p] = [luma |-> Pixel(buf_info, n, 0, row, column),
                u    |-> Pixel(buf_info, n, 2, row \div 2, column \div 2),
                v    |-> Pixel(buf_info, n, 1, row \div 2, column \div 2)]
  BY <1>1, <1>4, <1>5, SamplesAre DEF w, h
<1>7. /\ row \in Nat /\ column \in 0 .. Stride(0) - 1
      /\ row \div 2 \in Nat /\ column \div 2 \in 0 .. Stride(1) - 1
      /\ column \div 2 \in 0 .. Stride(2) - 1
  BY <1>2, <1>4
<1>8. 0 \in Planes /\ 1 \in Planes /\ 2 \in Planes
  BY DEF Planes
<1> DEFINE o(i) == buf_info.p_offset[i]
           end(i) == o(i) + max_spans(i) * Stride(i)
<1>9. /\ o(0) \in Nat /\ o(1) \in Nat /\ o(2) \in Nat
      /\ o(1) = end(0) /\ o(2) = end(1) /\ o(1) <= o(2)
  <2>1. /\ o(0) = 0 /\ o(1) = max_spans(0) * Stride(0)
        /\ o(2) = max_spans(0) * Stride(0) + max_spans(1) * Stride(1)
        /\ o(0) \in Nat /\ o(1) \in Nat /\ o(2) \in Nat
    BY <1>1, <1>8, BufferLayout
  <2>2. max_spans(1) * Stride(1) \in Nat
    <3>1. max_spans(1) \in Nat
      BY <1>1, <1>8, RowCounts
    <3> QED
      BY <1>2, <3>1
  <2> QED
    BY <2>1, <2>2
<1>10. /\ rgb[p].luma.at \in Nat /\ rgb[p].luma.at < end(0)
       /\ rgb[p].u.at \in Nat /\ o(2) <= rgb[p].u.at
       /\ rgb[p].v.at \in Nat /\ o(1) <= rgb[p].v.at /\ rgb[p].v.at < end(1)
  <2>1. \A i \in Planes, r \in Nat : \A c \in 0 .. Stride(i) - 1 :
          /\ Pixel(buf_info, n, i, r, c).at \in Nat
          /\ o(i) <= Pixel(buf_info, n, i, r, c).at
          /\ Pixel(buf_info, n, i, r, c).at < end(i)
    BY <1>1, PixelInPlane
  <2> HIDE DEF o, end, n
  <2> QED
    BY <1>6, <1>7, <1>8, <2>1
<1> HIDE DEF end
<1>11. /\ rgb[p].luma.at < o(1) /\ ~(rgb[p].u.at < o(1)) /\ ~(rgb[p].u.at < o(2))
       /\ ~(rgb[p].v.at < o(1)) /\ rgb[p].v.at < o(2)
  BY <1>9, <1>10
<1> QED
  BY <1>11 DEF ByteOf

-----------------------------------------------------------------------------
(* The composition.  The luminances of a frame are those of the scene whose  *)
(* image it is, and what was seen stays in the variables until the frames    *)
(* are compared.                                                             *)
Turned == IF pc # "idle" /\ offset = 0 THEN shot ELSE Pictured

Roles ==
  /\ job \in {"snapshot", "file", "first", "second", "compare"}
  /\ scene \in [Images -> Scenes] /\ temp_pData \in Frames /\ detected \in BOOLEAN
  /\ seen \in Seq(Scenes)
  /\ job = "file" <=> stage # "none"
  /\ job = "snapshot" => format.width % 8 = 0
  /\ calling = TRUE <=> job = "compare"

Stored ==
  /\ job \in {"snapshot", "file"} => Len(seen) <= 1
  /\ pc # "idle" => /\ Len(seen) = IF job = "second" THEN 2 ELSE 1
                    /\ seen[Len(seen)] = scene[Turned]
  /\ job = "second" => temp_pData = seen[1] /\ (pc = "idle" => Len(seen) = 1)
  /\ job = "compare" => pc = "idle" /\ Len(seen) = 2 /\ first = seen[1] /\ image = seen[2]

(* The comparison as the code has it, with > and not >= of both thresholds.  *)
MotionTold ==
  Compared =>
    detected = (Cardinality({p \in Index : abs(seen[1][p] - seen[2][p]) > threshold1})
                  > threshold2)

PicInv == CaptureInv /\ SnapInv /\ SubInv /\ Roles /\ Stored /\ MotionTold

(* The luminances of a frame are those of the scene.                         *)
LEMMA LuminancesAre ==
  ASSUME CaptureInv, offset # 0, scene \in [Images -> Scenes]
  PROVE  Luminances = scene[Pictured] /\ Pictured \in Images
<1> DEFINE w == format.width
           h == format.height
           m == max_spans(0)
<1>1. format \in Formats /\ Pictured \in Images
  BY DEF Pictured, CaptureInv, CaptureTypeOK, Images
<1>2. /\ w \in Nat \ {0} /\ h \in Nat /\ w = Stride(0) /\ h = Rows(0)
      /\ m \in Nat \ {0} /\ format.buf_slice_height = m /\ Offset(0) = 0
      /\ w * h = Pixels /\ 0 \in Planes
  BY <1>1, Picture, RowCounts, SizeAssumption DEF Planes
<1>3. \A row \in 0 .. Rows(0) - 1, column \in 0 .. Stride(0) - 1 :
        frame_buffer[Place(0, row, column)] = Pixel(buf_info, Pictured, 0, row, column)
  BY <1>2 DEF CaptureInv, Contents, Shows
<1>4. ASSUME NEW p \in Index PROVE Luminance(frame_buffer[p]) = scene[Pictured][p]
  <2> HIDE DEF w, h, m
  <2> DEFINE row == p \div w
             column == p % w
             a == row \div m
             b == row % m
  <2>1. p \in 0 .. w * h - 1
    BY <1>2 DEF Index
  <2>2. row \in 0 .. h - 1 /\ column \in 0 .. w - 1 /\ p = row * w + column
    BY <1>2, <2>1, RowAndColumn
  <2> HIDE DEF row, column
  <2>3. row \in Nat /\ column \in Nat
    BY <1>2, <2>2
  <2>4. a \in Nat /\ b \in Nat /\ row = a * m + b
    <3>1. row \div m \in Nat /\ row % m \in 0 .. m - 1 /\ row = (row \div m) * m + (row % m)
      BY <1>2, <2>3, Division
    <3>2. a \in Nat /\ b \in 0 .. m - 1 /\ row = a * m + b
      BY <3>1
    <3> HIDE DEF a, b
    <3> QED
      BY <1>2, <3>2
  <2>5. Place(0, row, column) = p
    <3>1. \A c, d \in Nat : 0 + c + d = c + d
      OBVIOUS
    <3>2. row * w \in Nat
      BY <1>2, <2>3
    <3> QED
      BY <1>2, <2>2, <2>3, <3>1, <3>2 DEF Place
  <2> DEFINE byte == frame_buffer[p]
  <2>6. byte = Pixel(buf_info, Pictured, 0, row, column)
    BY <1>2, <1>3, <2>2, <2>5
  <2>7. byte.image = Pictured /\ byte.slice = a + 1 /\ byte.at = 0 + b * w + column
    <3>1. buf_info.p_offset[0] = 0 /\ buf_info.p_stride[0] = w
      BY <1>1, <1>2, BufferLayout
    <3> QED
      BY <2>6, <3>1 DEF Pixel, m
  <2>8. byte.at < buf_info.p_offset[1]
    <3>1. byte.at < buf_info.p_offset[0] + max_spans(0) * Stride(0)
      BY <1>1, <1>2, <2>2, <2>3, <2>6, PixelInPlane
    <3>2. /\ buf_info.p_offset[0] = 0 /\ buf_info.p_offset[1] = max_spans(0) * Stride(0)
      BY <1>1, BufferLayout
    <3>3. max_spans(0) * Stride(0) \in Nat
      BY <1>2 DEF m
    <3> QED
      BY <3>1, <3>2, <3>3
  <2> HIDE DEF a, b, byte
  <2>9. (byte.slice - 1) * m * w + byte.at = p
    <3>1. byte.slice - 1 = a
      BY <2>4, <2>7
    <3>2. \A c, d, e, f, g \in Nat : c = d * e + f => d * e * g + (0 + f * g + column) = c * g + column
      BY <2>3
    <3>3. a * m * w + (0 + b * w + column) = row * w + column
      BY <1>2, <2>3, <2>4, <3>2
    <3> QED
      BY <2>2, <2>7, <3>1, <3>3
  <2> QED
    BY <1>2, <2>7, <2>8, <2>9 DEF Luminance, byte, w
<1>5. scene[Pictured] \in [Index -> Values]
  BY <1>1, ScenesAssumption DEF Frames
<1> QED
  BY <1>1, <1>4, <1>5 DEF Luminances

(* The image that is captured stays the same while it is.                    *)
LEMMA TurnedStays ==
  ASSUME CaptureInv, LoopStep \/ FillDone \/ BufferFlag PROVE Turned' = Turned
<1>1. /\ shot \in Images /\ slice \in 0 .. Slices /\ offset \in {0, frame_info.size}
      /\ owner \in {"program", "camera"} /\ available \in BOOLEAN
      /\ Turn /\ (pc # "idle" => (offset = 0 => Coming) /\ (offset # 0 => Over))
      /\ format \in Formats /\ buf_num \in 0 .. Slices
  BY DEF CaptureInv, CaptureTypeOK
<1>2. frame_info.size \in Nat /\ frame_info.size # 0 /\ Slices \in Nat /\ Slices >= 2
  BY <1>1, FrameLayout, FrameNotEmpty, SliceCount
<1>3. CASE Leave
  <2>1. offset # 0
    BY <1>3, LeftComplete
  <2> QED
    BY <1>3, <2>1 DEF Leave, Turned, Pictured, camera, unpack
<1>4. CASE NoBuffer \/ Refill \/ BufferFlag
  BY <1>4 DEF NoBuffer, Refill, BufferFlag, Turned, Pictured, camera, unpack, loop
<1>5. CASE TakeBuffer
  <2>1. UNCHANGED <<shot, slice>> /\ pc # "idle" /\ pc' # "idle"
    BY <1>5 DEF TakeBuffer, Looked, camera
  <2>2. CASE buffer.flags = "ENDOFFRAME"
    <3>1. offset = 0 /\ InTurn
      BY <1>5, <2>2, TakenInTurn DEF TakeBuffer
    <3>2. slice = 0
      BY <1>1, <1>5, <2>1, <2>2, <3>1 DEF Coming, TakeBuffer, Looked
    <3>3. offset' # 0
      BY <1>2, <1>5, <2>2, <3>1 DEF TakeBuffer
    <3> QED
      BY <2>1, <3>1, <3>2, <3>3 DEF Turned, Pictured
  <2>3. CASE buffer.flags # "ENDOFFRAME"
    BY <1>5, <2>1, <2>3 DEF TakeBuffer, Turned, Pictured
  <2> QED
    BY <2>2, <2>3
<1>6. CASE FillDone
  <2>1. /\ owner = "camera" /\ pc # "idle" /\ UNCHANGED <<pc, offset>> /\ available = FALSE
    BY <1>1, <1>6 DEF FillDone, Turn, loop, unpack
  <2>2. /\ slice' = IF slice = Slices THEN 0 ELSE slice + 1
        /\ shot' = IF slice = 0 THEN 3 - shot ELSE shot
    BY <1>6 DEF FillDone
  <2>3. CASE offset = 0
    <3>1. slice # 0
      BY <1>1, <2>1, <2>3 DEF Coming
    <3> QED
      BY <2>1, <2>2, <2>3, <3>1 DEF Turned
  <2>4. CASE offset # 0
    <3>1. slice = 0 \/ slice = 1
      BY <1>1, <2>1, <2>4 DEF Over
    <3>2. slice' = slice + 1
      BY <1>2, <2>2, <3>1
    <3> QED
      BY <1>1, <2>1, <2>2, <2>4, <3>1, <3>2 DEF Turned, Pictured, Images
  <2> QED
    BY <2>3, <2>4
<1> QED
  BY <1>3, <1>4, <1>5, <1>6 DEF LoopStep

(* The capture goes on, or another part of the program does.                 *)
LEMMA PicCapture == ASSUME PicInv, [PicNext]_picVars PROVE CaptureInv'
<1>1. [CaptureNext]_captureVars
  BY DEF PicNext, BeginPicture, CaptureStep, CameraStep, LeaveStep, LeaveImage, LeaveFirst,
         LeaveSecond, SnapshotStep, CompareStep, ReturnMotion, CaptureNext, LoopStep, picVars
<1> QED
  BY <1>1, CaptureInvStep DEF PicInv

LEMMA PicSub == ASSUME PicInv, [PicNext]_picVars PROVE SubInv'
<1>1. \/ Capture \/ ComparePixel \/ Return \/ UNCHANGED subVars
  BY DEF PicNext, BeginPicture, CaptureStep, CameraStep, LeaveStep, LeaveImage, LeaveFirst,
         LeaveSecond, SnapshotStep, CompareStep, ReturnMotion, picVars
<1> QED
  BY <1>1, CaptureKeeps, ComparePixelKeeps, OthersKeep DEF PicInv

(* The camera has its turn only during a capture.                            *)
LEMMA PicSnap == ASSUME PicInv, [PicNext]_picVars PROVE SnapInv'
<1>1. /\ CaptureInv /\ SnapInv
      /\ job = "file" <=> stage # "none"
      /\ job = "snapshot" => format.width % 8 = 0
  BY DEF PicInv, Roles
<1>2. CASE LeaveImage
  BY <1>1, <1>2, BeginConversionKeeps DEF LeaveImage
<1>3. CASE SnapshotStep
  BY <1>1, <1>3, SnapStepKeeps DEF SnapshotStep
<1>4. CASE BeginPicture \/ CaptureStep \/ LeaveFirst \/ LeaveSecond
  <2>1. UNCHANGED <<snapVars, format>>
    BY <1>4 DEF BeginPicture, Begin, CaptureStep, TakeBuffer, NoBuffer, Refill, LeaveFirst,
                LeaveSecond, Leave
  <2>2. stage = "none"
    <3>1. stage # "none" => pc = "idle"
      BY <1>1 DEF SnapInv
    <3> QED
      BY <1>1, <1>4, <3>1 DEF BeginPicture, CaptureStep, TakeBuffer, NoBuffer, Refill, Looked,
                              LeaveFirst, LeaveSecond
  <2> QED
    BY <1>1, <2>1, <2>2, SnapStays
<1>5. CASE CameraStep
  <2>1. UNCHANGED <<snapVars, format>> /\ UNCHANGED <<pc, offset, frame_buffer>>
    BY <1>5 DEF CameraStep, FillDone, BufferFlag, loop, unpack
  <2> QED
    BY <1>1, <2>1, SnapStays
<1>6. CASE CompareStep \/ ReturnMotion \/ UNCHANGED picVars
  <2>1. UNCHANGED <<snapVars, format>> /\ UNCHANGED <<pc, offset, frame_buffer>>
    BY <1>6 DEF CompareStep, ReturnMotion, picVars, captureVars, loop, unpack
  <2> QED
    BY <1>1, <2>1, SnapStays
<1> QED
  BY <1>2, <1>3, <1>4, <1>5, <1>6 DEF PicNext, LeaveStep

(* The comparison has counted in how many pixels the two scenes differ.      *)
LEMMA ComparedAll ==
  ASSUME SubInv, at = Pixels, NEW s \in Frames, NEW t \in Frames, first = s, image = t
  PROVE  cnt = Cardinality({p \in Index : abs(s[p] - t[p]) > threshold1})
<1>1. \A p \in Index : p < at
  BY PixelsAssumption DEF Index
<1>2. \A p \in Index : s[p] \in Int /\ t[p] \in Int
  <2>1. \A p \in Index : s[p] \in Values /\ t[p] \in Values
    BY DEF Frames
  <2>2. \A v \in Values : v \in Int
    BY ValuesAssumption
  <2> QED
    BY <2>1, <2>2
<1>3. \A m, n \in Int : abs(m - n) = abs(n - m) /\ abs(m - n) \in Nat
  BY DEF abs
<1>4. \A n \in Nat : n >= threshold1 + 1 <=> n > threshold1
  BY ThresholdAssumption
<1>5. \A p \in Index : (p < at /\ abs(t[p] - s[p]) >= threshold1 + 1)
                          <=> abs(s[p] - t[p]) > threshold1
  BY <1>1, <1>2, <1>3, <1>4
<1>6. {p \in Index : p < at /\ abs(image[p] - first[p]) >= threshold1 + 1}
        = {p \in Index : abs(s[p] - t[p]) > threshold1}
  BY <1>5
<1> QED
  BY <1>6 DEF SubInv, CountsDifferences, Differing

(* What the composition keeps: by the camera and the loop of the capture.    *)
LEMMA CameraKeepsScenes ==
  ASSUME PicInv, CaptureStep \/ CameraStep \/ UNCHANGED picVars
  PROVE  Roles' /\ Stored' /\ MotionTold'
<1>1. /\ UNCHANGED <<format, stage, calling, image, first, job, scene, temp_pData, detected, seen>>
      /\ pc' = "idle" <=> pc = "idle"
  BY DEF CaptureStep, CameraStep, TakeBuffer, NoBuffer, Refill, FillDone, BufferFlag, Looked,
         loop, snapVars, subVars, picVars, captureVars
<1>2. Turned' = Turned
  <2>1. CASE CaptureStep \/ CameraStep
    BY <2>1, TurnedStays DEF PicInv, CaptureStep, CameraStep, LoopStep
  <2>2. CASE UNCHANGED picVars
    BY <2>2 DEF picVars, captureVars, loop, camera, unpack, Turned, Pictured
  <2> QED
    BY <2>1, <2>2
<1>3. Roles'
  BY <1>1 DEF PicInv, Roles
<1>4. Stored'
  BY <1>1, <1>2 DEF PicInv, Stored
<1>5. MotionTold'
  BY <1>1 DEF PicInv, MotionTold, Compared
<1> QED
  BY <1>3, <1>4, <1>5

(* A capture begins: the scene of its image is seen.                         *)
LEMMA BeginKeepsScenes ==
  ASSUME PicInv, BeginPicture PROVE Roles' /\ Stored' /\ MotionTold'
<1>1. PICK s \in Scenes :
        /\ scene' = [scene EXCEPT ![shot'] = s]
        /\ seen' = IF job = "second" THEN Append(seen, s) ELSE <<s>>
  BY DEF BeginPicture
<1>2. /\ UNCHANGED <<format, stage, calling, image, first, job, temp_pData, detected>>
      /\ pc = "idle" /\ pc' = "test" /\ offset' = 0 /\ shot' \in Images
      /\ job \in {"snapshot", "first", "second"}
  BY DEF BeginPicture, Begin, snapVars, subVars, PicInv, CaptureInv, CaptureTypeOK, Images
<1>3. Turned' = shot'
  BY <1>2 DEF Turned
<1>4. /\ seen \in Seq(Scenes) /\ scene \in [Images -> Scenes]
      /\ job = "second" => Len(seen) = 1 /\ temp_pData = seen[1]
  BY <1>2 DEF PicInv, Roles, Stored
<1>5. scene' \in [Images -> Scenes] /\ scene'[shot'] = s
  BY <1>1, <1>2, <1>4
<1>6. /\ seen' \in Seq(Scenes) /\ Len(seen') = IF job = "second" THEN 2 ELSE 1
      /\ seen'[Len(seen')] = s
      /\ job = "second" => seen'[1] = seen[1]
  BY <1>1, <1>4
<1>7. Roles'
  BY <1>2, <1>5, <1>6 DEF PicInv, Roles
<1>8. Stored'
  BY <1>2, <1>3, <1>4, <1>5, <1>6 DEF Stored
<1>9. MotionTold'
  BY <1>2 DEF MotionTold, Compared
<1> QED
  BY <1>7, <1>8, <1>9

(* A capture is left: the luminances of its frame are those of the scene.    *)
LEMMA LeaveKeepsScenes ==
  ASSUME PicInv, LeaveStep PROVE Roles' /\ Stored' /\ MotionTold'
<1>1. Leave /\ CaptureInv /\ Roles /\ Stored
  BY DEF PicInv, LeaveStep, LeaveImage, LeaveFirst, LeaveSecond
<1>2. /\ offset # 0 /\ pc # "idle" /\ pc' = "idle" /\ UNCHANGED <<format>>
  BY <1>1, LeftComplete DEF Leave, Looked
<1>3. Luminances = scene[Pictured] /\ Turned = Pictured
  BY <1>1, <1>2, LuminancesAre DEF Roles, Turned
<1>4. /\ Len(seen) = IF job = "second" THEN 2 ELSE 1
      /\ seen[Len(seen)] = Luminances /\ seen \in Seq(Scenes)
  BY <1>1, <1>2, <1>3 DEF Stored, Roles
<1>5. \A k \in 1 .. Len(seen) : seen[k] \in Scenes /\ seen[k] \in Frames
  BY <1>4, ScenesAssumption
<1>6. CASE LeaveImage
  <2>1. /\ UNCHANGED <<calling, scene, temp_pData, detected, seen>> /\ job = "snapshot"
        /\ job' = "file" /\ stage' = "convert"
    BY <1>6 DEF LeaveImage, BeginConversion, subVars
  <2>2. Roles' /\ Stored'
    BY <1>1, <1>2, <1>4, <2>1 DEF Roles, Stored
  <2> QED
    BY <2>1, <2>2 DEF MotionTold, Compared
<1>7. CASE LeaveFirst
  <2>1. /\ UNCHANGED <<calling, scene, detected, seen, stage>> /\ job = "first"
        /\ job' = "second" /\ temp_pData' = Luminances
    BY <1>7 DEF LeaveFirst, subVars, snapVars
  <2>2. temp_pData' = seen[1] /\ seen[1] \in Frames /\ Len(seen) = 1
    BY <1>4, <1>5, <2>1
  <2>3. Roles' /\ Stored'
    BY <1>1, <1>2, <2>1, <2>2 DEF Roles, Stored
  <2> QED
    BY <2>1, <2>3 DEF MotionTold, Compared
<1>8. CASE LeaveSecond
  <2>1. /\ UNCHANGED <<scene, temp_pData, detected, seen, stage>> /\ job = "second"
        /\ job' = "compare" /\ calling' = TRUE
        /\ image' = Luminances /\ first' = temp_pData
    BY <1>8 DEF LeaveSecond, Capture, FirstFrame, snapVars
  <2>2. image' = seen[2] /\ first' = seen[1] /\ Len(seen) = 2
    BY <1>1, <1>4, <2>1 DEF Stored
  <2>3. Roles' /\ Stored'
    BY <1>1, <1>2, <2>1, <2>2 DEF Roles, Stored
  <2> QED
    BY <2>1, <2>3 DEF MotionTold, Compared
<1> QED
  BY <1>6, <1>7, <1>8 DEF LeaveStep

LEMMA SnapshotKeepsScenes ==
  ASSUME PicInv, SnapshotStep PROVE Roles' /\ Stored' /\ MotionTold'
<1>1. /\ UNCHANGED <<format, pc, calling, scene, temp_pData, detected, seen>> /\ job = "file"
      /\ job' = IF stage' = "none" THEN "first" ELSE "file"
  BY DEF SnapshotStep, captureVars, loop, subVars
<1>2. pc = "idle" /\ Len(seen) <= 1 /\ Roles /\ seen \in Seq(Scenes)
  BY <1>1 DEF PicInv, Roles, Stored, SnapInv
<1>3. Roles'
  BY <1>1, <1>2 DEF Roles
<1>4. Stored'
  BY <1>1, <1>2 DEF Stored
<1>5. MotionTold'
  BY <1>1, <1>2 DEF MotionTold, Compared
<1> QED
  BY <1>3, <1>4, <1>5

LEMMA CompareKeepsScenes ==
  ASSUME PicInv, CompareStep PROVE Roles' /\ Stored' /\ MotionTold'
<1>1. /\ UNCHANGED <<format, pc, stage, calling, image, first, job, scene, temp_pData, detected, seen>>
      /\ job = "compare"
  BY DEF CompareStep, ComparePixel, captureVars, loop, snapVars
<1>2. Roles' /\ Stored'
  BY <1>1 DEF PicInv, Roles, Stored
<1> QED
  BY <1>1, <1>2 DEF MotionTold, Compared

(* The comparison is over: what it returns is about the scenes that were     *)
(* seen.                                                                     *)
LEMMA ReturnKeepsScenes ==
  ASSUME PicInv, ReturnMotion PROVE Roles' /\ Stored' /\ MotionTold'
<1>1. /\ UNCHANGED <<format, pc, stage, scene, temp_pData, seen>> /\ job = "compare"
      /\ job' = "first" /\ calling' = FALSE /\ at = Pixels /\ detected' = (cnt > threshold2)
  BY DEF ReturnMotion, Return, captureVars, loop, snapVars
<1>2. /\ pc = "idle" /\ Len(seen) = 2 /\ first = seen[1] /\ image = seen[2] /\ Roles /\ SubInv
      /\ seen \in Seq(Scenes)
  BY <1>1 DEF PicInv, Stored, Roles
<1>3. seen[1] \in Frames /\ seen[2] \in Frames
  BY <1>2, ScenesAssumption
<1>4. cnt = Cardinality({p \in Index : abs(seen[1][p] - seen[2][p]) > threshold1})
  BY <1>1, <1>2, <1>3, ComparedAll
<1>5. Roles'
  BY <1>1, <1>2 DEF Roles
<1>6. Stored'
  BY <1>1, <1>2 DEF Stored
<1>7. MotionTold'
  BY <1>1, <1>4 DEF MotionTold, Compared
<1> QED
  BY <1>5, <1>6, <1>7

LEMMA PicInvStep == ASSUME PicInv, [PicNext]_picVars PROVE PicInv'
<1>1. CaptureInv' /\ SnapInv' /\ SubInv'
  BY PicCapture, PicSnap, PicSub
<1>2. Roles' /\ Stored' /\ MotionTold'
  BY CameraKeepsScenes, BeginKeepsScenes, LeaveKeepsScenes, SnapshotKeepsScenes,
     CompareKeepsScenes, ReturnKeepsScenes DEF PicNext
<1> QED
  BY <1>1, <1>2 DEF PicInv

LEMMA PicInvInit == PicInit => PicInv
<1> SUFFICES ASSUME PicInit PROVE PicInv
  OBVIOUS
<1>1. CaptureInv /\ SubInv
  BY CaptureInvInit, SubInvInit DEF PicInit
<1>2. SnapInv
  BY DEF PicInit, SnapInit, SnapInv
<1>3. Roles
  <2>1. scene \in [Images -> Scenes]
    BY DEF PicInit
  <2>2. temp_pData \in Frames
    BY <1>1 DEF PicInit, SubInv, SubTypeOK
  <2>3. job = IF format.width % 8 = 0 THEN "snapshot" ELSE "first"
    BY DEF PicInit
  <2>4. detected = FALSE /\ seen = <<>> /\ stage = "none" /\ calling = FALSE
    BY DEF PicInit, SnapInit, SubInit
  <2>5. seen \in Seq(Scenes) /\ detected \in BOOLEAN
    <3>1. <<>> \in Seq(Scenes)
      OBVIOUS
    <3>2. detected = FALSE
      BY <2>4
    <3> QED
      BY <2>4, <3>1, <3>2
  <2>6. /\ job \in {"snapshot", "file", "first", "second", "compare"}
        /\ job = "file" <=> stage # "none"
        /\ job = "snapshot" => format.width % 8 = 0
        /\ calling = TRUE <=> job = "compare"
    BY <2>3, <2>4
  <2> QED
    BY <2>1, <2>2, <2>5, <2>6 DEF Roles
<1>4. Stored
  BY DEF PicInit, CaptureInit, Stored
<1>5. MotionTold
  BY DEF PicInit, MotionTold, Compared
<1> QED
  BY <1>1, <1>2, <1>3, <1>4, <1>5 DEF PicInv

-----------------------------------------------------------------------------
(* The invariant holds for pictures of every format, of whatever scenes.     *)
THEOREM PicInvariance == PicSpec => []PicInv
BY PicInvInit, PicInvStep, PTL DEF PicSpec

(* The variables of the three parts and of their composition have their      *)
(* types: the pointers of the conversion stay within the frame, the loop of  *)
(* the comparison within the picture.                                        *)
THEOREM PicturesTypeCorrect == PicSpec => []PicTypeOK
<1>1. PicInv => PicTypeOK
  <2> SUFFICES ASSUME PicInv PROVE PicTypeOK
    OBVIOUS
  <2>1. CaptureTypeOK /\ SnapTypeOK /\ SubTypeOK
    BY SnapTypes DEF PicInv, CaptureInv, SubInv
  <2>2. /\ job = "compare" => Len(seen) = 2
        /\ calling \in BOOLEAN /\ (calling = TRUE <=> job = "compare")
    BY <2>1 DEF PicInv, Roles, Stored, SubTypeOK
  <2> QED
    BY <2>1, <2>2 DEF PicTypeOK, PicInv, Roles
<1> QED
  BY <1>1, PicInvariance, PTL

(* memcpy stays inside the frame, whatever the frame is captured for.        *)
THEOREM PicFramesFit == PicSpec => []FrameFits
<1>1. PicInv => FrameFits
  BY Fits DEF PicInv
<1> QED
  BY <1>1, PicInvariance, PTL

(* Every frame that is captured is one whole picture.                        *)
THEOREM PicPicturesWhole == PicSpec => []WholePicture
<1>1. PicInv => WholePicture
  BY Whole DEF PicInv
<1> QED
  BY <1>1, PicInvariance, PTL

(* The file that the server is sent shows the picture that was captured.     *)
THEOREM SnapshotCorrect == PicSpec => []SnapshotShowsPicture
<1>1. PicInv => SnapshotShowsPicture
  BY SnapShows DEF PicInv
<1> QED
  BY <1>1, PicInvariance, PTL

(* The primary colours come out as they are.                                 *)
THEOREM ColoursCorrect == PicSpec => []PrimariesKept
<1>1. PicInv => PrimariesKept
  BY Primary DEF PicInv
<1> QED
  BY <1>1, PicInvariance, PTL

(* What is more than threshold1 apart is at least threshold1 apart, and what *)
(* is at least threshold1 + 1 apart is more.                                 *)
LEMMA ToldIsSeen == ASSUME PicInv PROVE MotionSeen
<1> SUFFICES ASSUME Compared PROVE MotionSeen
  BY DEF MotionSeen
<1> DEFINE Apart == {p \in Index : abs(seen[1][p] - seen[2][p]) > threshold1}
           Above == {p \in Index : abs(seen[1][p] - seen[2][p]) >= threshold1 + 1}
           Least == {p \in Index : abs(seen[1][p] - seen[2][p]) >= threshold1}
<1>1. seen[1] \in [Index -> Int] /\ seen[2] \in [Index -> Int]
  <2>1. seen \in Seq(Scenes) /\ Len(seen) = 2
    BY DEF PicInv, Roles, Compared
  <2>2. seen[1] \in Frames /\ seen[2] \in Frames
    BY <2>1, ScenesAssumption
  <2>3. \A v \in Values : v \in Int
    BY ValuesAssumption
  <2>4. \A f \in Frames : f \in [Index -> Int]
    BY <2>3 DEF Frames
  <2> QED
    BY <2>2, <2>4
<1>2. Above = Apart /\ Apart \subseteq Least
  BY <1>1, ThresholdAssumption DEF abs
<1>3. IsFiniteSet(Least)
  <2>1. IsFiniteSet(Index)
    BY PixelsAssumption, FS_Interval DEF Index
  <2> QED
    BY <2>1, FS_Subset
<1>4. Cardinality(Apart) <= Cardinality(Least)
  BY <1>2, <1>3, FS_Subset
<1>5. Cardinality(Apart) \in Nat /\ Cardinality(Least) \in Nat
  BY <1>2, <1>3, FS_Subset, FS_CardinalityType
<1>6. detected = (Cardinality(Apart) > threshold2)
  BY Zenon DEF PicInv, MotionTold
<1>7. Changed(threshold1 + 1) = Cardinality(Apart) /\ Changed(threshold1) = Cardinality(Least)
  BY <1>2 DEF Changed
<1> HIDE DEF Apart, Above, Least
<1>8. Cardinality(Apart) > threshold2 => Cardinality(Least) >= threshold2
  BY <1>4, <1>5, CountAssumption
<1> QED
  BY <1>6, <1>7, <1>8, Zenon DEF MotionSeen

(* There is motion if the scenes that the camera saw differ by more than the *)
(* thresholds, and only if they reach them.                                  *)
THEOREM MotionCorrect == PicSpec => []MotionSeen
<1>1. PicInv => MotionSeen
  BY ToldIsSeen
<1> QED
  BY <1>1, PicInvariance, PTL
=============================================================================
