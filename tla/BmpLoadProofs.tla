--------------------------- MODULE BmpLoadProofs ---------------------------
(***************************************************************************)
(* The invariants of BmpLoad for images, buffers and files of every size:  *)
(* nothing is read that is not in the buffer, every pixel of a loaded      *)
(* image comes from its place in the file, and a file that is long enough  *)
(* is loaded.                                                              *)
(***************************************************************************)
EXTENDS BmpLoad, TLAPS

(* The byte the next pixel begins in.                                      *)
Here == ptr + offset

(* Which pixels have been read.                                            *)
Done(i, j) == pc = "loaded" \/ Row(j) < Row(y) \/ (j = y /\ i < x)

(* Headers are read_header's, and a process begins an image with nothing   *)
(* read.                                                                   *)
Images ==
  /\ IF pc = "header" THEN image = NoImage ELSE image \in Image /\ WellFormed(image)
  /\ pc \in {"header", "load"} => x = 0 /\ bit = 0 /\ ptr = 0 /\ offset = 0 /\ blen = 0
                                  /\ linebytes = 0
  /\ pc \in {"header", "load"} => read < BUF_SIZE
  /\ pc = "pixels" => ~image.rle

(* The next pixel is where the rows and the pixels that were read end.     *)
Position ==
  pc = "pixels" =>
    /\ Here + linebytes = (Row(y) + 1) * RowBytes
    /\ (RowBytes - linebytes) * 8 + bit = x * image.bpp

(* Those that were read are in their cells, the other cells are empty.     *)
Filled ==
  pc \in {"pixels", "loaded"} =>
    /\ DOMAIN pixbuf = 0..(image.width * image.height - 1)
    /\ \A i \in 0..(image.width - 1), j \in 0..(image.height - 1) :
         IF Done(i, j)
         THEN /\ pixbuf[i + j * image.width] = Place(i, j)
              /\ Place(i, j)[1] + (image.bpp + 7) \div 8 <= length
         ELSE pixbuf[i + j * image.width] = <<>>

IInv == TypeOK /\ Images /\ Position /\ Filled /\ CompleteLoads
-----------------------------------------------------------------------------
(* A product grows with its factor.                                        *)
LEMMA Product ==
  ASSUME NEW a \in Nat, NEW b \in Nat, NEW r \in Nat
  PROVE  /\ a * r \in Nat /\ (a + 1) * r = a * r + r
         /\ a < b => a * r + r <= b * r
         /\ a <= b => a * r <= b * r
  <1>1. a * r \in Nat /\ (a + 1) * r = a * r + r
    OBVIOUS
  <1>2. ASSUME a <= b PROVE a * r <= b * r
    <2>1. PICK d \in Nat : b = a + d
      <3>1. b - a \in Nat /\ b = a + (b - a)
        BY <1>2
      <3> QED
        BY <3>1
    <2>2. b * r = a * r + d * r /\ d * r \in Nat
      BY <2>1
    <2> QED
      BY <1>1, <2>2
  <1>3. ASSUME a < b PROVE a * r + r <= b * r
    <2>1. PICK d \in Nat : b = a + 1 + d
      <3>1. b - a - 1 \in Nat /\ b = a + 1 + (b - a - 1)
        BY <1>3
      <3> QED
        BY <3>1
    <2>2. b * r = a * r + r + d * r /\ d * r \in Nat
      BY <2>1
    <2> QED
      BY <1>1, <2>2
  <1> QED
    BY <1>1, <1>2, <1>3

(* Every pixel of an image has a cell of its own.                          *)
LEMMA Cells ==
  ASSUME NEW w \in Nat, NEW h \in Nat, NEW i \in 0..(w - 1), NEW j \in 0..(h - 1)
  PROVE  /\ i + j * w \in 0..(w * h - 1)
         /\ \A k \in 0..(w - 1), l \in 0..(h - 1) : i + j * w = k + l * w => i = k /\ j = l
  <1>1. j * w \in Nat /\ j * w + w <= h * w /\ h * w = w * h
    BY Product
  <1>2. i + j * w \in 0..(w * h - 1)
    <2>1. PICK p \in Nat, q \in Nat : p = j * w /\ q = w * h /\ p + w <= q
      BY <1>1
    <2> QED
      BY <2>1
  <1>3. ASSUME NEW k \in 0..(w - 1), NEW l \in 0..(h - 1), i + j * w = k + l * w
        PROVE  i = k /\ j = l
    <2>1. PICK p \in Nat, q \in Nat : p = j * w /\ q = l * w /\ i + p = k + q
      <3>1. j * w \in Nat /\ l * w \in Nat
        BY Product
      <3> QED
        BY <1>3, <3>1
    <2>2. ~(j < l)
      <3>1. j < l => p + w <= q
        BY <2>1, Product
      <3> QED
        BY <2>1, <3>1
    <2>3. ~(l < j)
      <3>1. l < j => q + w <= p
        BY <2>1, Product
      <3> QED
        BY <2>1, <3>1
    <2>4. j = l
      BY <2>2, <2>3
    <2> QED
      BY <2>1, <2>4
  <1> QED
    BY <1>2, <1>3

(* A row is the fewest words of 32 bits that hold its pixels.              *)
LEMMA RowShape ==
  ASSUME image.width \in Nat, image.bpp \in Nat
  PROVE  /\ RowBytes \in Nat /\ RowBytes = 4 * ((image.width * image.bpp + 31) \div 32)
         /\ image.width * image.bpp <= 8 * RowBytes
         /\ 8 * RowBytes <= image.width * image.bpp + 31
  <1>1. PICK a \in Nat : a = image.width * image.bpp
    BY Product
  <1>2. PICK q \in Nat, m \in 0..31 : a = 32 * q + m /\ m = a % 32
    <2>1. a \div 32 \in Nat /\ a % 32 \in 0..31 /\ a = 32 * (a \div 32) + (a % 32)
      OBVIOUS
    <2> QED
      BY <2>1
  <1>3. PICK p \in 0..31 : p = (32 - m) % 32 /\ (m = 0 => p = 0) /\ (m > 0 => p = 32 - m)
    <2>1. m = 0 => (32 - m) % 32 = 0
      OBVIOUS
    <2>2. m > 0 => (32 - m) % 32 = 32 - m
      OBVIOUS
    <2> QED
      BY <2>1, <2>2
  <1>4. PaddingBits = p
    BY <1>1, <1>2, <1>3 DEF PaddingBits
  <1>5. RowBytes = (a + p) \div 8
    BY <1>1, <1>4 DEF RowBytes
  <1>6. a + p = 32 * q + (IF m = 0 THEN 0 ELSE 32)
    BY <1>2, <1>3
  <1>7. (a + p) \div 8 = 4 * q + (IF m = 0 THEN 0 ELSE 4)
    BY <1>6
  <1>8. (a + 31) \div 32 = q + (IF m = 0 THEN 0 ELSE 1)
    BY <1>2
  <1>9. PICK r \in Nat, k \in Nat :
          r = (a + p) \div 8 /\ k = (a + 31) \div 32 /\ r = 4 * k /\ a <= 8 * r /\ 8 * r <= a + 31
    <2>1. (a + p) \div 8 \in Nat /\ (a + 31) \div 32 \in Nat
      BY <1>7, <1>8
    <2> QED
      BY <1>2, <1>7, <1>8, <2>1
  <1> QED
    BY <1>1, <1>5, <1>9

(* How many bytes a pixel that begins at bit t takes, and where it ends.   *)
Bytes(b, t) == IF b >= 8 THEN b \div 8 ELSE IF t + b >= 8 THEN 1 ELSE 0
BitAfter(b, t) == IF t + b >= 8 THEN 0 ELSE t + b

(* Pixel i of a row of r bytes lies in the l bytes that are left of it, and *)
(* the next begins where it ends.                                          *)
RowAfter(b, r, l, t, i) ==
  /\ Bytes(b, t) \in 0..4 /\ (b + 7) \div 8 \in 1..4 /\ (b + 7) \div 8 <= l
  /\ l - Bytes(b, t) \in 0..r /\ Bytes(b, t) <= (b + 7) \div 8
  /\ b >= 8 => Bytes(b, t) = (b + 7) \div 8 /\ b \div 8 = (b + 7) \div 8
  /\ BitAfter(b, t) \in 0..7 /\ (b >= 8 => BitAfter(b, t) = 0)
  /\ (r - (l - Bytes(b, t))) * 8 + BitAfter(b, t) = (i + 1) * b

(* There is another pixel in the row as long as w were not read.           *)
LEMMA RowGoesOn ==
  ASSUME NEW b \in {1, 4, 8, 16, 24, 32}, NEW w \in Nat, NEW r \in Nat, NEW v \in Nat,
         v = w * b, v <= 8 * r, NEW l \in 0..r, NEW t \in 0..7, b >= 8 => t = 0,
         NEW i \in 0..(w - 1), (r - l) * 8 + t = i * b
  PROVE  RowAfter(b, r, l, t, i)
  <1>1. CASE b = 1
    BY <1>1 DEF RowAfter, Bytes, BitAfter
  <1>2. CASE b = 4
    BY <1>2 DEF RowAfter, Bytes, BitAfter
  <1>3. CASE b = 8
    BY <1>3 DEF RowAfter, Bytes, BitAfter
  <1>4. CASE b = 16
    BY <1>4 DEF RowAfter, Bytes, BitAfter
  <1>5. CASE b = 24
    BY <1>5 DEF RowAfter, Bytes, BitAfter
  <1>6. CASE b = 32
    BY <1>6 DEF RowAfter, Bytes, BitAfter
  <1> QED
    BY <1>1, <1>2, <1>3, <1>4, <1>5, <1>6
-----------------------------------------------------------------------------
(* What the header says.                                                   *)
LEMMA ImageShape ==
  ASSUME image \in Image
  PROVE  /\ image.width \in Nat \ {0} /\ image.height \in Nat \ {0}
         /\ image.bpp \in {1, 4, 8, 16, 24, 32} /\ image.bpp \in Nat
         /\ image.flipped \in BOOLEAN /\ image.rle \in BOOLEAN
  <1>1. /\ image.width \in Widths /\ image.height \in Heights /\ image.bpp \in Depths
        /\ image.flipped \in BOOLEAN /\ image.rle \in BOOLEAN
    BY DEF Image
  <1>2. image.bpp \in {1, 4, 8, 16, 24, 32}
    BY <1>1, BmpLoadAssumption
  <1>3. image.bpp \in Nat
    BY <1>2
  <1> QED
    BY <1>1, <1>2, <1>3, BmpLoadAssumption

(* The rows that are read lie in the part of the file there must be.       *)
LEMMA RowInFile ==
  ASSUME image \in Image, NEW j \in 0..(image.height - 1)
  PROVE  /\ Row(j) \in 0..(image.height - 1) /\ Row(j) * RowBytes \in Nat
         /\ (Row(j) + 1) * RowBytes = Row(j) * RowBytes + RowBytes
         /\ (Row(j) + 1) * RowBytes <= Total(image) /\ Total(image) \in Nat
  <1>1. PICK h \in Nat, r \in Nat : h = image.height /\ r = RowBytes /\ Total(image) = h * r
    <2>1. RowBytes \in Nat /\ RowBytes = 4 * ((image.width * image.bpp + 31) \div 32)
      BY ImageShape, RowShape
    <2>2. PICK k \in Int : k = (image.width * image.bpp + 31) \div 32
      <3>1. image.width * image.bpp \in Nat
        BY ImageShape, Product
      <3> QED
        BY <3>1
    <2>3. Total(image) = image.height * RowBytes
      BY <2>1, <2>2, ImageShape DEF Total
    <2> QED
      BY <2>1, <2>3, ImageShape
  <1>2. PICK d \in 0..(h - 1) : d = Row(j)
    BY <1>1, ImageShape DEF Row
  <1>3. d * r \in Nat /\ (d + 1) * r = d * r + r /\ d * r + r <= h * r /\ h * r \in Nat
    BY Product
  <1> QED
    BY <1>1, <1>2, <1>3

(* What is taken out of the buffer, filled again or not, was in it.        *)
LEMMA TakenIsThere ==
  ASSUME IInv, pc = "pixels", NEW n \in 0..4, NEW short \in BOOLEAN,
         short => Enough(Refilled), ~short => n <= blen
  PROVE  LET b == IF short THEN Refilled ELSE Held
         IN  /\ b.ptr \in Nat /\ b.offset \in Nat /\ b.ptr + b.offset = Here
             /\ b.read \in Nat /\ b.read <= length /\ b.ptr <= b.read /\ Here + n <= b.read
             /\ b.read - b.ptr - b.offset - n \in 0..BUF_SIZE
             /\ b.ptr + (b.offset + n) + (b.read - b.ptr - b.offset - n) = b.read
  <1>1. PICK s \in Nat, len \in Nat, rd \in Nat, p \in Nat, o \in Nat, bl \in Nat :
          /\ s = BUF_SIZE /\ len = length /\ rd = read /\ p = ptr /\ o = offset /\ bl = blen
          /\ s >= 4 /\ bl <= s /\ p + o + bl = rd /\ rd <= len
    BY BmpLoadAssumption DEF IInv, TypeOK
  <1>2. CASE ~short
    <2>1. Held.ptr = p /\ Held.offset = o /\ Held.read = rd
      BY <1>1 DEF Held
    <2>2. n <= bl
      BY <1>1, <1>2
    <2>3. rd - p - o - n = bl - n /\ p + o + n <= rd /\ p <= rd
      BY <1>1, <2>2
    <2> QED
      BY <1>1, <1>2, <2>1, <2>2, <2>3 DEF Here
  <1>3. CASE short
    <2>1. PICK rr \in Nat : /\ rr = IF rd - bl + s > len THEN len ELSE rd - bl + s
                            /\ Refilled = [ptr |-> rd - bl, offset |-> 0, read |-> rr]
      BY <1>1 DEF Refilled
    <2>2. Refilled.ptr = rd - bl /\ Refilled.offset = 0 /\ Refilled.read = rr
      BY <2>1
    <2>3. rr - (rd - bl) >= 4
      BY <1>3, <2>2 DEF Enough, channels
    <2>4. rd - bl = p + o /\ rr <= len /\ rr - (rd - bl) <= s
      BY <1>1, <2>1
    <2> QED
      BY <1>1, <1>3, <2>2, <2>3, <2>4 DEF Here
  <1> QED
    BY <1>2, <1>3

(* The buffer cannot be filled at the end of the file only.                *)
LEMMA NotEnough ==
  ASSUME IInv, pc = "pixels", NEW n \in 1..4, blen < n, ~Enough(Refilled),
         NEW t \in Nat, Here + n <= t
  PROVE  length < t + channels - 1
  <1>1. PICK s \in Nat, len \in Nat, rd \in Nat, p \in Nat, o \in Nat, bl \in Nat :
          /\ s = BUF_SIZE /\ len = length /\ rd = read /\ p = ptr /\ o = offset /\ bl = blen
          /\ s >= 4 /\ p + o + bl = rd /\ rd <= len /\ bl < n /\ p + o + n <= t
    BY BmpLoadAssumption DEF IInv, TypeOK, Here
  <1>2. PICK rr \in Nat : /\ rr = IF rd - bl + s > len THEN len ELSE rd - bl + s
                          /\ Refilled = [ptr |-> rd - bl, offset |-> 0, read |-> rr]
    BY <1>1 DEF Refilled
  <1>3. ~(rr > rd) \/ ~(rr - (rd - bl) >= 4)
    BY <1>1, <1>2 DEF Enough, channels
  <1>4. len < t + 3
    BY <1>1, <1>2, <1>3
  <1> QED
    BY <1>1, <1>4 DEF channels
-----------------------------------------------------------------------------
(* Initially no image is read.                                             *)
LEMMA InitIInv == ASSUME Init PROVE IInv
  <1>1. RowBytes = 4
    <2>1. image.width = 1 /\ image.bpp = 1
      BY DEF Init, NoImage
    <2> QED
      BY <2>1, RowShape
  <1>2. TypeOK
    <2>1. image.width = 1
      BY DEF Init, NoImage
    <2>2. /\ pc = "header" /\ length = 0 /\ read = 0 /\ ptr = 0 /\ offset = 0 /\ blen = 0
          /\ x = 0 /\ linebytes = 0 /\ bit = 0 /\ masks = "555" /\ ncolors = 5
      BY DEF Init
    <2>3. /\ length \in Nat /\ read \in 0..length /\ ptr \in 0..read /\ offset \in Nat
          /\ blen \in 0..BUF_SIZE /\ bit \in 0..7 /\ x \in 0..image.width
          /\ linebytes \in 0..RowBytes /\ ncolors \in {5, 6}
      BY <1>1, <2>1, <2>2, BmpLoadAssumption
    <2>4. pc # "pixels" /\ masks \in {"555", "565", "888"}
      BY <2>2
    <2> QED
      BY <2>2, <2>3, <2>4 DEF TypeOK
  <1>3. Images
    BY BmpLoadAssumption DEF Init, Images, NoImage
  <1> QED
    BY <1>2, <1>3 DEF Init, IInv, Position, Filled, CompleteLoads

(* An image that gave up stays as it is until it is destroyed.             *)
LEMMA Failing ==
  ASSUME IInv, Fail, pc = "pixels", length < Total(image) + channels - 1
  PROVE  IInv'
  <1>1. /\ pc' = "failed"
        /\ UNCHANGED <<image, length, read, ptr, offset, blen, x, y, linebytes, bit, pixbuf,
                       masks, ncolors>>
    BY DEF Fail, buffer
  <1>2. TypeOK'
    BY <1>1 DEF IInv, TypeOK, RowBytes, PaddingBits
  <1>3. Images' /\ Position' /\ Filled'
    BY <1>1 DEF IInv, Images, Position, Filled, WellFormed
  <1>4. CompleteLoads'
    BY <1>1 DEF CompleteLoads, Total
  <1> QED
    BY <1>2, <1>3, <1>4 DEF IInv

(* The next image's header.                                                *)
LEMMA HeaderStep == ASSUME IInv, ReadHeader PROVE IInv'
  <1>1. /\ pc = "header" /\ pc' = "load" /\ image' \in Image /\ WellFormed(image')
        /\ length' \in Nat /\ read' \in 0..(IF length' < BUF_SIZE THEN length' ELSE BUF_SIZE - 1)
        /\ UNCHANGED <<ptr, offset, blen, x, y, linebytes, bit, pixbuf>>
    BY DEF ReadHeader
  <1>2. /\ x = 0 /\ bit = 0 /\ ptr = 0 /\ offset = 0 /\ blen = 0 /\ linebytes = 0
    BY <1>1 DEF IInv, Images
  <1>3. read' \in 0..length' /\ read' < BUF_SIZE
    BY <1>1, BmpLoadAssumption
  <1>4. /\ image'.width \in Nat /\ image'.bpp \in Nat /\ RowBytes' \in Nat
    <2>1. image'.width \in Widths /\ image'.bpp \in Depths
      BY <1>1 DEF Image
    <2>2. image'.width \in Nat /\ image'.bpp \in Nat
      <3>1. image'.bpp \in {1, 4, 8, 16, 24, 32}
        BY <2>1, BmpLoadAssumption
      <3>2. image'.bpp \in Nat
        BY <3>1
      <3>3. image'.width \in Nat
        BY <2>1, BmpLoadAssumption
      <3> QED
        BY <3>2, <3>3
    <2>3. PICK w \in Nat, b \in Nat, a \in Nat : w = image'.width /\ b = image'.bpp /\ a = w * b
      BY <2>2, Product
    <2>4. (a + ((32 - (a % 32)) % 32)) \div 8 \in Nat
      OBVIOUS
    <2> QED
      BY <2>2, <2>3, <2>4 DEF RowBytes, PaddingBits
  <1>5. masks' \in {"555", "565", "888"} /\ ncolors' \in {5, 6}
    BY <1>1 DEF ReadHeader, IInv, TypeOK, Green, Image
  <1>6. TypeOK'
    BY <1>1, <1>2, <1>3, <1>4, <1>5, BmpLoadAssumption DEF TypeOK
  <1>7. Images' /\ Position' /\ Filled' /\ CompleteLoads'
    BY <1>1, <1>2, <1>3 DEF Images, Position, Filled, CompleteLoads, WellFormed
  <1> QED
    BY <1>6, <1>7 DEF IInv

(* Before its first pixel.                                                 *)
LEMMA LoadStartStep == ASSUME IInv, LoadStart PROVE IInv'
  <1>1. /\ pc = "load" /\ image \in Image /\ WellFormed(image)
        /\ x = 0 /\ bit = 0 /\ ptr = 0 /\ offset = 0 /\ read < BUF_SIZE
        /\ UNCHANGED <<image, length, read, ptr, offset, x, bit, masks, ncolors>>
    BY DEF LoadStart, IInv, Images
  <1>2. PICK w \in Nat \ {0}, h \in Nat \ {0}, b \in Nat, r \in Nat :
          w = image.width /\ h = image.height /\ b = image.bpp /\ r = RowBytes
    BY <1>1, ImageShape, RowShape
  <1>3. RowBytes' = RowBytes
    BY <1>1 DEF RowBytes, PaddingBits
  <1>5. CASE image.rle
    <2>1. pc' = "failed" /\ UNCHANGED <<blen, y, linebytes, pixbuf>>
      BY <1>5 DEF LoadStart
    <2>2. TypeOK'
      BY <1>1, <1>3, <2>1 DEF IInv, TypeOK
    <2>3. Images' /\ Position' /\ Filled' /\ CompleteLoads'
      BY <1>1, <1>5, <2>1 DEF Images, Position, Filled, CompleteLoads, WellFormed
    <2> QED
      BY <2>2, <2>3 DEF IInv
  <1>6. CASE ~image.rle
    <2>1. /\ pc' = "pixels" /\ blen' = read /\ linebytes' = RowBytes
          /\ y' = (IF image.flipped THEN 0 ELSE image.height - 1)
          /\ pixbuf' = [j \in 0..(image.width * image.height - 1) |-> <<>>]
      BY <1>6 DEF LoadStart
    <2>2. y' \in 0..(image.height - 1) /\ Row(y') = 0
      BY <1>2, <2>1 DEF Row
    <2>3. TypeOK'
      <3>1. /\ pc' = "pixels" /\ length' \in Nat /\ read' \in 0..length' /\ ptr' = 0 /\ offset' = 0
            /\ blen' \in 0..BUF_SIZE /\ bit' = 0 /\ x' = 0 /\ linebytes' = r /\ RowBytes' = r
            /\ ptr' + offset' + blen' = read' /\ y' \in 0..(image'.height - 1)
            /\ image'.width = w
        BY <1>1, <1>2, <1>3, <2>1, <2>2, BmpLoadAssumption DEF IInv, TypeOK
      <3>2. masks' \in {"555", "565", "888"} /\ ncolors' \in {5, 6}
        BY <1>1 DEF IInv, TypeOK
      <3>3. /\ ptr' \in 0..read' /\ offset' \in Nat /\ bit' \in 0..7 /\ x' \in 0..image'.width
            /\ linebytes' \in 0..RowBytes' /\ x' # image'.width
        BY <3>1
      <3> QED
        BY <3>1, <3>2, <3>3 DEF TypeOK
    <2>4. Images' /\ CompleteLoads'
      BY <1>1, <1>6, <2>1 DEF Images, CompleteLoads, WellFormed
    <2>5. Position'
      <3>1. Row(y)' = 0
        BY <1>1, <2>2 DEF Row
      <3>2. Here' = 0 /\ linebytes' = r /\ RowBytes' = r /\ x' = 0 /\ bit' = 0 /\ image'.bpp = b
        BY <1>1, <1>2, <1>3, <2>1 DEF Here
      <3>3. 0 + r = (0 + 1) * r /\ (r - r) * 8 + 0 = 0 * b
        OBVIOUS
      <3> QED
        BY <3>1, <3>2, <3>3 DEF Position
    <2>6. Filled'
      <3>1. ASSUME NEW i \in 0..(w - 1), NEW j \in 0..(h - 1)
            PROVE  ~Done(i, j)' /\ pixbuf'[i + j * w] = <<>>
        <4>1. Row(j)' \in Nat /\ Row(y)' = 0 /\ x' = 0 /\ pc' = "pixels"
          <5>1. Row(j)' = Row(j) /\ Row(y)' = Row(y')
            BY <1>1 DEF Row
          <5>2. Row(j) \in Nat
            BY <1>2, ImageShape DEF Row
          <5> QED
            BY <1>1, <2>1, <2>2, <5>1, <5>2
        <4>2. i + j * w \in 0..(w * h - 1)
          BY Cells
        <4> QED
          BY <1>2, <2>1, <4>1, <4>2 DEF Done
      <3>2. image'.width = w /\ image'.height = h /\ DOMAIN pixbuf' = 0..(w * h - 1)
        BY <1>1, <1>2, <2>1
      <3> QED
        BY <3>1, <3>2 DEF Filled
    <2> QED
      BY <2>3, <2>4, <2>5, <2>6 DEF IInv
  <1> QED
    BY <1>5, <1>6

(* After it is destroyed.                                                  *)
LEMMA DestroyStep == ASSUME IInv, Destroy PROVE IInv'
  <1>1. /\ pc' = "header" /\ image' = NoImage /\ length' = 0
        /\ read' = 0 /\ ptr' = 0 /\ offset' = 0 /\ blen' = 0
        /\ x' = 0 /\ y' = 0 /\ linebytes' = 0 /\ bit' = 0 /\ pixbuf' = <<>>
        /\ UNCHANGED <<masks, ncolors>>
    BY DEF Destroy
  <1>2. image'.width = 1 /\ image'.bpp = 1 /\ RowBytes' = 4
    <2>1. image'.width = 1 /\ image'.bpp = 1
      BY <1>1 DEF NoImage
    <2>2. (1 * 1 + ((32 - ((1 * 1) % 32)) % 32)) \div 8 = 4
      OBVIOUS
    <2> QED
      BY <2>1, <2>2 DEF RowBytes, PaddingBits
  <1>3. TypeOK'
    BY <1>1, <1>2, BmpLoadAssumption DEF IInv, TypeOK
  <1>4. Images' /\ Position' /\ Filled' /\ CompleteLoads'
    BY <1>1, BmpLoadAssumption DEF Images, Position, Filled, CompleteLoads, WellFormed
  <1> QED
    BY <1>3, <1>4 DEF IInv

(* A pixel is read from its place, which is in the buffer.                 *)
LEMMA PixelStep == ASSUME IInv, Pixel PROVE IInv'
  <1> DEFINE here == IF Short THEN Refilled ELSE Held
             n == Bytes(image.bpp, bit)
             k == (image.bpp + 7) \div 8
  <1>1. pc = "pixels" /\ x < image.width /\ image \in Image /\ WellFormed(image) /\ ~image.rle
    BY DEF Pixel, IInv, Images
  <1>2. PICK w \in Nat \ {0}, h \in Nat \ {0}, b \in {1, 4, 8, 16, 24, 32}, r \in Nat, v \in Nat :
          w = image.width /\ h = image.height /\ b = image.bpp /\ r = RowBytes /\ v = w * b
    BY <1>1, ImageShape, RowShape, Product
  <1>3. PICK i \in 0..(w - 1), j \in 0..(h - 1), l \in 0..r, t \in 0..7 :
          i = x /\ j = y /\ l = linebytes /\ t = bit
    <2>1. /\ x \in 0..image.width /\ x < image.width /\ y \in 0..(image.height - 1)
          /\ linebytes \in 0..RowBytes /\ bit \in 0..7
      BY <1>1 DEF IInv, TypeOK
    <2>2. x \in 0..(w - 1)
      BY <1>2, <2>1
    <2> QED
      BY <1>2, <2>1, <2>2
  <1>4. v <= 8 * r /\ (b >= 8 => t = 0) /\ (r - l) * 8 + t = i * b
    <2>1. image.width * image.bpp <= 8 * RowBytes
      BY <1>1, ImageShape, RowShape
    <2>2. (RowBytes - linebytes) * 8 + bit = x * image.bpp
      BY <1>1 DEF IInv, Position
    <2> QED
      BY <1>2, <1>3, <2>1, <2>2 DEF IInv, TypeOK
  <1>5. /\ n \in 0..4 /\ k \in 1..4 /\ k <= l /\ l - n \in 0..r /\ n <= k
        /\ b >= 8 => n = k /\ b \div 8 = k
        /\ BitAfter(b, t) \in 0..7 /\ (b >= 8 => BitAfter(b, t) = 0)
        /\ (r - (l - n)) * 8 + BitAfter(b, t) = (i + 1) * b
    <2>1. n = Bytes(b, t) /\ k = (b + 7) \div 8
      BY <1>2, <1>3
    <2> HIDE DEF n, k
    <2>2. v = w * b
      BY <1>2
    <2>3. RowAfter(b, r, l, t, i)
      BY <1>4, <2>2, RowGoesOn
    <2> QED
      BY <2>1, <2>3 DEF RowAfter
  <1>6. PICK bl \in Nat : bl = blen /\ (~Short => bl >= k) /\ (Short => bl < k)
    <2>1. PICK bl \in Nat : bl = blen
      BY DEF IInv, TypeOK
    <2>2. b < 8 => b \div 8 = 0 /\ k = 1
      BY <1>2
    <2> QED
      BY <1>2, <1>5, <2>1, <2>2 DEF Short
  <1>7. PICK p \in Nat, d \in Nat : /\ p = Here /\ d = Row(y) * RowBytes
                                    /\ p + l = d + r /\ d + r <= Total(image)
    <2>1. y \in 0..(image.height - 1)
      BY <1>2, <1>3
    <2>2. /\ Row(y) * RowBytes \in Nat /\ (Row(y) + 1) * RowBytes = Row(y) * RowBytes + RowBytes
          /\ (Row(y) + 1) * RowBytes <= Total(image)
      BY <1>1, <2>1, RowInFile
    <2>3. Here + linebytes = (Row(y) + 1) * RowBytes
      BY <1>1 DEF IInv, Position
    <2>4. Here \in Nat
      BY DEF Here, IInv, TypeOK
    <2> QED
      BY <1>2, <1>3, <2>2, <2>3, <2>4
  <1>8. CASE Short /\ ~Enough(here)
    <2>1. Fail /\ ~Enough(Refilled) /\ blen < k
      BY <1>6, <1>8 DEF Pixel
    <2>2. Total(image) \in Nat /\ Here + k <= Total(image)
      <3>1. Total(image) \in Nat
        BY <1>1, <1>2, <1>3, RowInFile
      <3> QED
        BY <1>5, <1>7, <3>1
    <2>3. length < Total(image) + channels - 1
      BY <1>1, <1>5, <2>1, <2>2, NotEnough
    <2> QED
      BY <1>1, <2>1, <2>3, Failing
  <1>9. CASE ~(Short /\ ~Enough(here))
    <2>1. /\ pixbuf' = [pixbuf EXCEPT ![x + y * image.width] = <<here.ptr + here.offset, bit>>]
          /\ ptr' = here.ptr /\ read' = here.read /\ offset' = here.offset + n
          /\ blen' = here.read - here.ptr - here.offset - n
          /\ linebytes' = linebytes - n /\ bit' = BitAfter(image.bpp, bit) /\ x' = x + 1
          /\ UNCHANGED <<pc, image, length, y, masks, ncolors>>
      BY <1>9 DEF Pixel, Taking, Bytes, BitAfter
    <2>2. Short \in BOOLEAN /\ (Short => Enough(Refilled))
      BY <1>9 DEF Short
    <2>3. n <= blen \/ Short
      BY <1>5, <1>6
    <2>4. k <= blen \/ Short
      BY <1>6
    <2>5. here.ptr + here.offset = Here /\ here.read <= length /\ Here + k <= here.read
      BY <1>1, <1>5, <2>2, <2>4, TakenIsThere
    <2>6. /\ here.ptr \in Nat /\ here.offset \in Nat /\ here.read \in Nat /\ here.ptr <= here.read
          /\ here.read - here.ptr - here.offset - n \in 0..BUF_SIZE
          /\ here.ptr + (here.offset + n) + (here.read - here.ptr - here.offset - n) = here.read
      BY <1>1, <1>5, <2>2, <2>3, TakenIsThere
    <2> HIDE DEF here, n, k
    <2>7. RowBytes' = RowBytes /\ Row(y)' = Row(y)
      BY <2>1 DEF RowBytes, PaddingBits, Row
    <2>8. /\ x' = i + 1 /\ linebytes' = l - n /\ bit' = BitAfter(b, t) /\ RowBytes' = r
          /\ image'.bpp = b /\ image'.width = w /\ image'.height = h /\ y' = j
      BY <1>2, <1>3, <2>1, <2>7
    <2>9. TypeOK'
      <3>1. /\ ptr' \in 0..read' /\ offset' \in Nat /\ blen' \in 0..BUF_SIZE
            /\ ptr' + offset' + blen' = read' /\ length' \in Nat /\ read' \in 0..length'
        BY <1>5, <2>1, <2>5, <2>6 DEF IInv, TypeOK
      <3>2. /\ x' \in 0..image'.width /\ linebytes' \in 0..RowBytes' /\ bit' \in 0..7
            /\ (image'.bpp >= 8 => bit' = 0) /\ y' \in 0..(image'.height - 1)
        BY <1>5, <2>8
      <3>3. x' = image'.width => linebytes' <= 4
        <4>1. 8 * RowBytes <= image.width * image.bpp + 31
          BY <1>1, ImageShape, RowShape
        <4>2. 8 * r <= v + 31
          BY <1>2, <4>1
        <4>3. i + 1 = w => (r - (l - n)) * 8 + BitAfter(b, t) = v
          BY <1>2, <1>5
        <4> QED
          BY <1>5, <2>8, <4>2, <4>3
      <3>4. /\ pc' = "pixels" /\ masks' \in {"555", "565", "888"} /\ ncolors' \in {5, 6}
        BY <1>1, <2>1 DEF IInv, TypeOK
      <3> QED
        BY <3>1, <3>2, <3>3, <3>4 DEF TypeOK
    <2>10. Images' /\ CompleteLoads'
      <3>1. pc' = "pixels" /\ image' = image /\ UNCHANGED <<masks, ncolors>>
        BY <1>1, <2>1
      <3> QED
        BY <1>1, <3>1 DEF IInv, Images, CompleteLoads, WellFormed
    <2>11. Here' = p + n
      BY <1>5, <1>7, <2>1, <2>5, <2>6 DEF Here
    <2>12. Position'
      <3>1. Here + linebytes = (Row(y) + 1) * RowBytes
        BY <1>1 DEF IInv, Position
      <3>2. Here' + linebytes' = Here + linebytes
        BY <1>3, <1>5, <1>7, <2>8, <2>11
      <3>3. (Row(y) + 1)' * RowBytes' = (Row(y) + 1) * RowBytes
        BY <2>7
      <3> QED
        BY <1>5, <2>8, <3>1, <3>2, <3>3 DEF Position
    <2>13. Place(i, j) = <<p, t>>
      <3>1. PICK c \in Nat, q \in Nat, m \in Nat :
              /\ c = Row(j) /\ q = (image.width * image.bpp + 31) \div 32 /\ r = 4 * q /\ m = i * b
        <4>1. RowBytes = 4 * ((image.width * image.bpp + 31) \div 32)
          BY <1>1, ImageShape, RowShape
        <4>2. (v + 31) \div 32 \in Nat /\ Row(j) \in Nat /\ i * b \in Nat
          BY <1>1, <1>2, RowInFile, Product
        <4> QED
          BY <1>2, <4>1, <4>2
      <3>2. c * r = d
        BY <1>2, <1>3, <1>7, <3>1
      <3>3. c * 32 * q = 8 * d
        <4>1. c * 32 * q = 8 * (c * (4 * q))
          OBVIOUS
        <4> QED
          BY <3>1, <3>2, <4>1
      <3>4. c * 32 * q + m = 8 * p + t
        BY <1>4, <1>7, <3>1, <3>3
      <3>5. (8 * p + t) \div 8 = p /\ (8 * p + t) % 8 = t
        OBVIOUS
      <3>6. Row(j) * 32 * ((image.width * image.bpp + 31) \div 32) + i * image.bpp = 8 * p + t
        BY <1>2, <3>1, <3>4
      <3> QED
        BY <3>5, <3>6 DEF Place
    <2>14. Filled'
      <3> DEFINE f == i + j * w
      <3>1. f \in 0..(w * h - 1) /\ DOMAIN pixbuf = 0..(w * h - 1)
        BY <1>1, <1>2, Cells DEF IInv, Filled
      <3>2. DOMAIN pixbuf' = 0..(w * h - 1) /\ pixbuf'[f] = <<p, t>>
            /\ \A c \in 0..(w * h - 1) : c # f => pixbuf'[c] = pixbuf[c]
        BY <1>2, <1>3, <1>7, <2>1, <2>5, <3>1
      <3>3. p + k <= length
        BY <1>5, <1>7, <2>5, <2>6 DEF IInv, TypeOK
      <3>4. ASSUME NEW i2 \in 0..(w - 1), NEW j2 \in 0..(h - 1)
            PROVE  IF Done(i2, j2)'
                   THEN /\ pixbuf'[i2 + j2 * w] = Place(i2, j2)'
                        /\ Place(i2, j2)[1]' + k <= length
                   ELSE pixbuf'[i2 + j2 * w] = <<>>
        <4>1. Place(i2, j2)' = Place(i2, j2)
          BY <2>1 DEF Place, Row
        <4>2. CASE i2 = i /\ j2 = j
          <5>1. Done(i2, j2)'
            BY <2>8, <4>2 DEF Done
          <5>2. Place(i2, j2)' = <<p, t>> /\ <<p, t>>[1] = p
            BY <2>13, <4>1, <4>2
          <5> QED
            BY <3>2, <3>3, <4>2, <5>1, <5>2
        <4>3. CASE ~(i2 = i /\ j2 = j)
          <5>1. i2 + j2 * w \in 0..(w * h - 1) /\ i2 + j2 * w # f
            BY <4>3, Cells
          <5>2. pixbuf'[i2 + j2 * w] = pixbuf[i2 + j2 * w]
            BY <3>2, <5>1
          <5>3. Done(i2, j2)' <=> Done(i2, j2)
            <6>1. Row(j2)' = Row(j2) /\ pc = "pixels" /\ pc' = "pixels"
              BY <1>1, <2>1 DEF Row
            <6>2. (j2 = j /\ i2 < i + 1) <=> (j2 = j /\ i2 < i)
              BY <4>3
            <6> QED
              BY <1>3, <2>7, <2>8, <6>1, <6>2 DEF Done
          <5>4. IF Done(i2, j2)
                THEN /\ pixbuf[i2 + j2 * w] = Place(i2, j2)
                     /\ Place(i2, j2)[1] + k <= length
                ELSE pixbuf[i2 + j2 * w] = <<>>
            BY <1>1, <1>2 DEF IInv, Filled, k
          <5> QED
            BY <4>1, <5>2, <5>3, <5>4
        <4> QED
          BY <4>2, <4>3
      <3>5. image' = image /\ length' = length
        BY <2>1
      <3>6. (image'.bpp + 7) \div 8 = k /\ image'.width = w /\ image'.height = h
        BY <1>2, <2>8, <3>5 DEF k
      <3>7. DOMAIN pixbuf' = 0..(image'.width * image'.height - 1)
        BY <3>2, <3>6
      <3>8. ASSUME NEW i2 \in 0..(image'.width - 1), NEW j2 \in 0..(image'.height - 1)
            PROVE  IF Done(i2, j2)'
                   THEN /\ pixbuf'[i2 + j2 * image'.width] = Place(i2, j2)'
                        /\ Place(i2, j2)[1]' + (image'.bpp + 7) \div 8 <= length'
                   ELSE pixbuf'[i2 + j2 * image'.width] = <<>>
        <4>1. i2 \in 0..(w - 1) /\ j2 \in 0..(h - 1)
          BY <3>6
        <4>2. IF Done(i2, j2)'
              THEN /\ pixbuf'[i2 + j2 * w] = Place(i2, j2)'
                   /\ Place(i2, j2)[1]' + k <= length
              ELSE pixbuf'[i2 + j2 * w] = <<>>
          BY <3>4, <4>1
        <4> QED
          BY <3>5, <3>6, <4>2
      <3> HIDE DEF f
      <3> QED
        BY <3>7, <3>8 DEF Filled
    <2> QED
      BY <2>9, <2>10, <2>12, <2>14 DEF IInv
  <1> QED
    BY <1>8, <1>9

(* A row ends with its padding, where the next row begins.                 *)
LEMMA RowEndStep == ASSUME IInv, RowEnd PROVE IInv'
  <1> DEFINE here == IF PaddingShort THEN Refilled ELSE Held
             next == IF image.flipped THEN y + 1 ELSE y - 1
  <1>1. pc = "pixels" /\ x = image.width /\ image \in Image /\ WellFormed(image) /\ ~image.rle
    BY DEF RowEnd, IInv, Images
  <1>2. PICK w \in Nat \ {0}, h \in Nat \ {0}, b \in {1, 4, 8, 16, 24, 32}, r \in Nat, v \in Nat :
          w = image.width /\ h = image.height /\ b = image.bpp /\ r = RowBytes /\ v = w * b
    BY <1>1, ImageShape, RowShape, Product
  <1>3. PICK j \in 0..(h - 1), l \in 0..r, t \in 0..7 :
          j = y /\ l = linebytes /\ t = bit /\ l <= 4 /\ (b >= 8 => t = 0)
    <2>1. /\ y \in 0..(image.height - 1) /\ linebytes \in 0..RowBytes /\ bit \in 0..7
          /\ linebytes <= 4 /\ (image.bpp >= 8 => bit = 0)
      BY <1>1 DEF IInv, TypeOK
    <2> QED
      BY <1>2, <2>1
  <1>4. v <= 8 * r /\ (r - l) * 8 + t = v
    <2>1. image.width * image.bpp <= 8 * RowBytes
      BY <1>1, ImageShape, RowShape
    <2>2. (RowBytes - linebytes) * 8 + bit = x * image.bpp
      BY <1>1 DEF IInv, Position
    <2> QED
      BY <1>1, <1>2, <1>3, <2>1, <2>2
  <1>5. PICK p \in Nat, c \in 0..(h - 1), all \in Nat, d \in Nat :
          /\ p = Here /\ c = Row(y) /\ all = Total(image) /\ d = (c + 1) * r
          /\ p + l = d /\ d <= all
    <2>1. y \in 0..(image.height - 1)
      BY <1>2, <1>3
    <2>2. /\ Row(y) \in 0..(image.height - 1) /\ Row(y) * RowBytes \in Nat
          /\ (Row(y) + 1) * RowBytes = Row(y) * RowBytes + RowBytes
          /\ (Row(y) + 1) * RowBytes <= Total(image) /\ Total(image) \in Nat
      BY <1>1, <2>1, RowInFile
    <2>3. Here + linebytes = (Row(y) + 1) * RowBytes
      BY <1>1 DEF IInv, Position
    <2>4. Here \in Nat
      BY DEF Here, IInv, TypeOK
    <2>5. (Row(y) + 1) * RowBytes \in Nat
      BY <1>2, <2>2
    <2> QED
      BY <1>2, <1>3, <2>2, <2>3, <2>4, <2>5
  <1>6. CASE PaddingShort /\ ~Enough(here)
    <2>1. Fail /\ ~Enough(Refilled) /\ blen < l /\ l \in 1..4
      BY <1>3, <1>6 DEF RowEnd, PaddingShort
    <2>2. length < Total(image) + channels - 1
      BY <1>1, <1>5, <2>1, NotEnough
    <2> QED
      BY <1>1, <2>1, <2>2, Failing
  <1>7. CASE ~(PaddingShort /\ ~Enough(here))
    <2>1. /\ ptr' = here.ptr /\ read' = here.read /\ offset' = here.offset + linebytes
          /\ blen' = here.read - here.ptr - here.offset - linebytes
          /\ bit' = NextBit /\ linebytes' = RowBytes /\ x' = 0 /\ y' = next
          /\ pc' = IF next \in 0..(image.height - 1) THEN "pixels" ELSE "loaded"
          /\ UNCHANGED <<image, length, pixbuf, masks, ncolors>>
      BY <1>7 DEF RowEnd, Taking
    <2>2. PaddingShort \in BOOLEAN /\ (PaddingShort => Enough(Refilled))
      BY <1>7 DEF PaddingShort
    <2>3. PICK n \in 0..4 : n = linebytes /\ (~PaddingShort => n <= blen)
      <3>1. blen \in Nat
        BY DEF IInv, TypeOK
      <3> QED
        BY <1>3, <3>1 DEF PaddingShort
    <2>4. /\ here.ptr \in Nat /\ here.offset \in Nat /\ here.ptr + here.offset = Here
          /\ here.read \in Nat /\ here.read <= length /\ here.ptr <= here.read
          /\ here.read - here.ptr - here.offset - n \in 0..BUF_SIZE
          /\ here.ptr + (here.offset + n) + (here.read - here.ptr - here.offset - n) = here.read
      BY <1>1, <2>2, <2>3, TakenIsThere
    <2> HIDE DEF here
    <2>5. RowBytes' = r /\ image' = image
      BY <1>2, <2>1 DEF RowBytes, PaddingBits
    <2>6. bit' = 0
      <3>1. l = 0 => t = 0
        BY <1>4
      <3> QED
        BY <1>3, <2>1, <3>1 DEF NextBit
    <2>7. Here' = d
      BY <1>3, <1>5, <2>1, <2>3, <2>4 DEF Here
    <2>8. Row(next) = c + 1 /\ (next \in 0..(h - 1) <=> c + 1 < h)
      BY <1>2, <1>3, <1>5, ImageShape DEF Row
    <2>9. TypeOK'
      <3>1. /\ ptr' \in 0..read' /\ offset' \in Nat /\ blen' \in 0..BUF_SIZE
            /\ ptr' + offset' + blen' = read' /\ length' \in Nat /\ read' \in 0..length'
        BY <2>1, <2>3, <2>4 DEF IInv, TypeOK
      <3>2. /\ x' \in 0..image'.width /\ linebytes' \in 0..RowBytes' /\ bit' \in 0..7
            /\ bit' = 0 /\ x' # image'.width
        BY <1>2, <2>1, <2>5, <2>6
      <3>3. pc' \in {"pixels", "loaded"} /\ (pc' = "pixels" => y' \in 0..(image'.height - 1))
        BY <2>1
      <3>4. masks' \in {"555", "565", "888"} /\ ncolors' \in {5, 6}
        BY <2>1 DEF IInv, TypeOK
      <3> QED
        BY <3>1, <3>2, <3>3, <3>4 DEF TypeOK
    <2>10. Images' /\ CompleteLoads'
      <3>1. /\ pc' \in {"pixels", "loaded"} /\ image' = image
            /\ UNCHANGED <<masks, ncolors>>
        BY <2>1
      <3> QED
        BY <1>1, <3>1 DEF IInv, Images, CompleteLoads, WellFormed
    <2>11. Position'
      <3>1. Row(y)' = c + 1
        BY <2>1, <2>8 DEF Row
      <3>2. d + r = (c + 1 + 1) * r
        <4>1. c + 1 \in Nat
          OBVIOUS
        <4> QED
          BY <1>5, <4>1, Product
      <3>3. (r - r) * 8 + 0 = 0 * b
        OBVIOUS
      <3>4. linebytes' = r /\ x' = 0 /\ image'.bpp = b
        BY <1>2, <2>1
      <3> QED
        BY <2>5, <2>6, <2>7, <3>1, <3>2, <3>3, <3>4 DEF Position
    <2>12. Filled'
      <3>1. ASSUME NEW i2 \in 0..(w - 1), NEW j2 \in 0..(h - 1)
            PROVE  Done(i2, j2)' <=> Done(i2, j2)
        <4>1. PICK c2 \in 0..(h - 1) : c2 = Row(j2) /\ (c2 = c <=> j2 = j)
          BY <1>2, <1>3, <1>5, ImageShape DEF Row
        <4>2. Done(i2, j2) <=> c2 < c \/ c2 = c
          BY <1>1, <1>2, <1>3, <1>5, <4>1 DEF Done
        <4>3. Row(j2)' = c2 /\ Row(y)' = c + 1 /\ x' = 0
          BY <2>1, <2>8, <4>1 DEF Row
        <4>4. CASE c + 1 < h
          <5>1. pc' = "pixels"
            BY <1>2, <2>1, <2>8, <4>4
          <5> QED
            BY <4>2, <4>3, <5>1 DEF Done
        <4>5. CASE ~(c + 1 < h)
          <5>1. pc' = "loaded"
            BY <1>2, <2>1, <2>8, <4>5
          <5>2. c2 < c \/ c2 = c
            BY <4>5
          <5> QED
            BY <4>2, <5>1, <5>2 DEF Done
        <4> QED
          BY <4>4, <4>5
      <3>2. \A i2, j2 : Place(i2, j2)' = Place(i2, j2)
        BY <2>1 DEF Place, Row
      <3>3. image' = image /\ length' = length /\ pixbuf' = pixbuf
        BY <2>1
      <3> QED
        BY <1>1, <1>2, <3>1, <3>2, <3>3 DEF IInv, Filled
    <2> QED
      BY <2>9, <2>10, <2>11, <2>12 DEF IInv
  <1> QED
    BY <1>6, <1>7
-----------------------------------------------------------------------------
(* The strengthening is an invariant.                                      *)
THEOREM Inductive == Spec => []IInv
  <1>1. ASSUME IInv, UNCHANGED vars PROVE IInv'
    <2>1. UNCHANGED <<pc, image, length, read, ptr, offset, blen, x, y, linebytes, bit, pixbuf,
                      masks, ncolors>>
      BY <1>1 DEF vars, buffer
    <2>2. TypeOK' /\ CompleteLoads'
      BY <1>1, <2>1 DEF IInv, TypeOK, CompleteLoads, RowBytes, PaddingBits, Total
    <2>3. Images' /\ Position'
      BY <1>1, <2>1 DEF IInv, Images, Position, Here, Row, RowBytes, PaddingBits, WellFormed
    <2>4. Filled'
      BY <1>1, <2>1 DEF IInv, Filled, Done, Place, Row
    <2> QED
      BY <2>2, <2>3, <2>4 DEF IInv
  <1>2. ASSUME IInv, Next PROVE IInv'
    BY <1>2, HeaderStep, LoadStartStep, PixelStep, RowEndStep, DestroyStep DEF Next
  <1> QED
    BY InitIInv, <1>1, <1>2, PTL DEF Spec

(* Whatever the sizes of the image, the buffer and the file, no more is    *)
(* taken from the buffer than it holds, and a row is never overrun.        *)
THEOREM TypeCorrect == Spec => []TypeOK
  <1>1. IInv => TypeOK
    BY DEF IInv
  <1> QED
    BY <1>1, Inductive, PTL

(* The picture is the file's, of any depth and wherever the file was cut   *)
(* into buffers, and an image that is loaded has all its pixels.           *)
THEOREM PicturesTrue == Spec => []PixelsInPlace
  <1>1. ASSUME IInv PROVE PixelsInPlace
    <2>1. ASSUME pc \in {"pixels", "loaded"},
                 NEW i \in 0..(image.width - 1), NEW j \in 0..(image.height - 1)
          PROVE  IF pixbuf[i + j * image.width] = <<>> THEN pc = "pixels"
                 ELSE /\ pixbuf[i + j * image.width] = Place(i, j)
                      /\ pixbuf[i + j * image.width][1] + (image.bpp + 7) \div 8 <= length
      <3>1. IF Done(i, j)
            THEN /\ pixbuf[i + j * image.width] = Place(i, j)
                 /\ Place(i, j)[1] + (image.bpp + 7) \div 8 <= length
            ELSE pixbuf[i + j * image.width] = <<>>
        BY <1>1, <2>1 DEF IInv, Filled
      <3>2. Place(i, j) # <<>>
        BY DEF Place
      <3>3. pc = "loaded" => Done(i, j)
        BY DEF Done
      <3> QED
        BY <2>1, <3>1, <3>2, <3>3
    <2> QED
      BY <2>1 DEF PixelsInPlace
  <1> QED
    BY <1>1, Inductive, PTL

(* A file that ends three bytes or more after its last row is loaded, no   *)
(* matter how it falls into buffers, unless it is compressed.              *)
THEOREM LongFilesLoad == Spec => []CompleteLoads
  <1>1. IInv => CompleteLoads
    BY DEF IInv
  <1> QED
    BY <1>1, Inductive, PTL

(* All the bytes of a pixel are in the buffer when it is read.             *)
LEMMA PixelIsHeld ==
  ASSUME IInv, Pixel, NEW f \in DOMAIN pixbuf, pixbuf'[f] # pixbuf[f]
  PROVE  pixbuf'[f][1] + (image.bpp + 7) \div 8 <= read'
  <1> DEFINE here == IF Short THEN Refilled ELSE Held
  <1>1. pc = "pixels" /\ image \in Image
    BY DEF Pixel, IInv, Images
  <1>2. ~(Short /\ ~Enough(here))
    BY DEF Pixel, Fail
  <1>3. /\ pixbuf' = [pixbuf EXCEPT ![x + y * image.width] = <<here.ptr + here.offset, bit>>]
        /\ read' = here.read
    BY <1>2 DEF Pixel, Taking
  <1>4. pixbuf'[f] = <<here.ptr + here.offset, bit>>
    BY <1>3
  <1>5. PICK b \in {1, 4, 8, 16, 24, 32} : b = image.bpp
    BY <1>1, ImageShape
  <1>6. PICK k \in 0..4 : /\ k = (b + 7) \div 8 /\ (b >= 8 => k = b \div 8)
                          /\ (b < 8 => k = 1)
    OBVIOUS
  <1>7. ~Short => k <= blen
    <2>1. PICK bl \in Nat : bl = blen
      BY DEF IInv, TypeOK
    <2> QED
      BY <1>5, <1>6, <2>1 DEF Short
  <1>8. Short \in BOOLEAN /\ (Short => Enough(Refilled))
    BY <1>2 DEF Short
  <1>9. here.ptr + here.offset = Here /\ Here + k <= here.read
    BY <1>1, <1>7, <1>8, TakenIsThere
  <1> HIDE DEF here
  <1> QED
    BY <1>3, <1>4, <1>5, <1>6, <1>9

(* No step reads a pixel, or a part of one, that is not in the buffer.     *)
THEOREM ReadsOnlyHeld == Spec => ReadsHeld
  <1> DEFINE Now == pc = "pixels" => \A j \in DOMAIN pixbuf :
                      pixbuf'[j] # pixbuf[j] => pixbuf'[j][1] + (image.bpp + 7) \div 8 <= read'
  <1>1. ASSUME IInv, [Next]_vars PROVE [Now]_pixbuf
    <2>1. CASE Pixel
      BY <1>1, <2>1, PixelIsHeld
    <2>2. CASE ~Pixel
      BY <1>1, <2>2 DEF Next, ReadHeader, LoadStart, RowEnd, Fail, Destroy, vars
    <2> QED
      BY <2>1, <2>2
  <1> QED
    BY <1>1, Inductive, PTL DEF Spec, ReadsHeld
=============================================================================
