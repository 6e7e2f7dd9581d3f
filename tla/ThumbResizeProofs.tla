------------------------- MODULE ThumbResizeProofs -------------------------
(***************************************************************************)
(* The invariants of ThumbResize for images and thumbnails of every size:  *)
(* the image's place lies inside the thumbnail, and the resizer does not   *)
(* read outside the image; for the orientations Exif knows, every cell of  *)
(* its place is written once, turned or not, and what is saved as JPEG is  *)
(* upright and has the size that was asked for.                            *)
(***************************************************************************)
EXTENDS ThumbResize, FiniteSetTheorems, TLAPS

(* The thumbnail as it was before its width and height were exchanged.     *)
Turned == pc = "done" /\ src.orientation >= 5
W == IF Turned THEN dst.height ELSE dst.width
H == IF Turned THEN dst.width ELSE dst.height

Resizing == pc \in {"pixels", "done"} /\ ~copied

(* The image's place, and the cells there are.                             *)
Placed ==
  Resizing =>
    /\ inner.width > 0 /\ inner.x + inner.width <= W
    /\ inner.height > 0 /\ inner.y + inner.height <= H
    /\ DOMAIN pixbuf = 0..(W * H - 1)

(* Rows are done one after another.                                        *)
Scanned ==
  Resizing =>
    /\ at.x \in inner.x..(inner.x + inner.width - 1)
    /\ at.y \in inner.y..(inner.y + inner.height)
    /\ at.y = inner.y + inner.height => at.x = inner.x
    /\ pc = "done" => at.y = inner.y + inner.height

(* The size is the one that was asked for.                                 *)
Fitting ==
  /\ spec.width > 0 \/ spec.height > 0
  /\ pc = "pixels" => ~copied
  /\ Resizing =>
       LET a == Asked(spec, src.orientation)
       IN /\ a.height = 0 => W = a.width
          /\ a.width = 0 => H = a.height
          /\ a.width > 0 /\ a.height > 0 => W = a.width /\ H = a.height

(* The cell of place a, b of the scaled image, and whether it was its turn. *)
Cell(a, b) == Index(src.orientation, W, H, a + inner.x, b + inner.y)
Before(a, b) == b + inner.y < at.y \/ (b + inner.y = at.y /\ a + inner.x < at.x)

(* What is written shows a place that had its turn, in that place's cell,  *)
(* if the orientation is known.                                            *)
Shows(i, a, b) == pixbuf[i].from = <<a, b>> /\ i = Cell(a, b) /\ Before(a, b)
Shown ==
  Resizing /\ Known =>
    \A i \in Cells : pixbuf[i] # Blank =>
      \E a \in 0..(inner.width - 1), b \in 0..(inner.height - 1) : Shows(i, a, b)

(* As many cells as had their turn.                                        *)
Written == {i \in Cells : pixbuf[i] # Blank}
Counted ==
  Resizing /\ Known =>
    Cardinality(Written) = (at.y - inner.y) * inner.width + (at.x - inner.x)

IInv == TypeOK /\ Placed /\ Scanned /\ Fitting /\ Shown /\ Counted
-----------------------------------------------------------------------------
(* A product grows with its factor.                                        *)
LEMMA Product ==
  ASSUME NEW a \in Nat, NEW b \in Nat, NEW r \in Nat
  PROVE  /\ a * r \in Nat /\ (a + 1) * r = a * r + r
         /\ a < b => a * r + r <= b * r
         /\ a <= b => a * r <= b * r
  <1>1. a * r \in Nat /\ (a + 1) * r = a * r + r
    OBVIOUS
  <1>2. ASSUME a <= b PROVE a * r <= b * r
    <2>1. PICK d \in Nat : b = a + d
      <3>1. b - a \in Nat /\ b = a + (b - a)
        BY <1>2
      <3> QED
        BY <3>1
    <2>2. b * r = a * r + d * r /\ d * r \in Nat
      BY <2>1
    <2> QED
      BY <1>1, <2>2
  <1>3. ASSUME a < b PROVE a * r + r <= b * r
    <2>1. PICK d \in Nat : b = a + 1 + d
      <3>1. b - a - 1 \in Nat /\ b = a + 1 + (b - a - 1)
        BY <1>3
      <3> QED
        BY <3>1
    <2>2. b * r = a * r + r + d * r /\ d * r \in Nat
      BY <2>1
    <2> QED
      BY <1>1, <2>2
  <1> QED
    BY <1>1, <1>2, <1>3

(* Every pixel of a picture has a cell of its own.                         *)
LEMMA Rows ==
  ASSUME NEW w \in Nat, NEW h \in Nat, NEW i \in 0..(w - 1), NEW j \in 0..(h - 1)
  PROVE  /\ i + j * w \in 0..(w * h - 1)
         /\ \A k \in 0..(w - 1), l \in 0..(h - 1) : i + j * w = k + l * w => i = k /\ j = l
  <1>1. j * w \in Nat /\ j * w + w <= h * w /\ h * w = w * h
    BY Product
  <1>2. i + j * w \in 0..(w * h - 1)
    <2>1. PICK p \in Nat, q \in Nat : p = j * w /\ q = w * h /\ p + w <= q
      BY <1>1
    <2> QED
      BY <2>1
  <1>3. ASSUME NEW k \in 0..(w - 1), NEW l \in 0..(h - 1), i + j * w = k + l * w
        PROVE  i = k /\ j = l
    <2>1. PICK p \in Nat, q \in Nat : p = j * w /\ q = l * w /\ i + p = k + q
      <3>1. j * w \in Nat /\ l * w \in Nat
        BY Product
      <3> QED
        BY <1>3, <3>1
    <2>2. ~(j < l)
      <3>1. j < l => p + w <= q
        BY <2>1, Product
      <3> QED
        BY <2>1, <3>1
    <2>3. ~(l < j)
      <3>1. l < j => q + w <= p
        BY <2>1, Product
      <3> QED
        BY <2>1, <3>1
    <2>4. j = l
      BY <2>2, <2>3
    <2> QED
      BY <2>1, <2>4
  <1> QED
    BY <1>2, <1>3

(* What get_rotated_coords makes of x and y: a place of the turned picture *)
(* of p columns and q rows.                                                *)
Columns(o, w, h) == IF o >= 5 THEN h ELSE w
RowsOf(o, w, h) == IF o >= 5 THEN w ELSE h

Lands(o, w, h, x, y) ==
  /\ RotatedCoords(o, w, h, x, y) = <<RotatedCoords(o, w, h, x, y)[1], RotatedCoords(o, w, h, x, y)[2]>>
  /\ RotatedCoords(o, w, h, x, y)[1] \in 0..(Columns(o, w, h) - 1)
  /\ RotatedCoords(o, w, h, x, y)[2] \in 0..(RowsOf(o, w, h) - 1)

(* Turned or not, a place stays inside the picture.                        *)
LEMMA RotatedInside ==
  ASSUME NEW o \in 0..8, NEW w \in Nat, NEW h \in Nat, NEW x \in 0..(w - 1), NEW y \in 0..(h - 1)
  PROVE  Lands(o, w, h, x, y)
  <1>1. o \in {0, 1, 2, 3, 4, 5, 6, 7, 8}
    OBVIOUS
  <1> QED
    BY <1>1 DEF Lands, RotatedCoords, Columns, RowsOf

(* Two places that are turned to the same one are the same.                *)
TurnedApart(o, w, h, x, y, k, l) ==
  RotatedCoords(o, w, h, x, y)[1] = RotatedCoords(o, w, h, k, l)[1]
  /\ RotatedCoords(o, w, h, x, y)[2] = RotatedCoords(o, w, h, k, l)[2] => x = k /\ y = l

(* Turning is one to one.                                                  *)
LEMMA RotatedApart ==
  ASSUME NEW o \in 0..8, NEW w \in Nat, NEW h \in Nat, NEW x \in 0..(w - 1), NEW y \in 0..(h - 1),
         NEW k \in 0..(w - 1), NEW l \in 0..(h - 1)
  PROVE  TurnedApart(o, w, h, x, y, k, l)
  <1>1. o \in {0, 1, 2, 3, 4, 5, 6, 7, 8}
    OBVIOUS
  <1> QED
    BY <1>1 DEF TurnedApart, RotatedCoords

(* Every place has a cell of the pixels.                                   *)
LEMMA IndexInside ==
  ASSUME NEW o \in 0..8, NEW w \in Nat, NEW h \in Nat, NEW x \in 0..(w - 1), NEW y \in 0..(h - 1)
  PROVE  Index(o, w, h, x, y) \in 0..(w * h - 1)
  <1>1. Lands(o, w, h, x, y)
    BY RotatedInside
  <1> DEFINE c == RotatedCoords(o, w, h, x, y)
  <1>2. PICK p \in Nat, q \in Nat : p = Columns(o, w, h) /\ q = RowsOf(o, w, h)
    BY DEF Columns, RowsOf
  <1>3. PICK i \in 0..(p - 1), j \in 0..(q - 1) : i = c[1] /\ j = c[2]
    BY <1>1, <1>2 DEF Lands
  <1>4. i + j * p \in 0..(p * q - 1)
    BY Rows
  <1>5. p * q = w * h
    BY <1>2 DEF Columns, RowsOf
  <1>6. Index(o, w, h, x, y) = i + j * p
    <2>1. j * p \in Nat
      BY Product
    <2>2. Index(o, w, h, x, y) = j * p + i
      BY <1>2, <1>3 DEF Index, Columns
    <2> QED
      BY <2>1, <2>2
  <1> QED
    BY <1>4, <1>5, <1>6

(* No two places have the same cell.                                       *)
CellsApart(o, w, h, x, y, k, l) ==
  Index(o, w, h, x, y) = Index(o, w, h, k, l) => x = k /\ y = l

(* So is the way from places to cells.                                     *)
LEMMA IndexApart ==
  ASSUME NEW o \in 0..8, NEW w \in Nat, NEW h \in Nat, NEW x \in 0..(w - 1), NEW y \in 0..(h - 1),
         NEW k \in 0..(w - 1), NEW l \in 0..(h - 1)
  PROVE  CellsApart(o, w, h, x, y, k, l)
  <1> SUFFICES ASSUME Index(o, w, h, x, y) = Index(o, w, h, k, l) PROVE x = k /\ y = l
    BY DEF CellsApart
  <1>1. Lands(o, w, h, x, y) /\ Lands(o, w, h, k, l)
    BY RotatedInside
  <1> DEFINE c == RotatedCoords(o, w, h, x, y)
             d == RotatedCoords(o, w, h, k, l)
  <1>2. PICK p \in Nat, q \in Nat : p = Columns(o, w, h) /\ q = RowsOf(o, w, h)
    BY DEF Columns, RowsOf
  <1>3. PICK i \in 0..(p - 1), j \in 0..(q - 1) : i = c[1] /\ j = c[2]
    BY <1>1, <1>2 DEF Lands
  <1>4. PICK m \in 0..(p - 1), n \in 0..(q - 1) : m = d[1] /\ n = d[2]
    BY <1>1, <1>2 DEF Lands
  <1>5. j * p \in Nat /\ n * p \in Nat
    BY Product
  <1>6. j * p + i = n * p + m
    BY <1>2, <1>3, <1>4 DEF Index, Columns
  <1>7. i + j * p = m + n * p
    BY <1>5, <1>6
  <1>8. i = m /\ j = n
    BY <1>7, Rows
  <1>9. c[1] = d[1] /\ c[2] = d[2]
    BY <1>3, <1>4, <1>8
  <1>10. TurnedApart(o, w, h, x, y, k, l)
    BY RotatedApart
  <1> QED
    BY <1>9, <1>10 DEF TurnedApart
-----------------------------------------------------------------------------
(* Dividing: the quotient is the last multiple that is not too large.      *)
LEMMA Quotient ==
  ASSUME NEW n \in Nat, NEW d \in Nat, d > 0
  PROVE  /\ n \div d \in Nat /\ n % d \in 0..(d - 1)
         /\ (n \div d) * d <= n /\ n < (n \div d) * d + d
         /\ n = (n \div d) * d + (n % d)
  <1>1. n \div d \in Int /\ n % d \in 0..(d - 1) /\ n = d * (n \div d) + (n % d)
    OBVIOUS
  <1>2. PICK q \in Int, m \in 0..(d - 1) : q = n \div d /\ m = n % d /\ n = d * q + m
    BY <1>1
  <1>3. q >= 0
    <2>1. SUFFICES ASSUME q < 0 PROVE FALSE
      OBVIOUS
    <2>2. PICK e \in Nat : q = 0 - 1 - e
      <3>1. 0 - 1 - q \in Nat /\ q = 0 - 1 - (0 - 1 - q)
        BY <2>1
      <3> QED
        BY <3>1
    <2>3. d * q = 0 - d - d * e /\ d * e \in Nat
      BY <2>2
    <2> QED
      BY <1>2, <2>3
  <1>4. d * q = q * d /\ q * d \in Nat
    BY <1>3
  <1> QED
    BY <1>2, <1>3, <1>4

(* A product decides which factor is larger.                               *)
LEMMA Factor ==
  ASSUME NEW a \in Nat, NEW b \in Nat, NEW r \in Nat
  PROVE  /\ r > 0 /\ a * r <= b * r => a <= b
         /\ a * r < b * r => a < b
  <1>1. ASSUME r > 0, a * r <= b * r PROVE a <= b
    <2>1. b < a => b * r + r <= a * r
      BY Product
    <2>2. a * r \in Nat /\ b * r \in Nat
      BY Product
    <2> QED
      BY <1>1, <2>1, <2>2
  <1>2. ASSUME a * r < b * r PROVE a < b
    <2>1. b <= a => b * r <= a * r
      BY Product
    <2>2. a * r \in Nat /\ b * r \in Nat
      BY Product
    <2> QED
      BY <1>2, <2>1, <2>2
  <1> QED
    BY <1>1, <1>2

(* What is centred along a side that is too long fits, with a padding and  *)
(* at least one row or column of the image.                                *)
Centred(q, p, l) == q \in Nat /\ p \in Nat /\ q + (IF p < 1 THEN 1 ELSE p) <= l

(* A padding on each side and the image between them fit.                  *)
LEMMA CentredFits ==
  ASSUME NEW a \in Nat, NEW b \in Nat, NEW l \in Nat, NEW s \in Nat, s > 0, a = l * s, b <= a,
         (a - b) \div (2 * s) > 0
  PROVE  Centred((a - b) \div (2 * s), b \div s, l)
  <1>1. PICK q \in Nat : q = (a - b) \div (2 * s) /\ q * (2 * s) <= a - b
    <2>1. a - b \in Nat /\ 2 * s \in Nat /\ 2 * s > 0
      OBVIOUS
    <2> QED
      BY <2>1, Quotient
  <1>2. PICK p \in Nat : p = b \div s /\ p * s <= b
    BY Quotient
  <1>3. q * (2 * s) = 2 * (q * s) /\ q * s \in Nat /\ p * s \in Nat
    OBVIOUS
  <1>4. (2 * q + p) * s = 2 * (q * s) + p * s
    OBVIOUS
  <1>5. (2 * q + p) * s <= l * s
    BY <1>1, <1>2, <1>3, <1>4
  <1>6. 2 * q + p <= l
    BY <1>5, Factor
  <1>7. q > 0
    BY <1>1
  <1> QED
    BY <1>1, <1>2, <1>6, <1>7 DEF Centred

(* The size of a thumbnail is what was asked for, and what follows from it *)
(* is at least 1.                                                          *)
SizeFits(image, s, d) ==
  LET a == Asked(s, image.orientation)
  IN /\ d = [width |-> d.width, height |-> d.height]
     /\ d.width \in Nat \ {0} /\ d.height \in Nat \ {0}
     /\ a.height = 0 => d.width = a.width
     /\ a.width = 0 => d.height = a.height
     /\ a.width > 0 /\ a.height > 0 => d.width = a.width /\ d.height = a.height

(* A side that follows from the other is at least 1.                       *)
LEMMA ScaledFits ==
  ASSUME NEW a \in Nat, NEW b \in Nat \ {0}, NEW n \in Nat, NEW m \in Scaled(a, b, n)
  PROVE  m \in Nat \ {0}
  <1>1. PICK k \in Nat : k = (a * n) \div b
    <2>1. a * n \in Nat
      BY Product
    <2> QED
      BY <2>1, Quotient
  <1>2. m \in {IF i < 1 THEN 1 ELSE i : i \in {k, k - 1}}
    BY <1>1 DEF Scaled
  <1> QED
    BY <1>2

(* thumb_create_from_image chooses such a size.                            *)
LEMMA SizesFit ==
  ASSUME NEW image \in [width : Nat \ {0}, height : Nat \ {0}, orientation : Int],
         NEW s \in [width : Nat, height : Nat, keep : BOOLEAN], s.width > 0 \/ s.height > 0,
         NEW d \in Sizes(image, s)
  PROVE  SizeFits(image, s, d)
  <1>1. PICK a \in [width : Nat, height : Nat, keep : BOOLEAN] :
          a = Asked(s, image.orientation) /\ (a.width > 0 \/ a.height > 0)
    <2>1. CASE image.orientation >= 5 /\ (s.width = 0 \/ s.height = 0)
      <3>1. Asked(s, image.orientation) = [s EXCEPT !.width = s.height, !.height = s.width]
        BY <2>1 DEF Asked
      <3> QED
        BY <3>1
    <2>2. CASE ~(image.orientation >= 5 /\ (s.width = 0 \/ s.height = 0))
      BY <2>2 DEF Asked
    <2> QED
      BY <2>1, <2>2
  <1>2. CASE a.height = 0
    <2>1. PICK h \in Scaled(image.height, image.width, a.width) :
            d = [width |-> a.width, height |-> h]
      BY <1>1, <1>2 DEF Sizes
    <2>2. h \in Nat \ {0}
      BY ScaledFits
    <2> QED
      BY <1>1, <1>2, <2>1, <2>2 DEF SizeFits
  <1>3. CASE a.height # 0 /\ a.width = 0
    <2>1. PICK w \in Scaled(image.width, image.height, a.height) :
            d = [width |-> w, height |-> a.height]
      BY <1>1, <1>3 DEF Sizes
    <2>2. w \in Nat \ {0}
      BY ScaledFits
    <2> QED
      BY <1>1, <1>3, <2>1, <2>2 DEF SizeFits
  <1>4. CASE a.height # 0 /\ a.width # 0
    <2>1. d = [width |-> a.width, height |-> a.height]
      BY <1>1, <1>4 DEF Sizes
    <2> QED
      BY <1>1, <1>4, <2>1 DEF SizeFits
  <1> QED
    BY <1>2, <1>3, <1>4

(* The image's place is in the thumbnail, and not empty.                   *)
InnerFits(i, t) ==
  /\ i \in [x : Nat, y : Nat, width : Nat, height : Nat]
  /\ i.width > 0 /\ i.x + i.width <= t.width
  /\ i.height > 0 /\ i.y + i.height <= t.height

(* thumb_resize places the image so.                                       *)
LEMMA InnerInside ==
  ASSUME NEW image \in [width : Nat \ {0}, height : Nat \ {0}, orientation : Int],
         NEW t \in [width : Nat \ {0}, height : Nat \ {0}], NEW keep \in BOOLEAN
  PROVE  InnerFits(Inner(image, t, keep), t)
  <1>1. PICK iw \in Nat, ih \in Nat, tw \in Nat, th \in Nat :
          /\ iw = image.width /\ ih = image.height /\ tw = t.width /\ th = t.height
          /\ iw > 0 /\ ih > 0 /\ tw > 0 /\ th > 0
    OBVIOUS
  <1>2. PICK m \in Nat, n \in Nat :
          m = th * iw /\ n = tw * ih /\ m = iw * th
    OBVIOUS
  <1> DEFINE padY == (m - n) \div (2 * iw)
             padX == (n - m) \div (2 * ih)
             innerH == n \div iw
             innerW == m \div ih
  <1>3. Inner(image, t, keep) =
          IF keep /\ m >= n /\ padY > 0
          THEN [x |-> 0, y |-> padY, width |-> tw, height |-> IF innerH < 1 THEN 1 ELSE innerH]
          ELSE IF keep /\ ~(m >= n) /\ padX > 0
          THEN [x |-> padX, y |-> 0, width |-> IF innerW < 1 THEN 1 ELSE innerW, height |-> th]
          ELSE [x |-> 0, y |-> 0, width |-> tw, height |-> th]
    BY <1>1, <1>2 DEF Inner
  <1>4. CASE keep /\ m >= n /\ padY > 0
    <2>1. Centred(padY, innerH, th)
      BY <1>1, <1>2, <1>4, CentredFits
    <2>2. PICK q \in Nat, p \in Nat : q = padY /\ p = innerH /\ q + (IF p < 1 THEN 1 ELSE p) <= th
      BY <2>1 DEF Centred
    <2>3. Inner(image, t, keep) = [x |-> 0, y |-> q, width |-> tw, height |-> IF p < 1 THEN 1 ELSE p]
      BY <1>3, <1>4, <2>2
    <2> HIDE DEF padY, padX, innerH, innerW
    <2> QED
      BY <1>1, <2>2, <2>3 DEF InnerFits
  <1>5. CASE keep /\ ~(m >= n) /\ padX > 0
    <2>1. Centred(padX, innerW, tw)
      <3>1. m <= n /\ n = tw * ih /\ ih > 0 /\ (n - m) \div (2 * ih) > 0
        BY <1>1, <1>2, <1>5
      <3>2. Centred((n - m) \div (2 * ih), m \div ih, tw)
        BY <3>1, CentredFits
      <3> QED
        BY <3>2
    <2>2. PICK q \in Nat, p \in Nat : q = padX /\ p = innerW /\ q + (IF p < 1 THEN 1 ELSE p) <= tw
      BY <2>1 DEF Centred
    <2>3. Inner(image, t, keep) = [x |-> q, y |-> 0, width |-> IF p < 1 THEN 1 ELSE p, height |-> th]
      BY <1>3, <1>5, <2>2
    <2> HIDE DEF padY, padX, innerH, innerW
    <2> QED
      BY <1>1, <2>2, <2>3 DEF InnerFits
  <1>6. CASE ~(keep /\ m >= n /\ padY > 0) /\ ~(keep /\ ~(m >= n) /\ padX > 0)
    <2>1. Inner(image, t, keep) = [x |-> 0, y |-> 0, width |-> tw, height |-> th]
      BY <1>3, <1>6
    <2> HIDE DEF padY, padX, innerH, innerW
    <2> QED
      BY <1>1, <2>1 DEF InnerFits
  <1> QED
    BY <1>4, <1>5, <1>6

-----------------------------------------------------------------------------
(* What the type invariant says of the image and of what was asked for.    *)
LEMMA ImageShape ==
  ASSUME TypeOK
  PROVE  /\ src \in [width : Nat \ {0}, height : Nat \ {0}, orientation : Int]
         /\ src.orientation \in Nat /\ (Known => src.orientation \in 0..8)
         /\ spec \in [width : Nat, height : Nat, keep : BOOLEAN]
  <1>1. Side \subseteq Nat \ {0} /\ 0..MaxSide \subseteq Nat
    BY ThumbResizeAssumption DEF Side
  <1>2. Orientations \subseteq Nat /\ Nat \subseteq Int
    BY ThumbResizeAssumption
  <1>3. /\ src = [width |-> src.width, height |-> src.height, orientation |-> src.orientation]
        /\ src.width \in Side /\ src.height \in Side /\ src.orientation \in Orientations
    BY DEF TypeOK
  <1>4. src.orientation \in Nat /\ src.orientation \in Int /\ (Known => src.orientation \in 0..8)
    BY <1>2, <1>3 DEF Known
  <1>5. src \in [width : Nat \ {0}, height : Nat \ {0}, orientation : Int]
    BY <1>1, <1>3, <1>4
  <1>6. spec \in [width : Nat, height : Nat, keep : BOOLEAN]
    <2>1. /\ spec = [width |-> spec.width, height |-> spec.height, keep |-> spec.keep]
          /\ spec.width \in 0..MaxSide /\ spec.height \in 0..MaxSide /\ spec.keep \in BOOLEAN
      BY DEF TypeOK
    <2> QED
      BY <1>1, <2>1
  <1> QED
    BY <1>4, <1>5, <1>6

(* An image and a thumbnail specification to begin with.                   *)
LEMMA InitInv == Init => IInv
  <1> SUFFICES ASSUME Init PROVE IInv
    OBVIOUS
  <1>1. TypeOK
    <2>1. pc \in {"size", "pixels", "done"} /\ pc # "pixels" /\ copied \in BOOLEAN
      BY DEF Init
    <2>2. /\ src \in [width : Side, height : Side, orientation : Orientations]
          /\ spec \in [width : 0..MaxSide, height : 0..MaxSide, keep : BOOLEAN]
      BY DEF Init
    <2>3. /\ dst \in [width : Nat, height : Nat] /\ at \in [x : Nat, y : Nat]
          /\ inner \in [x : Nat, y : Nat, width : Nat, height : Nat]
      BY DEF Init
    <2> QED
      BY <2>1, <2>2, <2>3 DEF TypeOK
  <1>2. ~Resizing /\ pc # "pixels"
    BY DEF Init, Resizing
  <1>3. spec.width > 0 \/ spec.height > 0
    BY DEF Init
  <1> QED
    BY <1>1, <1>2, <1>3 DEF IInv, Placed, Scanned, Fitting, Shown, Counted

(* The thumbnail takes over the image's pixels.                            *)
LEMMA CopyInv ==
  ASSUME IInv, ThumbCreate, copied'
  PROVE  IInv'
  <1>1. dst' \in Sizes(src, spec) /\ pc' = "done" /\ UNCHANGED <<src, spec, inner, at>>
    BY DEF ThumbCreate
  <1>2. SizeFits(src, spec, dst')
    BY <1>1, ImageShape, SizesFit DEF IInv, Fitting
  <1>3. dst' \in [width : Nat, height : Nat]
    BY <1>2 DEF SizeFits
  <1>4. copied' \in BOOLEAN
    <2>1. copied' = (dst' = [width |-> src.width, height |-> src.height])
      BY DEF ThumbCreate
    <2> QED
      BY <2>1, Zenon
  <1>5. TypeOK'
    BY <1>1, <1>3, <1>4 DEF IInv, TypeOK
  <1>6. ~Resizing' /\ pc' # "pixels"
    BY <1>1 DEF Resizing
  <1>7. Fitting'
    BY <1>1, <1>6 DEF IInv, Fitting
  <1> QED
    BY <1>5, <1>6, <1>7 DEF IInv, Placed, Scanned, Shown, Counted

(* The thumbnail is allocated, all of it padding.                          *)
LEMMA AllocateInv ==
  ASSUME IInv, ThumbCreate, ~copied'
  PROVE  IInv'
  <1>1. /\ dst' \in Sizes(src, spec) /\ pc' = "pixels" /\ UNCHANGED <<src, spec>>
        /\ inner' = Inner(src, dst', spec.keep) /\ at' = [x |-> inner'.x, y |-> inner'.y]
        /\ pixbuf' = [i \in 0..(dst'.width * dst'.height - 1) |-> Blank]
    BY DEF ThumbCreate
  <1>2. SizeFits(src, spec, dst')
    BY <1>1, ImageShape, SizesFit DEF IInv, Fitting
  <1>3. dst' \in [width : Nat \ {0}, height : Nat \ {0}]
    BY <1>2 DEF SizeFits
  <1>4. InnerFits(inner', dst')
    <2>1. spec.keep \in BOOLEAN
      BY ImageShape DEF IInv
    <2> QED
      BY <1>1, <1>3, <2>1, ImageShape, InnerInside DEF IInv
  <1>5. W' = dst'.width /\ H' = dst'.height
    BY <1>1 DEF W, H, Turned
  <1>6. /\ inner'.x \in Nat /\ inner'.y \in Nat /\ inner'.width \in Nat /\ inner'.height \in Nat
        /\ inner'.width > 0 /\ inner'.height > 0 /\ at'.x = inner'.x /\ at'.y = inner'.y
    BY <1>1, <1>4 DEF InnerFits
  <1>7. /\ at'.x \in inner'.x..(inner'.x + inner'.width - 1)
        /\ at'.y \in inner'.y..(inner'.y + inner'.height)
        /\ at'.y # inner'.y + inner'.height
    BY <1>6
  <1>8. TypeOK'
    <2>1. copied' \in BOOLEAN
      <3>1. copied' = (dst' = [width |-> src.width, height |-> src.height])
        BY DEF ThumbCreate
      <3> QED
        BY <3>1, Zenon
    <2>2. at' \in [x : Nat, y : Nat]
      BY <1>1, <1>6
    <2>3. dst' \in [width : Nat, height : Nat]
      BY <1>3
    <2> QED
      BY <1>1, <1>4, <1>7, <2>1, <2>2, <2>3 DEF IInv, TypeOK, InnerFits
  <1>9. Placed'
    BY <1>1, <1>4, <1>5 DEF Placed, InnerFits
  <1>10. Scanned'
    BY <1>1, <1>7 DEF Scanned
  <1>11. Fitting'
    <2>1. spec' = spec /\ src' = src
      BY <1>1
    <2> QED
      BY <1>2, <1>5, <2>1 DEF IInv, Fitting, SizeFits
  <1>12. Written' = {}
    BY <1>1 DEF Written, Cells
  <1>13. Shown'
    BY <1>1 DEF Shown, Cells
  <1>14. Counted'
    <2>1. Cardinality(Written') = 0
      BY <1>12, FS_EmptySet
    <2>2. at'.y - inner'.y = 0 /\ at'.x - inner'.x = 0 /\ 0 * inner'.width = 0
      BY <1>6
    <2> QED
      BY <2>1, <2>2 DEF Counted
  <1> QED
    BY <1>8, <1>9, <1>10, <1>11, <1>13, <1>14 DEF IInv

(* The next pixel, while there is one: its place is inside the image's ... *)
NextPlaced ==
  at.x - inner.x \in 0..(inner.width - 1) /\ at.y - inner.y \in 0..(inner.height - 1)

(* ... and its cell, if the orientation is known, exists and is still      *)
(* padding, for the cells that were written are those of earlier places.   *)
NextFree ==
  /\ NextIndex \in Cells /\ pixbuf[NextIndex] = Blank
  /\ NextIndex = Cell(at.x - inner.x, at.y - inner.y)

(* The loops of thumb_resize keep to the image's place.                    *)
LEMMA NextIsPlaced ==
  ASSUME IInv, Working
  PROVE  NextPlaced
  <1>1. Resizing
    BY DEF IInv, Fitting, Working, Resizing
  <1>2. PICK x \in Nat, y \in Nat : x = at.x /\ y = at.y
    BY DEF IInv, TypeOK
  <1>3. PICK ix \in Nat, iy \in Nat, iw \in Nat, ih \in Nat :
          ix = inner.x /\ iy = inner.y /\ iw = inner.width /\ ih = inner.height
    BY DEF IInv, TypeOK
  <1>4. x \in ix..(ix + iw - 1) /\ y \in iy..(iy + ih)
    BY <1>1, <1>2, <1>3 DEF IInv, Scanned
  <1>5. y < iy + ih
    BY <1>2, <1>3 DEF Working
  <1>6. x - ix \in 0..(iw - 1) /\ y - iy \in 0..(ih - 1)
    BY <1>4, <1>5
  <1> QED
    BY <1>2, <1>3, <1>6 DEF NextPlaced

(* thumb_resize writes to padding only.                                    *)
LEMMA NextIsFree ==
  ASSUME IInv, Working, Known
  PROVE  NextFree
  <1>1. Resizing /\ W = dst.width /\ H = dst.height
    BY DEF IInv, Fitting, Working, Resizing, W, H, Turned
  <1>2. PICK o \in 0..8, w \in Nat, h \in Nat :
          o = src.orientation /\ w = W /\ h = H
    <2>1. dst.width \in Nat /\ dst.height \in Nat
      BY DEF IInv, TypeOK
    <2> QED
      BY <1>1, <2>1, ImageShape DEF IInv
  <1>3. PICK x \in Nat, y \in Nat : x = at.x /\ y = at.y
    BY DEF IInv, TypeOK
  <1>4. PICK ix \in Nat, iy \in Nat, iw \in Nat, ih \in Nat :
          ix = inner.x /\ iy = inner.y /\ iw = inner.width /\ ih = inner.height
    BY DEF IInv, TypeOK
  <1>5. iw > 0 /\ ih > 0 /\ ix + iw <= w /\ iy + ih <= h /\ Cells = 0..(w * h - 1)
    BY <1>1, <1>2, <1>4 DEF IInv, Placed, Cells
  <1>6. x \in ix..(ix + iw - 1) /\ y \in iy..(iy + ih - 1)
    <2>1. at.x \in inner.x..(inner.x + inner.width - 1) /\ at.y \in inner.y..(inner.y + inner.height)
      BY <1>1 DEF IInv, Scanned
    <2>2. at.y < inner.y + inner.height
      BY DEF Working
    <2> QED
      BY <1>3, <1>4, <2>1, <2>2
  <1>7. x \in 0..(w - 1) /\ y \in 0..(h - 1) /\ x - ix \in 0..(iw - 1) /\ y - iy \in 0..(ih - 1)
    BY <1>5, <1>6
  <1>8. NextIndex = Index(o, w, h, x, y)
    BY <1>1, <1>2, <1>3 DEF NextIndex
  <1>9. NextIndex = Cell(at.x - inner.x, at.y - inner.y)
    <2>1. (x - ix) + ix = x /\ (y - iy) + iy = y
      OBVIOUS
    <2> QED
      BY <1>2, <1>3, <1>4, <1>8, <2>1 DEF Cell
  <1>10. NextIndex \in Cells
    BY <1>5, <1>7, <1>8, IndexInside
  <1>11. pixbuf[NextIndex] = Blank
    <2> SUFFICES ASSUME pixbuf[NextIndex] # Blank PROVE FALSE
      OBVIOUS
    <2>1. PICK a \in 0..(inner.width - 1), b \in 0..(inner.height - 1) : Shows(NextIndex, a, b)
      BY <1>1, <1>10 DEF IInv, Shown
    <2>2. PICK k \in 0..(w - 1), l \in 0..(h - 1) : k = a + ix /\ l = b + iy
      <3>1. a \in 0..(iw - 1) /\ b \in 0..(ih - 1)
        BY <1>4
      <3>2. a + ix \in 0..(w - 1) /\ b + iy \in 0..(h - 1)
        BY <1>5, <3>1
      <3> QED
        BY <3>2
    <2>3. Index(o, w, h, x, y) = Index(o, w, h, k, l)
      BY <1>2, <1>4, <1>8, <2>1, <2>2 DEF Shows, Cell
    <2>4. CellsApart(o, w, h, x, y, k, l)
      BY <1>7, IndexApart
    <2>5. x = k /\ y = l
      BY <2>3, <2>4 DEF CellsApart
    <2>6. l < y \/ (l = y /\ k < x)
      BY <1>3, <1>4, <2>1, <2>2 DEF Shows, Before
    <2> QED
      BY <2>5, <2>6
  <1> QED
    BY <1>9, <1>10, <1>11 DEF NextFree

(* The pixel after x, y: to the right, or the next row's first.            *)
Moves(x, y, nx, ny, ix, iy, iw, ih) ==
  /\ nx \in ix..(ix + iw - 1) /\ ny \in iy..(iy + ih) /\ (ny = iy + ih => nx = ix)
  /\ (ny - iy) * iw + (nx - ix) = (y - iy) * iw + (x - ix) + 1
  /\ \A a \in 0..(iw - 1), b \in Int :
       (b < ny \/ (b = ny /\ a + ix < nx)) <=>
       (b < y \/ (b = y /\ a + ix < x) \/ (b = y /\ a + ix = x))

(* The loops of thumb_resize visit places in that order.                   *)
LEMMA RightOrDown ==
  ASSUME NEW ix \in Nat, NEW iy \in Nat, NEW iw \in Nat, NEW ih \in Nat,
         NEW x \in ix..(ix + iw - 1), NEW y \in iy..(iy + ih - 1),
         NEW nx \in Nat, NEW ny \in Nat,
         IF x + 1 < ix + iw THEN nx = x + 1 /\ ny = y ELSE nx = ix /\ ny = y + 1
  PROVE  Moves(x, y, nx, ny, ix, iy, iw, ih)
  <1>1. PICK r \in Nat : r = y - iy
    OBVIOUS
  <1>2. r * iw \in Nat /\ (r + 1) * iw = r * iw + iw
    BY Product
  <1>3. PICK p \in Nat : p = r * iw
    BY <1>2
  <1>4. CASE x + 1 < ix + iw
    <2>1. (ny - iy) * iw = p /\ (y - iy) * iw = p
      BY <1>1, <1>3, <1>4
    <2> QED
      BY <1>4, <2>1 DEF Moves
  <1>5. CASE ~(x + 1 < ix + iw)
    <2>1. ny - iy = r + 1 /\ nx = ix /\ ny = y + 1 /\ x - ix + 1 = iw
      BY <1>1, <1>5
    <2>2. (ny - iy) * iw = p + iw /\ (y - iy) * iw = p
      BY <1>1, <1>2, <1>3, <2>1
    <2> QED
      BY <2>1, <2>2 DEF Moves
  <1> QED
    BY <1>4, <1>5

(* A pixel is put.                                                         *)
LEMMA PutPixInv ==
  ASSUME IInv, PutPix
  PROVE  IInv'
  <1>1. Known => NextFree
    BY NextIsFree DEF PutPix, Working
  <1>2. /\ UNCHANGED <<pc, src, spec, dst, inner, copied>>
        /\ at' = IF at.x + 1 < inner.x + inner.width
                 THEN [at EXCEPT !.x = @ + 1] ELSE [x |-> inner.x, y |-> at.y + 1]
    BY DEF PutPix
  <1>3. PICK shown : pixbuf' = [i \in Cells |-> IF i = NextIndex
                       THEN [from |-> <<at.x - inner.x, at.y - inner.y>>, colour |-> shown]
                       ELSE pixbuf[i]]
    BY DEF PutPix
  <1>4. /\ pc = "pixels" /\ Resizing /\ Resizing' /\ W' = W /\ H' = H /\ Cells' = Cells
        /\ Known' = Known
    BY <1>2, <1>3 DEF PutPix, IInv, Fitting, Resizing, W, H, Turned, Cells, Known
  <1>5. PICK x \in Nat, y \in Nat : x = at.x /\ y = at.y /\ at = [x |-> x, y |-> y]
    BY DEF IInv, TypeOK
  <1>6. PICK ix \in Nat, iy \in Nat, iw \in Nat, ih \in Nat :
          ix = inner.x /\ iy = inner.y /\ iw = inner.width /\ ih = inner.height
    BY DEF IInv, TypeOK
  <1>7. x \in ix..(ix + iw - 1) /\ y \in iy..(iy + ih - 1)
    <2>1. x \in ix..(ix + iw - 1) /\ y \in iy..(iy + ih)
      BY <1>4, <1>5, <1>6 DEF IInv, Scanned
    <2>2. y < iy + ih
      BY <1>5, <1>6 DEF PutPix
    <2> QED
      BY <2>1, <2>2
  <1>8. PICK nx \in Nat, ny \in Nat :
          /\ at' = [x |-> nx, y |-> ny]
          /\ IF x + 1 < ix + iw THEN nx = x + 1 /\ ny = y ELSE nx = ix /\ ny = y + 1
    <2>1. CASE x + 1 < ix + iw
      <3>1. at' = [x |-> x + 1, y |-> y]
        BY <1>2, <1>5, <1>6, <2>1
      <3> QED
        BY <2>1, <3>1
    <2>2. CASE ~(x + 1 < ix + iw)
      <3>1. at' = [x |-> ix, y |-> y + 1]
        BY <1>2, <1>5, <1>6, <2>2
      <3> QED
        BY <2>2, <3>1
    <2> QED
      BY <2>1, <2>2
  <1>9. Moves(x, y, nx, ny, ix, iy, iw, ih)
    BY <1>7, <1>8, RightOrDown
  <1>10. nx \in ix..(ix + iw - 1) /\ ny \in iy..(iy + ih) /\ (ny = iy + ih => nx = ix)
    BY <1>9 DEF Moves
  <1>11. inner' = inner /\ at'.x = nx /\ at'.y = ny
    BY <1>2, <1>8
  <1>12. Scanned'
    <2>1. pc' # "done"
      BY <1>2, <1>4
    <2> QED
      BY <1>6, <1>10, <1>11, <2>1 DEF Scanned
  <1>13. TypeOK'
    <2>1. at' \in [x : Nat, y : Nat]
      BY <1>8
    <2>2. /\ at'.x \in inner'.x..(inner'.x + inner'.width - 1)
          /\ at'.y \in inner'.y..(inner'.y + inner'.height)
      BY <1>6, <1>10, <1>11
    <2> QED
      BY <1>2, <2>1, <2>2 DEF IInv, TypeOK
  <1>14. Placed'
    <2>1. DOMAIN pixbuf' = DOMAIN pixbuf
      BY <1>4 DEF Cells
    <2> QED
      BY <1>4, <1>11, <2>1 DEF IInv, Placed
  <1>15. Fitting'
    BY <1>2, <1>4 DEF IInv, Fitting
  <1>16. ASSUME Known PROVE Shown' /\ Counted'
    <2>1. NextFree
      BY <1>1, <1>16
    <2>2. PICK n \in Cells : n = NextIndex
      BY <2>1 DEF NextFree
    <2>3. pixbuf'[n] # Blank /\ pixbuf'[n].from = <<x - ix, y - iy>>
      <3>1. pixbuf'[n] = [from |-> <<x - ix, y - iy>>, colour |-> shown]
        BY <1>3, <1>5, <1>6, <2>2 DEF Cells
      <3>2. <<x - ix, y - iy>> # <<>>
        OBVIOUS
      <3>3. Blank.from = <<>>
        BY DEF Blank
      <3> QED
        BY <3>1, <3>2, <3>3
    <2>4. \A i \in Cells : i # n => pixbuf'[i] = pixbuf[i]
      BY <1>3, <2>2 DEF Cells
    <2>5. Shown'
      <3> SUFFICES ASSUME NEW i \in Cells, pixbuf'[i] # Blank
                   PROVE  \E a \in 0..(iw - 1), b \in 0..(ih - 1) : Shows(i, a, b)'
        BY <1>4, <1>6, <1>11 DEF Shown
      <3>1. CASE i = n
        <4>1. PICK a \in 0..(iw - 1), b \in 0..(ih - 1) : a = x - ix /\ b = y - iy
          BY <1>7
        <4>2. a + ix = x /\ b + iy = y
          BY <4>1
        <4>3. i = Cell(a, b)
          BY <2>1, <1>5, <1>6, <2>2, <3>1, <4>1 DEF NextFree
        <4>4. Cell(a, b)' = Cell(a, b)
          BY <1>2, <1>4 DEF Cell
        <4>5. b + iy < ny \/ (b + iy = ny /\ a + ix < nx)
          BY <1>9, <4>2 DEF Moves
        <4>6. Before(a, b)'
          BY <1>6, <1>11, <4>5 DEF Before
        <4>7. pixbuf'[i].from = <<a, b>>
          BY <2>3, <3>1, <4>1
        <4>8. Shows(i, a, b)'
          BY <4>3, <4>4, <4>6, <4>7 DEF Shows
        <4> QED
          BY <4>8
      <3>2. CASE i # n
        <4>1. pixbuf'[i] = pixbuf[i]
          BY <2>4, <3>2
        <4>2. PICK a \in 0..(iw - 1), b \in 0..(ih - 1) : Shows(i, a, b)
          BY <1>4, <1>6, <1>16, <4>1 DEF IInv, Shown
        <4>3. Cell(a, b)' = Cell(a, b)
          BY <1>2, <1>4 DEF Cell
        <4>4. b + iy < y \/ (b + iy = y /\ a + ix < x)
          BY <1>5, <1>6, <4>2 DEF Shows, Before
        <4>5. b + iy \in Int
          OBVIOUS
        <4>6. b + iy < ny \/ (b + iy = ny /\ a + ix < nx)
          BY <1>9, <4>4, <4>5 DEF Moves
        <4>7. Before(a, b)'
          BY <1>6, <1>11, <4>6 DEF Before
        <4>8. Shows(i, a, b)'
          BY <4>1, <4>2, <4>3, <4>7 DEF Shows
        <4> QED
          BY <4>8
      <3> QED
        BY <3>1, <3>2
    <2>6. Written' = Written \cup {n} /\ n \notin Written
      <3>1. Cells' = Cells
        BY <1>4
      <3>2. pixbuf[n] = Blank
        BY <2>1, <2>2 DEF NextFree
      <3> QED
        BY <2>3, <2>4, <3>1, <3>2 DEF Written
    <2>7. IsFiniteSet(Written)
      <3>1. PICK k \in Int : k = W * H - 1
        <4>1. W \in Nat /\ H \in Nat
          BY DEF IInv, TypeOK, W, H
        <4> QED
          BY <4>1
      <3>2. Written \subseteq 0..k
        BY <1>4, <3>1 DEF IInv, Placed, Written, Cells
      <3>3. IsFiniteSet(0..k)
        BY <3>1, FS_Interval
      <3> QED
        BY <3>2, <3>3, FS_Subset
    <2>8. Counted'
      <3>1. Cardinality(Written') = Cardinality(Written) + 1
        BY <2>6, <2>7, FS_AddElement
      <3>2. Cardinality(Written) = (y - iy) * iw + (x - ix)
        BY <1>4, <1>5, <1>6, <1>16 DEF IInv, Counted
      <3>3. (ny - iy) * iw + (nx - ix) = (y - iy) * iw + (x - ix) + 1
        BY <1>9 DEF Moves
      <3>4. Cardinality(Written') = (ny - iy) * iw + (nx - ix)
        BY <3>1, <3>2, <3>3
      <3> QED
        BY <1>6, <1>11, <3>4 DEF Counted
    <2> QED
      BY <2>5, <2>8
  <1>17. ~Known => Shown' /\ Counted'
    BY <1>4 DEF Shown, Counted
  <1> QED
    BY <1>12, <1>13, <1>14, <1>15, <1>16, <1>17 DEF IInv

(* A state with the same cells, before its width and height were exchanged *)
(* or after.                                                               *)
LEMMA SameInv ==
  ASSUME IInv, UNCHANGED <<src, spec, inner, at, pixbuf, copied>>, W' = W, H' = H, TypeOK',
         Resizing' => Resizing, pc' = "pixels" => pc = "pixels",
         pc' = "done" /\ pc # "done" => at.y = inner.y + inner.height
  PROVE  IInv'
  <1>1. Cells' = Cells /\ Written' = Written /\ Known' = Known
    BY DEF Cells, Written, Known
  <1>2. \A i, a, b : Shows(i, a, b)' <=> Shows(i, a, b)
    BY DEF Shows, Cell, Before
  <1>3. Placed'
    BY DEF IInv, Placed
  <1>4. Scanned'
    <2>1. inner' = inner /\ at' = at
      OBVIOUS
    <2> QED
      BY <2>1 DEF IInv, Scanned
  <1>5. Fitting'
    BY DEF IInv, Fitting
  <1>6. Shown'
    <2> SUFFICES ASSUME Resizing, Known, NEW i \in Cells, pixbuf[i] # Blank
                 PROVE  \E a \in 0..(inner.width - 1), b \in 0..(inner.height - 1) :
                          Shows(i, a, b)'
      BY <1>1 DEF Shown
    <2>1. PICK a \in 0..(inner.width - 1), b \in 0..(inner.height - 1) : Shows(i, a, b)
      BY DEF IInv, Shown
    <2> QED
      BY <1>2, <2>1
  <1>7. Counted'
    BY <1>1 DEF IInv, Counted
  <1> QED
    BY <1>3, <1>4, <1>5, <1>6, <1>7 DEF IInv

(* The last row is done, and the picture is turned.                        *)
LEMMA ResizedInv ==
  ASSUME IInv, Resized
  PROVE  IInv'
  <1>1. /\ pc = "pixels" /\ pc' = "done" /\ at.y = inner.y + inner.height
        /\ UNCHANGED <<src, spec, inner, at, pixbuf, copied>>
        /\ dst' = IF src.orientation >= 5
                  THEN [width |-> dst.height, height |-> dst.width] ELSE dst
    BY DEF Resized
  <1>2. W' = W /\ H' = H
    <2>1. W = dst.width /\ H = dst.height
      BY <1>1 DEF W, H, Turned
    <2>2. CASE src.orientation >= 5
      BY <1>1, <2>1, <2>2 DEF W, H, Turned
    <2>3. CASE ~(src.orientation >= 5)
      BY <1>1, <2>1, <2>3 DEF W, H, Turned
    <2> QED
      BY <2>2, <2>3
  <1>3. TypeOK'
    <2>1. dst' \in [width : Nat, height : Nat]
      <3>1. dst \in [width : Nat, height : Nat]
        BY DEF IInv, TypeOK
      <3> QED
        BY <1>1, <3>1
    <2> QED
      BY <1>1, <2>1 DEF IInv, TypeOK
  <1>4. Resizing' => Resizing
    BY <1>1 DEF Resizing
  <1> QED
    BY <1>1, <1>2, <1>3, <1>4, SameInv

(* IInv is inductive.                                                      *)
LEMMA NextInv == IInv /\ [Next]_vars => IInv'
  <1> SUFFICES ASSUME IInv, [Next]_vars PROVE IInv'
    OBVIOUS
  <1>1. CASE ThumbCreate
    BY <1>1, CopyInv, AllocateInv
  <1>2. CASE PutPix
    BY <1>2, PutPixInv
  <1>3. CASE Resized
    BY <1>3, ResizedInv
  <1>4. CASE UNCHANGED vars
    <2>1. UNCHANGED <<pc, src, spec, inner, at, pixbuf, copied, dst>>
      BY <1>4 DEF vars
    <2>2. W' = W /\ H' = H /\ (Resizing' <=> Resizing)
      BY <2>1 DEF W, H, Turned, Resizing
    <2>3. TypeOK'
      BY <2>1 DEF IInv, TypeOK
    <2> QED
      BY <2>1, <2>2, <2>3, SameInv
  <1> QED
    BY <1>1, <1>2, <1>3, <1>4 DEF Next

(* The invariant holds of every image and every thumbnail.                 *)
THEOREM Inductive == Spec => []IInv
  BY InitInv, NextInv, PTL DEF Spec

(* The image's place and the next pixel stay inside the thumbnail.         *)
THEOREM TypeCorrect == Spec => []TypeOK
  <1>1. IInv => TypeOK
    BY DEF IInv
  <1> QED
    BY <1>1, Inductive, PTL

-----------------------------------------------------------------------------
(* Of an image of a known orientation, no cell is written twice or outside *)
(* the thumbnail, and in the end every cell of the image's place was.      *)
THEOREM WritesOnce == Spec => []WrittenOnce
  <1>1. IInv => WrittenOnce
    <2> SUFFICES ASSUME IInv, Known PROVE WrittenOnce
      BY DEF WrittenOnce
    <2>1. Working => NextIndex \in Cells /\ pixbuf[NextIndex] = Blank
      BY NextIsFree DEF NextFree
    <2>2. ASSUME pc = "done", ~copied
          PROVE  Cardinality(Written) = inner.width * inner.height
      <3>1. Resizing
        BY <2>2 DEF Resizing
      <3>2. PICK ix \in Nat, iy \in Nat, iw \in Nat, ih \in Nat :
              ix = inner.x /\ iy = inner.y /\ iw = inner.width /\ ih = inner.height
        BY DEF IInv, TypeOK
      <3>3. at.y = iy + ih /\ at.x = ix
        BY <2>2, <3>1, <3>2 DEF IInv, Scanned
      <3>4. Cardinality(Written) = (at.y - iy) * iw + (at.x - ix)
        BY <3>1, <3>2 DEF IInv, Counted
      <3>5. (iy + ih) - iy = ih /\ ix - ix = 0 /\ ih * iw + 0 = iw * ih
        OBVIOUS
      <3> QED
        BY <3>2, <3>3, <3>4, <3>5
    <2> QED
      BY <2>1, <2>2 DEF WrittenOnce, Written
  <1> QED
    BY <1>1, Inductive, PTL

(* The picture has the width or the height that was asked for alone, and   *)
(* both if they were given and it was not turned.                          *)
LEMMA SizesKept == Spec => []SizeAsAsked
  <1>1. IInv => SizeAsAsked
    <2> SUFFICES ASSUME IInv, pc = "done", ~copied
                 PROVE  /\ dst.width >= 1 /\ dst.height >= 1
                        /\ spec.height = 0 => dst.width = spec.width
                        /\ spec.width = 0 => dst.height = spec.height
                        /\ spec.width > 0 /\ spec.height > 0 /\ src.orientation < 5 =>
                             dst = [width |-> spec.width, height |-> spec.height]
      BY DEF SizeAsAsked
    <2>1. Resizing
      BY DEF Resizing
    <2>2. PICK v \in Nat, u \in Nat : v = dst.width /\ u = dst.height /\ dst = [width |-> v, height |-> u]
      BY DEF IInv, TypeOK
    <2>3. PICK sw \in Nat, sh \in Nat : sw = spec.width /\ sh = spec.height /\ (sw > 0 \/ sh > 0)
      BY ImageShape DEF IInv, Fitting
    <2>4. v >= 1 /\ u >= 1
      <3>1. W >= 1 /\ H >= 1
        <4>1. PICK ix \in Nat, iy \in Nat, iw \in Nat, ih \in Nat, w \in Nat, h \in Nat :
                /\ ix = inner.x /\ iy = inner.y /\ iw = inner.width /\ ih = inner.height
                /\ w = W /\ h = H
          BY <2>2 DEF IInv, TypeOK, W, H
        <4>2. iw > 0 /\ ix + iw <= w /\ ih > 0 /\ iy + ih <= h
          BY <2>1, <4>1 DEF IInv, Placed
        <4> QED
          BY <4>1, <4>2
      <3> QED
        BY <2>2, <3>1 DEF W, H
    <2>5. CASE src.orientation >= 5
      <3>1. W = u /\ H = v
        BY <2>2, <2>5 DEF W, H, Turned
      <3>2. PICK a : a = Asked(spec, src.orientation)
        OBVIOUS
      <3>3. /\ a.height = 0 => W = a.width
            /\ a.width = 0 => H = a.height
        BY <2>1, <3>2 DEF IInv, Fitting
      <3>4. spec.width = 0 \/ spec.height = 0 => a.width = sh /\ a.height = sw
        <4>1. spec \in [width : Nat, height : Nat, keep : BOOLEAN]
          BY ImageShape DEF IInv
        <4> QED
          BY <2>3, <2>5, <3>2, <4>1 DEF Asked
      <3>5. ~(src.orientation < 5)
        BY <2>5, ImageShape DEF IInv
      <3>6. sh = 0 => v = sw
        BY <2>3, <3>1, <3>3, <3>4
      <3>7. sw = 0 => u = sh
        BY <2>3, <3>1, <3>3, <3>4
      <3> QED
        BY <2>2, <2>3, <2>4, <3>5, <3>6, <3>7
    <2>6. CASE ~(src.orientation >= 5)
      <3>1. W = v /\ H = u
        BY <2>2, <2>6 DEF W, H, Turned
      <3>2. Asked(spec, src.orientation) = spec
        BY <2>6 DEF Asked
      <3>3. /\ sh = 0 => v = sw
            /\ sw = 0 => u = sh
            /\ sw > 0 /\ sh > 0 => v = sw /\ u = sh
        BY <2>1, <2>3, <3>1, <3>2 DEF IInv, Fitting
      <3> QED
        BY <2>2, <2>3, <2>4, <3>3
    <2> QED
      BY <2>5, <2>6
  <1> QED
    BY <1>1, Inductive, PTL

(* What get_rotated_coords does is what Exif says of the orientation: the  *)
(* place it makes is as far from where row 0 and column 0 are seen as the  *)
(* place it is given is from row 0 and column 0.                           *)
Seen(o, w, h, x, y) ==
  LET c == RotatedCoords(o, w, h, x, y)
  IN /\ Distance(Column0(o), c, Columns(o, w, h), RowsOf(o, w, h)) = x
     /\ Distance(Row0(o), c, Columns(o, w, h), RowsOf(o, w, h)) = y

(* All orientations that are known are seen so.                            *)
LEMMA SeenUpright ==
  ASSUME NEW o \in 0..8, NEW w \in Nat, NEW h \in Nat, NEW x \in Int, NEW y \in Int
  PROVE  Seen(o, w, h, x, y)
  <1>1. o \in {0, 1, 2, 3, 4, 5, 6, 7, 8}
    OBVIOUS
  <1>2. CASE o \in {0, 1}
    BY <1>2 DEF Seen, RotatedCoords, Columns, RowsOf, Distance, Row0, Column0
  <1>3. CASE o = 2
    BY <1>3 DEF Seen, RotatedCoords, Columns, RowsOf, Distance, Row0, Column0
  <1>4. CASE o = 3
    BY <1>4 DEF Seen, RotatedCoords, Columns, RowsOf, Distance, Row0, Column0
  <1>5. CASE o = 4
    BY <1>5 DEF Seen, RotatedCoords, Columns, RowsOf, Distance, Row0, Column0
  <1>6. CASE o = 5
    BY <1>6 DEF Seen, RotatedCoords, Columns, RowsOf, Distance, Row0, Column0
  <1>7. CASE o = 6
    BY <1>7 DEF Seen, RotatedCoords, Columns, RowsOf, Distance, Row0, Column0
  <1>8. CASE o = 7
    BY <1>8 DEF Seen, RotatedCoords, Columns, RowsOf, Distance, Row0, Column0
  <1>9. CASE o = 8
    BY <1>9 DEF Seen, RotatedCoords, Columns, RowsOf, Distance, Row0, Column0
  <1> QED
    BY <1>1, <1>2, <1>3, <1>4, <1>5, <1>6, <1>7, <1>8, <1>9

(* A cell of a row of the turned picture is the place's that was turned    *)
(* to it.                                                                  *)
LEMMA CellTurned ==
  ASSUME NEW o \in 0..8, NEW w \in Nat, NEW h \in Nat, NEW x \in 0..(w - 1), NEW y \in 0..(h - 1),
         NEW p \in 0..(Columns(o, w, h) - 1), NEW q \in 0..(RowsOf(o, w, h) - 1),
         q * Columns(o, w, h) + p = Index(o, w, h, x, y)
  PROVE  <<p, q>> = RotatedCoords(o, w, h, x, y)
  <1>1. Lands(o, w, h, x, y)
    BY RotatedInside
  <1> DEFINE c == RotatedCoords(o, w, h, x, y)
  <1>2. PICK k \in Nat, l \in Nat : k = Columns(o, w, h) /\ l = RowsOf(o, w, h)
    BY DEF Columns, RowsOf
  <1>3. PICK i \in 0..(k - 1), j \in 0..(l - 1) : i = c[1] /\ j = c[2] /\ c = <<i, j>>
    BY <1>1, <1>2 DEF Lands
  <1>4. Index(o, w, h, x, y) = j * k + i
    BY <1>2, <1>3 DEF Index, Columns
  <1>5. p \in 0..(k - 1) /\ q \in 0..(l - 1)
    BY <1>2
  <1>6. q * k \in Nat /\ j * k \in Nat
    BY <1>5, Product
  <1>7. p + q * k = i + j * k
    BY <1>2, <1>4, <1>6
  <1>8. p = i /\ q = j
    BY <1>5, <1>7, Rows
  <1> QED
    BY <1>3, <1>8

(* What is saved as JPEG is seen the way up the camera held it.            *)
LEMMA JpegsUpright == Spec => []JpegUpright
  <1>1. IInv => JpegUpright
    <2> SUFFICES ASSUME IInv, pc = "done", ~copied, Known
                 PROVE  Upright(JpegPicture, dst.width, dst.height)
      BY DEF JpegUpright
    <2>1. PICK o \in 0..8, w \in Nat, h \in Nat : o = src.orientation /\ w = W /\ h = H
      <3>1. W \in Nat /\ H \in Nat
        BY DEF IInv, TypeOK, W, H
      <3> QED
        BY <3>1, ImageShape DEF IInv
    <2>2. dst.width = Columns(o, w, h) /\ dst.height = RowsOf(o, w, h)
      BY <2>1 DEF W, H, Turned, Columns, RowsOf
    <2>3. PICK k \in Nat, l \in Nat : k = dst.width /\ l = dst.height /\ k * l = w * h
      BY <2>1, <2>2 DEF Columns, RowsOf
    <2>4. Resizing
      BY DEF Resizing
    <2>5. Cells = 0..(w * h - 1)
      BY <2>1, <2>4 DEF IInv, Placed, Cells
    <2>6. DOMAIN JpegPicture = (0..(k - 1)) \X (0..(l - 1))
      BY <2>3 DEF JpegPicture, Picture
    <2> SUFFICES ASSUME NEW p \in (0..(k - 1)) \X (0..(l - 1)), JpegPicture[p].from # <<>>
                 PROVE  /\ Distance(Column0(o), p, k, l) = JpegPicture[p].from[1] + inner.x
                        /\ Distance(Row0(o), p, k, l) = JpegPicture[p].from[2] + inner.y
      BY <2>1, <2>3, <2>6 DEF Upright
    <2>7. PICK i \in 0..(k - 1), j \in 0..(l - 1) : p = <<i, j>>
      OBVIOUS
    <2>8. j * k \in Nat /\ j * k + i = i + j * k
      BY <2>7, Product
    <2>9. PICK n \in Cells : n = j * k + i
      <3>1. i + j * k \in 0..(k * l - 1)
        BY Rows
      <3> QED
        BY <2>3, <2>5, <2>8, <3>1
    <2>10. JpegPicture[p] = pixbuf[n]
      BY <2>3, <2>7, <2>9 DEF JpegPicture, Picture
    <2>11. pixbuf[n] # Blank
      BY <2>10 DEF Blank
    <2>12. PICK a \in 0..(inner.width - 1), b \in 0..(inner.height - 1) : Shows(n, a, b)
      BY <2>4, <2>11 DEF IInv, Shown
    <2>13. PICK x \in 0..(w - 1), y \in 0..(h - 1) : x = a + inner.x /\ y = b + inner.y
      <3>1. PICK ix \in Nat, iy \in Nat, iw \in Nat, ih \in Nat :
              ix = inner.x /\ iy = inner.y /\ iw = inner.width /\ ih = inner.height
        BY DEF IInv, TypeOK
      <3>2. ix + iw <= w /\ iy + ih <= h
        BY <2>1, <2>4, <3>1 DEF IInv, Placed
      <3>3. a \in 0..(iw - 1) /\ b \in 0..(ih - 1)
        BY <3>1
      <3>4. a + ix \in 0..(w - 1) /\ b + iy \in 0..(h - 1)
        BY <3>2, <3>3
      <3> QED
        BY <3>1, <3>4
    <2>14. n = Index(o, w, h, x, y)
      BY <2>1, <2>12, <2>13 DEF Shows, Cell
    <2>15. <<i, j>> = RotatedCoords(o, w, h, x, y)
      <3>1. i \in 0..(Columns(o, w, h) - 1) /\ j \in 0..(RowsOf(o, w, h) - 1)
        BY <2>2, <2>3
      <3>2. j * Columns(o, w, h) + i = Index(o, w, h, x, y)
        BY <2>2, <2>3, <2>9, <2>14
      <3> QED
        BY <3>1, <3>2, CellTurned, ZenonT(60)
    <2>16. Seen(o, w, h, x, y)
      <3>1. x \in Int /\ y \in Int
        OBVIOUS
      <3> QED
        BY <3>1, SeenUpright
    <2>17. Distance(Column0(o), p, k, l) = x /\ Distance(Row0(o), p, k, l) = y
      BY <2>2, <2>3, <2>7, <2>15, <2>16 DEF Seen
    <2>18. JpegPicture[p].from[1] = a /\ JpegPicture[p].from[2] = b
      BY <2>10, <2>12 DEF Shows
    <2> QED
      BY <2>13, <2>17, <2>18
  <1> QED
    BY <1>1, Inductive, PTL

(* A thumbnail that is saved as JPEG, turned or not, is the way up if its  *)
(* orientation is known, and of the size that was asked for.               *)
THEOREM JpegsAsAsked == Spec => []JpegAsAsked
  BY SizesKept, JpegsUpright, PTL DEF JpegAsAsked

-----------------------------------------------------------------------------
(* What the widths of a fixed_t and its fraction come to.  The provers     *)
(* know of a power of two only that it is an integer: that it is positive, *)
(* and the double of the one before, is taken as a hypothesis.             *)
PowersOfTwo ==
  /\ 2 ^ FracBits > 0 /\ 2 ^ (WordBits - 1) > 0
  /\ 2 ^ WordBits = 2 * 2 ^ (WordBits - 1)

(* The image's sides and those of its place are in the range of a fixed_t, *)
(* which ends at 2^19 for a fixed_t of 32 bits with 12 of fraction.        *)
FitsWord ==
  \A side \in {src.width, src.height, inner.width, inner.height} :
    side * Fixed1 < 2 ^ (WordBits - 1)

(* A number in the range of a fixed_t is not changed.                      *)
LEMMA Unwrapped ==
  ASSUME PowersOfTwo, NEW v \in Nat, v < 2 ^ (WordBits - 1)
  PROVE  Wrap(v) = v
  <1>1. PICK m \in Nat : m = 2 ^ (WordBits - 1) /\ 2 ^ WordBits = 2 * m /\ m > 0
    <2>1. 2 ^ (WordBits - 1) \in Int
      BY ThumbResizeAssumption
    <2>2. 2 ^ (WordBits - 1) \in Nat
      BY <2>1 DEF PowersOfTwo
    <2> QED
      BY <2>2 DEF PowersOfTwo
  <1>2. PICK d \in Nat, n \in Nat : d = 2 * m /\ n = v + m /\ n < d /\ d > 0
    BY <1>1
  <1>3. PICK q \in Nat, r \in Nat : q = n \div d /\ r = n % d /\ q * d <= n /\ n = q * d + r
    <2>1. n \div d \in Nat /\ n % d \in Nat
      BY <1>2, Quotient
    <2> QED
      BY <1>2, <2>1, Quotient
  <1>4. q = 0
    <2>1. q * d < 1 * d
      BY <1>2, <1>3
    <2>2. q < 1
      BY <2>1, Factor
    <2> QED
      BY <2>2
  <1>5. r = n
    BY <1>3, <1>4
  <1>6. (v + m) % (2 * m) = v + m
    BY <1>2, <1>3, <1>5
  <1> QED
    BY <1>1, <1>6 DEF Wrap

(* A target coordinate stands for as much of the source as each other, and *)
(* all of them for no more than there is.                                  *)
Step(from, to) == FixedDiv(IntToFixed(from), IntToFixed(to))
Steps(s, from, to) ==
  /\ s \in Nat /\ to * s <= from * Fixed1
  /\ \A n \in 0..to : FixedMul(IntToFixed(n), s) = n * s

(* The fixed-point scale is such a step.                                   *)
LEMMA StepFits ==
  ASSUME PowersOfTwo, NEW from \in Nat, NEW to \in Nat, to > 0,
         from * Fixed1 < 2 ^ (WordBits - 1), to * Fixed1 < 2 ^ (WordBits - 1)
  PROVE  Steps(Step(from, to), from, to)
  <1>1. PICK one \in Nat : one = Fixed1 /\ one > 0
    <2>1. 2 ^ FracBits \in Int
      BY ThumbResizeAssumption
    <2> QED
      BY <2>1 DEF PowersOfTwo, Fixed1
  <1>2. PICK m \in Nat : m = 2 ^ (WordBits - 1)
    <2>1. 2 ^ (WordBits - 1) \in Int
      BY ThumbResizeAssumption
    <2> QED
      BY <2>1 DEF PowersOfTwo
  <1>3. PICK f \in Nat, t \in Nat : f = from * one /\ t = to * one /\ f < m /\ t < m /\ t > 0
    <2>1. from * one \in Nat /\ to * one \in Nat /\ one <= to * one
      <3>1. 1 * one <= to * one /\ 1 * one = one
        BY Product
      <3> QED
        BY <3>1, Product
    <2> QED
      BY <1>1, <1>2, <2>1
  <1>4. \A v \in Nat : v < m => Wrap(v) = v
    BY <1>2, Unwrapped
  <1>5. IntToFixed(from) = f /\ IntToFixed(to) = t
    BY <1>1, <1>3, <1>4 DEF IntToFixed
  <1>6. PICK s \in Nat : s = (f * one) \div t /\ s * t <= f * one
    <2>1. f * one \in Nat
      BY Product
    <2> QED
      BY <1>3, <2>1, Quotient
  <1>7. s * to <= f
    <2>1. s * t = (s * to) * one /\ s * to \in Nat
      BY <1>3
    <2>2. (s * to) * one <= f * one
      BY <1>6, <2>1
    <2> QED
      BY <1>1, <2>1, <2>2, Factor
  <1>8. \A n \in 0..to : n * s \in Nat /\ n * s <= f
    <2> SUFFICES ASSUME NEW n \in 0..to PROVE n * s \in Nat /\ n * s <= f
      OBVIOUS
    <2>1. n * s <= to * s /\ n * s \in Nat
      BY Product
    <2>2. to * s = s * to
      OBVIOUS
    <2> QED
      BY <1>7, <2>1, <2>2
  <1>9. s <= f
    <2>1. 1 * s \in Nat /\ 1 * s <= f /\ 1 * s = s
      BY <1>8
    <2> QED
      BY <2>1
  <1>10. Step(from, to) = s
    <2>1. s < m
      BY <1>3, <1>9
    <2>2. Wrap(s) = s
      BY <1>4, <2>1
    <2> QED
      BY <1>1, <1>5, <1>6, <2>2 DEF Step, FixedDiv
  <1>11. ASSUME NEW n \in 0..to PROVE FixedMul(IntToFixed(n), s) = n * s
    <2>1. PICK k \in Nat : k = n * one /\ k <= t
      <3>1. n * one \in Nat /\ n * one <= to * one
        BY Product
      <3> QED
        BY <1>3, <3>1
    <2>2. IntToFixed(n) = k
      BY <1>1, <1>3, <1>4, <2>1 DEF IntToFixed
    <2>3. PICK v \in Nat : v = n * s /\ v <= f
      BY <1>8
    <2>4. k * s = v * one
      BY <2>1, <2>3
    <2>5. (k * s) \div one = v
      <3>1. PICK q \in Nat : q = (v * one) \div one /\ q * one <= v * one /\ v * one < q * one + one
        <4>1. v * one \in Nat
          BY Product
        <4> QED
          BY <1>1, <4>1, Quotient
      <3>2. q <= v
        BY <1>1, <3>1, Factor
      <3>3. v < q + 1
        <4>1. (q + 1) * one = q * one + one
          BY Product
        <4>2. v * one < (q + 1) * one
          BY <3>1, <4>1
        <4> QED
          BY <4>2, Factor
      <3> QED
        BY <2>4, <3>1, <3>2, <3>3
    <2>6. Wrap(v) = v
      BY <1>3, <1>4, <2>3
    <2> QED
      BY <1>1, <2>2, <2>3, <2>5, <2>6 DEF FixedMul
  <1>12. to * s <= from * Fixed1
    BY <1>1, <1>3, <1>8
  <1> QED
    BY <1>10, <1>11, <1>12 DEF Steps

(* The source coordinates of a target coordinate are the image's, and what *)
(* it stands for does not end before it begins.                            *)
Reaches(n, from, to) ==
  /\ Sources(First(n, from, to), Last(n, from, to)) \subseteq 0..(from - 1)
  /\ First(n, from, to) \in Nat /\ Last(n, from, to) \in Nat
  /\ First(n, from, to) <= Last(n, from, to)

(* So it is for every target coordinate of a side.                         *)
LEMMA SideInside ==
  ASSUME PowersOfTwo, NEW from \in Nat, NEW to \in Nat, from > 0, NEW n \in 0..(to - 1),
         from * Fixed1 < 2 ^ (WordBits - 1), to * Fixed1 < 2 ^ (WordBits - 1)
  PROVE  Reaches(n, from, to)
  <1>1. PICK one \in Nat : one = Fixed1 /\ one > 0
    <2>1. 2 ^ FracBits \in Int
      BY ThumbResizeAssumption
    <2> QED
      BY <2>1 DEF PowersOfTwo, Fixed1
  <1>2. PICK s \in Nat : s = Step(from, to) /\ Steps(s, from, to)
    <2>1. Steps(Step(from, to), from, to)
      BY StepFits
    <2> QED
      BY <2>1 DEF Steps
  <1>3. n \in 0..to /\ n + 1 \in 0..to
    OBVIOUS
  <1>4. First(n, from, to) = n * s /\ Last(n, from, to) = (n + 1) * s
    BY <1>2, <1>3 DEF First, Last, Steps, Step
  <1>5. PICK f \in Nat, l \in Nat, e \in Nat :
          f = n * s /\ l = f + s /\ l = (n + 1) * s /\ e = from * one /\ l <= e
    <2>1. n * s \in Nat /\ (n + 1) * s = n * s + s
      BY Product
    <2>2. (n + 1) * s <= to * s
      BY <1>3, Product
    <2>3. to * s <= from * one
      BY <1>1, <1>2 DEF Steps
    <2>4. to * s \in Nat /\ from * one \in Nat
      BY Product
    <2> QED
      BY <2>1, <2>2, <2>3, <2>4
  <1>6. PICK g \in Nat : g = f \div one /\ g * one <= f
    BY <1>1, Quotient
  <1>7. PICK u \in Int : u = l \div one
    BY <1>1, Quotient
  <1>11. First(n, from, to) \in Nat /\ Last(n, from, to) \in Nat
         /\ First(n, from, to) <= Last(n, from, to)
    BY <1>4, <1>5
  <1> SUFFICES ASSUME NEW i \in g..u, i = g \/ i * one < l PROVE i \in 0..(from - 1)
    BY <1>1, <1>4, <1>5, <1>6, <1>7, <1>11 DEF Reaches, Sources, FixedToInt
  <1>8. i \in Nat
    OBVIOUS
  <1>9. i * one < e
    <2>1. CASE i * one < l
      <3>1. i * one \in Nat
        BY <1>8, Product
      <3> QED
        BY <1>5, <2>1, <3>1
    <2>2. CASE i = g
      <3>1. CASE s = 0
        <4>1. f = 0
          BY <1>5, <3>1
        <4>2. 0 < e
          <5>1. 0 * one + one <= from * one /\ 0 * one = 0
            BY Product
          <5> QED
            BY <1>1, <1>5, <5>1
        <4>3. g * one \in Nat
          BY Product
        <4> QED
          BY <1>6, <2>2, <4>1, <4>2, <4>3
      <3>2. CASE s > 0
        <4>1. g * one \in Nat
          BY Product
        <4> QED
          BY <1>5, <1>6, <2>2, <3>2, <4>1
      <3> QED
        BY <3>1, <3>2
    <2> QED
      BY <2>1, <2>2
  <1>10. i < from
    BY <1>5, <1>8, <1>9, Factor
  <1> QED
    BY <1>8, <1>10

(* The next pixel's source coordinates are the image's.                    *)
LEMMA PlaceReaches ==
  ASSUME PowersOfTwo, IInv, FitsWord, Working
  PROVE  /\ Reaches(at.x - inner.x, src.width, inner.width)
         /\ Reaches(at.y - inner.y, src.height, inner.height)
  <1>1. PICK fw \in Nat, fh \in Nat : fw = src.width /\ fh = src.height /\ fw > 0 /\ fh > 0
    BY ImageShape DEF IInv
  <1>2. PICK tw \in Nat, th \in Nat : tw = inner.width /\ th = inner.height
    BY DEF IInv, TypeOK
  <1>3. PICK x \in 0..(tw - 1), y \in 0..(th - 1) : x = at.x - inner.x /\ y = at.y - inner.y
    BY <1>2, NextIsPlaced DEF NextPlaced
  <1>4. /\ fw * Fixed1 < 2 ^ (WordBits - 1) /\ tw * Fixed1 < 2 ^ (WordBits - 1)
        /\ fh * Fixed1 < 2 ^ (WordBits - 1) /\ th * Fixed1 < 2 ^ (WordBits - 1)
    BY <1>1, <1>2 DEF FitsWord
  <1>5. Reaches(x, fw, tw)
    BY <1>1, <1>4, SideInside
  <1>6. Reaches(y, fh, th)
    BY <1>1, <1>4, SideInside
  <1> QED
    BY <1>1, <1>2, <1>3, <1>5, <1>6

(* The resizer reads no pixel outside the image, as long as the sides are  *)
(* in the range of a fixed_t.                                              *)
THEOREM ReadsStayInside ==
  ASSUME PowersOfTwo
  PROVE  Spec => [](FitsWord => ReadsInside)
  <1>1. IInv => (FitsWord => ReadsInside)
    <2> SUFFICES ASSUME IInv, FitsWord, Working
                 PROVE  Reads \subseteq (0..(src.width - 1)) \X (0..(src.height - 1))
      BY DEF ReadsInside
    <2>1. /\ Sources(XRange[1], XRange[2]) \subseteq 0..(src.width - 1)
          /\ Sources(YRange[1], YRange[2]) \subseteq 0..(src.height - 1)
      BY PlaceReaches DEF XRange, YRange, Reaches
    <2> QED
      BY <2>1 DEF Reads
  <1> QED
    BY <1>1, Inductive, PTL

-----------------------------------------------------------------------------
(* How much of source coordinate i lies between f and l.                   *)
Overlap(i, f, l) ==
  (IF (i + 1) * Fixed1 < l THEN (i + 1) * Fixed1 ELSE l)
    - (IF i * Fixed1 > f THEN i * Fixed1 ELSE f)

(* Each source coordinate that is visited counts for what lies between f   *)
(* and l, and each of which something does is visited.                     *)
Exact(f, l) ==
  \A i \in Nat : /\ i \in Sources(f, l) => Portion(i, f, l) = Overlap(i, f, l)
                 /\ Overlap(i, f, l) > 0 => i \in Sources(f, l)

(* The portions of the do loop are these.                                  *)
LEMMA PortionExact ==
  ASSUME PowersOfTwo, NEW f \in Nat, NEW l \in Nat, f <= l
  PROVE  Exact(f, l)
  <1>1. PICK one \in Nat : one = Fixed1 /\ one > 0
    <2>1. 2 ^ FracBits \in Int
      BY ThumbResizeAssumption
    <2> QED
      BY <2>1 DEF PowersOfTwo, Fixed1
  <1>2. PICK g \in Nat, r \in 0..(one - 1), gp \in Nat :
          g = f \div one /\ r = f % one /\ gp = g * one /\ f = gp + r
    <2>1. f \div one \in Nat /\ f % one \in 0..(one - 1) /\ f = (f \div one) * one + (f % one)
      BY <1>1, Quotient
    <2>2. (f \div one) * one \in Nat
      BY <2>1, Product
    <2> QED
      BY <2>1, <2>2
  <1>3. PICK u \in Nat, t \in 0..(one - 1), up \in Nat :
          u = l \div one /\ t = l % one /\ up = u * one /\ l = up + t
    <2>1. l \div one \in Nat /\ l % one \in 0..(one - 1) /\ l = (l \div one) * one + (l % one)
      BY <1>1, Quotient
    <2>2. (l \div one) * one \in Nat
      BY <2>1, Product
    <2> QED
      BY <2>1, <2>2
  <1> SUFFICES ASSUME NEW i \in Nat
               PROVE  /\ i \in Sources(f, l) => Portion(i, f, l) = Overlap(i, f, l)
                      /\ Overlap(i, f, l) > 0 => i \in Sources(f, l)
    BY DEF Exact
  <1>4. PICK p \in Nat : p = i * one /\ (i + 1) * one = p + one
    BY Product
  <1>5. /\ i < g => p + one <= gp
        /\ g < i => gp + one <= p
        /\ i < u => p + one <= up
        /\ u < i => up + one <= p
        /\ i = u => p = up
        /\ i = g => p = gp
    BY <1>2, <1>3, <1>4, Product
  <1>6. Sources(f, l) = {j \in g..u : j = g \/ j * one < l}
    BY <1>1, <1>2, <1>3 DEF Sources, FixedToInt
  <1>7. Overlap(i, f, l) = (IF p + one < l THEN p + one ELSE l) - (IF p > f THEN p ELSE f)
    BY <1>1, <1>4 DEF Overlap
  <1>8. Portion(i, f, l) = IF i = g THEN IF one - r > l - f THEN l - f ELSE one - r
                           ELSE IF p = l - t THEN t ELSE one
    BY <1>1, <1>2, <1>3, <1>4 DEF Portion, FixedToInt, FixedFrac, FixedFloor
  <1>9. ASSUME i \in Sources(f, l) PROVE Portion(i, f, l) = Overlap(i, f, l)
    <2>1. i \in g..u /\ (i = g \/ p < l)
      BY <1>4, <1>6, <1>9
    <2>2. CASE i = g
      <3>1. p = gp /\ p <= f
        BY <1>2, <1>5, <2>2
      <3>2. Portion(i, f, l) = IF one - r > l - f THEN l - f ELSE one - r
        BY <1>8, <2>2
      <3> QED
        BY <1>2, <1>7, <3>1, <3>2
    <2>3. CASE i # g
      <3>1. p > f /\ p < l
        BY <1>2, <1>5, <2>1, <2>3
      <3>2. CASE i = u
        <4>1. Portion(i, f, l) = t /\ p = up
          BY <1>3, <1>5, <1>8, <2>3, <3>2
        <4> QED
          BY <1>3, <1>7, <3>1, <4>1
      <3>3. CASE i # u
        <4>1. p + one <= up
          BY <1>5, <2>1, <3>3
        <4>2. Portion(i, f, l) = one
          BY <1>1, <1>3, <1>8, <2>3, <4>1
        <4> QED
          BY <1>3, <1>7, <3>1, <4>1, <4>2
      <3> QED
        BY <3>2, <3>3
    <2> QED
      BY <2>2, <2>3
  <1>10. ASSUME Overlap(i, f, l) > 0 PROVE i \in Sources(f, l)
    <2>1. p < l /\ p + one > f
      BY <1>1, <1>7, <1>10
    <2>2. i \in g..u
      BY <1>2, <1>3, <1>5, <2>1
    <2> QED
      BY <1>4, <1>6, <2>1, <2>2
  <1> QED
    BY <1>9, <1>10

(* No part of the image between a pixel's first and last source coordinate *)
(* is left out or counted twice: each counts for exactly as much of it as  *)
(* belongs to the pixel.                                                   *)
THEOREM PortionsExact ==
  ASSUME PowersOfTwo
  PROVE  Spec => [](FitsWord /\ Working =>
                      Exact(XRange[1], XRange[2]) /\ Exact(YRange[1], YRange[2]))
  <1>1. IInv => (FitsWord /\ Working =>
                   Exact(XRange[1], XRange[2]) /\ Exact(YRange[1], YRange[2]))
    <2> SUFFICES ASSUME IInv, FitsWord, Working
                 PROVE  Exact(XRange[1], XRange[2]) /\ Exact(YRange[1], YRange[2])
      OBVIOUS
    <2>1. /\ Reaches(at.x - inner.x, src.width, inner.width)
          /\ Reaches(at.y - inner.y, src.height, inner.height)
      BY PlaceReaches
    <2>2. /\ XRange[1] \in Nat /\ XRange[2] \in Nat /\ XRange[1] <= XRange[2]
          /\ YRange[1] \in Nat /\ YRange[2] \in Nat /\ YRange[1] <= YRange[2]
      BY <2>1 DEF XRange, YRange, Reaches
    <2> QED
      BY <2>2, PortionExact
  <1> QED
    BY <1>1, Inductive, PTL

-----------------------------------------------------------------------------
(* A fixed_t has room for the largest colour, and for the inverse of the   *)
(* smallest weight: 255 * 2^12 and 2^24 are less than 2^31.                *)
RoomForColours ==
  MaxColour * Fixed1 < 2 ^ (WordBits - 1) /\ Fixed1 * Fixed1 < 2 ^ (WordBits - 1)

(* The average of one colour: not more than it, and less by no more than   *)
(* the error of the inverse and one.                                       *)
Plain(weight) ==
  /\ Averaged(weight) \in Nat
  /\ Averaged(weight) <= Colour
  /\ (Colour - Averaged(weight) - 1) * Fixed1 * Fixed1 <= Colour * weight

(* An inverse times what it is the inverse of, and taken down twice.       *)
Rounded(c, w, k, d, a, one) ==
  /\ d <= c * one /\ a <= c /\ (c - a - 1) * one * one <= c * w

(* What the two divisions lose.                                            *)
LEMMA Rounding ==
  ASSUME NEW c \in Nat, NEW w \in Nat, NEW k \in Nat, NEW d \in Nat, NEW a \in Nat, NEW one \in Nat,
         one > 0, k * w <= one * one, one * one < k * w + w,
         d * one <= (c * w) * k, (c * w) * k < d * one + one,
         a * one <= d, d < a * one + one
  PROVE  Rounded(c, w, k, d, a, one)
  <1>1. PICK sq \in Nat, kw \in Nat, cw \in Nat, csq \in Nat, ckw \in Nat :
          /\ sq = one * one /\ kw = k * w /\ cw = c * w /\ csq = c * sq /\ ckw = c * kw
    OBVIOUS
  <1>2. kw <= sq /\ sq <= kw + w /\ (c * w) * k = ckw
    BY <1>1
  <1>3. ckw <= csq /\ csq <= ckw + cw
    <2>1. kw * c <= sq * c /\ sq * c <= (kw + w) * c
      BY <1>2, Product
    <2>2. (kw + w) * c = ckw + cw /\ kw * c = ckw /\ sq * c = csq
      BY <1>1
    <2> QED
      BY <2>1, <2>2
  <1>4. d <= c * one
    <2>1. d * one <= (c * one) * one
      <3>1. d * one <= ckw
        BY <1>2
      <3>2. (c * one) * one = csq
        BY <1>1
      <3>3. d * one \in Nat
        BY Product
      <3> QED
        BY <1>3, <3>1, <3>2, <3>3
    <2>2. c * one \in Nat
      BY Product
    <2> QED
      BY <2>1, <2>2, Factor
  <1>5. a <= c
    <2>1. a * one <= c * one
      <3>1. a * one \in Nat /\ c * one \in Nat
        BY Product
      <3> QED
        BY <1>4, <3>1
    <2> QED
      BY <2>1, Factor
  <1>6. (c - a - 1) * one * one <= cw
    <2>1. PICK ao \in Nat, dq \in Nat, asq \in Nat : ao = a * one /\ dq = d * one /\ asq = ao * one
      BY Product
    <2>2. dq + one <= asq + sq
      <3>1. d + 1 <= ao + one
        BY <2>1
      <3>2. (d + 1) * one <= (ao + one) * one
        BY <2>1, <3>1, Product
      <3>3. (d + 1) * one = dq + one /\ (ao + one) * one = asq + sq
        BY <1>1, <2>1
      <3> QED
        BY <3>2, <3>3
    <2>3. ckw < asq + sq
      BY <1>2, <2>1, <2>2
    <2>4. (c - a - 1) * one * one = csq - asq - sq
      BY <1>1, <2>1
    <2> QED
      BY <1>3, <2>3, <2>4
  <1> QED
    BY <1>1, <1>4, <1>5, <1>6 DEF Rounded

(* The average of one colour is such an average.                           *)
LEMMA PlainAverage ==
  ASSUME PowersOfTwo, RoomForColours, NEW weight \in Nat, weight < 2 ^ (WordBits - 1),
         InRange(weight)
  PROVE  Plain(weight)
  <1>1. PICK one \in Nat : one = Fixed1 /\ one > 0
    <2>1. 2 ^ FracBits \in Int
      BY ThumbResizeAssumption
    <2> QED
      BY <2>1 DEF PowersOfTwo, Fixed1
  <1>2. PICK m \in Nat : m = 2 ^ (WordBits - 1)
    <2>1. 2 ^ (WordBits - 1) \in Int
      BY ThumbResizeAssumption
    <2> QED
      BY <2>1 DEF PowersOfTwo
  <1>3. PICK c \in Nat, mc \in Nat : c = Colour /\ mc = MaxColour /\ c <= mc
    BY ThumbResizeAssumption
  <1>4. \A v \in Nat : v < m => Wrap(v) = v
    BY <1>2, Unwrapped
  <1>5. PICK cw \in Nat, sq \in Nat, co \in Nat, mo \in Nat :
          /\ cw = c * weight /\ sq = one * one /\ co = c * one /\ mo = mc * one
          /\ cw < m /\ sq < m /\ co <= mo /\ mo < m
    <2>1. /\ c * weight \in Nat /\ one * one \in Nat /\ c * one \in Nat /\ mc * one \in Nat
          /\ c * one <= mc * one
      BY <1>3, Product
    <2>2. c * weight < m /\ weight > 0
      BY <1>2, <1>3 DEF InRange
    <2>3. one * one < m /\ mc * one < m
      BY <1>1, <1>2, <1>3 DEF RoomForColours
    <2> QED
      BY <2>1, <2>2, <2>3
  <1>6. weight > 0
    BY DEF InRange
  <1>7. PICK k \in Nat : k = sq \div weight /\ k * weight <= sq /\ sq < k * weight + weight
    BY <1>6, Quotient
  <1>8. PICK e \in Nat : e = cw * k
    BY Product
  <1>9. PICK d \in Nat : d = e \div one /\ d * one <= e /\ e < d * one + one
    BY <1>1, Quotient
  <1>10. PICK a \in Nat : a = d \div one /\ a * one <= d /\ d < a * one + one
    BY <1>1, Quotient
  <1>11. Rounded(c, weight, k, d, a, one)
    BY <1>1, <1>5, <1>7, <1>8, <1>9, <1>10, Rounding
  <1>12. d <= co /\ a <= c /\ (c - a - 1) * one * one <= cw
    BY <1>5, <1>11 DEF Rounded
  <1>13. k <= sq
    <2>1. 1 * k <= weight * k /\ weight * k = k * weight /\ 1 * k = k
      BY <1>6, Product
    <2>2. k * weight \in Nat
      BY Product
    <2> QED
      BY <1>7, <2>1, <2>2
  <1>14. Wrap(Colour * weight) = cw /\ Wrap(weight) = weight /\ IntToFixed(MaxColour) = mo
    BY <1>1, <1>2, <1>3, <1>4, <1>5 DEF IntToFixed
  <1>15. FixedDiv(Fixed1, weight) = k
    <2>1. Wrap(k) = k
      BY <1>4, <1>5, <1>13
    <2> QED
      BY <1>1, <1>5, <1>7, <2>1 DEF FixedDiv
  <1>16. FixedMul(cw, k) = d
    <2>1. Wrap(d) = d
      BY <1>4, <1>5, <1>12
    <2> QED
      BY <1>1, <1>8, <1>9, <2>1 DEF FixedMul
  <1>17. Averaged(weight) = FixedToInt(d)
    <2>1. ~(d > mo) /\ weight # 0
      BY <1>5, <1>6, <1>12
    <2> QED
      BY <1>14, <1>15, <1>16, <2>1 DEF Averaged
  <1>18. Averaged(weight) = a
    BY <1>1, <1>10, <1>17 DEF FixedToInt
  <1> QED
    BY <1>1, <1>3, <1>5, <1>12, <1>18 DEF Plain
=============================================================================
