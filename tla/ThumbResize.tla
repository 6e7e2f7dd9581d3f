---------------------------- MODULE ThumbResize ----------------------------
(***************************************************************************)
(* A thumbnail from the pixels of an image to the picture that is          *)
(* compressed: thumb_create_from_image and the fixed-point resizer of      *)
(* src/thumb.c, the arithmetic of src/fixed.h, and the rows that           *)
(* image_jpeg_compress and image_png_compress take out of the pixels.      *)
(*                                                                         *)
(* A cell of the pixel buffer holds the place of the scaled image it       *)
(* shows and its colour, of which there is one channel; the colours of     *)
(* the image are left out but for the case of an image of one colour,      *)
(* Colour, which the resizer should not change.                            *)
(***************************************************************************)
EXTENDS Integers, FiniteSets, FiniteSetsExt

CONSTANTS
  FracBits,        \* FRAC_BITS (12)
  WordBits,        \* bits of a fixed_t (32)
  MaxColour,       \* the largest colour (255)
  Colour,          \* the image's colour
  MaxSide,         \* bound: width and height of an image and of a thumbnail
  Orientations     \* Exif orientations, as they are read: of 16 bits

ASSUME ThumbResizeAssumption ==
  /\ FracBits \in Nat /\ WordBits \in Nat /\ FracBits < WordBits
  /\ MaxColour \in Nat /\ Colour \in 0..MaxColour /\ MaxSide \in Nat \ {0}
  /\ Orientations \subseteq Nat

VARIABLES
  pc,              \* size, pixels, rotated or done
  src,             \* the image: width, height, orientation
  spec,            \* what was asked for: width, height (0: not given), keep_aspect
  dst,             \* the thumbnail's width and height
  inner,           \* where the image goes: dstX, dstY, dstW, dstH
  at,              \* the next pixel: x, y
  pixbuf,          \* the thumbnail's cells, by index
  copied           \* the thumbnail shares the image's pixels

vars == <<pc, src, spec, dst, inner, at, pixbuf, copied>>

Side == 1..MaxSide
Blank == [from |-> <<>>, colour |-> 0]

-----------------------------------------------------------------------------
(* src/fixed.h.                                                            *)
Fixed1 == 2 ^ FracBits
Wrap(v) == ((v + 2 ^ (WordBits - 1)) % 2 ^ WordBits) - 2 ^ (WordBits - 1)
IntToFixed(n) == Wrap(n * Fixed1)
FixedToInt(f) == f \div Fixed1
FixedMul(a, b) == Wrap((a * b) \div Fixed1)
FixedDiv(a, b) == Wrap((a * Fixed1) \div b)
FixedFrac(f) == f % Fixed1
FixedFloor(f) == f - FixedFrac(f)

-----------------------------------------------------------------------------
(* thumb_create_from_image: a size that was not given follows from the     *)
(* other and the image.  float arithmetic may come out just below a whole  *)
(* number.                                                                 *)
Scaled(a, b, n) ==
  LET whole == (a * n) \div b
      may == {whole} \cup (IF (a * n) % b = 0 THEN {whole - 1} ELSE {})
  IN {IF m < 1 THEN 1 ELSE m : m \in may}

(* The image of a rotated photo lies on its side: a width that was asked   *)
(* for is the height of what is made first, if it is all that was given.   *)
Asked(s, orientation) ==
  IF orientation >= 5 /\ (s.width = 0 \/ s.height = 0)
  THEN [s EXCEPT !.width = s.height, !.height = s.width] ELSE s

Sizes(image, s) ==
  LET a == Asked(s, image.orientation) IN
  IF a.height = 0
  THEN {[width |-> a.width, height |-> h] : h \in Scaled(image.height, image.width, a.width)}
  ELSE IF a.width = 0
  THEN {[width |-> w, height |-> a.height] : w \in Scaled(image.width, image.height, a.height)}
  ELSE {[width |-> a.width, height |-> a.height]}

(* Mutant of Inner: the least width and height are forgotten.              *)
InnerUnbounded(image, t, keep) ==
  LET wide == image.width * t.height >= t.width * image.height
      padY == (t.height * image.width - t.width * image.height) \div (2 * image.width)
      padX == (t.width * image.height - t.height * image.width) \div (2 * image.height)
  IN IF keep /\ wide /\ padY > 0
     THEN [x |-> 0, y |-> padY, width |-> t.width,
           height |-> (t.width * image.height) \div image.width]
     ELSE IF keep /\ ~wide /\ padX > 0
     THEN [x |-> padX, y |-> 0, width |-> (t.height * image.width) \div image.height,
           height |-> t.height]
     ELSE [x |-> 0, y |-> 0, width |-> t.width, height |-> t.height]

(* thumb_resize: an image of another shape is centred, and the rest of the *)
(* thumbnail is filled.  A padding that rounds to 0 is none.  (The code    *)
(* computes this in float; the model is exact.)                            *)
Inner(image, t, keep) ==
  LET wide == image.width * t.height >= t.width * image.height
      padY == (t.height * image.width - t.width * image.height) \div (2 * image.width)
      padX == (t.width * image.height - t.height * image.width) \div (2 * image.height)
      innerH == (t.width * image.height) \div image.width
      innerW == (t.height * image.width) \div image.height
  IN IF keep /\ wide /\ padY > 0
     THEN [x |-> 0, y |-> padY, width |-> t.width, height |-> IF innerH < 1 THEN 1 ELSE innerH]
     ELSE IF keep /\ ~wide /\ padX > 0
     THEN [x |-> padX, y |-> 0, width |-> IF innerW < 1 THEN 1 ELSE innerW, height |-> t.height]
     ELSE [x |-> 0, y |-> 0, width |-> t.width, height |-> t.height]

-----------------------------------------------------------------------------
(* thumb_resize_gd_fixed, along one side: the part of the source a target  *)
(* coordinate n stands for, from First to Last in fixed point.             *)
First(n, from, to) == FixedMul(IntToFixed(n), FixedDiv(IntToFixed(from), IntToFixed(to)))
Last(n, from, to) == First(n + 1, from, to)

(* Mutant of Sources: the loop goes on while sx is at most sx2.            *)
SourcesToEnd(f, l) == FixedToInt(f) .. FixedToInt(l)

(* The source coordinates the do loop visits: one, and others as long as   *)
(* they begin before Last.                                                 *)
Sources(f, l) ==
  {i \in FixedToInt(f) .. FixedToInt(l) : i = FixedToInt(f) \/ i * Fixed1 < l}

(* Mutant of Portion: the last one counts in full.                         *)
PortionFull(i, f, l) ==
  IF i = FixedToInt(f)
  THEN IF Fixed1 - FixedFrac(f) > l - f THEN l - f ELSE Fixed1 - FixedFrac(f)
  ELSE Fixed1

(* How much of source coordinate i counts.                                 *)
Portion(i, f, l) ==
  IF i = FixedToInt(f)
  THEN IF Fixed1 - FixedFrac(f) > l - f THEN l - f ELSE Fixed1 - FixedFrac(f)
  ELSE IF i * Fixed1 = FixedFloor(l) THEN FixedFrac(l) ELSE Fixed1

XRange == <<First(at.x - inner.x, src.width, inner.width),
            Last(at.x - inner.x, src.width, inner.width)>>
YRange == <<First(at.y - inner.y, src.height, inner.height),
            Last(at.y - inner.y, src.height, inner.height)>>

(* The pixels get_pix reads for the next pixel.                            *)
Reads == Sources(XRange[1], XRange[2]) \X Sources(YRange[1], YRange[2])

(* spixels: what they count for, in all.                                   *)
Weight ==
  MapThenSumSet(LAMBDA p : FixedMul(Portion(p[1], XRange[1], XRange[2]),
                                    Portion(p[2], YRange[1], YRange[2])), Reads)

(* Mutant of Averaged: the sum is taken down to whole colours before it is *)
(* divided.                                                                *)
AveragedEarly(weight) ==
  LET sum == FixedFloor(Wrap(Colour * weight))
      spixels == Wrap(weight)
      avg == IF spixels = 0 THEN sum ELSE FixedMul(sum, FixedDiv(Fixed1, spixels))
  IN FixedToInt(IF avg > IntToFixed(MaxColour) THEN IntToFixed(MaxColour) ELSE avg)

(* The colour, summed over an image of one colour, and divided by spixels, *)
(* which may be 0 where the image is made much larger.  A sum that became  *)
(* negative is noticed, and taken as it is.                                *)
Averaged(weight) ==
  LET sum == Wrap(Colour * weight)
      spixels == Wrap(weight)
      avg == IF spixels = 0 THEN sum ELSE FixedMul(sum, FixedDiv(Fixed1, spixels))
  IN FixedToInt(IF avg > IntToFixed(MaxColour) THEN IntToFixed(MaxColour) ELSE avg)

(* get_rotated_coords, which leaves alone what it does not know.           *)
RotatedCoords(o, w, h, x, y) ==
  CASE o = 2 -> <<w - 1 - x, y>>
    [] o = 3 -> <<w - 1 - x, h - 1 - y>>
    [] o = 4 -> <<x, h - 1 - y>>
    [] o = 5 -> <<y, x>>
    [] o = 6 -> <<h - 1 - y, x>>
    [] o = 7 -> <<h - 1 - y, w - 1 - x>>
    [] o = 8 -> <<y, w - 1 - x>>
    [] OTHER -> <<x, y>>

(* Mutant of Index: put_pix is used for every orientation.                 *)
IndexPutPix(o, w, h, x, y) ==
  LET c == RotatedCoords(o, w, h, x, y) IN c[2] * w + c[1]

(* put_pix, and put_pix_rotated, whose rows are as long as the thumbnail   *)
(* is high, and which is used for unknown orientations of 9 and more too.  *)
Index(o, w, h, x, y) ==
  LET c == RotatedCoords(o, w, h, x, y) IN c[2] * (IF o >= 5 THEN h ELSE w) + c[1]

Cells == DOMAIN pixbuf
NextIndex == Index(src.orientation, dst.width, dst.height, at.x, at.y)

-----------------------------------------------------------------------------
(* The thumbnail is allocated, and the first pixel is next; or it has the  *)
(* size of the image, and takes over the image's pixels as they are.       *)
ThumbCreate ==
  /\ pc = "size"
  /\ dst' \in Sizes(src, spec)
  /\ copied' = (dst' = [width |-> src.width, height |-> src.height])
  /\ IF copied'
     THEN /\ pixbuf' = [i \in 0..(dst'.width * dst'.height - 1) |->
                          [from |-> <<i % dst'.width, i \div dst'.width>>, colour |-> Colour]]
          /\ pc' = "done" /\ UNCHANGED <<inner, at>>
     ELSE /\ inner' = Inner(src, dst', spec.keep)
          /\ pixbuf' = [i \in 0..(dst'.width * dst'.height - 1) |-> Blank]
          /\ at' = [x |-> inner'.x, y |-> inner'.y]
          /\ pc' = "pixels"
  /\ UNCHANGED <<src, spec>>

(* A pixel is put, and the next one is to its right or begins a row.  One  *)
(* that is put outside the thumbnail is lost; what else it changes there   *)
(* is not modelled.                                                        *)
PutPix ==
  /\ pc = "pixels" /\ at.y < inner.y + inner.height
  /\ LET pixel == [from |-> <<at.x - inner.x, at.y - inner.y>>, colour |-> Averaged(Weight)] IN
       pixbuf' = [i \in Cells |-> IF i = NextIndex THEN pixel ELSE pixbuf[i]]
  /\ at' = IF at.x + 1 < inner.x + inner.width
           THEN [at EXCEPT !.x = @ + 1] ELSE [x |-> inner.x, y |-> at.y + 1]
  /\ UNCHANGED <<pc, src, spec, dst, inner, copied>>

(* Mutant of Resized: width and height stay as they are.                   *)
ResizedUnturned ==
  /\ pc = "pixels" /\ at.y = inner.y + inner.height
  /\ pc' = "done" /\ UNCHANGED <<src, spec, dst, inner, at, pixbuf, copied>>

(* The end of thumb_resize: a picture that was turned has its width and    *)
(* height exchanged.                                                       *)
Resized ==
  /\ pc = "pixels" /\ at.y = inner.y + inner.height
  /\ dst' = IF src.orientation >= 5
            THEN [width |-> dst.height, height |-> dst.width] ELSE dst
  /\ pc' = "done" /\ UNCHANGED <<src, spec, inner, at, pixbuf, copied>>

(* The picture a compressor writes, when it takes so many rows of so many  *)
(* cells from the beginning of the pixels.                                 *)
Picture(w, h) == [p \in (0..(w - 1)) \X (0..(h - 1)) |-> pixbuf[p[2] * w + p[1]]]

(* image_jpeg_compress: the size is the thumbnail's.                       *)
JpegPicture == Picture(dst.width, dst.height)

(* image_png_compress: the size is the specification's, as it was worked   *)
(* out before the picture was turned.                                      *)
PngPicture ==
  IF src.orientation >= 5 /\ ~copied
  THEN Picture(dst.height, dst.width) ELSE Picture(dst.width, dst.height)

Init ==
  /\ pc = "size"
  /\ src \in [width : Side, height : Side, orientation : Orientations]
  /\ spec \in [width : 0..MaxSide, height : 0..MaxSide, keep : BOOLEAN]
  /\ spec.width > 0 \/ spec.height > 0
  /\ dst = [width |-> 0, height |-> 0] /\ pixbuf = <<>>
  /\ inner = [x |-> 0, y |-> 0, width |-> 0, height |-> 0] /\ at = [x |-> 0, y |-> 0]
  /\ copied = FALSE

Next == ThumbCreate \/ PutPix \/ Resized

Spec == Init /\ [][Next]_vars
-----------------------------------------------------------------------------
Working == pc = "pixels" /\ at.y < inner.y + inner.height

(* Every variable keeps its type: the image's place is inside the          *)
(* thumbnail, and so is the next pixel.                                    *)
TypeOK ==
  /\ pc \in {"size", "pixels", "done"}
  /\ src \in [width : Side, height : Side, orientation : Orientations]
  /\ spec \in [width : 0..MaxSide, height : 0..MaxSide, keep : BOOLEAN]
  /\ dst \in [width : Nat, height : Nat]
  /\ inner \in [x : Nat, y : Nat, width : Nat, height : Nat]
  /\ at \in [x : Nat, y : Nat]
  /\ copied \in BOOLEAN
  /\ pc = "pixels" =>
       /\ inner.width > 0 /\ inner.x + inner.width <= dst.width
       /\ inner.height > 0 /\ inner.y + inner.height <= dst.height
       /\ at.x \in inner.x..(inner.x + inner.width - 1)
       /\ at.y \in inner.y..(inner.y + inner.height)

(* The resizer reads pixels of the image only, however its fixed-point     *)
(* scale was rounded.                                                      *)
ReadsInside ==
  Working => Reads \subseteq (0..(src.width - 1)) \X (0..(src.height - 1))

(* An orientation that Exif defines, or 0, which is treated like 1.        *)
Known == src.orientation <= 8

(* It writes each cell at most once and none outside the thumbnail, turned *)
(* or not, and in the end every cell that is not padding: for the known    *)
(* orientations.  UnknownUnturned is about the others.                     *)
WrittenOnce ==
  Known =>
  /\ Working => NextIndex \in Cells /\ pixbuf[NextIndex] = Blank
  /\ pc = "done" /\ ~copied =>
       Cardinality({i \in Cells : pixbuf[i] # Blank}) = inner.width * inner.height

(* What the source coordinates of a pixel count for adds up to what the    *)
(* pixel stands for, along each side: no part of the image between its     *)
(* first and its last pixel is left out or counted twice.                  *)
PortionsAddUp ==
  Working =>
    \A range \in {XRange, YRange} :
      MapThenSumSet(LAMBDA i : Portion(i, range[1], range[2]), Sources(range[1], range[2]))
        = range[2] - range[1]

(* A picture of one colour stays one, but for what is lost in rounding the *)
(* inverse of the number of source pixels per pixel: as much of the colour *)
(* as that number is of 2^FRAC_BITS, and less than one besides.  Beyond    *)
(* the range of a fixed_t, and where so little of a source pixel counts    *)
(* that its weight is 0, there is no promise.                              *)
InRange(weight) == weight > 0 /\ Colour * weight < 2 ^ (WordBits - 1)

PlainStaysPlain ==
  Working /\ InRange(Weight) =>
    /\ Averaged(Weight) <= Colour
    /\ (Colour - Averaged(Weight) - 1) * Fixed1 * Fixed1 <= Colour * Weight

(* Exif: the visual side of the picture its row 0 and its column 0 are at  *)
(* (0 is none of Exif's, and is seen as it is).                            *)
Row0(o) == CASE o \in {0, 1, 2} -> "top" [] o \in {3, 4} -> "bottom"
             [] o \in {5, 8} -> "left" [] OTHER -> "right"
Column0(o) == CASE o \in {0, 1, 4} -> "left" [] o \in {2, 3} -> "right"
                [] o \in {5, 6} -> "top" [] OTHER -> "bottom"

Distance(side, p, w, h) ==
  CASE side = "left" -> p[1] [] side = "right" -> w - 1 - p[1]
    [] side = "top" -> p[2] [] OTHER -> h - 1 - p[2]

Upright(picture, w, h) ==
  \A p \in DOMAIN picture :
    picture[p].from # <<>> =>
      /\ Distance(Column0(src.orientation), p, w, h) = picture[p].from[1] + inner.x
      /\ Distance(Row0(src.orientation), p, w, h) = picture[p].from[2] + inner.y

(* What is saved as JPEG is upright: row 0 and column 0 of the image are   *)
(* where Exif says they are seen.  (A thumbnail that shares the image's    *)
(* pixels is not turned at all.)                                           *)
JpegUpright ==
  pc = "done" /\ ~copied /\ Known => Upright(JpegPicture, dst.width, dst.height)

(* A width or a height that was asked for alone is the picture's, of a     *)
(* photo that was turned too, and the other side is at least 1; both are   *)
(* the picture's when they were asked for and it was not turned.           *)
SizeAsAsked ==
  pc = "done" /\ ~copied =>
    /\ dst.width >= 1 /\ dst.height >= 1
    /\ spec.height = 0 => dst.width = spec.width
    /\ spec.width = 0 => dst.height = spec.height
    /\ spec.width > 0 /\ spec.height > 0 /\ src.orientation < 5 =>
         dst = [width |-> spec.width, height |-> spec.height]

(* A photo that is turned becomes a JPEG the way up and of the size that   *)
(* was asked for, though width and height are exchanged on the way.        *)
JpegAsAsked == JpegUpright /\ SizeAsAsked

-----------------------------------------------------------------------------
(* Claims the repository makes that the code does not keep.                *)

(* "If the image was rotated, swap the width/height if necessary.  This is *)
(* needed for the save_*() functions to output the correct size": what is  *)
(* saved as PNG is upright too.                                            *)
PngUpright ==
  pc = "done" /\ ~copied =>
    Upright(PngPicture,
            IF src.orientation >= 5 THEN dst.height ELSE dst.width,
            IF src.orientation >= 5 THEN dst.width ELSE dst.height)

(* get_rotated_coords: "Cannot rotate image, unknown orientation value".   *)
(* So it is made as it is, each pixel in a cell of its own.                *)
UnknownUnturned ==
  Working /\ ~Known => NextIndex \in Cells /\ pixbuf[NextIndex] = Blank

(* thumb_resize_gd_fixed: "If rgba get too large for the fixed-point       *)
(* representation, fallback to the floating point routine", so a sum       *)
(* beyond the range of a fixed_t costs no more of the colour than others.  *)
OverflowKeepsColour ==
  Working /\ Weight > 0 =>
    /\ Averaged(Weight) \in 0..Colour
    /\ (Colour - Averaged(Weight) - 1) * Fixed1 * Fixed1 <= Colour * Weight
=============================================================================
