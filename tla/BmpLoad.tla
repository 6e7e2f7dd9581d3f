------------------------------ MODULE BmpLoad ------------------------------
(***************************************************************************)
(* The decoder of src/image_bmp.c: one image after another of a process,   *)
(* each read row by row out of a buffer that holds a part of the file and  *)
(* is filled again when a pixel or the padding of a row is not all there.  *)
(*                                                                         *)
(* Positions in the file are counted from the first byte behind the header *)
(* and the palette, which is where the code takes the pixels from.  A      *)
(* pixel is the place it was read from: a byte of the file and, of 1 and 4 *)
(* bits per pixel, the first of its bits.  The colours a palette gives it  *)
(* are left out; of the 16-bit masks, shifts and numbers of colours, which *)
(* are static and outlive the image, there are the few that occur.         *)
(*                                                                         *)
(* The headers are those of the format.  read_header takes any depth and   *)
(* any size: of another depth the loop has no case and leaves the pixels   *)
(* as they were allocated, and a size of no pixels, or of more than fit an *)
(* int, is not looked at either.                                           *)
(***************************************************************************)
EXTENDS Integers

CONSTANTS
  BUF_SIZE,        \* how far the buffer is filled (4096)
  Widths, Heights, \* bound: of images
  Depths,          \* bits per pixel, of 1, 4, 8, 16, 24 and 32
  MaxCut           \* bound: bytes the file is too short, or longer than needed

ASSUME BmpLoadAssumption ==
  /\ BUF_SIZE \in Nat /\ BUF_SIZE >= 4
  /\ Widths \subseteq Nat \ {0} /\ Heights \subseteq Nat \ {0}
  /\ Depths \subseteq {1, 4, 8, 16, 24, 32}
  /\ MaxCut \in Nat

VARIABLES
  pc,              \* header, load, pixels, loaded or failed
  image,           \* what its header says
  length,          \* bytes the file has
  read,            \* bytes of them that were read
  ptr,             \* the byte at bptr, which is where the buffer begins
  offset, blen,    \* the byte to take from there, and those left
  x, y,            \* the pixel to read
  linebytes,       \* bytes left of the row
  bit,             \* bits of the byte that were taken; mask has the next
  pixbuf,          \* the pixels
  masks, ncolors   \* static: the fields of 16 bits, and the range of green

buffer == <<read, ptr, offset, blen>>
vars == <<pc, image, length, buffer, x, y, linebytes, bit, pixbuf, masks, ncolors>>

channels == 4

(* A header that read_header accepts.  fields: the masks of BI_BITFIELDS.  *)
Image ==
  [bpp : Depths, width : Widths, height : Heights, flipped : BOOLEAN,
   rle : BOOLEAN, fields : {"none", "555", "565", "888"}]

WellFormed(i) ==
  /\ i.rle => i.bpp \in {4, 8}
  /\ i.fields # "none" => /\ ~i.rle
                          /\ IF i.bpp = 16 THEN i.fields \in {"555", "565"}
                             ELSE i.bpp = 32 /\ i.fields = "888"

PaddingBits == (32 - ((image.width * image.bpp) % 32)) % 32
RowBytes == (image.width * image.bpp + PaddingBits) \div 8
Total(i) == i.height * (((i.width * i.bpp + 31) \div 32) * 4)

-----------------------------------------------------------------------------
(* The bits of green, when 16-bit masks are read.                          *)
Green(fields) == IF fields = "565" THEN 6 ELSE 5

(* image_bmp_read_header of the next image, in a buffer that holds a part  *)
(* of the file.  Masks come with BI_BITFIELDS if there is no palette, which *)
(* images of 16 bits and more may have; those of 32 bits leave ncolors.    *)
ReadHeader ==
  /\ pc = "header"
  /\ image' \in {i \in Image : WellFormed(i)}
  /\ length' \in {Total(image') + n : n \in -MaxCut..MaxCut} \cap Nat
  /\ read' \in 0..(IF length' < BUF_SIZE THEN length' ELSE BUF_SIZE - 1)
  /\ IF image'.fields # "none"
     THEN /\ masks' = image'.fields
          /\ ncolors' = IF image'.bpp = 16 THEN Green(image'.fields) ELSE ncolors
     ELSE UNCHANGED <<masks, ncolors>>
  /\ pc' = "load" /\ UNCHANGED <<ptr, offset, blen, x, y, linebytes, bit, pixbuf>>

(* image_bmp_load up to its loop: run-length encoding is not supported.    *)
LoadStart ==
  /\ pc = "load"
  /\ IF image.rle
     THEN pc' = "failed" /\ UNCHANGED <<blen, y, linebytes, pixbuf>>
     ELSE /\ pc' = "pixels" /\ blen' = read
          /\ y' = (IF image.flipped THEN 0 ELSE image.height - 1)
          /\ linebytes' = RowBytes
          /\ pixbuf' = [j \in 0..(image.width * image.height - 1) |-> <<>>]
  /\ UNCHANGED <<image, length, read, ptr, offset, x, bit, masks, ncolors>>

(* Mutant of Refilled: the buffer is consumed as a whole.                  *)
RefilledAnew ==
  LET all == read + BUF_SIZE
  IN [ptr |-> read, offset |-> 0, read |-> IF all > length THEN length ELSE all]

(* Consume what was taken, and fill the buffer up: bptr, offset and what   *)
(* is read of the file then.                                               *)
Refilled ==
  LET all == read - blen + BUF_SIZE
  IN [ptr |-> read - blen, offset |-> 0, read |-> IF all > length THEN length ELSE all]

(* buffer_check_load wants i->channels bytes, which may be more than the   *)
(* file has to have.                                                       *)
Enough(b) == b.read > read /\ b.read - b.ptr >= channels

(* Mutant of Short: it is enough that there is a byte.                     *)
ShortIfEmpty == blen <= 0

(* A pixel is not all there.                                               *)
Short == blen <= 0 \/ blen < image.bpp \div 8

Held == [ptr |-> ptr, offset |-> offset, read |-> read]

(* The buffer b gives n bytes.                                             *)
Taking(b, n) ==
  /\ ptr' = b.ptr /\ read' = b.read
  /\ offset' = b.offset + n /\ blen' = b.read - b.ptr - b.offset - n

Fail ==
  /\ pc' = "failed"
  /\ UNCHANGED <<image, length, buffer, x, y, linebytes, bit, pixbuf, masks, ncolors>>

(* A round of the inner loop.                                              *)
Pixel ==
  /\ pc = "pixels" /\ x < image.width
  /\ LET b == IF Short THEN Refilled ELSE Held
         last == bit + image.bpp >= 8
         n == IF image.bpp >= 8 THEN image.bpp \div 8 ELSE IF last THEN 1 ELSE 0
     IN IF Short /\ ~Enough(b) THEN Fail
        ELSE /\ pixbuf' = [pixbuf EXCEPT ![x + y * image.width] = <<b.ptr + b.offset, bit>>]
             /\ Taking(b, n) /\ linebytes' = linebytes - n
             /\ bit' = IF last THEN 0 ELSE bit + image.bpp
             /\ x' = x + 1
             /\ UNCHANGED <<pc, image, length, y, masks, ncolors>>

(* Mutant of NextBit: mask is not reset for the next line.                 *)
NextBitAsIs == bit

(* What mask is reset to after padding.                                    *)
NextBit == IF linebytes # 0 THEN 0 ELSE bit

(* Mutant of PaddingShort: it does not look whether the padding is there.  *)
PaddingShortNever == FALSE

(* The padding is not all there.                                           *)
PaddingShort == linebytes # 0 /\ blen < linebytes

(* The end of a row: its padding is skipped.                               *)
RowEnd ==
  /\ pc = "pixels" /\ x = image.width
  /\ LET b == IF PaddingShort THEN Refilled ELSE Held
         next == IF image.flipped THEN y + 1 ELSE y - 1
     IN IF PaddingShort /\ ~Enough(b) THEN Fail
        ELSE /\ Taking(b, linebytes) /\ bit' = NextBit
             /\ linebytes' = RowBytes /\ x' = 0 /\ y' = next
             /\ pc' = IF next \in 0..(image.height - 1) THEN "pixels" ELSE "loaded"
             /\ UNCHANGED <<image, length, pixbuf, masks, ncolors>>

NoImage ==
  [bpp |-> 1, width |-> 1, height |-> 1, flipped |-> FALSE, rle |-> FALSE, fields |-> "none"]

(* The image is destroyed; what is static stays for the next.              *)
Destroy ==
  /\ pc \in {"loaded", "failed"}
  /\ pc' = "header" /\ image' = NoImage /\ length' = 0
  /\ read' = 0 /\ ptr' = 0 /\ offset' = 0 /\ blen' = 0
  /\ x' = 0 /\ y' = 0 /\ linebytes' = 0 /\ bit' = 0 /\ pixbuf' = <<>>
  /\ UNCHANGED <<masks, ncolors>>

Init ==
  /\ pc = "header" /\ image = NoImage /\ length = 0
  /\ read = 0 /\ ptr = 0 /\ offset = 0 /\ blen = 0
  /\ x = 0 /\ y = 0 /\ linebytes = 0 /\ bit = 0 /\ pixbuf = <<>>
  /\ masks = "555" /\ ncolors = 5

Next == ReadHeader \/ LoadStart \/ Pixel \/ RowEnd \/ Destroy

Spec == Init /\ [][Next]_vars
-----------------------------------------------------------------------------
(* Every variable keeps its type; no more is ever taken from the buffer,   *)
(* of pixels or of padding, than it holds, and a row is left with padding  *)
(* only.                                                                   *)
TypeOK ==
  /\ pc \in {"header", "load", "pixels", "loaded", "failed"}
  /\ length \in Nat /\ read \in 0..length /\ ptr \in 0..read
  /\ offset \in Nat /\ blen \in 0..BUF_SIZE
  /\ bit \in 0..7 /\ (image.bpp >= 8 => bit = 0)
  /\ x \in 0..image.width /\ linebytes \in 0..RowBytes
  /\ pc = "pixels" => ptr + offset + blen = read /\ y \in 0..(image.height - 1)
  /\ pc = "pixels" /\ x = image.width => linebytes <= 4
  /\ masks \in {"555", "565", "888"} /\ ncolors \in {5, 6}

(* Rows are whole words of 32 bits and run from the bottom up unless the   *)
(* height is negative: where a BMP file has the pixel in column i, row j.  *)
Row(j) == IF image.flipped THEN j ELSE image.height - 1 - j
Place(i, j) ==
  LET bits == Row(j) * 32 * ((image.width * image.bpp + 31) \div 32) + i * image.bpp
  IN <<bits \div 8, bits % 8>>

(* The picture is the file's, wherever the file was cut into buffers:      *)
(* every pixel was read from its place and was in the file, and no pixel   *)
(* is missing from an image that is loaded.                                *)
PixelsInPlace ==
  pc \in {"pixels", "loaded"} =>
    \A i \in 0..(image.width - 1), j \in 0..(image.height - 1) :
      LET pixel == pixbuf[i + j * image.width]
      IN IF pixel = <<>> THEN pc = "pixels"
         ELSE /\ pixel = Place(i, j)
              /\ pixel[1] + (image.bpp + 7) \div 8 <= length

(* The bytes of a pixel are all in the buffer when it is read.             *)
ReadsHeld ==
  [][pc = "pixels" => \A j \in DOMAIN pixbuf :
       pixbuf'[j] # pixbuf[j] => pixbuf'[j][1] + (image.bpp + 7) \div 8 <= read']_pixbuf

(* A file that ends up to three bytes after its last row may be refused,   *)
(* as buffer_check_load is asked for four bytes at a time; one that is     *)
(* longer is loaded, wherever it was cut, unless it is compressed.         *)
CompleteLoads ==
  pc = "failed" => image.rle \/ length < Total(image) + channels - 1

-----------------------------------------------------------------------------
(* Claims the repository makes that the code does not keep.                *)

(* The code gives up with "Unable to read entire BMP file"                 *)
(* (image_bmp.c:223): it says so of a file that has less than the rows its *)
(* header announces.                                                       *)
RefusedIncomplete ==
  pc = "failed" /\ ~image.rle => length < Total(image)

(* "16-bit color masks and shifts, default is 5-5-5" (image_bmp.c:20): an  *)
(* image of 16 bits that brings no masks is taken apart by the default,    *)
(* whatever images the process has read before it.                         *)
DefaultMasks ==
  pc = "pixels" /\ image.bpp = 16 /\ image.fields = "none" =>
    masks = "555" /\ ncolors = 5
=============================================================================
