----------------------------- MODULE ResultScan -----------------------------
(***************************************************************************)
(* What one file costs and gives back: ms_scan_file makes a                *)
(* MediaScanResult, result_scan fills it through scan_image or scan_video  *)
(* (src/result.c) with the decoders of src/image*.c, the frame that        *)
(* src/video.c picks and the thumbnails of src/thumb.c, any of which may   *)
(* fail at any place; then the result or its error is told, and            *)
(* result_destroy frees what it holds.                                     *)
(*                                                                         *)
(* An object is a pair of its kind and, for what there is one of per       *)
(* thumbnail, the number of the thumbnail's specification.  Memory is      *)
(* never short: FATAL only logs, and the code goes on with a null pointer. *)
(* What a step allocates and frees again before it ends (the copy of a     *)
(* specification, the temporary memory of an encoder that succeeds) is     *)
(* left out.                                                               *)
(***************************************************************************)
EXTENDS Naturals, Sequences, FiniteSets

CONSTANTS
  MAX_THUMBS,      \* the length of r->_thumbs (8)
  MaxSpecs,        \* bound: thumbnails asked for
  Codecs,          \* image formats, of JPEG, PNG, GIF and BMP
  MaxSkipped,      \* how many packets are skipped to find a frame (200)
  MaxPackets       \* bound: packets in a video file

ASSUME ResultScanAssumption ==
  /\ MAX_THUMBS \in Nat \ {0} /\ MaxSpecs \in Nat
  /\ Codecs \subseteq {"JPEG", "PNG", "GIF", "BMP"}
  /\ MaxSkipped \in Nat /\ MaxPackets \in Nat

VARIABLES
  pc,              \* where the scan is
  type,            \* r->type
  nthumbspecs,     \* s->nthumbspecs
  heap,            \* objects that were allocated (or opened) and not freed
  r,               \* kinds of objects the result points to
  img,             \* what the image that thumbnails are made of points to
  codec,           \* its format
  size,            \* what width and height of the result's image are those of
  thumbs,          \* r->_thumbs: the specification each was made for
  x,               \* the specification whose thumbnail is made
  copied,          \* that thumbnail shares the image's pixels
  ok,              \* what result_scan will return
  packets, left,   \* the video's packets, and those not read yet
  skipped,         \* skipped_frames
  (* history *)
  frame,           \* the frame that was converted: none, or the file's first
  found,           \* a key frame was decoded
  twice,           \* objects that were freed when they were not (or no more) allocated
  abandoned        \* objects a library's error jumped over

video == <<packets, left, skipped, frame, found>>
vars == <<pc, type, nthumbspecs, heap, r, img, codec, size, thumbs, x, copied, ok, video,
          twice, abandoned>>

One(kinds) == {<<k, 0>> : k \in kinds}
Range(s) == {s[i] : i \in DOMAIN s}

(* The kinds of things a packet can be to video_create_image_from_frame: a *)
(* key frame that decodes or does not, another frame, something that is    *)
(* not video, or a packet without a position.                              *)
Packet == {"key", "bad", "delta", "other", "nopos"}

(* What free and fclose do to the heap.                                    *)
Freeing(objects, new) ==
  /\ heap' = (heap \cup new) \ objects
  /\ twice' = twice \cup (objects \ (heap \cup new))

Allocating(new) == heap' = heap \cup new /\ UNCHANGED twice

(* error_create: r->error says why result_scan returns 0.                  *)
Error == {"error"}

-----------------------------------------------------------------------------
(* ms_scan_file, once it is to scan: result_create and the copy of the     *)
(* path, and result_scan up to its switch.  There is no scanner for audio, *)
(* nor an error; a file of unknown type gets so far only if there is no    *)
(* error callback.                                                         *)
ResultCreate ==
  /\ pc = "start"
  /\ type' \in {"TYPE_IMAGE", "TYPE_VIDEO", "TYPE_AUDIO", "TYPE_UNKNOWN"}
  /\ LET error == IF type' = "TYPE_UNKNOWN" THEN Error ELSE {} IN
       heap' = One({"result", "path"} \cup error) /\ r' = {"path"} \cup error
  /\ pc' = CASE type' = "TYPE_IMAGE" -> "open" [] type' = "TYPE_VIDEO" -> "open_video"
              [] OTHER -> "told"
  /\ ok' = (pc' # "told")
  /\ UNCHANGED <<nthumbspecs, img, codec, size, thumbs, x, copied, video, twice, abandoned>>

(* ensure_opened_with_buf: fopen may fail, or the first bytes may not be   *)
(* there.                                                                  *)
EnsureOpenedWithBuf ==
  /\ pc = "open"
  /\ \/ /\ Allocating(One({"fp", "buf"})) /\ r' = r \cup {"fp", "buf"}
        /\ pc' = "header" /\ UNCHANGED ok
     \/ \E opened \in {{}, {"fp", "buf"}} :
          /\ Allocating(One(opened \cup Error)) /\ r' = r \cup opened \cup Error
          /\ pc' = "close" /\ ok' = FALSE
  /\ UNCHANGED <<type, nthumbspecs, img, codec, size, thumbs, x, copied, video, abandoned>>

(* image_create and image_read_header.  The decoder that finds the header  *)
(* wrong destroys itself, but for BMP, which leaves that to image_destroy; *)
(* a JPEG may come with an Exif tag.                                       *)
ReadHeader ==
  /\ pc = "header"
  /\ \/ /\ codec' \in Codecs /\ size' = "file"
        /\ \E tag \in SUBSET (IF codec' = "JPEG" THEN {"tag"} ELSE {}) :
             /\ Allocating(One({"image", "decoder"} \cup tag))
             /\ r' = r \cup {"image"} \cup tag
        /\ img' = {"decoder"}
        /\ pc' = (IF nthumbspecs > 0 THEN "load" ELSE "close") /\ UNCHANGED ok
     \/ /\ codec' \in Codecs \cup {"none"}
        /\ img' = (IF codec' = "BMP" THEN {"decoder"} ELSE {})
        /\ Allocating(One({"image"} \cup img' \cup Error))
        /\ r' = r \cup {"image"} \cup Error
        /\ pc' = "close" /\ ok' = FALSE /\ UNCHANGED size
  /\ UNCHANGED <<type, nthumbspecs, thumbs, x, copied, video, abandoned>>

(* What image_load leaves in width and height: libjpeg scales the image    *)
(* for the largest thumbnail, a GIF takes the size of its last frame.      *)
Loaded == IF codec \in {"JPEG", "GIF"} THEN "loaded" ELSE size

(* The image is decoded into its pixels.  A JPEG that breaks off after its *)
(* first line is kept: what becomes of the line's memory then depends on   *)
(* whether the pointer to it, which is not volatile, survived longjmp; and *)
(* it may be freed again when the error came after the last line.          *)
LoadPixels ==
  /\ img' = img \cup {"pixbuf"} /\ size' = Loaded
  /\ \/ Allocating(One({"pixbuf"})) /\ UNCHANGED abandoned
     \/ /\ codec = "JPEG"
        /\ \/ /\ Allocating(One({"pixbuf", "row"}))
              /\ abandoned' = abandoned \cup One({"row"})
           \/ /\ Freeing(One({"row"}), One({"pixbuf"})) /\ UNCHANGED abandoned

(* image_load succeeds.  A GIF that ends before its first image is loaded  *)
(* without pixels.                                                         *)
Load ==
  /\ pc = "load" /\ pc' = "thumb" /\ x' = 1
  /\ \/ LoadPixels
     \/ codec = "GIF" /\ UNCHANGED <<img, size, heap, twice, abandoned>>
  /\ UNCHANGED <<type, nthumbspecs, r, codec, thumbs, copied, ok, video>>

(* image_load fails, before or after it has allocated the pixels: the      *)
(* decoder destroys itself, and scan_image goes to out, which skips the    *)
(* thumbnails and the dimensions but is no failure of the scan.  A GIF     *)
(* forgets the line it was reading, and so may a JPEG.                     *)
LoadFails ==
  /\ pc = "load"
  /\ \E new \in {{}, {"pixbuf"}, {"pixbuf", "row"}} :
       /\ "row" \in new => codec \in {"JPEG", "GIF"}
       /\ img' = new \cap {"pixbuf"}
       /\ Freeing(One({"decoder"}), One(new))
       /\ abandoned' = abandoned \cup One(new \cap {"row"})
  /\ size' \in (IF codec = "GIF" THEN {size, Loaded} ELSE {Loaded})
  /\ pc' = "close"
  /\ UNCHANGED <<type, nthumbspecs, r, codec, thumbs, x, copied, ok, video>>

-----------------------------------------------------------------------------
Thumb(n) == {<<"thumb", n>>}
ThumbPixels(n) == {<<"thumb_pixbuf", n>>}
ThumbData(n) == {<<"thumb_data", n>>}

(* Mutant of Resize: one specification too many.                           *)
ResizeOneMore ==
  /\ pc = "thumb" /\ x <= nthumbspecs + 1 /\ "pixbuf" \in img
  /\ copied' \in BOOLEAN
  /\ Allocating(Thumb(x) \cup (IF copied' THEN {} ELSE ThumbPixels(x)))
  /\ pc' = "compress"
  /\ UNCHANGED <<type, nthumbspecs, r, img, codec, size, thumbs, x, ok, video, abandoned>>

(* thumb_create_from_image up to thumb_resize, which gives a thumbnail of  *)
(* the image's size the image's own pixels.                                *)
Resize ==
  /\ pc = "thumb" /\ x <= nthumbspecs /\ "pixbuf" \in img
  /\ copied' \in BOOLEAN
  /\ Allocating(Thumb(x) \cup (IF copied' THEN {} ELSE ThumbPixels(x)))
  /\ pc' = "compress"
  /\ UNCHANGED <<type, nthumbspecs, r, img, codec, size, thumbs, x, ok, video, abandoned>>

(* Without pixels to read it is the end of the process.                    *)
ResizeNothing ==
  /\ pc = "thumb" /\ x <= nthumbspecs /\ "pixbuf" \notin img
  /\ pc' = "killed"
  /\ UNCHANGED <<type, nthumbspecs, heap, r, img, codec, size, thumbs, x, copied, ok, video,
                 twice, abandoned>>

(* Mutant of OwnPixels: image_free_pixbuf does not ask _pixbuf_is_copy.    *)
OwnPixelsAlways == ThumbPixels(x)

(* image_free_pixbuf of a thumbnail.                                       *)
OwnPixels == IF copied THEN {} ELSE ThumbPixels(x)

(* result_add_thumbnail: the last place of r->_thumbs is not used, and a   *)
(* thumbnail that finds no place is forgotten.                             *)
AddThumbnail(s, n) == IF Len(s) < MAX_THUMBS - 1 THEN Append(s, n) ELSE s

(* The thumbnail is compressed, its pixels are freed if they are its own,  *)
(* and it is added to the result.  An error of libjpeg ends the program    *)
(* and is not modelled.                                                    *)
Compress ==
  /\ pc = "compress"
  /\ Freeing(OwnPixels, ThumbData(x))
  /\ thumbs' = AddThumbnail(thumbs, x) /\ x' = x + 1 /\ pc' = "thumb"
  /\ UNCHANGED <<type, nthumbspecs, r, img, codec, size, copied, ok, video, abandoned>>

(* Mutant of CompressFails: the thumbnail is added all the same.           *)
CompressFailsAdding ==
  /\ pc = "compress"
  /\ Freeing(OwnPixels \cup Thumb(x), {<<"encoder", x>>})
  /\ abandoned' = abandoned \cup {<<"encoder", x>>}
  /\ thumbs' = AddThumbnail(thumbs, x) /\ x' = x + 1 /\ pc' = "thumb"
  /\ UNCHANGED <<type, nthumbspecs, r, img, codec, size, copied, ok, video>>

(* libpng fails: image_png_compress returns without its encoder's state,   *)
(* and the thumbnail is destroyed with the data it already has.            *)
CompressFails ==
  /\ pc = "compress"
  /\ Freeing(OwnPixels \cup Thumb(x) \cup ThumbData(x), ThumbData(x) \cup {<<"encoder", x>>})
  /\ abandoned' = abandoned \cup {<<"encoder", x>>}
  /\ x' = x + 1 /\ pc' = "thumb"
  /\ UNCHANGED <<type, nthumbspecs, r, img, codec, size, thumbs, copied, ok, video>>

(* All thumbnails are made.  scan_image restores the dimensions;           *)
(* scan_video destroys the image that was the frame.                       *)
ThumbsDone ==
  /\ pc = "thumb" /\ x > nthumbspecs
  /\ IF "image" \in r
     THEN size' = "file" /\ pc' = "close" /\ UNCHANGED <<heap, twice, img>>
     ELSE /\ Freeing(One({"frame"} \cup img), {}) /\ img' = {}
          /\ pc' = "close" /\ UNCHANGED size
  /\ UNCHANGED <<type, nthumbspecs, r, codec, thumbs, x, copied, ok, video, abandoned>>

-----------------------------------------------------------------------------
(* avformat_open_input, avformat_find_stream_info, av_profile_get_codecs:  *)
(* each may fail, and a file that is all audio is refused.                 *)
OpenVideo ==
  /\ pc = "open_video"
  /\ \/ /\ Allocating(One({"avf", "codecs"})) /\ r' = r \cup {"avf"}
        /\ pc' = "video" /\ UNCHANGED ok
     \/ \E opened \in {{}, {"avf"}, {"avf", "codecs"}} :
          /\ Allocating(One(opened \cup Error))
          /\ r' = r \cup (opened \ {"codecs"}) \cup Error
          /\ pc' = "close" /\ ok' = FALSE
  /\ UNCHANGED <<type, nthumbspecs, img, codec, size, thumbs, x, copied, video, abandoned>>

(* The video's properties, and those of its first audio stream and its     *)
(* tags, if it has any.  A file without a known decoder may be protected,  *)
(* which is an error; without one no thumbnail is made.                    *)
VideoProperties ==
  /\ pc = "video"
  /\ \/ /\ Allocating(One({"video"} \cup Error)) /\ r' = r \cup {"video"} \cup Error
        /\ pc' = "close" /\ ok' = FALSE /\ UNCHANGED <<packets, left>>
     \/ \E more \in SUBSET {"audio", "tag"} :
          /\ Allocating(One({"video"} \cup more)) /\ r' = r \cup {"video"} \cup more
          /\ UNCHANGED ok
          /\ \/ pc' = "close" /\ UNCHANGED <<packets, left>>
             \/ /\ nthumbspecs > 0 /\ pc' = "frame"
                /\ packets' \in UNION {[1..n -> Packet] : n \in 0..MaxPackets}
                /\ left' = packets'
  /\ UNCHANGED <<type, nthumbspecs, img, codec, size, thumbs, x, copied, abandoned>>
  /\ UNCHANGED <<skipped, frame, found>>

(* The video's image, which has no pixels yet, is destroyed again.         *)
GiveUp == pc' = "close" /\ UNCHANGED <<img, x, frame>>

(* What the decoder found is in the frame's buffers.  Nothing frees those  *)
(* but the next call of the decoder: av_free frees only the frame.         *)
Picture == One({"picture"})

(* The frame is converted to the pixels of an image.                       *)
Convert ==
  /\ Allocating(Picture \cup One({"frame", "pixbuf"})) /\ img' = {"pixbuf"} /\ frame' = "first"
  /\ pc' = "thumb" /\ x' = 1

(* A packet that is no key frame of the video is passed over.              *)
SkipPacket(p) ==
  /\ p \in {"delta", "other", "nopos"}
  /\ skipped' = skipped + 1
  /\ UNCHANGED <<pc, heap, twice, img, x, frame, found>>

(* A packet is decoded, or is not.  got_picture is never set, so that the  *)
(* frame is used only if it is the file's first.                           *)
DecodePacket(p, first) ==
  \/ GiveUp /\ heap' \in {heap, heap \ Picture} /\ UNCHANGED <<twice, skipped, found>>
  \/ /\ p \in {"key"} \cup (IF first THEN {"delta"} ELSE {})
     /\ found' = (found \/ (p = "key" /\ ~first))
     /\ \/ skipped > MaxSkipped /\ GiveUp /\ Allocating(Picture) /\ UNCHANGED skipped
        \/ skipped <= MaxSkipped /\ first /\ Convert /\ UNCHANGED skipped
        \/ /\ skipped <= MaxSkipped /\ ~first /\ skipped' = skipped + 1
           /\ Allocating(Picture) /\ UNCHANGED <<pc, img, x, frame>>

(* A round of the loop of video_create_image_from_frame.                   *)
ReadFrame ==
  /\ pc = "frame" /\ left # <<>> /\ left' = Tail(left)
  /\ \/ SkipPacket(Head(left))
     \/ Head(left) \in {"key", "bad"} /\ DecodePacket(Head(left), FALSE)
  /\ UNCHANGED <<type, nthumbspecs, r, codec, size, thumbs, copied, ok, packets, abandoned>>

(* Opening the decoder or reading a packet fails.                          *)
ReadFails ==
  /\ pc = "frame" /\ GiveUp
  /\ UNCHANGED <<type, nthumbspecs, heap, r, codec, size, thumbs, copied, ok, twice, abandoned>>
  /\ UNCHANGED <<packets, left, skipped, found>>

(* Mutant of FirstFrame: the loop does not remember that it came this far. *)
FirstFrameAgain ==
  /\ pc = "frame" /\ packets # <<>>
  /\ left = <<>> \/ skipped > MaxSkipped
  /\ left' = Tail(packets) /\ skipped' = 0
  /\ UNCHANGED <<pc, heap, twice, img, x, frame, found>>
  /\ UNCHANGED <<type, nthumbspecs, r, codec, size, thumbs, copied, ok, packets, abandoned>>

(* At the end of the file, or when reading fails after too many packets,   *)
(* the loop goes back to the file's first packet and decodes it, whatever  *)
(* it is; no_keyframe_found makes it give up if it comes round again.      *)
FirstFrame ==
  /\ pc = "frame" /\ packets # <<>>
  /\ left = <<>> \/ skipped > MaxSkipped
  /\ left' = Tail(packets)
  /\ DecodePacket(Head(packets), TRUE)
  /\ UNCHANGED <<type, nthumbspecs, r, codec, size, thumbs, copied, ok, packets, abandoned>>

-----------------------------------------------------------------------------
(* out: scan_image closes the file, scan_video frees the codecs.           *)
Close ==
  /\ pc = "close"
  /\ Freeing(heap \cap One({"fp", "codecs"}), {}) /\ r' = r \ {"fp"}
  /\ pc' = "told"
  /\ UNCHANGED <<type, nthumbspecs, img, codec, size, thumbs, x, copied, ok, video, abandoned>>

(* Mutant of Owned: a result keeps its thumbnails' data.                   *)
OwnedButData(thumbnails) ==
  One({"result"} \cup r \cup (IF "image" \in r THEN img ELSE {}))
    \cup UNION {Thumb(n) : n \in thumbnails}

(* What the result owns, through its image too.                            *)
Owned(thumbnails) ==
  One({"result"} \cup r \cup (IF "image" \in r THEN img ELSE {}))
    \cup UNION {Thumb(n) \cup ThumbData(n) : n \in thumbnails}

(* What result_destroy frees of that, image_destroy and image_unload       *)
(* included: all but the context of a video.  avformat_close_input wants   *)
(* the address of a pointer to a context and is given the context, so that *)
(* it closes what the context's first field points to, libavformat's       *)
(* constant AVClass.                                                       *)
Destroyed(thumbnails) ==
  (Owned(thumbnails) \ One({"avf"})) \cup One(IF "avf" \in r THEN {"avclass"} ELSE {})

(* result_destroy, after the callback (or, for an error, after a copy of   *)
(* it was sent).  (That freeing an AVClass ends the process is possible as *)
(* well; there is nothing to say of it then.)                              *)
ResultDestroy ==
  /\ pc = "told"
  /\ Freeing(Destroyed(Range(thumbs)), {})
  /\ r' = {} /\ img' = {} /\ thumbs' = <<>> /\ pc' = "done"
  /\ UNCHANGED <<type, nthumbspecs, codec, size, x, copied, ok, video, abandoned>>

Init ==
  /\ pc = "start" /\ type = "none" /\ nthumbspecs \in 0..MaxSpecs
  /\ heap = {} /\ r = {} /\ img = {} /\ codec = "none" /\ size = "none"
  /\ thumbs = <<>> /\ x = 1 /\ copied = FALSE /\ ok = TRUE
  /\ packets = <<>> /\ left = <<>> /\ skipped = 0 /\ frame = "none" /\ found = FALSE
  /\ twice = {} /\ abandoned = {}

Next ==
  \/ ResultCreate \/ EnsureOpenedWithBuf \/ ReadHeader \/ Load \/ LoadFails
  \/ Resize \/ ResizeNothing \/ Compress \/ CompressFails \/ ThumbsDone
  \/ OpenVideo \/ VideoProperties \/ ReadFrame \/ ReadFails \/ FirstFrame
  \/ Close \/ ResultDestroy

(* One thread runs through it.                                             *)
Spec == Init /\ [][Next]_vars /\ WF_vars(Next)
-----------------------------------------------------------------------------
(* Every variable keeps its type; thumbnails are made of the               *)
(* specifications there are.                                               *)
TypeOK ==
  /\ type \in {"none", "TYPE_IMAGE", "TYPE_VIDEO", "TYPE_AUDIO", "TYPE_UNKNOWN"}
  /\ nthumbspecs \in 0..MaxSpecs /\ x \in 1..(nthumbspecs + 1)
  /\ r \subseteq {"path", "error", "fp", "buf", "image", "tag", "avf", "video", "audio"}
  /\ img \subseteq {"decoder", "pixbuf"} /\ codec \in Codecs \cup {"none"}
  /\ size \in {"none", "file", "loaded"} /\ copied \in BOOLEAN /\ ok \in BOOLEAN
  /\ Len(thumbs) \in 0..MAX_THUMBS

(* Nothing is freed twice, whichever steps failed: not the pixels a        *)
(* thumbnail shares with its image, nor what a decoder destroyed when it   *)
(* failed.  Two things are left out: the line of a JPEG, as its pointer is *)
(* not reliable after longjmp (see Load), and what is closed in place of a *)
(* video's context (see Destroyed), which ContextClosed is about.          *)
FreedOnce ==
  twice \subseteq One({k \in {"row"} : codec = "JPEG"}
                       \cup {k \in {"avclass"} : type = "TYPE_VIDEO"})

(* What no place in the code frees: a video's context, and what is in the  *)
(* last frame that was decoded of it.                                      *)
Forgotten == One({k \in {"avf", "picture"} : type = "TYPE_VIDEO"})

(* result_destroy leaves nothing else behind but what an error of libjpeg, *)
(* libpng or giflib jumped over, as long as there is a place for every     *)
(* thumbnail.                                                              *)
AllFreed ==
  pc = "done" /\ nthumbspecs < MAX_THUMBS => heap \subseteq abandoned \cup Forgotten

(* What is told is whole: it says either why it failed or what it found    *)
(* (an audio file fails without a word), everything it points to is there, *)
(* and its thumbnails are in the order of their specifications, each with  *)
(* its data.  Its file was closed, "to avoid stacking up a bunch of open   *)
(* files in async mode", wherever the scan failed.                         *)
ToldWhole ==
  pc = "told" =>
    /\ ok => "error" \notin r
    /\ ~ok => "error" \in r \/ type = "TYPE_AUDIO"
    /\ Owned(Range(thumbs)) \subseteq heap
    /\ \A i, j \in DOMAIN thumbs : i < j => thumbs[i] < thumbs[j]
    /\ One({"fp"}) \cap heap = {}

(* The scan of a file ends, whatever its packets are (once by ending the   *)
(* process, see ResizeNothing).                                            *)
ScanEnds == <>(pc \in {"done", "killed"})

-----------------------------------------------------------------------------
(* Claims the repository makes that the code does not keep.                *)

(* video.c: "Couldn't find a keyframe, using first frame", so the first    *)
(* frame is used only if no key frame could be decoded.                    *)
KeyFrameUsed == frame = "first" => ~found

(* libmediascan.h, MediaScanResult: "void *_avf; // AVFormatContext        *)
(* instance".  What is closed with the result is that instance.            *)
ContextClosed == pc = "done" => One({"avf"}) \cap heap = {} /\ One({"avclass"}) \cap twice = {}

(* result.c, scan_image, at image_load: "Load the source image into        *)
(* memory", so what thumbnails are made of are an image's pixels.          *)
ImageInMemory == pc = "thumb" => "pixbuf" \in img
=============================================================================
