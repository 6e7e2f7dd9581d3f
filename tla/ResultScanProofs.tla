-------------------------- MODULE ResultScanProofs --------------------------
(***************************************************************************)
(* Theorems about ResultScan: for every number of thumbnails and places    *)
(* for them, every set of formats and every video, whatever fails,         *)
(* nothing is freed twice but a JPEG's line and what is closed in place of *)
(* a video's context, nothing is left behind but that context, its last    *)
(* picture and what an error of a library jumped over, the file is closed  *)
(* and what is told is whole.                                              *)
(***************************************************************************)
EXTENDS ResultScan, TLAPS

-----------------------------------------------------------------------------
(* The strengthening: what is known of each place in the scan.             *)

Before == {"start", "open", "header", "load", "open_video", "video", "frame"}
Making == {"thumb", "compress"}

(* The image that thumbnails are made of is the result's, or the frame of  *)
(* a video, which is gone when the scan is over.                           *)
Places ==
  /\ pc \in Before \cup Making \cup {"close", "told", "done", "killed"}
  /\ pc = "start" => heap = {} /\ twice = {} /\ type = "none"
  /\ pc \in {"start", "open", "header"} => codec = "none"
  /\ pc \in {"open_video", "video", "frame"} \/ "avf" \in r => type = "TYPE_VIDEO"
  /\ pc \in Before \ {"load"} => img = {} /\ "image" \notin r
  /\ pc = "load" => img = {"decoder"} /\ "image" \in r
  /\ pc \in Making => img # {}
  /\ pc \in Making /\ "image" \notin r => img = {"pixbuf"}
  /\ pc = "killed" => "image" \in r
  /\ pc \in {"close", "told", "done"} /\ "image" \notin r => img = {}
  /\ pc = "compress" => x <= nthumbspecs

(* Thumbnails are added one after another, each once.                      *)
Added ==
  /\ thumbs \in Seq(Nat) /\ Len(thumbs) < x /\ Len(thumbs) < MAX_THUMBS
  /\ \A i \in DOMAIN thumbs : thumbs[i] \in 1..(x - 1)
  /\ \A i, j \in DOMAIN thumbs : i < j => thumbs[i] < thumbs[j]
  /\ pc \in Before \cup {"done"} => thumbs = <<>>

(* An error is in the result if and only if the scan fails, but for audio. *)
Outcome ==
  pc # "done" => (ok => "error" \notin r) /\ (~ok => "error" \in r \/ type = "TYPE_AUDIO")

(* What belongs to the scan itself at this place.                          *)
Own == IF pc \in {"start", "done"} THEN {}
       ELSE {"result"} \cup r \cup img \cup (IF pc \in Making /\ "image" \notin r THEN {"frame"} ELSE {})

(* The objects of the thumbnail that is being made.                        *)
Current == IF pc = "compress" THEN Thumb(x) \cup OwnPixels ELSE {}

(* The objects of those that were made.                                    *)
Made == UNION {Thumb(n) \cup ThumbData(n) : n \in Range(thumbs)}

(* All of this is allocated ...                                            *)
Kept == One(Own) \cup Current \cup Made \subseteq heap

(* ... and nothing else, but for the codecs of a video until it is closed, *)
(* what an error jumped over, and what no place frees.                     *)
Accounted ==
  nthumbspecs < MAX_THUMBS =>
    heap \subseteq One(Own) \cup Current \cup Made \cup abandoned \cup Forgotten
                     \cup (IF pc \in {"told", "done"} THEN {} ELSE One({"codecs"}))

(* A file is open only while the result points to it.                      *)
OpenFile == <<"fp", 0>> \in heap => pc \notin {"told", "done"}

IInv == TypeOK /\ Places /\ Added /\ Outcome /\ Kept /\ Accounted /\ OpenFile /\ FreedOnce
-----------------------------------------------------------------------------
(* Every step keeps the types.                                             *)
LEMMA TypeStep == ASSUME TypeOK, Places, Added, [Next]_vars PROVE TypeOK'
  <1> USE ResultScanAssumption DEF TypeOK, video
  <1>1. CASE UNCHANGED vars
    BY <1>1 DEF vars
  <1>2. CASE ResultCreate
    BY <1>2 DEF ResultCreate, Error
  <1>3. CASE EnsureOpenedWithBuf
    BY <1>3 DEF EnsureOpenedWithBuf, Error
  <1>4. CASE ReadHeader
    BY <1>4 DEF ReadHeader, Error
  <1>5. CASE Load
    <2>1. UNCHANGED <<type, nthumbspecs, r, codec, thumbs, copied, ok>> /\ x' = 1
      BY <1>5 DEF Load
    <2>2. img' \in {img, img \cup {"pixbuf"}} /\ size' \in {size, "loaded"}
      BY <1>5 DEF Load, LoadPixels, Loaded
    <2> QED
      BY <2>1, <2>2
  <1>6. CASE LoadFails
    BY <1>6 DEF LoadFails, Loaded
  <1>7. CASE Resize
    BY <1>7 DEF Resize
  <1>8. CASE Compress
    BY <1>8 DEF Compress, AddThumbnail, Places, Added
  <1>9. CASE CompressFails
    BY <1>9 DEF CompressFails, Places, Before, Making
  <1>10. CASE ThumbsDone
    BY <1>10 DEF ThumbsDone
  <1>11. CASE OpenVideo
    BY <1>11 DEF OpenVideo, Error
  <1>12. CASE VideoProperties
    BY <1>12 DEF VideoProperties, Error
  <1>13. CASE ReadFrame
    <2>1. UNCHANGED <<type, nthumbspecs, r, codec, size, thumbs, copied, ok>>
      BY <1>13 DEF ReadFrame
    <2>2. x' \in {x, 1} /\ img' \in {img, {"pixbuf"}}
      BY <1>13 DEF ReadFrame, SkipPacket, DecodePacket, Convert, GiveUp
    <2> QED
      BY <2>1, <2>2
  <1>14. CASE ReadFails
    BY <1>14 DEF ReadFails, GiveUp
  <1>15. CASE FirstFrame
    <2>1. UNCHANGED <<type, nthumbspecs, r, codec, size, thumbs, copied, ok>>
      BY <1>15 DEF FirstFrame
    <2>2. x' \in {x, 1} /\ img' \in {img, {"pixbuf"}}
      BY <1>15 DEF FirstFrame, DecodePacket, Convert, GiveUp
    <2> QED
      BY <2>1, <2>2
  <1>16. CASE Close
    BY <1>16 DEF Close
  <1>17. CASE ResultDestroy
    BY <1>17 DEF ResultDestroy
  <1>18. CASE ResizeNothing
    BY <1>18 DEF ResizeNothing
  <1> QED
    BY <1>1, <1>2, <1>3, <1>4, <1>5, <1>6, <1>7, <1>8, <1>9, <1>10, <1>11, <1>12, <1>13, <1>14,
       <1>15, <1>16, <1>17, <1>18 DEF Next

(* Every step keeps what is known of its place.                            *)
LEMMA PlacesStep == ASSUME TypeOK, Places, [Next]_vars PROVE Places'
  <1> USE ResultScanAssumption DEF Places, video, Before, Making
  <1>1. CASE UNCHANGED vars
    BY <1>1 DEF vars
  <1>2. CASE ResultCreate
    BY <1>2 DEF ResultCreate, Error
  <1>3. CASE EnsureOpenedWithBuf
    BY <1>3 DEF EnsureOpenedWithBuf, Error
  <1>4. CASE ReadHeader
    <2>1. /\ pc = "header" /\ UNCHANGED <<type, nthumbspecs, x>>
          /\ pc' = "close" \/ (pc' = "load" /\ img' = {"decoder"})
      BY <1>4 DEF ReadHeader
    <2>2. "image" \in r' /\ ("avf" \in r' => "avf" \in r)
      <3>1. CASE \E tag \in SUBSET {"tag"} : r' = r \cup {"image"} \cup tag
        BY <3>1
      <3>2. CASE r' = r \cup {"image"} \cup Error
        BY <3>2 DEF Error
      <3> QED
        BY <1>4, <3>1, <3>2 DEF ReadHeader
    <2> QED
      BY <2>1, <2>2
  <1>5. CASE Load
    BY <1>5 DEF Load, LoadPixels
  <1>6. CASE LoadFails
    BY <1>6 DEF LoadFails
  <1>7. CASE Resize
    BY <1>7 DEF Resize
  <1>8. CASE Compress
    BY <1>8 DEF Compress, TypeOK
  <1>9. CASE CompressFails
    BY <1>9 DEF CompressFails
  <1>10. CASE ThumbsDone
    BY <1>10 DEF ThumbsDone
  <1>11. CASE OpenVideo
    BY <1>11 DEF OpenVideo, Error
  <1>12. CASE VideoProperties
    BY <1>12 DEF VideoProperties, Error
  <1>13. CASE ReadFrame
    BY <1>13 DEF ReadFrame, DecodePacket, SkipPacket, Convert, GiveUp
  <1>14. CASE ReadFails
    BY <1>14 DEF ReadFails, GiveUp
  <1>15. CASE FirstFrame
    BY <1>15 DEF FirstFrame, DecodePacket, Convert, GiveUp
  <1>16. CASE Close
    BY <1>16 DEF Close
  <1>17. CASE ResultDestroy
    BY <1>17 DEF ResultDestroy
  <1>18. CASE ResizeNothing
    BY <1>18 DEF ResizeNothing
  <1> QED
    BY <1>1, <1>2, <1>3, <1>4, <1>5, <1>6, <1>7, <1>8, <1>9, <1>10, <1>11, <1>12, <1>13, <1>14,
       <1>15, <1>16, <1>17, <1>18 DEF Next

(* Every step keeps the outcome.                                           *)
LEMMA OutcomeStep == ASSUME Places, Outcome, [Next]_vars PROVE Outcome'
  <1> USE DEF Outcome, video
  <1>1. CASE UNCHANGED vars
    BY <1>1 DEF vars
  <1>2. CASE ResultCreate
    BY <1>2 DEF ResultCreate, Error
  <1>3. CASE EnsureOpenedWithBuf
    BY <1>3 DEF EnsureOpenedWithBuf, Error
  <1>4. CASE ReadHeader
    <2>1. CASE UNCHANGED ok /\ \E tag \in SUBSET {"tag"} : r' = r \cup {"image"} \cup tag
      BY <1>4, <2>1 DEF ReadHeader
    <2>2. CASE "error" \in r' /\ ok' = FALSE
      BY <2>2
    <2> QED
      BY <1>4, <2>1, <2>2 DEF ReadHeader, Error
  <1>5. CASE Load
    BY <1>5 DEF Load, LoadPixels
  <1>6. CASE LoadFails
    BY <1>6 DEF LoadFails
  <1>7. CASE Resize
    BY <1>7 DEF Resize
  <1>8. CASE Compress
    BY <1>8 DEF Compress
  <1>9. CASE CompressFails
    BY <1>9 DEF CompressFails
  <1>10. CASE ThumbsDone
    BY <1>10 DEF ThumbsDone
  <1>11. CASE OpenVideo
    BY <1>11 DEF OpenVideo, Error
  <1>12. CASE VideoProperties
    <2>1. CASE UNCHANGED ok /\ \E more \in SUBSET {"audio", "tag"} : r' = r \cup {"video"} \cup more
      BY <1>12, <2>1 DEF VideoProperties
    <2>2. CASE "error" \in r' /\ ok' = FALSE
      BY <2>2
    <2> QED
      BY <1>12, <2>1, <2>2 DEF VideoProperties, Error
  <1>13. CASE ReadFrame
    BY <1>13 DEF ReadFrame, DecodePacket, SkipPacket, Convert, GiveUp
  <1>14. CASE ReadFails
    BY <1>14 DEF ReadFails, GiveUp
  <1>15. CASE FirstFrame
    BY <1>15 DEF FirstFrame, DecodePacket, Convert, GiveUp
  <1>16. CASE Close
    BY <1>16 DEF Close
  <1>17. CASE ResultDestroy
    BY <1>17 DEF ResultDestroy
  <1>18. CASE ResizeNothing
    BY <1>18 DEF ResizeNothing
  <1> QED
    BY <1>1, <1>2, <1>3, <1>4, <1>5, <1>6, <1>7, <1>8, <1>9, <1>10, <1>11, <1>12, <1>13, <1>14,
       <1>15, <1>16, <1>17, <1>18 DEF Next

(* Thumbnails stay in order while the scan goes on with the next one, or   *)
(* begins with the first.                                                  *)
LEMMA SameThumbs ==
  ASSUME Added, UNCHANGED thumbs, x \in Nat, x' \in Nat,
         x' >= x \/ (thumbs = <<>> /\ x' = 1),
         pc' \in Before \cup {"done"} => thumbs = <<>>
  PROVE  Added'
  <1>1. CASE x' >= x
    BY <1>1 DEF Added
  <1>2. CASE thumbs = <<>> /\ x' = 1
    BY <1>2, ResultScanAssumption DEF Added
  <1> QED
    BY <1>1, <1>2

(* Every step keeps the thumbnails in order.                               *)
LEMMA AddedStep == ASSUME TypeOK, Places, Added, [Next]_vars PROVE Added'
  <1> USE DEF video
  <1>0. x \in Nat /\ x >= 1 /\ MAX_THUMBS \in Nat /\ MAX_THUMBS > 0
    BY ResultScanAssumption DEF TypeOK
  <1>1. CASE UNCHANGED <<thumbs, x>> /\ (pc' \in Before \cup {"done"} => pc \in Before \cup {"done"})
    BY <1>0, <1>1, SameThumbs DEF Added
  <1>2. CASE UNCHANGED thumbs /\ pc \in Before /\ x' \in {x, 1}
    BY <1>0, <1>2, SameThumbs DEF Added
  <1>3. CASE Load \/ LoadFails
    BY <1>2, <1>3 DEF Load, LoadPixels, LoadFails, Before
  <1>4. CASE ReadFrame \/ ReadFails \/ FirstFrame
    BY <1>2, <1>4 DEF ReadFrame, ReadFails, FirstFrame, DecodePacket, SkipPacket, Convert, GiveUp,
                      Before
  <1>5. CASE CompressFails
    BY <1>0, <1>5, SameThumbs DEF CompressFails, Before
  <1>6. CASE Compress
    <2>1. CASE Len(thumbs) < MAX_THUMBS - 1
      <3>1. thumbs' = Append(thumbs, x) /\ x' = x + 1 /\ pc' \notin Before \cup {"done"}
        BY <1>6, <2>1 DEF Compress, AddThumbnail, Before
      <3>2. /\ thumbs' \in Seq(Nat) /\ Len(thumbs') = Len(thumbs) + 1
            /\ \A i \in DOMAIN thumbs : thumbs'[i] = thumbs[i]
            /\ thumbs'[Len(thumbs')] = x /\ DOMAIN thumbs' = 1..(Len(thumbs) + 1)
            /\ DOMAIN thumbs = 1..Len(thumbs)
        BY <1>0, <3>1 DEF Added
      <3>3. \A i \in DOMAIN thumbs' : i \in DOMAIN thumbs \/ i = Len(thumbs')
        BY <3>2 DEF Added
      <3>4. \A i \in DOMAIN thumbs' : thumbs'[i] \in 1..(x' - 1)
        BY <1>0, <3>1, <3>2, <3>3 DEF Added
      <3>5. \A i, j \in DOMAIN thumbs' : i < j => thumbs'[i] < thumbs'[j]
        <4> SUFFICES ASSUME NEW i \in DOMAIN thumbs', NEW j \in DOMAIN thumbs', i < j
                     PROVE  thumbs'[i] < thumbs'[j]
          OBVIOUS
        <4>1. i \in DOMAIN thumbs
          BY <3>2 DEF Added
        <4> QED
          BY <1>0, <3>2, <3>3, <4>1, SMTT(60) DEF Added
      <3> QED
        BY <1>0, <2>1, <3>1, <3>2, <3>4, <3>5 DEF Added
    <2>2. CASE ~(Len(thumbs) < MAX_THUMBS - 1)
      BY <1>0, <1>6, <2>2, SameThumbs DEF Compress, AddThumbnail, Before
    <2> QED
      BY <2>1, <2>2
  <1>7. CASE ResultDestroy
    BY <1>0, <1>7 DEF ResultDestroy, Added, Before
  <1> QED
    BY <1>1, <1>2, <1>3, <1>4, <1>5, <1>6, <1>7
    DEF Next, vars, ResultCreate, EnsureOpenedWithBuf, ReadHeader, Resize, ThumbsDone, OpenVideo,
        VideoProperties, Close, ResizeNothing, Before
-----------------------------------------------------------------------------
(* Objects of which there is one, of combined sets of kinds.               *)
LEMMA OneUnion ==
  /\ \A A, B : One(A \cup B) = One(A) \cup One(B)
  /\ \A A, B : One(A \ B) = One(A) \ One(B)
  /\ \A A, B : A \subseteq B => One(A) \subseteq One(B)
  /\ One({}) = {}
  <1>1. \A A, B : One(A \cup B) = One(A) \cup One(B)
    BY DEF One
  <1>2. \A A, B : One(A \ B) = One(A) \ One(B)
    <2> SUFFICES ASSUME NEW A, NEW B, NEW o
                 PROVE  o \in One(A \ B) <=> o \in One(A) /\ o \notin One(B)
      OBVIOUS
    <2>1. \A k, l : <<k, 0>> = <<l, 0>> => k = l
      OBVIOUS
    <2> QED
      BY <2>1 DEF One
  <1> QED
    BY <1>1, <1>2 DEF One

(* An object there is one of, and a thumbnail's, are told apart.           *)
LEMMA OneIn ==
  /\ \A A, k : <<k, 0>> \in One(A) <=> k \in A
  /\ \A A, o : o \in One(A) => \E k \in A : o = <<k, 0>>
  BY DEF One

HeapInv == Kept /\ Accounted /\ OpenFile /\ FreedOnce

(* What a video is excused for stays so, and so does a JPEG: the type is   *)
(* known from the first step on, the format from the header on.            *)
LEMMA Excuses ==
  ASSUME Places, [Next]_vars
  PROVE  /\ Forgotten \subseteq Forgotten'
         /\ FreedOnce /\ UNCHANGED twice => FreedOnce'
  <1>1. /\ type = "TYPE_VIDEO" => type' = "TYPE_VIDEO"
        /\ codec = "JPEG" => codec' = "JPEG"
    BY DEF Next, vars, ResultCreate, EnsureOpenedWithBuf, ReadHeader, Load, LoadFails, Resize,
           ResizeNothing, Compress, CompressFails, ThumbsDone, OpenVideo, VideoProperties,
           ReadFrame, ReadFails, FirstFrame, Close, ResultDestroy, Places
  <1>2. Forgotten \subseteq Forgotten'
    BY <1>1 DEF Forgotten, One
  <1>3. ASSUME FreedOnce, UNCHANGED twice PROVE FreedOnce'
    BY <1>1, <1>3 DEF FreedOnce, One
  <1> QED
    BY <1>2, <1>3

(* A step that allocates, and gives what it allocates to the result, its   *)
(* image, the codecs or nobody, or forgets it, keeps this.                 *)
LEMMA Allocated ==
  ASSUME HeapInv, NEW K, heap' = heap \cup One(K), UNCHANGED <<twice, nthumbspecs, thumbs>>,
         pc # "compress", pc' # "compress", abandoned \subseteq abandoned',
         Own \subseteq Own', Own' \subseteq Own \cup K,
         \A k \in K : k \in Own' \/ k = "codecs" \/ <<k, 0>> \in abandoned' \cup Forgotten',
         Forgotten \subseteq Forgotten', FreedOnce',
         pc \notin {"told", "done"}, pc' \notin {"told", "done"}
  PROVE  HeapInv'
  <1>1. Made' = Made /\ Current = {} /\ Current' = {}
    BY DEF Made, Current
  <1>2. One(Own') \subseteq heap' /\ One(Own) \subseteq One(Own')
    <2>1. One(Own') \subseteq One(Own) \cup One(K)
      BY DEF One
    <2>2. One(Own) \subseteq One(Own')
      BY DEF One
    <2> QED
      BY <2>1, <2>2 DEF HeapInv, Kept
  <1>3. One(K) \subseteq One(Own') \cup One({"codecs"}) \cup abandoned' \cup Forgotten'
    BY DEF One
  <1>4. Kept'
    BY <1>1, <1>2 DEF HeapInv, Kept
  <1>5. Accounted'
    BY <1>1, <1>2, <1>3 DEF HeapInv, Accounted
  <1> QED
    BY <1>4, <1>5 DEF HeapInv, OpenFile

(* Every step keeps what is allocated, and frees only that.                *)
LEMMA HeapStep ==
  ASSUME TypeOK, Places, Added, HeapInv, [Next]_vars
  PROVE  HeapInv'
  <1> USE DEF HeapInv, video
  <1>0. Forgotten \subseteq Forgotten' /\ (UNCHANGED twice => FreedOnce')
    BY Excuses
  <1>1. CASE UNCHANGED vars
    BY <1>0, <1>1 DEF vars, Kept, Accounted, OpenFile, Own, Current, Made, OwnPixels
  <1>2. CASE ResultCreate
    <2>1. /\ thumbs' = <<>> /\ img' = {} /\ pc' \in {"open", "open_video", "told"}
          /\ twice' = twice /\ \E e \in SUBSET {"error"} : heap' = One({"result", "path"} \cup e) /\ r' = {"path"} \cup e
      BY <1>2 DEF ResultCreate, Error, Places, Added, Before
    <2>2. Made' = {} /\ Current' = {} /\ Own' = {"result"} \cup r'
      BY <2>1 DEF Made, Current, Own, Making, Range
    <2>3. heap' = One(Own')
      BY <2>1, <2>2
    <2>4. <<"fp", 0>> \notin heap'
      BY <2>1, OneIn
    <2> QED
      BY <1>0, <2>1, <2>2, <2>3, <2>4 DEF Kept, Accounted, OpenFile
  <1>3. CASE EnsureOpenedWithBuf
    <2>1. PICK K \in {{"fp", "buf"}, {"error"}, {"fp", "buf", "error"}} :
            heap' = heap \cup One(K) /\ r' = r \cup K
      BY <1>3, OneUnion DEF EnsureOpenedWithBuf, Allocating, Error
    <2>2. /\ UNCHANGED <<twice, nthumbspecs, thumbs, img, abandoned>>
          /\ pc = "open" /\ pc' \in {"header", "close"}
      BY <1>3 DEF EnsureOpenedWithBuf, Allocating
    <2>3. Own' = Own \cup K
      BY <2>1, <2>2 DEF Own, Making
    <2> QED
      BY <2>1, <2>2, <2>3, Allocated, <1>0
  <1>4. CASE ReadHeader
    <2>1. PICK K : /\ heap' = heap \cup One(K) /\ r' \cup img' = r \cup K
                   /\ "image" \in r'
      <3>1. CASE \E tag \in SUBSET {"tag"} :
                   /\ Allocating(One({"image", "decoder"} \cup tag))
                   /\ r' = r \cup {"image"} \cup tag /\ img' = {"decoder"}
        <4>1. PICK tag \in SUBSET {"tag"} :
                   /\ Allocating(One({"image", "decoder"} \cup tag))
                   /\ r' = r \cup {"image"} \cup tag /\ img' = {"decoder"}
          BY <3>1
        <4> QED
          BY <4>1 DEF Allocating
      <3>2. CASE /\ Allocating(One({"image"} \cup img' \cup Error))
                 /\ r' = r \cup {"image"} \cup Error
        BY <3>2 DEF Allocating
      <3> QED
        BY <1>4, <3>1, <3>2 DEF ReadHeader
    <2>2. /\ UNCHANGED <<twice, nthumbspecs, thumbs, abandoned>> /\ img = {}
          /\ pc = "header" /\ pc' \in {"load", "close"}
      BY <1>4 DEF ReadHeader, Allocating, Places, Before
    <2>3. Own' = Own \cup K
      BY <2>1, <2>2 DEF Own, Making
    <2> QED
      BY <2>1, <2>2, <2>3, Allocated, <1>0
  <1>5. CASE OpenVideo
    <2>1. PICK K \in SUBSET {"avf", "codecs", "error"} :
            heap' = heap \cup One(K) /\ r' = r \cup (K \ {"codecs"})
      BY <1>5, OneUnion DEF OpenVideo, Allocating, Error
    <2>2. /\ UNCHANGED <<twice, nthumbspecs, thumbs, img, abandoned>>
          /\ pc = "open_video" /\ pc' \in {"video", "close"}
      BY <1>5 DEF OpenVideo, Allocating
    <2>3. Own' = Own \cup (K \ {"codecs"})
      BY <2>1, <2>2 DEF Own, Making
    <2> QED
      BY <2>1, <2>2, <2>3, Allocated, <1>0
  <1>6. CASE VideoProperties
    <2>1. PICK K \in SUBSET {"video", "audio", "tag", "error"} :
            heap' = heap \cup One(K) /\ r' = r \cup K
      <3>1. CASE /\ Allocating(One({"video"} \cup Error))
                 /\ r' = r \cup {"video"} \cup Error
        BY <3>1 DEF Allocating, Error
      <3>2. CASE \E more \in SUBSET {"audio", "tag"} :
                   Allocating(One({"video"} \cup more)) /\ r' = r \cup {"video"} \cup more
        BY <3>2 DEF Allocating
      <3> QED
        BY <1>6, <3>1, <3>2 DEF VideoProperties
    <2>2. /\ UNCHANGED <<twice, nthumbspecs, thumbs, img, abandoned>>
          /\ pc = "video" /\ pc' \in {"frame", "close"}
      BY <1>6 DEF VideoProperties, Allocating
    <2>3. Own' = Own \cup K
      BY <2>1, <2>2 DEF Own, Making
    <2> QED
      BY <2>1, <2>2, <2>3, Allocated, <1>0
  <1>7. CASE ReadFrame \/ ReadFails \/ FirstFrame
    <2>1. /\ UNCHANGED <<nthumbspecs, thumbs, r, abandoned>> /\ img = {} /\ "image" \notin r
          /\ pc = "frame"
      BY <1>7 DEF ReadFrame, ReadFails, FirstFrame, Places, Before
    <2>2. type = "TYPE_VIDEO" /\ Forgotten = Picture \cup One({"avf"})
      <3>1. type = "TYPE_VIDEO"
        BY <2>1 DEF Places
      <3> QED
        BY <3>1 DEF Forgotten, Picture, One
    <2>3. \/ /\ UNCHANGED <<twice, img>> /\ pc' \in {"frame", "close"}
             /\ heap' \in {heap, heap \cup Picture, heap \ Picture}
          \/ Convert
      BY <1>7, <2>1
      DEF ReadFrame, ReadFails, FirstFrame, DecodePacket, SkipPacket, GiveUp, Allocating
    <2>4. CASE /\ UNCHANGED <<twice, img>> /\ pc' \in {"frame", "close"}
               /\ heap' \in {heap, heap \cup Picture}
      <3>1. Own' = Own
        BY <2>1, <2>4 DEF Own, Making
      <3>2. PICK K \in {{}, {"picture"}} : heap' = heap \cup One(K)
        BY <2>4, OneUnion DEF Picture
      <3>3. \A k \in K : <<k, 0>> \in Forgotten'
        BY <1>0, <2>2, <3>2, OneIn DEF Picture
      <3> QED
        BY <1>0, <2>1, <2>4, <3>1, <3>2, <3>3, Allocated
    <2>5. CASE /\ UNCHANGED <<twice, img>> /\ pc' \in {"frame", "close"}
               /\ heap' = heap \ Picture
      <3>1. Made' = Made /\ Current = {} /\ Current' = {} /\ Own' = Own
        BY <2>1, <2>5 DEF Made, Current, Own, Making
      <3>2. "picture" \notin Own
        BY <2>1 DEF TypeOK, Own, Making
      <3>3. One(Own) \cap Picture = {} /\ Made \cap Picture = {}
        BY <3>2 DEF One, Picture, Made, Thumb, ThumbData
      <3> QED
        BY <1>0, <2>1, <2>5, <3>1, <3>3 DEF Kept, Accounted, OpenFile
    <2>6. CASE Convert
      <3>1. PICK K : K = {"picture", "frame", "pixbuf"}
        OBVIOUS
      <3>2. /\ Own' = Own \cup {"frame", "pixbuf"} /\ UNCHANGED twice /\ pc' = "thumb"
            /\ heap' = heap \cup Picture \cup One({"frame", "pixbuf"})
        BY <2>1, <2>6 DEF Convert, Allocating, Own, Making
      <3>3. heap' = heap \cup One(K)
        BY <3>1, <3>2 DEF Picture, One
      <3>4. <<"picture", 0>> \in Forgotten'
        BY <1>0, <2>2, OneIn DEF Picture
      <3> QED
        BY <1>0, <2>1, <3>1, <3>2, <3>3, <3>4, Allocated
    <2> QED
      BY <2>3, <2>4, <2>5, <2>6
  <1>8. CASE Load
    <2>1. /\ UNCHANGED <<nthumbspecs, thumbs, r, codec>> /\ "image" \in r
          /\ pc = "load" /\ pc' = "thumb"
      BY <1>8 DEF Load, Places
    <2>2. CASE UNCHANGED <<img, heap, twice, abandoned>>
      <3>1. Own' = Own /\ heap' = heap \cup One({})
        BY <2>1, <2>2, OneUnion DEF Own, Making
      <3> QED
        BY <1>0, <2>1, <2>2, <3>1, Allocated
    <2>3. CASE LoadPixels
      <3>1. Own' = Own \cup {"pixbuf"}
        BY <2>1, <2>3 DEF LoadPixels, Own, Making
      <3>2. CASE \/ Allocating(One({"pixbuf"})) /\ UNCHANGED abandoned
                 \/ /\ Allocating(One({"pixbuf", "row"}))
                    /\ abandoned' = abandoned \cup One({"row"})
        <4>1. PICK K \in {{"pixbuf"}, {"pixbuf", "row"}} :
                /\ Allocating(One(K)) /\ abandoned \subseteq abandoned'
                /\ "row" \in K => <<"row", 0>> \in abandoned'
          BY <3>2, OneIn
        <4> QED
          BY <1>0, <2>1, <3>1, <4>1, Allocated DEF Allocating
      <3>3. CASE codec = "JPEG" /\ Freeing(One({"row"}), One({"pixbuf"})) /\ UNCHANGED abandoned
        <4>1. Made' = Made /\ Current = {} /\ Current' = {}
          BY <2>1 DEF Made, Current
        <4>2. "row" \notin Own'
          BY <2>1, <3>1 DEF Own, TypeOK
        <4>3. One(Own') = One(Own) \cup One({"pixbuf"})
          BY <3>1, OneUnion
        <4>4. One(Own') \cap One({"row"}) = {} /\ Made \cap One({"row"}) = {}
          BY <4>2 DEF One, Made, Thumb, ThumbData
        <4>5. FreedOnce'
          <5>1. /\ twice' \subseteq twice \cup One({"row"})
                /\ type' = type /\ codec' = "JPEG"
            BY <1>8, <2>1, <3>3 DEF Freeing, Load
          <5> QED
            BY <3>3, <5>1 DEF FreedOnce, One
        <4> QED
          BY <1>0, <2>1, <3>3, <4>1, <4>3, <4>4, <4>5 DEF Freeing, Kept, Accounted, OpenFile
      <3> QED
        BY <2>3, <3>2, <3>3 DEF LoadPixels
    <2> QED
      BY <1>8, <2>2, <2>3 DEF Load
  <1>9. CASE LoadFails
    <2>1. PICK new \in SUBSET {"pixbuf", "row"} :
            /\ img' = new \cap {"pixbuf"} /\ Freeing(One({"decoder"}), One(new))
            /\ abandoned' = abandoned \cup One(new \cap {"row"})
      BY <1>9 DEF LoadFails
    <2>2. /\ UNCHANGED <<nthumbspecs, thumbs, r>> /\ img = {"decoder"}
          /\ pc = "load" /\ pc' = "close"
      BY <1>9 DEF LoadFails, Places
    <2>3. Made' = Made /\ Current = {} /\ Current' = {}
      BY <2>2 DEF Made, Current
    <2>4. Own' = (Own \ {"decoder"}) \cup (new \cap {"pixbuf"}) /\ "decoder" \in Own
      BY <2>1, <2>2 DEF Own, TypeOK, Making
    <2>5. /\ One(Own') = (One(Own) \ One({"decoder"})) \cup One(new \cap {"pixbuf"})
          /\ One(new) = One(new \cap {"pixbuf"}) \cup One(new \cap {"row"})
          /\ One({"decoder"}) \subseteq One(Own) /\ One({"decoder"}) \cap One(new) = {}
          /\ Made \cap One({"decoder"}) = {} /\ <<"fp", 0>> \notin One(new)
      BY <2>4 DEF One, Made, Thumb, ThumbData
    <2>6. twice' = twice
      BY <2>1, <2>5 DEF Freeing, Kept
    <2> QED
      BY <1>0, <2>1, <2>2, <2>3, <2>5, <2>6 DEF Freeing, Kept, Accounted, OpenFile
  <1>10. CASE Resize
    <2>1. /\ UNCHANGED <<nthumbspecs, thumbs, r, img, x, twice, abandoned>>
          /\ pc = "thumb" /\ pc' = "compress"
          /\ heap' = heap \cup Thumb(x) \cup (IF copied' THEN {} ELSE ThumbPixels(x))
      BY <1>10 DEF Resize, Allocating
    <2>2. /\ Made' = Made /\ Current = {} /\ Own' = Own
          /\ Current' = Thumb(x) \cup (IF copied' THEN {} ELSE ThumbPixels(x))
      BY <2>1 DEF Made, Current, Own, Making, OwnPixels, Thumb, ThumbPixels
    <2> QED
      BY <1>0, <2>1, <2>2 DEF Kept, Accounted, OpenFile
  <1>11. CASE Compress \/ CompressFails
    <2>1. /\ UNCHANGED <<nthumbspecs, r, img>> /\ pc = "compress" /\ pc' = "thumb"
          /\ Current = Thumb(x) \cup OwnPixels
      BY <1>11 DEF Compress, CompressFails, Current
    <2>2. Own' = Own /\ Current' = {}
      BY <2>1 DEF Own, Current, Making
    <2>3. /\ One(Own) \cap (Thumb(x) \cup OwnPixels \cup ThumbData(x)) = {}
          /\ Made \cap OwnPixels = {} /\ Made \cap (Thumb(x) \cup ThumbData(x)) = {}
          /\ (Thumb(x) \cup ThumbData(x)) \cap OwnPixels = {}
      <3>1. x \notin Range(thumbs) /\ x # 0
        BY DEF TypeOK, Added, Range
      <3> QED
        BY <3>1 DEF One, Thumb, OwnPixels, ThumbPixels, ThumbData, Made
    <2>4. <<"fp", 0>> \notin Current
      BY <2>3 DEF Current, Thumb, OwnPixels, ThumbPixels
    <2>5. CASE Compress
      <3>1. Freeing(OwnPixels, ThumbData(x)) /\ UNCHANGED abandoned
        BY <2>5 DEF Compress
      <3>2. twice' = twice
        BY <2>1, <3>1 DEF Freeing, Kept
      <3>3. CASE Len(thumbs) < MAX_THUMBS - 1
        <4>1. thumbs' = Append(thumbs, x)
          BY <2>5, <3>3 DEF Compress, AddThumbnail
        <4>2. Range(thumbs') = Range(thumbs) \cup {x}
          <5>1. /\ x \in Nat /\ thumbs \in Seq(Nat) /\ DOMAIN thumbs = 1..Len(thumbs)
                /\ DOMAIN thumbs' = 1..(Len(thumbs) + 1) /\ thumbs'[Len(thumbs) + 1] = x
                /\ \A i \in DOMAIN thumbs : thumbs'[i] = thumbs[i]
            BY <4>1 DEF TypeOK, Added
          <5>2. DOMAIN thumbs' = DOMAIN thumbs \cup {Len(thumbs) + 1}
            BY <5>1
          <5> QED
            BY <5>1, <5>2 DEF Range
        <4>3. Made' = Made \cup Thumb(x) \cup ThumbData(x)
          BY <4>2 DEF Made, Thumb, ThumbData
        <4> QED
          BY <1>0, <2>1, <2>2, <2>3, <3>1, <3>2, <4>3 DEF Freeing, Kept, Accounted, OpenFile
      <3>4. CASE ~(Len(thumbs) < MAX_THUMBS - 1)
        <4>1. Made' = Made
          BY <2>5, <3>4 DEF Compress, AddThumbnail, Made
        <4>2. ~(nthumbspecs < MAX_THUMBS)
          BY <2>1, <3>4, ResultScanAssumption DEF TypeOK, Places, Added
        <4> QED
          BY <1>0, <2>1, <2>2, <2>3, <3>1, <3>2, <4>1, <4>2
          DEF Freeing, Kept, Accounted, OpenFile
      <3> QED
        BY <3>3, <3>4
    <2>6. CASE CompressFails
      <3>1. /\ Freeing(OwnPixels \cup Thumb(x) \cup ThumbData(x), ThumbData(x) \cup {<<"encoder", x>>})
            /\ abandoned' = abandoned \cup {<<"encoder", x>>} /\ thumbs' = thumbs
        BY <2>6 DEF CompressFails
      <3>2. twice' = twice /\ Made' = Made
        BY <2>1, <3>1 DEF Freeing, Kept, Made
      <3> QED
        BY <1>0, <2>1, <2>2, <2>3, <3>1, <3>2 DEF Freeing, Kept, Accounted, OpenFile
    <2> QED
      BY <1>11, <2>5, <2>6
  <1>12. CASE ThumbsDone
    <2>1. /\ UNCHANGED <<nthumbspecs, thumbs, r, abandoned>> /\ pc = "thumb" /\ pc' = "close"
          /\ IF "image" \in r THEN UNCHANGED <<heap, twice, img>>
             ELSE Freeing(One({"frame"} \cup img), {}) /\ img' = {}
      BY <1>12 DEF ThumbsDone
    <2>2. Made' = Made /\ Current = {} /\ Current' = {}
      BY <2>1 DEF Made, Current
    <2>3. CASE "image" \in r
      <3>1. Own' = Own
        BY <2>1, <2>3 DEF Own, Making
      <3> QED
        BY <1>0, <2>1, <2>2, <2>3, <3>1 DEF Kept, Accounted, OpenFile
    <2>4. CASE "image" \notin r
      <3>1. Own' = Own \ ({"frame"} \cup img) /\ {"frame"} \cup img \subseteq Own
        BY <2>1, <2>4 DEF Own, Making, TypeOK
      <3>2. /\ One(Own') = One(Own) \ One({"frame"} \cup img)
            /\ One({"frame"} \cup img) \subseteq One(Own)
            /\ Made \cap One({"frame"} \cup img) = {}
        <4>1. Made \cap One({"frame"} \cup img) = {}
          BY DEF TypeOK, One, Made, Thumb, ThumbData
        <4> QED
          BY <3>1, <4>1, OneUnion
      <3>3. twice' = twice
        BY <2>1, <2>4, <3>2 DEF Freeing, Kept
      <3> QED
        BY <1>0, <2>1, <2>2, <2>4, <3>2, <3>3 DEF Freeing, Kept, Accounted, OpenFile
    <2> QED
      BY <2>3, <2>4
  <1>13. CASE Close
    <2>1. /\ UNCHANGED <<nthumbspecs, thumbs, img, abandoned>> /\ r' = r \ {"fp"}
          /\ pc = "close" /\ pc' = "told"
          /\ heap' = heap \ One({"fp", "codecs"}) /\ twice' = twice
      BY <1>13 DEF Close, Freeing
    <2>2. Made' = Made /\ Current = {} /\ Current' = {}
      BY <2>1 DEF Made, Current
    <2>3. Own' = Own \ {"fp"} /\ "codecs" \notin Own
      BY <2>1 DEF Own, Making, TypeOK
    <2>4. /\ One(Own') = One(Own) \ One({"fp", "codecs"})
          /\ Made \cap One({"fp", "codecs"}) = {}
          /\ One({"codecs"}) \subseteq One({"fp", "codecs"})
          /\ <<"fp", 0>> \in One({"fp", "codecs"})
      BY <2>3 DEF One, Made, Thumb, ThumbData
    <2> QED
      BY <1>0, <2>1, <2>2, <2>4 DEF Kept, Accounted, OpenFile
  <1>14. CASE ResultDestroy
    <2>1. /\ UNCHANGED <<nthumbspecs, abandoned, type, codec>> /\ thumbs' = <<>>
          /\ pc = "told" /\ pc' = "done" /\ Freeing(Destroyed(Range(thumbs)), {})
      BY <1>14 DEF ResultDestroy
    <2>2. Owned(Range(thumbs)) = One(Own) \cup Made
      <3>1. IF "image" \in r THEN TRUE ELSE img = {}
        BY <2>1 DEF Places
      <3> QED
        BY <2>1, <3>1 DEF Owned, Own, Made, Making
    <2>3. Own' = {} /\ Made' = {} /\ Current = {} /\ Current' = {}
      BY <2>1 DEF Own, Made, Current, Range
    <2>4. /\ Owned(Range(thumbs)) \subseteq Destroyed(Range(thumbs)) \cup Forgotten
          /\ Destroyed(Range(thumbs)) \ Owned(Range(thumbs))
               \subseteq One({k \in {"avclass"} : type = "TYPE_VIDEO"})
      <3>1. CASE "avf" \in r
        <4>1. type = "TYPE_VIDEO"
          BY <3>1 DEF Places
        <4>2. One({"avf"}) \subseteq Forgotten
          BY <4>1 DEF Forgotten, One
        <4>3. {k \in {"avclass"} : type = "TYPE_VIDEO"} = {"avclass"}
          BY <4>1
        <4> QED
          BY <3>1, <4>2, <4>3 DEF Destroyed
      <3>2. CASE "avf" \notin r
        <4>1. One({"avf"}) \cap Owned(Range(thumbs)) = {}
          <5>1. "avf" \notin Own
            BY <2>1, <3>2 DEF Own, TypeOK, Making
          <5>2. One(Own) \cap One({"avf"}) = {} /\ Made \cap One({"avf"}) = {}
            BY <5>1 DEF One, Made, Thumb, ThumbData
          <5> QED
            BY <2>2, <5>2
        <4> QED
          BY <3>2, <4>1, OneUnion DEF Destroyed
      <3> QED
        BY <3>1, <3>2
    <2>5. FreedOnce'
      <3>1. twice' \subseteq twice \cup One({k \in {"avclass"} : type = "TYPE_VIDEO"})
        BY <2>1, <2>2, <2>3, <2>4 DEF Freeing, Kept
      <3> QED
        BY <2>1, <3>1, OneUnion DEF FreedOnce
    <2>6. Forgotten' = Forgotten
      BY <2>1 DEF Forgotten
    <2>7. heap' \subseteq (heap \ Owned(Range(thumbs))) \cup Forgotten
      <3>1. heap' = (heap \cup {}) \ Destroyed(Range(thumbs))
        BY <2>1 DEF Freeing
      <3> QED
        BY <2>4, <3>1
    <2>8. Kept' /\ Accounted'
      BY <2>1, <2>2, <2>3, <2>6, <2>7, OneUnion DEF Kept, Accounted
    <2> QED
      BY <2>1, <2>5, <2>8 DEF OpenFile, Freeing
  <1>15. CASE ResizeNothing
    <2>1. /\ UNCHANGED <<nthumbspecs, thumbs, r, img, heap, twice, abandoned>> /\ "image" \in r
          /\ pc = "thumb" /\ pc' = "killed"
      BY <1>15 DEF ResizeNothing, Places, Making
    <2>2. Made' = Made /\ Current = {} /\ Current' = {} /\ Own' = Own
      BY <2>1 DEF Made, Current, Own, Making
    <2> QED
      BY <1>0, <2>1, <2>2 DEF Kept, Accounted, OpenFile
  <1> QED
    BY <1>1, <1>2, <1>3, <1>4, <1>5, <1>6, <1>7, <1>8, <1>9, <1>10, <1>11, <1>12, <1>13, <1>14,
       <1>15
    DEF Next
-----------------------------------------------------------------------------
(* The strengthening is an invariant.                                      *)
THEOREM Inductive == Spec => []IInv
  <1>1. ASSUME Init PROVE IInv
    <2>1. /\ pc = "start" /\ heap = {} /\ r = {} /\ img = {} /\ thumbs = <<>> /\ x = 1 /\ ok = TRUE
          /\ twice = {} /\ type = "none" /\ codec = "none"
      BY <1>1 DEF Init
    <2>2. TypeOK /\ Places /\ Outcome
      <3>1. Len(thumbs) \in 0..MAX_THUMBS /\ x \in 1..(nthumbspecs + 1)
        BY <1>1, ResultScanAssumption DEF Init
      <3>2. TypeOK
        BY <1>1, <3>1 DEF Init, TypeOK
      <3> QED
        BY <2>1, <3>2 DEF Places, Outcome, Before, Making
    <2>3. Added
      BY <2>1, ResultScanAssumption DEF Added
    <2>4. Own = {} /\ Current = {} /\ Made = {}
      BY <2>1 DEF Own, Current, Made, Range
    <2>5. Kept /\ Accounted /\ OpenFile /\ FreedOnce
      BY <2>1, <2>4, OneUnion DEF Kept, Accounted, OpenFile, FreedOnce
    <2> QED
      BY <2>2, <2>3, <2>5 DEF IInv
  <1>2. ASSUME IInv, [Next]_vars PROVE IInv'
    BY <1>2, TypeStep, PlacesStep, AddedStep, OutcomeStep, HeapStep DEF IInv, HeapInv
  <1> QED
    BY <1>1, <1>2, PTL DEF Spec

(* Every variable keeps its type, and a thumbnail is only made of a        *)
(* specification there is.                                                 *)
THEOREM TypeCorrect == Spec => []TypeOK
  BY Inductive, PTL DEF IInv

(* Whichever decoder, encoder or call of libavformat fails, nothing is     *)
(* freed that is not allocated, but for the line of a JPEG (see            *)
(* LoadPixels) and what result_destroy closes in place of the context of a *)
(* video (see Destroyed).                                                  *)
THEOREM FreesOnce == Spec => []FreedOnce
  BY Inductive, PTL DEF IInv

(* result_destroy leaves nothing but what a library's error jumped over,   *)
(* the context of a video and its last picture, however many thumbnails    *)
(* there are, up to the limit.                                             *)
THEOREM LeavesNothing == Spec => []AllFreed
  <1>1. IInv => AllFreed
    <2> SUFFICES ASSUME IInv, pc = "done", nthumbspecs < MAX_THUMBS
                 PROVE  heap \subseteq abandoned \cup Forgotten
      BY DEF AllFreed
    <2>1. Own = {} /\ Current = {} /\ Made = {}
      BY DEF IInv, Added, Own, Current, Made, Range
    <2> QED
      BY <2>1, OneUnion DEF IInv, Accounted
  <1> QED
    BY <1>1, Inductive, PTL

(* A result that is told holds what it points to, with its thumbnails in   *)
(* the order of their specifications, and says why if it failed; its file  *)
(* is closed.                                                              *)
THEOREM TellsWhole == Spec => []ToldWhole
  <1>1. IInv => ToldWhole
    <2> SUFFICES ASSUME IInv, pc = "told" PROVE ToldWhole
      BY DEF ToldWhole
    <2>1. One({"result"} \cup r \cup (IF "image" \in r THEN img ELSE {})) \subseteq One(Own)
      BY DEF One, Own, Making
    <2>2. Owned(Range(thumbs)) \subseteq heap
      BY <2>1 DEF IInv, Kept, Made, Owned
    <2>3. One({"fp"}) \cap heap = {}
      BY DEF IInv, OpenFile, One
    <2> QED
      BY <2>2, <2>3 DEF IInv, ToldWhole, Outcome, Added
  <1> QED
    BY <1>1, Inductive, PTL
-----------------------------------------------------------------------------
(* That a scan ends: what it has ahead of it.                              *)

(* From p on, with n thumbnails to make and k packets to read, at most.    *)
StepsFrom(p, n, k) ==
  CASE p = "start" -> 2 * n + MaxPackets + 7
    [] p = "open" -> 2 * n + 6
    [] p = "header" -> 2 * n + 5
    [] p = "load" -> 2 * n + 4
    [] p = "open_video" -> 2 * n + MaxPackets + 6
    [] p = "video" -> 2 * n + MaxPackets + 5
    [] p = "frame" -> 2 * n + k + 4
    [] p = "thumb" -> 2 * n + 3
    [] p = "compress" -> 2 * n + 2
    [] p = "close" -> 2
    [] p = "told" -> 1
    [] p \in {"done", "killed"} -> 0

ToMake == IF pc \in Making THEN nthumbspecs + 1 - x ELSE nthumbspecs
ToRead == IF pc = "frame" THEN Len(left) ELSE 0
StepsLeft == StepsFrom(pc, ToMake, ToRead)

(* Every step of the scan of a file is one off what it has ahead of it:    *)
(* the round of the loop that goes back to the first packet too, which no  *)
(* other round follows.                                                    *)
GetsNearer == [][StepsLeft' < StepsLeft]_vars

(* The packets of a video are read from what the file had.                 *)
Reading == pc = "frame" => left \in Seq(Packet) /\ Len(left) <= MaxPackets

(* What is left from each place.                                           *)
Left(n, k) ==
  /\ StepsFrom("start", n, k) = 2 * n + MaxPackets + 7
  /\ StepsFrom("open", n, k) = 2 * n + 6
  /\ StepsFrom("header", n, k) = 2 * n + 5
  /\ StepsFrom("load", n, k) = 2 * n + 4
  /\ StepsFrom("open_video", n, k) = 2 * n + MaxPackets + 6
  /\ StepsFrom("video", n, k) = 2 * n + MaxPackets + 5
  /\ StepsFrom("frame", n, k) = 2 * n + k + 4
  /\ StepsFrom("thumb", n, k) = 2 * n + 3
  /\ StepsFrom("compress", n, k) = 2 * n + 2
  /\ StepsFrom("close", n, k) = 2
  /\ StepsFrom("told", n, k) = 1
  /\ StepsFrom("done", n, k) = 0
  /\ StepsFrom("killed", n, k) = 0

(* So it is defined.                                                       *)
LEMMA LeftFrom == ASSUME NEW n, NEW k PROVE Left(n, k)
  BY DEF Left, StepsFrom

(* A video has no more packets than the file.                              *)
LEMMA ReadingStep == ASSUME Reading, [Next]_vars PROVE Reading'
  <1>1. CASE UNCHANGED vars
    BY <1>1 DEF Reading, vars, video
  <1>2. CASE VideoProperties
    <2> SUFFICES ASSUME pc' = "frame"
                 PROVE  left' \in Seq(Packet) /\ Len(left') <= MaxPackets
      BY DEF Reading
    <2>1. PICK n \in 0..MaxPackets : left' \in [1..n -> Packet]
      BY <1>2 DEF VideoProperties
    <2> QED
      BY <2>1, ResultScanAssumption
  <1>3. CASE ReadFrame
    <2>1. pc = "frame" /\ left # <<>> /\ left' = Tail(left)
      BY <1>3 DEF ReadFrame
    <2> QED
      BY <2>1, ResultScanAssumption DEF Reading
  <1>4. CASE ReadFails \/ FirstFrame
    BY <1>4 DEF Reading, ReadFails, FirstFrame, DecodePacket, GiveUp, Convert
  <1>5. CASE ResultCreate \/ EnsureOpenedWithBuf \/ ReadHeader \/ Load \/ LoadFails
    BY <1>5 DEF Reading, ResultCreate, EnsureOpenedWithBuf, ReadHeader, Load, LoadFails
  <1>6. CASE Resize \/ ResizeNothing \/ Compress \/ CompressFails \/ ThumbsDone
    BY <1>6 DEF Reading, Resize, ResizeNothing, Compress, CompressFails, ThumbsDone
  <1>7. CASE OpenVideo \/ Close \/ ResultDestroy
    BY <1>7 DEF Reading, OpenVideo, Close, ResultDestroy
  <1> QED
    BY <1>1, <1>2, <1>3, <1>4, <1>5, <1>6, <1>7 DEF Next

(* The packets are counted throughout.                                     *)
LEMMA AlwaysReading == Spec => [](IInv /\ Reading)
  <1>1. Init => Reading
    BY DEF Init, Reading
  <1> QED
    BY <1>1, ReadingStep, Inductive, PTL DEF Spec

(* It is a number.                                                         *)
LEMMA NumbersFrom ==
  ASSUME NEW p \in Before \cup Making \cup {"close", "told", "done", "killed"}, NEW n \in Nat, NEW k \in Nat
  PROVE  StepsFrom(p, n, k) \in Nat
  <1>1. PICK m \in Nat : m = MaxPackets
    BY ResultScanAssumption
  <1>2. Left(n, k)
    BY LeftFrom
  <1>3. CASE p \in {"start", "open_video", "video"}
    BY <1>1, <1>2, <1>3 DEF Left
  <1>4. CASE p \in {"open", "header", "load", "frame"}
    BY <1>2, <1>4 DEF Left
  <1>5. CASE p \in {"thumb", "compress", "close", "told", "done", "killed"}
    BY <1>2, <1>5 DEF Left
  <1> QED
    BY <1>3, <1>4, <1>5 DEF Before, Making

(* What is ahead is a number.                                              *)
LEMMA Numbers ==
  ASSUME IInv, Reading
  PROVE  /\ ToMake \in Nat /\ ToRead \in 0..MaxPackets /\ MaxPackets \in Nat
         /\ nthumbspecs \in Nat /\ StepsLeft \in Nat
  <1>1. nthumbspecs \in Nat /\ x \in 1..(nthumbspecs + 1) /\ MaxPackets \in Nat
    BY ResultScanAssumption DEF IInv, TypeOK
  <1>2. ToMake \in Nat /\ ToRead \in 0..MaxPackets
    BY <1>1 DEF ToMake, ToRead, Reading
  <1>3. StepsLeft \in Nat
    BY <1>2, NumbersFrom, SMTT(60) DEF IInv, Places, StepsLeft
  <1> QED
    BY <1>1, <1>2, <1>3

(* Every step leaves less ahead.                                           *)
LEMMA NearerStep == ASSUME IInv, Reading, Next PROVE StepsLeft' < StepsLeft
  <1>1. /\ nthumbspecs \in Nat /\ MaxPackets \in Nat /\ x \in Nat /\ x <= nthumbspecs + 1
        /\ UNCHANGED nthumbspecs
    <2>1. UNCHANGED nthumbspecs
      BY DEF Next, ResultCreate, EnsureOpenedWithBuf, ReadHeader, Load, LoadFails, Resize,
             ResizeNothing, Compress, CompressFails, ThumbsDone, OpenVideo, VideoProperties,
             ReadFrame, ReadFails, FirstFrame, Close, ResultDestroy
    <2> QED
      BY <2>1, ResultScanAssumption DEF IInv, TypeOK
  <1>2. PICK m \in Nat, s \in Nat, y \in Nat : m = MaxPackets /\ s = nthumbspecs /\ y = x
    BY <1>1
  <1>3. Left(ToMake, ToRead) /\ Left(ToMake', ToRead')
    BY LeftFrom
  <1>4. pc = "frame" => Len(left) \in Nat /\ Len(left) <= MaxPackets
    BY DEF Reading
  <1>5. Reading'
    BY ReadingStep
  <1>6. pc' = "frame" => Len(left') \in Nat /\ Len(left') <= MaxPackets
    BY <1>5 DEF Reading
  <1>7. CASE ResultCreate
    <2>1. pc = "start" /\ pc' \in {"open", "open_video", "told"}
      BY <1>7 DEF ResultCreate
    <2> QED
      BY <1>1, <1>2, <1>3, <2>1 DEF Left, StepsLeft, ToMake, ToRead, Making
  <1>8. CASE EnsureOpenedWithBuf
    <2>1. pc = "open" /\ pc' \in {"header", "close"}
      BY <1>8 DEF EnsureOpenedWithBuf
    <2> QED
      BY <1>1, <1>2, <1>3, <2>1 DEF Left, StepsLeft, ToMake, ToRead, Making
  <1>9. CASE ReadHeader
    <2>1. pc = "header" /\ pc' \in {"load", "close"}
      BY <1>9 DEF ReadHeader
    <2> QED
      BY <1>1, <1>2, <1>3, <2>1 DEF Left, StepsLeft, ToMake, ToRead, Making
  <1>10. CASE Load \/ LoadFails
    <2>1. pc = "load" /\ (pc' = "close" \/ (pc' = "thumb" /\ x' = 1))
      BY <1>10 DEF Load, LoadFails
    <2> QED
      BY <1>1, <1>2, <1>3, <2>1 DEF Left, StepsLeft, ToMake, ToRead, Making
  <1>11. CASE Resize
    <2>1. pc = "thumb" /\ pc' = "compress" /\ x' = x /\ x <= nthumbspecs
      BY <1>11 DEF Resize
    <2> QED
      BY <1>1, <1>2, <1>3, <2>1 DEF Left, StepsLeft, ToMake, ToRead, Making
  <1>12. CASE Compress \/ CompressFails
    <2>1. pc = "compress" /\ pc' = "thumb" /\ x' = x + 1 /\ x <= nthumbspecs
      BY <1>12 DEF Compress, CompressFails, IInv, Places
    <2> QED
      BY <1>1, <1>2, <1>3, <2>1 DEF Left, StepsLeft, ToMake, ToRead, Making
  <1>13. CASE ThumbsDone
    <2>1. pc = "thumb" /\ pc' = "close" /\ x <= nthumbspecs + 1
      BY <1>1, <1>13 DEF ThumbsDone
    <2> QED
      BY <1>1, <1>2, <1>3, <2>1 DEF Left, StepsLeft, ToMake, ToRead, Making
  <1>14. CASE OpenVideo
    <2>1. pc = "open_video" /\ pc' \in {"video", "close"}
      BY <1>14 DEF OpenVideo
    <2> QED
      BY <1>1, <1>2, <1>3, <2>1 DEF Left, StepsLeft, ToMake, ToRead, Making
  <1>15. CASE VideoProperties
    <2>1. pc = "video" /\ pc' \in {"frame", "close"}
      BY <1>15 DEF VideoProperties
    <2>2. CASE pc' = "frame"
      <3>1. PICK k \in Nat : k = Len(left') /\ k <= m
        BY <1>2, <1>6, <2>2
      <3> QED
        BY <1>1, <1>2, <1>3, <2>1, <2>2, <3>1 DEF Left, StepsLeft, ToMake, ToRead, Making
    <2>3. CASE pc' = "close"
      BY <1>1, <1>2, <1>3, <2>1, <2>3 DEF Left, StepsLeft, ToMake, ToRead, Making
    <2> QED
      BY <2>1, <2>2, <2>3
  <1>16. CASE ReadFrame \/ ReadFails \/ FirstFrame
    <2>1. PICK k \in Nat : k = Len(left)
      BY <1>4, <1>16 DEF ReadFrame, ReadFails, FirstFrame
    <2>2. pc = "frame"
      BY <1>16 DEF ReadFrame, ReadFails, FirstFrame
    <2>3. CASE pc' = "close" \/ (pc' = "thumb" /\ x' = 1)
      BY <1>1, <1>2, <1>3, <2>1, <2>2, <2>3, SMTT(60) DEF Left, StepsLeft, ToMake, ToRead, Making
    <2>4. CASE pc' = "frame" /\ left # <<>> /\ left' = Tail(left)
      <3>1. Len(left') = k - 1
        BY <2>1, <2>2, <2>4 DEF Reading
      <3> QED
        BY <1>1, <1>2, <1>3, <2>1, <2>2, <2>4, <3>1 DEF Left, StepsLeft, ToMake, ToRead, Making
    <2>5. \/ pc' = "close"
          \/ pc' = "thumb" /\ x' = 1
          \/ pc' = "frame" /\ left # <<>> /\ left' = Tail(left)
      <3>1. CASE ReadFrame
        BY <2>2, <3>1 DEF ReadFrame, SkipPacket, DecodePacket, GiveUp, Convert
      <3>2. CASE ReadFails
        BY <3>2 DEF ReadFails, GiveUp
      <3>3. CASE FirstFrame
        BY <3>3 DEF FirstFrame, DecodePacket, GiveUp, Convert
      <3> QED
        BY <1>16, <3>1, <3>2, <3>3
    <2> QED
      BY <2>3, <2>4, <2>5
  <1>17. CASE Close
    <2>1. pc = "close" /\ pc' = "told"
      BY <1>17 DEF Close
    <2> QED
      BY <1>3, <2>1 DEF Left, StepsLeft, ToMake, ToRead, Making
  <1>18. CASE ResultDestroy
    <2>1. pc = "told" /\ pc' = "done"
      BY <1>18 DEF ResultDestroy
    <2> QED
      BY <1>3, <2>1 DEF Left, StepsLeft, ToMake, ToRead, Making
  <1>19. CASE ResizeNothing
    <2>1. pc = "thumb" /\ pc' = "killed" /\ x <= nthumbspecs
      BY <1>19 DEF ResizeNothing
    <2> QED
      BY <1>1, <1>2, <1>3, <2>1 DEF Left, StepsLeft, ToMake, ToRead, Making
  <1> QED
    BY <1>7, <1>8, <1>9, <1>10, <1>11, <1>12, <1>13, <1>14, <1>15, <1>16, <1>17, <1>18, <1>19
    DEF Next

(* The scan of a file cannot go on for ever, whatever its packets are and  *)
(* whatever fails: each step takes it nearer to its end, and there is no   *)
(* less ahead of it than nothing.                                          *)
THEOREM AlwaysNearer == Spec => [](StepsLeft \in Nat) /\ GetsNearer
  <1>1. IInv /\ Reading => StepsLeft \in Nat
    BY Numbers
  <1>2. IInv /\ Reading /\ [Next]_vars => [StepsLeft' < StepsLeft]_vars
    BY NearerStep
  <1> QED
    BY <1>1, <1>2, AlwaysReading, PTL DEF Spec, GetsNearer
=============================================================================
