------------------------------- MODULE Buffer -------------------------------
(***************************************************************************)
(* The Buffer of src/buffer.c: a region of memory that grows, in which     *)
(* bytes are stored from end on and taken from offset on, and a 32-bit     *)
(* word that caches bits for buffer_get_bits.  The image and wav decoders  *)
(* fill it from a file with buffer_check_load; the png encoder appends to  *)
(* it.  Bytes are numbered in the order they are stored; the memory holds  *)
(* these numbers, 0 where nothing was written yet.                         *)
(*                                                                         *)
(* FATAL only logs in this build (common.h), so the limits BUFFER_MAX_LEN  *)
(* and BUFFER_MAX_CHUNK have no effect and are left out.                   *)
(***************************************************************************)
EXTENDS Naturals, Sequences

CONSTANTS
  ByteBits,        \* bits in a byte (8)
  WordBits,        \* bits in buffer->cache (32)
  MaxBits,         \* the most bits buffer_get_bits is asked for
  AllocSz,         \* BUFFER_ALLOCSZ (8192)
  Slack,           \* the room added when the memory grows (4096)
  InitLens,        \* what buffer_init is asked for
  BufSize,         \* max_wanted of buffer_check_load (4096)
  Sizes,           \* how much is stored, taken, dropped or wanted at once
  FileLen,         \* bound: bytes in the file buffer_check_load reads
  MaxBytes         \* bound: bytes ever stored

ASSUME BufferAssumption ==
  /\ ByteBits \in Nat \ {0} /\ WordBits \in Nat /\ MaxBits \in Nat
  /\ AllocSz \in Nat \ {0} /\ Slack \in Nat \ {0} /\ InitLens \subseteq Nat
  /\ BufSize \in Nat /\ Sizes \subseteq Nat
  /\ FileLen \in Nat /\ MaxBytes \in Nat

VARIABLES
  buf,             \* [alloc, offset, end, mem]
  cache, ncached,  \* the word, most significant bit first, and how much of it counts
  rest,            \* bytes of the file not yet read
  failed,          \* the last read from the file failed
  ok,              \* what the last call returned
  out,             \* the bytes, or the bits, the last call handed out, if any
  put              \* how many bytes were ever stored

bits == <<cache, ncached>>
vars == <<buf, bits, rest, failed, ok, out, put>>

(* A bit of no byte at all, which a shift moves into the word.             *)
Blank == 0
Word == [i \in 1..WordBits |-> Blank]

Held == buf.end - buf.offset
Data == [i \in 1..Held |-> buf.mem[buf.offset + i - 1]]

-----------------------------------------------------------------------------
(* An empty buffer is used from its beginning again.                       *)
Rewound(b) == IF b.offset = b.end THEN [b EXCEPT !.offset = 0, !.end = 0] ELSE b

(* Mutant of Compacted: offset is reset before end is corrected by it.     *)
CompactedLate(b) ==
  IF b.offset * 5 >= b.alloc * 4
  THEN [b EXCEPT !.mem = [i \in 0..(b.alloc - 1) |->
                            IF i < b.end - b.offset THEN @[i + b.offset] ELSE @[i]],
                 !.offset = 0]
  ELSE b

(* buffer_compact: once four fifths of the memory (BUFFER_COMPACT_PERCENT) *)
(* lie before offset, the data moves to the beginning.                     *)
Compacted(b) ==
  IF b.offset * 5 >= b.alloc * 4
  THEN [b EXCEPT !.mem = [i \in 0..(b.alloc - 1) |->
                            IF i < b.end - b.offset THEN @[i + b.offset] ELSE @[i]],
                 !.end = @ - b.offset, !.offset = 0]
  ELSE b

(* realloc, with room for n more bytes than there were in all.             *)
Grown(b, n) ==
  LET newlen == IF b.alloc + n < Slack THEN (b.alloc + n) * 2 ELSE b.alloc + n + Slack IN
  [b EXCEPT !.alloc = newlen,
            !.mem = [i \in 0..(newlen - 1) |-> IF i < b.alloc THEN @[i] ELSE 0]]

(* Mutant of Fits: off by one.                                              *)
FitsButOne(b, n) == b.end + n <= b.alloc + 1

Fits(b, n) == b.end + n <= b.alloc

(* buffer_append_space finds room for n bytes: what there is, or what      *)
(* compacting makes, or more memory.                                       *)
WithRoom(b, n) ==
  IF Fits(b, n) THEN b
  ELSE IF Fits(Compacted(b), n) THEN Compacted(b) ELSE Grown(Compacted(b), n)

(* buffer_append: n bytes are stored there.                                *)
Appended(n) ==
  LET b == WithRoom(Rewound(buf), n) IN
  [b EXCEPT !.mem = [i \in DOMAIN @ |-> IF i \in b.end..(b.end + n - 1)
                                        THEN put + 1 + i - b.end ELSE @[i]],
            !.end = @ + n]

-----------------------------------------------------------------------------
FileKeeps == UNCHANGED <<rest, failed>>

(* buffer_init, or buffer_init_or_clear of a buffer that was freed.        *)
BufferInit(len) ==
  /\ buf.alloc = 0
  /\ LET alloc == IF len = 0 THEN AllocSz ELSE len IN
       buf' = [alloc |-> alloc, offset |-> 0, end |-> 0, mem |-> [i \in 0..(alloc - 1) |-> 0]]
  /\ cache' = Word /\ ncached' = 0
  /\ out' = <<>> /\ UNCHANGED <<ok, put>> /\ FileKeeps

(* buffer_clear, which buffer_init_or_clear calls when there is memory.    *)
Clear ==
  /\ buf.alloc > 0
  /\ buf' = [buf EXCEPT !.offset = 0, !.end = 0]
  /\ cache' = Word /\ ncached' = 0
  /\ out' = <<>> /\ UNCHANGED <<ok, put>> /\ FileKeeps

Free ==
  /\ buf.alloc > 0
  /\ buf' = [buf EXCEPT !.alloc = 0, !.mem = <<>>]
  /\ out' = <<>> /\ UNCHANGED <<bits, ok, put>> /\ FileKeeps

(* buffer_append.                                                          *)
Store(n) ==
  /\ buf.alloc > 0 /\ put + n <= MaxBytes
  /\ buf' = Appended(n) /\ put' = put + n
  /\ out' = <<>> /\ UNCHANGED <<bits, ok>> /\ FileKeeps

(* buffer_check_alloc may move the data, and changes nothing else.         *)
CheckAlloc(n) ==
  /\ buf.alloc > 0
  /\ buf' = LET b == Rewound(buf) IN
              IF b.end + n < b.alloc THEN b ELSE Compacted(b)
  /\ out' = <<>> /\ UNCHANGED <<bits, ok, put>> /\ FileKeeps

(* buffer_get_ret and what is built on it (buffer_get_int and the rest);   *)
(* buffer_consume_ret does the same but for the copy.  Neither does        *)
(* anything when there is too little.                                      *)
Get(n) ==
  /\ buf.alloc > 0
  /\ ok' = (n <= Held)
  /\ IF n <= Held
     THEN out' = SubSeq(Data, 1, n) /\ buf' = [buf EXCEPT !.offset = @ + n]
     ELSE out' = <<>> /\ UNCHANGED buf
  /\ UNCHANGED <<bits, put>> /\ FileKeeps

(* Mutant of ConsumeEnd: it takes no notice of how much there is.          *)
ConsumeEndUnchecked(n) ==
  /\ buf.alloc > 0
  /\ ok' = TRUE /\ buf' = [buf EXCEPT !.end = @ - n]
  /\ out' = <<>> /\ UNCHANGED <<bits, put>> /\ FileKeeps

(* buffer_consume_end_ret.                                                 *)
ConsumeEnd(n) ==
  /\ buf.alloc > 0
  /\ ok' = (n <= Held)
  /\ IF n <= Held THEN buf' = [buf EXCEPT !.end = @ - n] ELSE UNCHANGED buf
  /\ out' = <<>> /\ UNCHANGED <<bits, put>> /\ FileKeeps

(* Mutant of Wanted: max_wanted is not raised to min_wanted.               *)
WantedAtMost(min, max) == IF max > Held THEN max - Held ELSE 0

(* How much buffer_check_load tries to read.                               *)
Wanted(min, max) == (IF min > max THEN min ELSE max) - Held

(* buffer_check_load sees to it that there are min bytes.  fread returns   *)
(* less than it is asked for at the end of the file, or after an error.    *)
CheckLoad(min, max) ==
  /\ buf.alloc > 0
  /\ IF min <= Held
     THEN ok' = TRUE /\ UNCHANGED <<buf, rest, failed, put>>
     ELSE \E read \in 0..rest :
            /\ read <= Wanted(min, max) /\ put + read <= MaxBytes
            /\ failed' = (read < Wanted(min, max) /\ read < rest)
            /\ rest' = rest - read /\ put' = put + read
            /\ buf' = IF read = 0 THEN buf ELSE Appended(read)
            /\ ok' = (read > 0 /\ Held + read >= min)
  /\ out' = <<>> /\ UNCHANGED bits

(* How many bytes buffer_get_bits takes from the buffer, one at a time.    *)
Needed(n) ==
  IF n <= ncached THEN 0 ELSE (n - ncached + ByteBits - 1) \div ByteBits

Fifo == INSTANCE ByteFifo WITH
  fifo <- IF buf.alloc = 0 THEN <<>> ELSE Data,
  ahead <- IF buf.alloc = 0 THEN <<>> ELSE SubSeq(cache, WordBits - ncached + 1, WordBits)

(* Each byte is shifted into the word from the right; then the word,       *)
(* shifted right over what is left for the next time and masked, is        *)
(* returned.  (With too little in the buffer, buffer_get_char logs an      *)
(* error and returns what happens to be on the stack.)                     *)
GetBits(n) ==
  /\ buf.alloc > 0 /\ Needed(n) <= Held
  /\ LET all == cache \o Fifo!BitsOf(SubSeq(Data, 1, Needed(n)))
         word == SubSeq(all, Len(all) - WordBits + 1, Len(all))
         left == ncached + Needed(n) * ByteBits - n
     IN /\ cache' = word /\ ncached' = left
        /\ out' = [i \in 1..n |-> IF WordBits - left - n + i \in 1..WordBits
                                  THEN word[WordBits - left - n + i] ELSE Blank]
  /\ buf' = [buf EXCEPT !.offset = @ + Needed(n)]
  /\ UNCHANGED <<ok, put>> /\ FileKeeps

Init ==
  /\ buf = [alloc |-> 0, offset |-> 0, end |-> 0, mem |-> <<>>]
  /\ cache = Word /\ ncached = 0
  /\ rest = FileLen /\ failed = FALSE
  /\ ok = TRUE /\ out = <<>> /\ put = 0

Next ==
  \/ Clear \/ Free
  \/ \E len \in InitLens : BufferInit(len)
  \/ \E n \in Sizes : Store(n) \/ CheckAlloc(n) \/ Get(n) \/ ConsumeEnd(n)
  \/ \E min \in Sizes : CheckLoad(min, BufSize)
  \/ \E n \in 0..MaxBits : GetBits(n)

Spec == Init /\ [][Next]_vars
-----------------------------------------------------------------------------
(* Every variable keeps its type.                                          *)
TypeOK ==
  /\ DOMAIN buf = {"alloc", "offset", "end", "mem"}
  /\ buf.alloc \in Nat /\ buf.offset \in Nat /\ buf.end \in Nat
  /\ cache \in [1..WordBits -> Nat] /\ ncached \in Nat
  /\ rest \in Nat /\ failed \in BOOLEAN /\ ok \in BOOLEAN /\ put \in Nat

(* All the data lies in the memory, whatever was compacted, grown, dropped *)
(* or refused before, and the memory is as large as alloc says.            *)
InBounds ==
  buf.alloc > 0 =>
    /\ buf.offset <= buf.end /\ buf.end <= buf.alloc
    /\ DOMAIN buf.mem = 0..(buf.alloc - 1)

(* The buffer is a queue of bytes, with bits read ahead: what comes out is *)
(* what went in, in that order, whenever the memory grew or was compacted. *)
ImplementsFifo == Fifo!Spec

(* buffer_check_load succeeds with min bytes in the buffer, and fails only *)
(* at the end of the file or when reading it failed; max_wanted is no      *)
(* reason to.                                                              *)
LoadComplete ==
  [][\A min \in Sizes : CheckLoad(min, BufSize) =>
       IF ok' THEN Held' >= min ELSE rest' = 0 \/ failed']_vars

-----------------------------------------------------------------------------
(* A claim the repository makes that the code does not keep.               *)

(* buffer_get_bits: "Do not request more than 32 bits at a time", so up to *)
(* 32 may be requested, and every bit returned is one of the buffer's.     *)
BitsAreData == \A i \in DOMAIN out : out[i] # Blank
=============================================================================
