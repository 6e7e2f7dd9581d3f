---------------------------- MODULE BufferProofs ----------------------------
(***************************************************************************)
(* Theorems about Buffer, for memory, slack, requests and files of every   *)
(* size.  No sequence of calls makes the data leave the memory.  A Buffer  *)
(* is a queue of bytes that can be read bit by bit: every step of Buffer   *)
(* is a step of ByteFifo or changes nothing ByteFifo has, as long as no    *)
(* more bits are asked for at once than the word has room for beside the   *)
(* rest of a byte (25 of 32).                                              *)
(***************************************************************************)
EXTENDS Buffer, Integers, TLAPS

(* A region: a record whose memory, if there is any, has alloc cells and   *)
(* holds the data.                                                         *)
Mem == UNION {[D -> Nat] : D \in SUBSET Nat}
Region == [alloc : Nat, offset : Nat, end : Nat, mem : Mem]
Sound(b) == b.offset <= b.end /\ b.end <= b.alloc /\ DOMAIN b.mem = 0..(b.alloc - 1)

RegionInv == buf \in Region /\ (buf.alloc > 0 => Sound(buf))

(* What is counted does not fall below 0.                                  *)
Counts == ncached \in Nat /\ put \in Nat

IInv == RegionInv /\ Counts
-----------------------------------------------------------------------------
(* Using an empty region from its beginning keeps it sound.                *)
LEMMA RewoundSound ==
  ASSUME NEW b \in Region, Sound(b)
  PROVE  /\ Rewound(b) \in Region /\ Sound(Rewound(b))
         /\ Rewound(b).alloc = b.alloc
         /\ Rewound(b).end - Rewound(b).offset = b.end - b.offset
  <1>1. CASE b.offset = b.end
    <2>1. Rewound(b) = [b EXCEPT !.offset = 0, !.end = 0]
      BY <1>1 DEF Rewound
    <2>2. [b EXCEPT !.offset = 0, !.end = 0] \in Region
      BY DEF Region
    <2>3. /\ Rewound(b).alloc = b.alloc /\ Rewound(b).offset = 0 /\ Rewound(b).end = 0
          /\ Rewound(b).mem = b.mem /\ b.alloc \in Nat /\ b.end \in Nat /\ b.offset \in Nat
      BY <2>1 DEF Region
    <2>4. Sound(Rewound(b))
      BY <2>3 DEF Sound
    <2>5. Rewound(b) \in Region
      BY <2>1, <2>2
    <2> QED
      BY <1>1, <2>3, <2>4, <2>5
  <1>2. CASE b.offset # b.end
    BY <1>2 DEF Rewound
  <1> QED
    BY <1>1, <1>2

(* Compacting moves the data to the beginning, all of it.                  *)
LEMMA CompactedSound ==
  ASSUME NEW b \in Region, Sound(b)
  PROVE  /\ Compacted(b) \in Region /\ Sound(Compacted(b))
         /\ Compacted(b).alloc = b.alloc
         /\ Compacted(b).end - Compacted(b).offset = b.end - b.offset
  <1> DEFINE m == [i \in 0..(b.alloc - 1) |->
                     IF i < b.end - b.offset THEN b.mem[i + b.offset] ELSE b.mem[i]]
             c == [b EXCEPT !.mem = m, !.end = @ - b.offset, !.offset = 0]
  <1>1. b.alloc \in Nat /\ b.offset \in Nat /\ b.end \in Nat /\ b.mem \in [0..(b.alloc - 1) -> Nat]
    BY DEF Region, Sound, Mem
  <1>2. m \in [0..(b.alloc - 1) -> Nat]
    <2>1. ASSUME NEW i \in 0..(b.alloc - 1), i < b.end - b.offset
          PROVE  i + b.offset \in 0..(b.alloc - 1)
      BY <1>1, <2>1 DEF Sound
    <2> QED
      BY <1>1, <2>1
  <1>3. 0..(b.alloc - 1) \in SUBSET Nat
    BY <1>1
  <1>4. m \in Mem /\ DOMAIN m = 0..(b.alloc - 1)
    BY <1>2, <1>3 DEF Mem
  <1> HIDE DEF m
  <1>5. b.end - b.offset \in Nat
    BY <1>1 DEF Sound
  <1>6. /\ c \in Region /\ c.alloc = b.alloc /\ c.offset = 0 /\ c.end = b.end - b.offset
        /\ c.mem = m
    BY <1>4, <1>5 DEF Region
  <1>7. Sound(c) /\ c.end - c.offset = b.end - b.offset
    BY <1>1, <1>4, <1>6 DEF Sound
  <1>8. Compacted(b) = c \/ Compacted(b) = b
    BY DEF Compacted, m
  <1> HIDE DEF c
  <1> QED
    BY <1>6, <1>7, <1>8

(* Growing makes room for the bytes that did not fit.                      *)
LEMMA GrownSound ==
  ASSUME NEW b \in Region, Sound(b), NEW n \in Nat
  PROVE  Grown(b, n) \in Region /\ Sound(Grown(b, n)) /\ Fits(Grown(b, n), n)
         /\ Grown(b, n).end - Grown(b, n).offset = b.end - b.offset
  <1> DEFINE len == IF b.alloc + n < Slack THEN (b.alloc + n) * 2 ELSE b.alloc + n + Slack
             m == [i \in 0..(len - 1) |-> IF i < b.alloc THEN b.mem[i] ELSE 0]
             g == [b EXCEPT !.alloc = len, !.mem = m]
  <1>1. b.alloc \in Nat /\ b.offset \in Nat /\ b.end \in Nat /\ b.mem \in [0..(b.alloc - 1) -> Nat]
    BY DEF Region, Sound, Mem
  <1>2. len \in Nat /\ len >= b.alloc + n
    BY <1>1, BufferAssumption
  <1> HIDE DEF len
  <1>3. m \in [0..(len - 1) -> Nat] /\ 0..(len - 1) \in SUBSET Nat
    BY <1>1, <1>2
  <1>4. m \in Mem /\ DOMAIN m = 0..(len - 1)
    BY <1>3 DEF Mem
  <1> HIDE DEF m
  <1>5. /\ g \in Region /\ g.alloc = len /\ g.offset = b.offset /\ g.end = b.end
        /\ g.mem = m
    BY <1>2, <1>4 DEF Region
  <1>6. Sound(g) /\ Fits(g, n) /\ g.end - g.offset = b.end - b.offset
    BY <1>1, <1>2, <1>4, <1>5 DEF Sound, Fits
  <1>7. Grown(b, n) = g
    BY DEF Grown, len, m
  <1> HIDE DEF g
  <1> QED
    BY <1>5, <1>6, <1>7

(* buffer_append_space returns a place for n bytes, and keeps the data.    *)
LEMMA WithRoomSound ==
  ASSUME NEW b \in Region, Sound(b), NEW n \in Nat
  PROVE  WithRoom(b, n) \in Region /\ Sound(WithRoom(b, n)) /\ Fits(WithRoom(b, n), n)
         /\ WithRoom(b, n).end - WithRoom(b, n).offset = b.end - b.offset
  <1>1. /\ Compacted(b) \in Region /\ Sound(Compacted(b))
        /\ Compacted(b).end - Compacted(b).offset = b.end - b.offset
    BY CompactedSound
  <1>2. /\ Grown(Compacted(b), n) \in Region /\ Sound(Grown(Compacted(b), n))
        /\ Fits(Grown(Compacted(b), n), n)
        /\ Grown(Compacted(b), n).end - Grown(Compacted(b), n).offset = b.end - b.offset
    BY <1>1, GrownSound
  <1> QED
    BY <1>1, <1>2 DEF WithRoom

(* What is stored there lies in the memory.                                *)
LEMMA AppendedSound ==
  ASSUME buf \in Region, Sound(buf), put \in Nat, NEW n \in Nat
  PROVE  Appended(n) \in Region /\ Sound(Appended(n))
  <1> DEFINE b == WithRoom(Rewound(buf), n)
             m == [i \in DOMAIN b.mem |-> IF i \in b.end..(b.end + n - 1)
                                          THEN put + 1 + i - b.end ELSE b.mem[i]]
             a == [b EXCEPT !.mem = m, !.end = @ + n]
  <1>1. b \in Region /\ Sound(b) /\ Fits(b, n)
    BY RewoundSound, WithRoomSound
  <1> HIDE DEF b
  <1>2. b.alloc \in Nat /\ b.offset \in Nat /\ b.end \in Nat /\ b.mem \in [0..(b.alloc - 1) -> Nat]
    BY <1>1 DEF Region, Sound, Mem
  <1>3. m \in [0..(b.alloc - 1) -> Nat] /\ 0..(b.alloc - 1) \in SUBSET Nat
    BY <1>2
  <1>4. m \in Mem /\ DOMAIN m = 0..(b.alloc - 1)
    BY <1>3 DEF Mem
  <1> HIDE DEF m
  <1>5. /\ a \in Region /\ a.alloc = b.alloc /\ a.offset = b.offset /\ a.end = b.end + n
        /\ a.mem = m
    <2>1. b.end + n \in Nat
      BY <1>2
    <2>2. a = [b EXCEPT !.mem = m, !.end = b.end + n]
      BY <1>1 DEF Region
    <2> QED
      BY <1>1, <1>4, <2>1, <2>2 DEF Region
  <1>6. Sound(a)
    BY <1>1, <1>2, <1>4, <1>5 DEF Sound, Fits
  <1>7. Appended(n) = a
    BY DEF Appended, b, m
  <1> HIDE DEF a
  <1> QED
    BY <1>5, <1>6, <1>7

(* What is taken from the front or dropped from the back was there.        *)
LEMMA TakenSound ==
  ASSUME buf \in Region, Sound(buf), NEW n \in Nat, n <= Held
  PROVE  /\ [buf EXCEPT !.offset = @ + n] \in Region /\ Sound([buf EXCEPT !.offset = @ + n])
         /\ [buf EXCEPT !.end = @ - n] \in Region /\ Sound([buf EXCEPT !.end = @ - n])
  BY DEF Region, Sound, Held
-----------------------------------------------------------------------------
(* Initially there is no memory.                                           *)
LEMMA InitIInv == ASSUME Init PROVE IInv
  <1>1. <<>> \in [{} -> Nat]
    OBVIOUS
  <1>2. <<>> \in Mem
    BY <1>1 DEF Mem
  <1> QED
    BY <1>2 DEF Init, IInv, RegionInv, Counts, Region

(* buffer_get_bits takes as many bytes as the bits it lacks need.          *)
LEMMA NeededEnough ==
  ASSUME ncached \in Nat, NEW n \in Nat
  PROVE  Needed(n) \in Nat /\ ncached + Needed(n) * ByteBits - n \in Nat
  <1>1. CASE n <= ncached
    BY <1>1, BufferAssumption DEF Needed
  <1>2. CASE n > ncached
    <2> DEFINE x == n - ncached
               q == (x + ByteBits - 1) \div ByteBits
    <2>1. x \in Nat /\ ByteBits \in Nat /\ ByteBits > 0
      BY <1>2, BufferAssumption
    <2> HIDE DEF x
    <2>2. q \in Nat
      BY <2>1
    <2>3. q * ByteBits >= x
      BY <2>1
    <2>4. Needed(n) = q
      BY <1>2, BufferAssumption DEF Needed, x
    <2>5. q * ByteBits \in Nat
      BY <2>1, <2>2
    <2> HIDE DEF q
    <2> QED
      BY <2>2, <2>3, <2>4, <2>5 DEF x
  <1> QED
    BY <1>1, <1>2

(* Every call keeps the counts.                                            *)
LEMMA CountsStep == ASSUME Counts, [Next]_vars PROVE Counts'
  <1> USE BufferAssumption DEF Counts, bits, FileKeeps
  <1>1. CASE UNCHANGED <<ncached, put>>
    BY <1>1
  <1>2. ASSUME NEW n \in Sizes, Store(n) PROVE Counts'
    BY <1>2 DEF Store
  <1>3. ASSUME NEW min \in Sizes, CheckLoad(min, BufSize) PROVE Counts'
    <2>1. put' = put \/ \E read \in 0..rest : put' = put + read
      BY <1>3 DEF CheckLoad
    <2> QED
      BY <1>3, <2>1 DEF CheckLoad
  <1>4. ASSUME NEW n \in 0..MaxBits, GetBits(n) PROVE Counts'
    <2>1. n \in Nat
      OBVIOUS
    <2>2. ncached' = ncached + Needed(n) * ByteBits - n /\ put' = put
      BY <1>4 DEF GetBits
    <2> QED
      BY <2>1, <2>2, NeededEnough
  <1>5. CASE Clear \/ \E len \in InitLens : BufferInit(len)
    BY <1>5 DEF Clear, BufferInit
  <1> QED
    BY <1>1, <1>2, <1>3, <1>4, <1>5 DEF Next, vars, Free, CheckAlloc, Get, ConsumeEnd

(* Every call keeps the region sound.                                      *)
LEMMA RegionStep == ASSUME IInv, [Next]_vars PROVE RegionInv'
  <1> USE BufferAssumption DEF IInv, RegionInv, Counts
  <1>1. CASE UNCHANGED vars
    BY <1>1 DEF vars, Sound
  <1>2. ASSUME NEW len \in InitLens, BufferInit(len) PROVE RegionInv'
    <2> DEFINE alloc == IF len = 0 THEN AllocSz ELSE len
               m == [i \in 0..(alloc - 1) |-> 0]
    <2>1. alloc \in Nat
      OBVIOUS
    <2> HIDE DEF alloc
    <2>2. 0..(alloc - 1) \in SUBSET Nat
      BY <2>1
    <2>3. m \in Mem /\ DOMAIN m = 0..(alloc - 1)
      <3>1. m \in [0..(alloc - 1) -> Nat]
        OBVIOUS
      <3> HIDE DEF m
      <3> QED
        BY <2>2, <3>1 DEF Mem
    <2> HIDE DEF m
    <2>4. buf' = [alloc |-> alloc, offset |-> 0, end |-> 0, mem |-> m] /\ put' = put
      BY <1>2 DEF BufferInit, alloc, m
    <2> QED
      BY <2>1, <2>3, <2>4 DEF Region, Sound
  <1>3. CASE Clear
    <2>1. buf' = [buf EXCEPT !.offset = 0, !.end = 0] /\ put' = put /\ Sound(buf)
      BY <1>3 DEF Clear
    <2>2. buf' \in Region
      BY <2>1 DEF Region
    <2>3. /\ buf'.alloc = buf.alloc /\ buf'.offset = 0 /\ buf'.end = 0 /\ buf'.mem = buf.mem
          /\ buf.alloc \in Nat
      BY <2>1 DEF Region
    <2>4. Sound(buf')
      BY <2>1, <2>3 DEF Sound
    <2> QED
      BY <2>1, <2>2, <2>4
  <1>4. CASE Free
    <2>1. <<>> \in [{} -> Nat]
      OBVIOUS
    <2>2. <<>> \in Mem
      BY <2>1 DEF Mem
    <2>3. buf' = [buf EXCEPT !.alloc = 0, !.mem = <<>>] /\ put' = put
      BY <1>4 DEF Free
    <2>4. buf' \in Region /\ buf'.alloc = 0
      BY <2>2, <2>3 DEF Region
    <2> QED
      BY <2>3, <2>4
  <1>5. ASSUME NEW n \in Sizes, Store(n) PROVE RegionInv'
    <2>1. Sound(buf) /\ n \in Nat
      BY <1>5 DEF Store
    <2> QED
      BY <1>5, <2>1, AppendedSound DEF Store
  <1>6. ASSUME NEW n \in Sizes, CheckAlloc(n) PROVE RegionInv'
    <2>1. Sound(buf)
      BY <1>6 DEF CheckAlloc
    <2>2. Rewound(buf) \in Region /\ Sound(Rewound(buf))
      BY <2>1, RewoundSound
    <2>3. Compacted(Rewound(buf)) \in Region /\ Sound(Compacted(Rewound(buf)))
      BY <2>2, CompactedSound
    <2> QED
      BY <1>6, <2>2, <2>3 DEF CheckAlloc
  <1>7. ASSUME NEW n \in Sizes, Get(n) \/ ConsumeEnd(n) PROVE RegionInv'
    <2>1. Sound(buf) /\ n \in Nat /\ put' = put
      BY <1>7 DEF Get, ConsumeEnd
    <2>2. \/ buf' = buf
          \/ n <= Held /\ buf' = [buf EXCEPT !.offset = @ + n]
          \/ n <= Held /\ buf' = [buf EXCEPT !.end = @ - n]
      BY <1>7 DEF Get, ConsumeEnd
    <2> QED
      BY <2>1, <2>2, TakenSound
  <1>8. ASSUME NEW min \in Sizes, CheckLoad(min, BufSize) PROVE RegionInv'
    <2>1. Sound(buf)
      BY <1>8 DEF CheckLoad
    <2>2. CASE UNCHANGED <<buf, put>>
      BY <2>1, <2>2
    <2>3. CASE \E read \in Nat : put' = put + read /\ buf' = Appended(read)
      BY <2>1, <2>3, AppendedSound
    <2>4. \/ UNCHANGED <<buf, put>>
          \/ \E read \in Nat : put' = put + read /\ buf' = Appended(read)
      <3>1. CASE min <= Held
        BY <1>8, <3>1 DEF CheckLoad
      <3>2. CASE ~(min <= Held)
        <4>1. PICK read \in 0..rest : put' = put + read /\ buf' = IF read = 0 THEN buf ELSE Appended(read)
          BY <1>8, <3>2 DEF CheckLoad
        <4> QED
          BY <4>1
      <3> QED
        BY <3>1, <3>2
    <2> QED
      BY <2>2, <2>3, <2>4
  <1>9. ASSUME NEW n \in 0..MaxBits, GetBits(n) PROVE RegionInv'
    <2>1. Sound(buf) /\ Needed(n) <= Held
      BY <1>9 DEF GetBits
    <2>2. buf' = [buf EXCEPT !.offset = @ + Needed(n)]
      BY <1>9 DEF GetBits
    <2>3. Needed(n) \in Nat
      BY NeededEnough
    <2> QED
      BY <2>1, <2>2, <2>3, TakenSound
  <1> QED
    BY <1>1, <1>2, <1>3, <1>4, <1>5, <1>6, <1>7, <1>8, <1>9 DEF Next

(* The strengthening is an invariant.                                      *)
THEOREM Inductive == Spec => []IInv
  <1>1. ASSUME IInv, [Next]_vars PROVE IInv'
    BY <1>1, RegionStep, CountsStep DEF IInv
  <1> QED
    BY InitIInv, <1>1, PTL DEF Spec

(* No sequence of appends, reads, drops and refills makes buffer_append    *)
(* write, or a reader read, outside the memory that is allocated.          *)
THEOREM AlwaysInBounds == Spec => []InBounds
  <1>1. IInv => InBounds
    BY DEF IInv, RegionInv, Sound, InBounds
  <1> QED
    BY <1>1, Inductive, PTL

-----------------------------------------------------------------------------
(* The refinement.                                                         *)

(* What a region holds; Data is what buf holds.                            *)
Contents(b) == [i \in 1..(b.end - b.offset) |-> b.mem[b.offset + i - 1]]

(* Only what was stored is ever held.                                      *)
Written == buf.alloc > 0 => \A i \in 1..Held : Data[i] \in 1..put

(* The cache holds a word of which less than a byte is kept.               *)
CacheInv == cache \in [1..WordBits -> Nat] /\ ncached < ByteBits

FlagsInv == rest \in Nat /\ failed \in BOOLEAN /\ ok \in BOOLEAN

FifoInv == IInv /\ Written /\ CacheInv /\ FlagsInv
-----------------------------------------------------------------------------
(* A function on 1..n is a sequence.                                       *)
LEMMA SeqOfFunction ==
  ASSUME NEW S, NEW n \in Nat, NEW s \in [1..n -> S]
  PROVE  s \in Seq(S) /\ Len(s) = n /\ DOMAIN s = 1..n
  OBVIOUS

(* A sequence is a function on 1..n.                                       *)
LEMMA FunctionOfSeq ==
  ASSUME NEW S, NEW s \in Seq(S)
  PROVE  Len(s) \in Nat /\ s \in [1..Len(s) -> S] /\ DOMAIN s = 1..Len(s)
  OBVIOUS

(* Sequences of the same length and elements are the same.                 *)
LEMMA SameSeq ==
  ASSUME NEW S, NEW T, NEW n \in Nat, NEW s \in [1..n -> S], NEW t \in [1..n -> T],
         \A i \in 1..n : s[i] = t[i]
  PROVE  s = t
  OBVIOUS

(* What SubSeq and \o return, as functions.                                *)
LEMMA SubSeqShape ==
  ASSUME NEW S, NEW s \in Seq(S), NEW m \in Nat \ {0}, NEW n \in Nat, n <= Len(s), m <= n + 1
  PROVE  /\ SubSeq(s, m, n) \in Seq(S) /\ Len(SubSeq(s, m, n)) = n - m + 1
         /\ \A i \in 1..(n - m + 1) : SubSeq(s, m, n)[i] = s[m + i - 1]
  OBVIOUS

(* What s \o t returns, element by element.                                *)
LEMMA ConcatShape ==
  ASSUME NEW S, NEW s \in Seq(S), NEW t \in Seq(S)
  PROVE  /\ s \o t \in Seq(S) /\ Len(s \o t) = Len(s) + Len(t)
         /\ \A i \in 1..(Len(s) + Len(t)) :
              (s \o t)[i] = IF i <= Len(s) THEN s[i] ELSE t[i - Len(s)]
  OBVIOUS

(* The contents of a sound region are a sequence.                          *)
LEMMA ContentsShape ==
  ASSUME NEW b \in Region, Sound(b)
  PROVE  /\ b.end - b.offset \in Nat
         /\ Contents(b) \in [1..(b.end - b.offset) -> Nat]
         /\ \A i \in 1..(b.end - b.offset) :
              /\ b.offset + i - 1 \in 0..(b.alloc - 1)
              /\ Contents(b)[i] = b.mem[b.offset + i - 1]
  <1>1. b.alloc \in Nat /\ b.offset \in Nat /\ b.end \in Nat /\ b.mem \in [0..(b.alloc - 1) -> Nat]
    BY DEF Region, Sound, Mem
  <1>2. \A i \in 1..(b.end - b.offset) :
          b.offset + i - 1 \in 0..(b.alloc - 1) /\ b.mem[b.offset + i - 1] \in Nat
    BY <1>1 DEF Sound
  <1> QED
    BY <1>1, <1>2 DEF Contents, Sound

(* Regions hold the same if their cells from offset on are the same.       *)
LEMMA SameContents ==
  ASSUME NEW b \in Region, Sound(b), NEW c \in Region, Sound(c),
         c.end - c.offset = b.end - b.offset,
         \A i \in 1..(b.end - b.offset) : c.mem[c.offset + i - 1] = b.mem[b.offset + i - 1]
  PROVE  Contents(c) = Contents(b)
  BY DEF Contents

(* Using an empty region from its beginning keeps what it holds: nothing.  *)
LEMMA RewoundKeeps ==
  ASSUME NEW b \in Region, Sound(b)
  PROVE  Contents(Rewound(b)) = Contents(b)
  <1>1. CASE b.offset = b.end
    <2>1. Rewound(b).end - Rewound(b).offset = b.end - b.offset /\ Rewound(b) \in Region /\ Sound(Rewound(b))
      BY RewoundSound
    <2>2. 1..(b.end - b.offset) = {}
      BY <1>1 DEF Region
    <2> QED
      BY <2>1, <2>2, SameContents
  <1>2. CASE b.offset # b.end
    BY <1>2 DEF Rewound
  <1> QED
    BY <1>1, <1>2

(* Compacting moves what the region holds.                                 *)
LEMMA CompactedKeeps ==
  ASSUME NEW b \in Region, Sound(b)
  PROVE  Contents(Compacted(b)) = Contents(b)
  <1> DEFINE m == [i \in 0..(b.alloc - 1) |->
                     IF i < b.end - b.offset THEN b.mem[i + b.offset] ELSE b.mem[i]]
  <1>1. b.alloc \in Nat /\ b.offset \in Nat /\ b.end \in Nat /\ b.offset <= b.end /\ b.end <= b.alloc
    BY DEF Region, Sound
  <1>2. CASE Compacted(b) # b
    <2>1. Compacted(b) = [b EXCEPT !.mem = m, !.end = @ - b.offset, !.offset = 0]
      BY <1>2 DEF Compacted
    <2>2. Compacted(b).offset = 0 /\ Compacted(b).mem = m
      BY <2>1 DEF Region
    <2>3. \A i \in 1..(b.end - b.offset) : m[0 + i - 1] = b.mem[b.offset + i - 1]
      <3> TAKE i \in 1..(b.end - b.offset)
      <3>1. i - 1 \in 0..(b.alloc - 1) /\ i - 1 < b.end - b.offset /\ (i - 1) + b.offset = b.offset + i - 1
            /\ 0 + i - 1 = i - 1
        BY <1>1
      <3>2. m[i - 1] = b.mem[(i - 1) + b.offset]
        BY <3>1
      <3> QED
        BY <3>1, <3>2
    <2>4. /\ Compacted(b) \in Region /\ Sound(Compacted(b))
          /\ Compacted(b).end - Compacted(b).offset = b.end - b.offset
      BY CompactedSound
    <2>5. \A i \in 1..(b.end - b.offset) :
            Compacted(b).mem[Compacted(b).offset + i - 1] = b.mem[b.offset + i - 1]
      BY <2>2, <2>3
    <2> QED
      BY <2>4, <2>5, SameContents
  <1> QED
    BY <1>2

(* Growing keeps the cells there were.                                     *)
LEMMA GrownKeeps ==
  ASSUME NEW b \in Region, Sound(b), NEW n \in Nat
  PROVE  Contents(Grown(b, n)) = Contents(b)
  <1> DEFINE len == IF b.alloc + n < Slack THEN (b.alloc + n) * 2 ELSE b.alloc + n + Slack
             m == [i \in 0..(len - 1) |-> IF i < b.alloc THEN b.mem[i] ELSE 0]
  <1>1. b.alloc \in Nat /\ b.offset \in Nat /\ b.end \in Nat
    BY DEF Region
  <1>2. len \in Nat /\ len >= b.alloc + n
    BY <1>1, BufferAssumption
  <1>3. Grown(b, n) = [b EXCEPT !.alloc = len, !.mem = m]
    BY DEF Grown
  <1>4. Grown(b, n).offset = b.offset /\ Grown(b, n).mem = m
    BY <1>3 DEF Region
  <1> HIDE DEF len
  <1>5. \A i \in 0..(b.alloc - 1) : m[i] = b.mem[i]
    BY <1>1, <1>2
  <1>6. \A i \in 1..(b.end - b.offset) : m[b.offset + i - 1] = b.mem[b.offset + i - 1]
    BY <1>5, ContentsShape
  <1>7. \A i \in 1..(b.end - b.offset) :
          Grown(b, n).mem[Grown(b, n).offset + i - 1] = b.mem[b.offset + i - 1]
    BY <1>4, <1>6
  <1>8. /\ Grown(b, n) \in Region /\ Sound(Grown(b, n))
        /\ Grown(b, n).end - Grown(b, n).offset = b.end - b.offset
    BY GrownSound
  <1> HIDE DEF m
  <1> QED
    BY <1>7, <1>8, SameContents

(* Making room keeps what there is.                                        *)
LEMMA WithRoomKeeps ==
  ASSUME NEW b \in Region, Sound(b), NEW n \in Nat
  PROVE  Contents(WithRoom(b, n)) = Contents(b)
  <1>1. Compacted(b) \in Region /\ Sound(Compacted(b))
    BY CompactedSound
  <1>2. Contents(Grown(Compacted(b), n)) = Contents(Compacted(b))
    BY <1>1, GrownKeeps
  <1>3. Contents(Compacted(b)) = Contents(b)
    BY CompactedKeeps
  <1> QED
    BY <1>2, <1>3 DEF WithRoom

(* Storing puts n bytes with the next numbers behind what there is.        *)
LEMMA AppendedContents ==
  ASSUME buf \in Region, Sound(buf), put \in Nat, NEW n \in Nat
  PROVE  Contents(Appended(n)) = Data \o Fifo!Fresh(n)
  <1> DEFINE b == WithRoom(Rewound(buf), n)
             m == [i \in DOMAIN b.mem |-> IF i \in b.end..(b.end + n - 1)
                                          THEN put + 1 + i - b.end ELSE b.mem[i]]
             a == [b EXCEPT !.mem = m, !.end = @ + n]
  <1>1. b \in Region /\ Sound(b) /\ Fits(b, n) /\ Contents(b) = Data
    <2>1. Rewound(buf) \in Region /\ Sound(Rewound(buf)) /\ Contents(Rewound(buf)) = Contents(buf)
      BY RewoundSound, RewoundKeeps
    <2>2. Contents(buf) = Data
      BY DEF Contents, Data, Held
    <2> QED
      BY <2>1, <2>2, WithRoomSound, WithRoomKeeps
  <1>2. Appended(n) = a
    BY DEF Appended
  <1> HIDE DEF b
  <1>3. /\ b.alloc \in Nat /\ b.offset \in Nat /\ b.end \in Nat /\ b.offset <= b.end
        /\ b.end + n <= b.alloc /\ DOMAIN b.mem = 0..(b.alloc - 1)
    BY <1>1 DEF Region, Sound, Fits
  <1>4. a.offset = b.offset /\ a.end = b.end + n /\ a.mem = m
    BY <1>1 DEF Region
  <1> DEFINE h == b.end - b.offset
  <1>5. h \in Nat /\ a.end - a.offset = h + n
    BY <1>3, <1>4
  <1>6. \A j \in 0..(b.alloc - 1) :
          m[j] = IF j \in b.end..(b.end + n - 1) THEN put + 1 + j - b.end ELSE b.mem[j]
    BY <1>3
  <1> HIDE DEF a, m
  <1>7. ASSUME NEW i \in 1..(h + n)
        PROVE  m[b.offset + i - 1] = IF i <= h THEN Data[i] ELSE put + (i - h)
    <2>1. b.offset + i - 1 \in 0..(b.alloc - 1)
      <3>1. PICK o \in Nat, e \in Nat, l \in Nat :
              o = b.offset /\ e = b.end /\ l = b.alloc /\ o <= e /\ e + n <= l
        BY <1>3
      <3>2. o + i - 1 \in 0..(l - 1)
        BY <3>1
      <3> QED
        BY <3>1, <3>2
    <2>2. CASE i <= h
      <3>1. b.offset + i - 1 \notin b.end..(b.end + n - 1) /\ i \in 1..(b.end - b.offset)
        BY <1>3, <2>2
      <3>2. Data[i] = b.mem[b.offset + i - 1]
        BY <1>1, <3>1, ContentsShape
      <3>3. m[b.offset + i - 1] = b.mem[b.offset + i - 1]
        BY <1>6, <2>1, <3>1
      <3> QED
        BY <2>2, <3>2, <3>3
    <2>3. CASE ~(i <= h)
      <3>1. b.offset + i - 1 \in b.end..(b.end + n - 1)
        <4>1. PICK o \in Nat, e \in Nat : o = b.offset /\ e = b.end /\ o <= e
          BY <1>3
        <4>2. o + i - 1 \in e..(e + n - 1)
          BY <2>3, <4>1
        <4> QED
          BY <4>1, <4>2
      <3>2. put + 1 + (b.offset + i - 1) - b.end = put + (i - h)
        <4>1. \A p, o, e \in Nat : \A j \in Int : p + 1 + (o + j - 1) - e = p + (j - (e - o))
          OBVIOUS
        <4>2. put \in Nat /\ i \in Int
          BY <1>5
        <4>3. PICK p, o, e \in Nat : p = put /\ o = b.offset /\ e = b.end
          BY <1>3, <4>2
        <4>4. h = e - o
          BY <4>3
        <4>5. p + 1 + (o + i - 1) - e = p + (i - (e - o))
          BY <4>1, <4>2
        <4> QED
          BY <4>3, <4>4, <4>5
      <3> QED
        BY <1>6, <2>1, <2>3, <3>1, <3>2
    <2> QED
      BY <2>2, <2>3
  <1>8. Data \in [1..h -> Nat] /\ Fifo!Fresh(n) \in [1..n -> Nat]
        /\ \A i \in 1..n : Fifo!Fresh(n)[i] = put + i
    BY <1>1, ContentsShape DEF Fifo!Fresh
  <1>9. Contents(a) = [i \in 1..(h + n) |-> m[b.offset + i - 1]]
    BY <1>4, <1>5 DEF Contents
  <1> HIDE DEF h
  <1>10. /\ Data \o Fifo!Fresh(n) \in [1..(h + n) -> Nat]
         /\ \A i \in 1..(h + n) : (Data \o Fifo!Fresh(n))[i] = IF i <= h THEN Data[i] ELSE put + (i - h)
    <2>1. Data \in Seq(Nat) /\ Fifo!Fresh(n) \in Seq(Nat) /\ Len(Data) = h /\ Len(Fifo!Fresh(n)) = n
      BY <1>5, <1>8, SeqOfFunction
    <2>2. Data \o Fifo!Fresh(n) \in Seq(Nat) /\ Len(Data \o Fifo!Fresh(n)) = h + n
      BY <2>1, ConcatShape
    <2>3. \A i \in 1..(h + n) :
            (Data \o Fifo!Fresh(n))[i] = IF i <= h THEN Data[i] ELSE Fifo!Fresh(n)[i - h]
      <3>1. \A i \in 1..(Len(Data) + Len(Fifo!Fresh(n))) :
              (Data \o Fifo!Fresh(n))[i] = IF i <= Len(Data) THEN Data[i]
                                           ELSE Fifo!Fresh(n)[i - Len(Data)]
        BY <2>1, ConcatShape
      <3> QED
        BY <2>1, <3>1
    <2>4. \A i \in 1..(h + n) : i > h => i - h \in 1..n
      BY <1>5
    <2>5. Data \o Fifo!Fresh(n) \in [1..(h + n) -> Nat]
      BY <2>2, FunctionOfSeq
    <2>6. ASSUME NEW i \in 1..(h + n)
          PROVE  (Data \o Fifo!Fresh(n))[i] = IF i <= h THEN Data[i] ELSE put + (i - h)
      <3>1. CASE i <= h
        BY <2>3, <3>1
      <3>2. CASE ~(i <= h)
        <4>1. i - h \in 1..n
          BY <1>5, <2>4, <3>2
        <4> QED
          BY <1>8, <2>3, <3>2, <4>1
      <3> QED
        BY <3>1, <3>2
    <2> QED
      BY <2>5, <2>6
  <1> QED
    BY <1>2, <1>7, <1>9, <1>10

(* Taking from the front and dropping from the back leave the rest.        *)
LEMMA TakenContents ==
  ASSUME buf \in Region, Sound(buf), NEW n \in Nat, n <= Held
  PROVE  /\ Contents([buf EXCEPT !.offset = @ + n]) = SubSeq(Data, n + 1, Held)
         /\ Contents([buf EXCEPT !.end = @ - n]) = SubSeq(Data, 1, Held - n)
  <1> DEFINE f == [buf EXCEPT !.offset = @ + n]
             e == [buf EXCEPT !.end = @ - n]
  <1>1. /\ Held \in Nat /\ Data \in [1..Held -> Nat]
        /\ \A i \in 1..Held : Data[i] = buf.mem[buf.offset + i - 1]
    BY ContentsShape DEF Contents, Data, Held
  <1>2. Data \in Seq(Nat) /\ Len(Data) = Held
    BY <1>1, SeqOfFunction
  <1>3. f \in Region /\ Sound(f) /\ e \in Region /\ Sound(e)
    BY TakenSound
  <1>4. /\ f.offset = buf.offset + n /\ f.end = buf.end /\ f.mem = buf.mem
        /\ e.offset = buf.offset /\ e.end = buf.end - n /\ e.mem = buf.mem
        /\ buf.offset \in Nat /\ buf.end \in Nat
    BY DEF Region
  <1> HIDE DEF f, e
  <1>5. f.end - f.offset = Held - n /\ e.end - e.offset = Held - n /\ Held - n \in Nat
    BY <1>1, <1>4 DEF Held
  <1>6. Contents(f) = SubSeq(Data, n + 1, Held)
    <2>1. /\ SubSeq(Data, n + 1, Held) \in Seq(Nat) /\ Len(SubSeq(Data, n + 1, Held)) = Held - n
          /\ \A i \in 1..(Held - n) : SubSeq(Data, n + 1, Held)[i] = Data[n + i]
      <3>1. PICK h \in Nat : h = Held
        BY <1>1
      <3>2. /\ SubSeq(Data, n + 1, h) \in Seq(Nat) /\ Len(SubSeq(Data, n + 1, h)) = h - (n + 1) + 1
            /\ \A i \in 1..(h - (n + 1) + 1) : SubSeq(Data, n + 1, h)[i] = Data[(n + 1) + i - 1]
        <4>1. n + 1 \in Nat \ {0} /\ h <= Len(Data) /\ n + 1 <= h + 1
          BY <1>2, <3>1
        <4> QED
          BY <1>2, <4>1, SubSeqShape
      <3>3. h - (n + 1) + 1 = h - n /\ \A i \in Int : (n + 1) + i - 1 = n + i
        OBVIOUS
      <3>4. \A i \in 1..(h - n) : SubSeq(Data, n + 1, h)[i] = Data[n + i]
        BY <3>2, <3>3
      <3> QED
        BY <3>1, <3>2, <3>3, <3>4
    <2>2. SubSeq(Data, n + 1, Held) \in [1..(Held - n) -> Nat]
      BY <2>1, FunctionOfSeq
    <2>3. ASSUME NEW i \in 1..(Held - n)
          PROVE  f.mem[f.offset + i - 1] = SubSeq(Data, n + 1, Held)[i]
      <3>1. n + i \in 1..Held /\ f.offset + i - 1 = buf.offset + (n + i) - 1
        BY <1>1, <1>4
      <3>2. Data[n + i] = buf.mem[buf.offset + (n + i) - 1]
        BY <1>1, <3>1
      <3> QED
        BY <1>4, <2>1, <3>1, <3>2
    <2>4. Contents(f) = [i \in 1..(Held - n) |-> f.mem[f.offset + i - 1]]
      BY <1>5 DEF Contents
    <2> QED
      BY <2>2, <2>3, <2>4
  <1>7. Contents(e) = SubSeq(Data, 1, Held - n)
    <2>1. /\ SubSeq(Data, 1, Held - n) \in Seq(Nat) /\ Len(SubSeq(Data, 1, Held - n)) = Held - n
          /\ \A i \in 1..(Held - n) : SubSeq(Data, 1, Held - n)[i] = Data[i]
      BY <1>1, <1>2, <1>5
    <2>2. SubSeq(Data, 1, Held - n) \in [1..(Held - n) -> Nat]
      BY <2>1, FunctionOfSeq
    <2>3. ASSUME NEW i \in 1..(Held - n)
          PROVE  e.mem[e.offset + i - 1] = SubSeq(Data, 1, Held - n)[i]
      <3>1. i \in 1..Held
        BY <1>1
      <3> QED
        BY <1>1, <1>4, <2>1, <3>1
    <2>4. Contents(e) = [i \in 1..(Held - n) |-> e.mem[e.offset + i - 1]]
      BY <1>5 DEF Contents
    <2> QED
      BY <2>2, <2>3, <2>4
  <1> QED
    BY <1>6, <1>7 DEF f, e
-----------------------------------------------------------------------------
(* What the queue and the bits ahead are.                                  *)
Bytes == IF buf.alloc = 0 THEN <<>> ELSE Data
Ahead == IF buf.alloc = 0 THEN <<>> ELSE SubSeq(cache, WordBits - ncached + 1, WordBits)

(* The region after a step holds Data'.                                    *)
LEMMA DataNext == Data' = Contents(buf')
  BY DEF Data, Contents, Held

(* The queue of a buffer that has memory.                                  *)
LEMMA BytesShape ==
  ASSUME FifoInv, buf.alloc > 0
  PROVE  /\ buf \in Region /\ Sound(buf) /\ Bytes = Data /\ Held \in Nat
         /\ Data \in Seq(Nat) /\ Len(Data) = Held
         /\ Data \in [1..Held -> Nat] /\ \A i \in 1..Held : Data[i] \in Nat \ {0}
  <1>1. buf \in Region /\ Sound(buf) /\ Bytes = Data
    BY DEF FifoInv, IInv, RegionInv, Bytes
  <1>2. Held \in Nat /\ Data \in [1..Held -> Nat]
    BY <1>1, ContentsShape DEF Contents, Data, Held
  <1>3. Data \in Seq(Nat) /\ Len(Data) = Held
    BY <1>2, SeqOfFunction
  <1>4. \A i \in 1..Held : Data[i] \in Nat \ {0}
    BY DEF FifoInv, Written, IInv, Counts
  <1> QED
    BY <1>1, <1>2, <1>3, <1>4

(* A step that empties the buffer, or takes away or gives memory.          *)
LEMMA Emptied ==
  ASSUME buf'.alloc = 0 \/ (buf'.end = 0 /\ buf'.offset = 0 /\ ncached' = 0),
         cache' \in [1..WordBits -> Nat], out' = <<>>, UNCHANGED put
  PROVE  Fifo!Clear
  <1>1. CASE buf'.alloc = 0
    BY <1>1 DEF Fifo!Clear
  <1>2. CASE buf'.end = 0 /\ buf'.offset = 0 /\ ncached' = 0
    <2>1. Data' = [i \in 1..0 |-> buf'.mem[buf'.offset + i - 1]]
      BY <1>2 DEF Data, Held
    <2>2. Data' = <<>>
      BY <2>1
    <2>3. WordBits \in Nat
      BY BufferAssumption
    <2>4. SubSeq(cache', WordBits - 0 + 1, WordBits) = <<>>
      BY <2>3
    <2>5. SubSeq(cache, WordBits - ncached + 1, WordBits)' = <<>>
      BY <1>2, <2>4
    <2> QED
      BY <2>2, <2>5 DEF Fifo!Clear
  <1> QED
    BY <1>1, <1>2

(* A step that stores n bytes.                                             *)
LEMMA Puts ==
  ASSUME FifoInv, buf.alloc > 0, buf'.alloc > 0, NEW n \in Nat, n <= MaxBytes,
         Data' = Data \o Fifo!Fresh(n), put' = put + n, out' = <<>>, UNCHANGED bits
  PROVE  Fifo!Next
  <1>1. Fifo!Put(n)
    BY DEF Fifo!Put, bits
  <1>2. n \in 0..MaxBytes
    BY BufferAssumption
  <1> QED
    BY <1>1, <1>2 DEF Fifo!Next

(* A call that changes nothing but what was handed out last.               *)
LEMMA PutsNothing ==
  ASSUME FifoInv, buf.alloc > 0, buf'.alloc > 0, Data' = Data, put' = put, out' = <<>>,
         UNCHANGED bits
  PROVE  Fifo!Next
  <1>1. Data \in Seq(Nat) /\ put \in Nat
    BY BytesShape DEF FifoInv, IInv, Counts
  <1>2. Fifo!Fresh(0) = <<>>
    BY DEF Fifo!Fresh
  <1>3. Data \o Fifo!Fresh(0) = Data
    BY <1>1, <1>2
  <1> QED
    BY <1>1, <1>3, Puts, BufferAssumption
-----------------------------------------------------------------------------
(* What was stored is a sequence of bits too.                              *)
LEMMA BitsShape ==
  ASSUME NEW bytes \in Seq(Nat), \A i \in 1..Len(bytes) : bytes[i] \in Nat \ {0}
  PROVE  /\ Len(bytes) * ByteBits \in Nat
         /\ Fifo!BitsOf(bytes) \in [1..(Len(bytes) * ByteBits) -> Nat]
  <1>1. PICK l \in Nat, w \in Nat \ {0} : l = Len(bytes) /\ w = ByteBits
    BY BufferAssumption
  <1>2. l * w \in Nat
    OBVIOUS
  <1>3. ASSUME NEW i \in 1..(l * w)
        PROVE  (bytes[((i - 1) \div w) + 1] - 1) * w + ((i - 1) % w) + 1 \in Nat
    <2>1. PICK x \in Nat : x = i - 1
      BY <1>2
    <2>2. x < l * w
      BY <1>2, <2>1
    <2>3. x \div w \in Nat /\ x % w \in Nat
      OBVIOUS
    <2>4. (x \div w) * w <= x
      OBVIOUS
    <2>5. x \div w < l
      BY <2>2, <2>3, <2>4
    <2>6. (x \div w) + 1 \in 1..l
      BY <2>3, <2>5
    <2>7. PICK y \in Nat \ {0} : y = bytes[(x \div w) + 1]
      BY <1>1, <2>6
    <2>8. PICK r \in Nat : r = x % w
      BY <2>3
    <2>9. PICK y1 \in Nat : y1 = y - 1
      OBVIOUS
    <2>10. PICK z \in Nat : z = (y - 1) * w
      <3>1. y1 * w \in Nat
        OBVIOUS
      <3> QED
        BY <2>9, <3>1
    <2>11. (bytes[(x \div w) + 1] - 1) * w + (x % w) + 1 = z + r + 1
      BY <2>7, <2>10, <2>8
    <2>12. z + r + 1 \in Nat
      OBVIOUS
    <2> QED
      BY <2>1, <2>11, <2>12
  <1> QED
    BY <1>1, <1>2, <1>3 DEF Fifo!BitsOf

(* buffer_get_bits leaves less than a byte.                                *)
LEMMA NeededLeast ==
  ASSUME ncached \in Nat, ncached < ByteBits, NEW n \in Nat
  PROVE  /\ ncached + Needed(n) * ByteBits - n < ByteBits
         /\ Needed(n) = 0 \/ ncached + Needed(n) * ByteBits < n + ByteBits
         /\ ncached + Needed(n) * ByteBits < n + ByteBits
  <1>1. CASE n <= ncached
    BY <1>1, BufferAssumption DEF Needed
  <1>2. CASE n > ncached
    <2>1. PICK x \in Nat, w \in Nat \ {0}, c \in Nat : x = n - c /\ w = ByteBits /\ c = ncached
      BY <1>2, BufferAssumption
    <2>2. PICK q \in Nat : q = (x + w - 1) \div w
      OBVIOUS
    <2>3. q * w <= x + w - 1
      BY <2>2
    <2>4. Needed(n) = q
      BY <1>2, <2>1, <2>2 DEF Needed
    <2>5. PICK y \in Nat : y = q * w
      OBVIOUS
    <2> QED
      BY <2>1, <2>3, <2>4, <2>5
  <1> QED
    BY <1>1, <1>2

(* The last n of a sequence.                                               *)
LastOf(s, n) == SubSeq(s, Len(s) - n + 1, Len(s))

(* The last n elements of a sequence, one by one.                          *)
LEMMA LastShape ==
  ASSUME NEW s \in Seq(Nat), NEW n \in Nat, n <= Len(s)
  PROVE  /\ LastOf(s, n) \in [1..n -> Nat]
         /\ \A i \in 1..n : LastOf(s, n)[i] = s[Len(s) - n + i]
  <1>1. PICK l \in Nat, m \in Nat \ {0} : l = Len(s) /\ m = l - n + 1
    OBVIOUS
  <1>2. /\ SubSeq(s, m, l) \in Seq(Nat) /\ Len(SubSeq(s, m, l)) = l - m + 1
        /\ \A i \in 1..(l - m + 1) : SubSeq(s, m, l)[i] = s[m + i - 1]
    <2>1. l <= Len(s) /\ m <= l + 1
      BY <1>1
    <2> QED
      BY <2>1, SubSeqShape
  <1>3. l - m + 1 = n /\ \A i \in Int : m + i - 1 = l - n + i
    BY <1>1
  <1>4. SubSeq(s, m, l) \in [1..n -> Nat]
    BY <1>2, <1>3, FunctionOfSeq
  <1>5. \A i \in 1..n : SubSeq(s, m, l)[i] = s[l - n + i]
    BY <1>2, <1>3, SMTT(60)
  <1>6. LastOf(s, n) = SubSeq(s, m, l)
    BY <1>1 DEF LastOf
  <1> QED
    BY <1>1, <1>4, <1>5, <1>6

(* Shifting l bits into a word of w bits keeps the last w.                 *)
LEMMA Shifted ==
  ASSUME NEW w \in Nat, NEW l \in Nat, NEW c \in [1..w -> Nat], NEW b \in [1..l -> Nat]
  PROVE  /\ c \o b \in Seq(Nat) /\ Len(c \o b) = w + l
         /\ LastOf(c \o b, w) \in [1..w -> Nat]
         /\ \A i \in 1..w : LastOf(c \o b, w)[i] = (c \o b)[l + i]
         /\ \A i \in 1..(w + l) : (c \o b)[i] = IF i <= w THEN c[i] ELSE b[i - w]
  <1>1. c \in Seq(Nat) /\ b \in Seq(Nat) /\ Len(c) = w /\ Len(b) = l
    BY SeqOfFunction
  <1>2. /\ c \o b \in Seq(Nat) /\ Len(c \o b) = w + l
        /\ \A i \in 1..(w + l) : (c \o b)[i] = IF i <= w THEN c[i] ELSE b[i - w]
    BY <1>1, ConcatShape, ZenonT(60)
  <1>3. PICK all \in Seq(Nat) : all = c \o b
    BY <1>2
  <1>4. PICK e \in Nat : e = Len(all) /\ w <= e /\ \A i \in Int : e - w + i = l + i
    BY <1>2, <1>3
  <1>5. LastOf(all, w) \in [1..w -> Nat] /\ \A i \in 1..w : LastOf(all, w)[i] = all[e - w + i]
    BY <1>4, LastShape
  <1>6. ASSUME NEW i \in 1..w PROVE LastOf(all, w)[i] = all[l + i]
    <2>1. LastOf(all, w)[i] = all[e - w + i]
      BY <1>5
    <2>2. i \in Int
      OBVIOUS
    <2>3. e - w + i = l + i
      BY <1>4, <2>2
    <2> QED
      BY <2>1, <2>3
  <1> QED
    BY <1>2, <1>3, <1>5, <1>6

(* The n bits of a word before those that are left.                        *)
Shown(word, w, left, n) ==
  [i \in 1..n |-> IF w - left - n + i \in 1..w THEN word[w - left - n + i] ELSE Blank]

(* Of the nc bits that c ends with and the bits b, n are shown and the     *)
(* others are what the word then ends with.                                *)
Reads(w, c, nc, b, l, n) ==
  LET next == LastOf(c, nc) \o b
      word == LastOf(c \o b, w)
  IN  /\ Len(next) = nc + l
      /\ SubSeq(next, 1, n) = Shown(word, w, nc + l - n, n)
      /\ SubSeq(next, n + 1, nc + l) = LastOf(word, nc + l - n)

(* Nothing is lost as long as the bits have room in the word.              *)
LEMMA NextBits ==
  ASSUME NEW w \in Nat, NEW l \in Nat, NEW nc \in Nat, NEW n \in Nat,
         NEW c \in [1..w -> Nat], NEW b \in [1..l -> Nat], nc + l <= w, n <= nc + l
  PROVE  Reads(w, c, nc, b, l, n)
  <1> DEFINE all  == c \o b
             word == LastOf(all, w)
             kept == LastOf(c, nc)
             next == kept \o b
             shown == Shown(word, w, nc + l - n, n)
  <1>1. /\ word \in [1..w -> Nat]
        /\ \A i \in 1..w : word[i] = all[l + i]
        /\ \A i \in 1..(w + l) : all[i] = IF i <= w THEN c[i] ELSE b[i - w]
    BY Shifted, ZenonT(60)
  <1>2. kept \in [1..nc -> Nat] /\ \A i \in 1..nc : kept[i] = c[w - nc + i]
    <2>1. nc <= w /\ c \in Seq(Nat) /\ Len(c) = w
      BY SeqOfFunction
    <2> QED
      BY <2>1, LastShape
  <1> HIDE DEF all, word, kept
  <1>3. /\ next \in Seq(Nat) /\ Len(next) = nc + l
        /\ \A i \in 1..(nc + l) : next[i] = IF i <= nc THEN kept[i] ELSE b[i - nc]
    <2>1. kept \in Seq(Nat) /\ Len(kept) = nc /\ b \in Seq(Nat) /\ Len(b) = l
      BY <1>2, SeqOfFunction
    <2> QED
      BY <2>1, ConcatShape, ZenonT(60)
  <1> HIDE DEF next
  <1>4. ASSUME NEW i \in 1..(nc + l)
        PROVE  next[i] = word[w - (nc + l) + i] /\ w - (nc + l) + i \in 1..w
    <2>1. w - (nc + l) + i \in 1..w /\ l + (w - (nc + l) + i) = w - nc + i /\ w - nc + i \in 1..(w + l)
      OBVIOUS
    <2>2. word[w - (nc + l) + i] = all[w - nc + i]
      BY <1>1, <2>1
    <2>3. CASE i <= nc
      <3>1. i \in 1..nc /\ w - nc + i <= w
        BY <2>3
      <3>2. next[i] = c[w - nc + i]
        BY <1>2, <1>3, <2>3, <3>1
      <3> QED
        BY <1>1, <2>1, <2>2, <3>1, <3>2
    <2>4. CASE ~(i <= nc)
      <3>1. ~(w - nc + i <= w) /\ (w - nc + i) - w = i - nc
        BY <2>4
      <3> QED
        BY <1>1, <1>3, <2>1, <2>2, <2>4, <3>1
    <2> QED
      BY <2>3, <2>4
  <1>5. SubSeq(next, 1, n) = shown
    <2>1. /\ SubSeq(next, 1, n) \in Seq(Nat) /\ Len(SubSeq(next, 1, n)) = n
          /\ \A i \in 1..n : SubSeq(next, 1, n)[i] = next[i]
      BY <1>3
    <2>2. SubSeq(next, 1, n) \in [1..n -> Nat]
      BY <2>1, FunctionOfSeq
    <2>3. ASSUME NEW i \in 1..n
          PROVE  shown[i] = SubSeq(next, 1, n)[i]
      <3>1. w - (nc + l - n) - n + i = w - (nc + l) + i /\ i \in 1..(nc + l)
        OBVIOUS
      <3>2. shown[i] = word[w - (nc + l) + i]
        BY <1>4, <3>1 DEF Shown
      <3> QED
        BY <1>4, <2>1, <3>1, <3>2
    <2> HIDE DEF shown
    <2>4. DOMAIN shown = 1..n /\ shown = [i \in 1..n |-> shown[i]]
      BY DEF shown, Shown
    <2> QED
      BY <2>2, <2>3, <2>4
  <1>6. SubSeq(next, n + 1, nc + l) = LastOf(word, nc + l - n)
    <2>1. PICK m \in Nat, left \in Nat, e \in Nat :
            m = n + 1 /\ left = nc + l - n /\ e = nc + l
      OBVIOUS
    <2>2. /\ SubSeq(next, m, e) \in Seq(Nat) /\ Len(SubSeq(next, m, e)) = e - m + 1
          /\ \A i \in 1..(e - m + 1) : SubSeq(next, m, e)[i] = next[m + i - 1]
      <3>1. m \in Nat \ {0} /\ e <= Len(next) /\ m <= e + 1
        BY <1>3, <2>1
      <3> QED
        BY <1>3, <3>1, SubSeqShape
    <2>3. e - m + 1 = left /\ left <= w
      BY <2>1
    <2>4. SubSeq(next, m, e) \in [1..left -> Nat]
      BY <2>2, <2>3, FunctionOfSeq
    <2>5. /\ LastOf(word, left) \in [1..left -> Nat]
          /\ \A i \in 1..left : LastOf(word, left)[i] = word[w - left + i]
      <3>1. word \in Seq(Nat) /\ Len(word) = w
        BY <1>1, SeqOfFunction
      <3> QED
        BY <2>3, <3>1, LastShape
    <2>6. ASSUME NEW i \in 1..left
          PROVE  SubSeq(next, m, e)[i] = LastOf(word, left)[i]
      <3>1. PICK j \in 1..(nc + l) : j = m + i - 1
        BY <2>1
      <3>2. w - (nc + l) + j = w - left + i
        BY <2>1, <3>1
      <3>3. SubSeq(next, m, e)[i] = next[j]
        BY <2>2, <2>3, <3>1
      <3>4. next[j] = word[w - (nc + l) + j]
        BY <1>4
      <3>5. LastOf(word, left)[i] = word[w - left + i]
        BY <2>5
      <3> HIDE DEF next
      <3> QED
        BY <3>2, <3>3, <3>4, <3>5
    <2>7. SubSeq(next, m, e) = LastOf(word, left)
      <3>1. PICK s \in [1..left -> Nat], t \in [1..left -> Nat] :
              s = SubSeq(next, m, e) /\ t = LastOf(word, left)
        BY <2>4, <2>5, Zenon
      <3>2. \A i \in 1..left : s[i] = t[i]
        BY <2>6, <3>1, Zenon
      <3>3. s = t
        BY <3>2
      <3> QED
        BY <3>1, <3>3, Zenon
    <2> QED
      BY <2>1, <2>7
  <1> QED
    BY <1>3, <1>5, <1>6 DEF all, word, kept, next, Reads
-----------------------------------------------------------------------------
(* What each kind of call does to the data.                                *)
LEMMA StoredData ==
  ASSUME FifoInv, buf.alloc > 0, NEW n \in Nat, buf' = Appended(n)
  PROVE  Data' = Data \o Fifo!Fresh(n) /\ buf'.alloc > 0
  <1>1. buf \in Region /\ Sound(buf) /\ put \in Nat
    BY DEF FifoInv, IInv, RegionInv, Counts
  <1>2. Data' = Data \o Fifo!Fresh(n)
    BY <1>1, AppendedContents, DataNext
  <1> DEFINE r == Rewound(buf)
             c == Compacted(r)
             b == WithRoom(r, n)
  <1>3. r \in Region /\ Sound(r) /\ r.alloc = buf.alloc
    BY <1>1, RewoundSound
  <1>4. c \in Region /\ Sound(c) /\ c.alloc = buf.alloc
    BY <1>3, CompactedSound
  <1>5. Grown(c, n).alloc > 0
    <2>1. c.alloc \in Nat /\ c.alloc > 0
      BY <1>1, <1>4 DEF Region
    <2>2. Grown(c, n).alloc = IF c.alloc + n < Slack THEN (c.alloc + n) * 2 ELSE c.alloc + n + Slack
      BY <1>4 DEF Grown, Region
    <2> HIDE DEF c
    <2> QED
      BY <2>1, <2>2, BufferAssumption
  <1>6. b.alloc > 0
    BY <1>3, <1>4, <1>5 DEF WithRoom
  <1>7. b \in Region
    BY <1>3, WithRoomSound
  <1>8. buf'.alloc = b.alloc
    BY <1>7 DEF Appended, Region
  <1> QED
    BY <1>2, <1>6, <1>8

(* Making room moves the bytes that are held, and changes none.            *)
LEMMA CheckedData ==
  ASSUME FifoInv, NEW n, CheckAlloc(n)
  PROVE  Data' = Data /\ buf'.alloc > 0
  <1>1. buf \in Region /\ Sound(buf) /\ buf.alloc > 0
    BY DEF FifoInv, IInv, RegionInv, CheckAlloc
  <1>2. /\ Rewound(buf) \in Region /\ Sound(Rewound(buf)) /\ Rewound(buf).alloc = buf.alloc
        /\ Contents(Rewound(buf)) = Contents(buf)
    BY <1>1, RewoundSound, RewoundKeeps
  <1>3. /\ Compacted(Rewound(buf)).alloc = buf.alloc
        /\ Contents(Compacted(Rewound(buf))) = Contents(buf)
    BY <1>2, CompactedSound, CompactedKeeps
  <1>4. buf' = Rewound(buf) \/ buf' = Compacted(Rewound(buf))
    BY DEF CheckAlloc
  <1>5. Contents(buf) = Data
    BY DEF Contents, Data, Held
  <1> QED
    BY <1>1, <1>2, <1>3, <1>4, <1>5, DataNext

(* Consuming takes bytes off at the front or at the end.                   *)
LEMMA TakenData ==
  ASSUME FifoInv, buf.alloc > 0, NEW n \in Nat, n <= Held
  PROVE  /\ buf' = [buf EXCEPT !.offset = @ + n] =>
              Data' = SubSeq(Data, n + 1, Held) /\ buf'.alloc > 0
         /\ buf' = [buf EXCEPT !.end = @ - n] =>
              Data' = SubSeq(Data, 1, Held - n) /\ buf'.alloc > 0
  <1>1. buf \in Region /\ Sound(buf)
    BY DEF FifoInv, IInv, RegionInv
  <1>2. /\ [buf EXCEPT !.offset = @ + n].alloc = buf.alloc
        /\ [buf EXCEPT !.end = @ - n].alloc = buf.alloc
    BY <1>1 DEF Region
  <1> QED
    BY <1>1, <1>2, TakenContents, DataNext

(* The bits of the first k bytes.                                          *)
LEMMA FrontBits ==
  ASSUME FifoInv, buf.alloc > 0, NEW k \in Nat, k <= Held
  PROVE  k * ByteBits \in Nat /\ Fifo!BitsOf(SubSeq(Data, 1, k)) \in [1..(k * ByteBits) -> Nat]
  <1>1. Data \in Seq(Nat) /\ Len(Data) = Held /\ \A i \in 1..Held : Data[i] \in Nat \ {0}
    BY BytesShape
  <1>2. PICK d \in Seq(Nat) : d = Data
    BY <1>1
  <1>3. /\ SubSeq(d, 1, k) \in Seq(Nat) /\ Len(SubSeq(d, 1, k)) = k
        /\ \A i \in 1..k : SubSeq(d, 1, k)[i] = d[i]
    BY <1>1, <1>2
  <1>4. \A i \in 1..k : d[i] \in Nat \ {0}
    BY <1>1, <1>2, BytesShape
  <1>5. PICK s \in Seq(Nat) : s = SubSeq(d, 1, k)
    BY <1>3
  <1>6. \A i \in 1..Len(s) : s[i] \in Nat \ {0}
    BY <1>3, <1>4, <1>5
  <1>7. Len(s) * ByteBits \in Nat /\ Fifo!BitsOf(s) \in [1..(Len(s) * ByteBits) -> Nat]
    BY <1>6, BitsShape
  <1> QED
    BY <1>2, <1>3, <1>5, <1>7
-----------------------------------------------------------------------------
(* The data after a step is s, of bytes that were stored.                  *)
LEMMA WrittenNext ==
  ASSUME NEW s \in Seq(Nat), Data' = s, \A i \in 1..Len(s) : s[i] \in 1..put'
  PROVE  Written'
  <1>1. DOMAIN Data' = 1..Held'
    BY DEF Data
  <1>2. 1..Held' = 1..Len(s)
    BY <1>1, FunctionOfSeq
  <1> QED
    BY <1>2 DEF Written

(* Storing more, and taking away, keep what is held numbered.              *)
LEMMA StoredWritten ==
  ASSUME FifoInv, buf.alloc > 0, NEW n \in Nat, Data' = Data \o Fifo!Fresh(n), put' = put + n
  PROVE  Written'
  <1>1. PICK d \in Seq(Nat), h \in Nat, p \in Nat : d = Data /\ h = Held /\ p = put
    BY BytesShape DEF FifoInv, IInv, Counts
  <1>2. Len(d) = h /\ \A i \in 1..h : d[i] \in 1..p
    BY <1>1, BytesShape DEF FifoInv, Written
  <1>3. PICK f \in [1..n -> Nat] : f = Fifo!Fresh(n) /\ \A i \in 1..n : f[i] = p + i
    <2>1. [i \in 1..n |-> p + i] \in [1..n -> Nat]
      OBVIOUS
    <2> QED
      BY <1>1, <2>1 DEF Fifo!Fresh
  <1>4. f \in Seq(Nat) /\ Len(f) = n
    BY SeqOfFunction
  <1>5. /\ d \o f \in Seq(Nat) /\ Len(d \o f) = h + n
        /\ \A i \in 1..(h + n) : (d \o f)[i] = IF i <= h THEN d[i] ELSE f[i - h]
    BY <1>2, <1>4, ConcatShape
  <1>6. ASSUME NEW i \in 1..(h + n) PROVE (d \o f)[i] \in 1..(p + n)
    <2>1. CASE i <= h
      <3>1. d[i] \in 1..p
        BY <1>2, <2>1
      <3> QED
        BY <1>5, <2>1, <3>1
    <2>2. CASE ~(i <= h)
      <3>1. i - h \in 1..n
        BY <2>2
      <3>2. (d \o f)[i] = p + (i - h)
        BY <1>3, <1>5, <2>2, <3>1
      <3> QED
        BY <3>1, <3>2
    <2> QED
      BY <2>1, <2>2
  <1>7. PICK s \in Seq(Nat) : s = d \o f
    BY <1>5
  <1>8. \A i \in 1..Len(s) : s[i] \in 1..put'
    BY <1>1, <1>5, <1>6, <1>7
  <1>9. Data' = s
    BY <1>1, <1>3, <1>7
  <1> QED
    BY <1>8, <1>9, WrittenNext

(* What is left when bytes were taken off is numbered as before.           *)
LEMMA TakenWritten ==
  ASSUME FifoInv, buf.alloc > 0, put' = put, NEW n \in Nat, n <= Held,
         Data' = SubSeq(Data, n + 1, Held) \/ Data' = SubSeq(Data, 1, Held - n)
  PROVE  Written'
  <1>1. PICK d \in Seq(Nat), h \in Nat, p \in Nat : d = Data /\ h = Held /\ p = put
    BY BytesShape DEF FifoInv, IInv, Counts
  <1>2. Len(d) = h /\ n <= h /\ \A i \in 1..h : d[i] \in 1..p
    BY <1>1, BytesShape DEF FifoInv, Written
  <1>3. ASSUME NEW m \in Nat \ {0}, NEW e \in Nat, e <= h, m <= e + 1, Data' = SubSeq(d, m, e)
        PROVE  Written'
    <2>1. /\ SubSeq(d, m, e) \in Seq(Nat) /\ Len(SubSeq(d, m, e)) = e - m + 1
          /\ \A i \in 1..(e - m + 1) : SubSeq(d, m, e)[i] = d[m + i - 1]
      BY <1>2, <1>3, SubSeqShape
    <2>2. \A i \in 1..(e - m + 1) : m + i - 1 \in 1..h
      BY <1>3
    <2>3. PICK s \in Seq(Nat) : s = SubSeq(d, m, e)
      BY <2>1
    <2>4. \A i \in 1..Len(s) : s[i] \in 1..put'
      BY <1>1, <1>2, <2>1, <2>2, <2>3
    <2> QED
      BY <1>3, <2>3, <2>4, WrittenNext
  <1>4. CASE Data' = SubSeq(Data, n + 1, Held)
    <2>1. PICK m \in Nat \ {0} : m = n + 1 /\ m <= h + 1
      BY <1>2
    <2>2. Data' = SubSeq(d, m, h) /\ h <= h
      BY <1>1, <1>4, <2>1
    <2> QED
      BY <1>3, <2>1, <2>2
  <1>5. CASE Data' = SubSeq(Data, 1, Held - n)
    <2>1. PICK e \in Nat : e = h - n /\ e <= h
      BY <1>2
    <2>2. Data' = SubSeq(d, 1, e) /\ 1 <= e + 1 /\ 1 \in Nat \ {0}
      BY <1>1, <1>5, <2>1
    <2> QED
      BY <1>3, <2>1, <2>2
  <1> QED
    BY <1>4, <1>5

(* So is what was left alone.                                              *)
LEMMA KeptWritten ==
  ASSUME FifoInv, buf.alloc > 0, put' = put, Data' = Data
  PROVE  Written'
  BY BytesShape, WrittenNext DEF FifoInv, Written

(* Every call keeps what is held numbered.                                 *)
LEMMA WrittenStep == ASSUME FifoInv, [Next]_vars PROVE Written'
  <1> USE BufferAssumption
  <1>1. CASE UNCHANGED vars
    BY <1>1 DEF vars, FifoInv, Written, Data, Held
  <1>2. ASSUME NEW len \in InitLens, BufferInit(len) PROVE Written'
    BY <1>2 DEF BufferInit, Written, Held
  <1>3. CASE Clear
    <2>1. buf'.offset = 0 /\ buf'.end = 0
      BY <1>3 DEF Clear, FifoInv, IInv, RegionInv, Region
    <2> QED
      BY <2>1 DEF Written, Held
  <1>4. CASE Free
    <2>1. buf'.alloc = 0
      BY <1>4 DEF Free, FifoInv, IInv, RegionInv, Region
    <2> QED
      BY <2>1 DEF Written
  <1>5. ASSUME NEW n \in Sizes, Store(n) PROVE Written'
    BY <1>5, StoredData, StoredWritten DEF Store
  <1>6. ASSUME NEW n \in Sizes, CheckAlloc(n) PROVE Written'
    BY <1>6, CheckedData, KeptWritten DEF CheckAlloc
  <1>7. ASSUME NEW n \in Sizes, Get(n) \/ ConsumeEnd(n) PROVE Written'
    <2>1. CASE n <= Held
      BY <1>7, <2>1, TakenData, TakenWritten DEF Get, ConsumeEnd
    <2>2. CASE ~(n <= Held)
      <3>1. Data' = Data /\ put' = put /\ buf.alloc > 0
        BY <1>7, <2>2 DEF Get, ConsumeEnd, Data, Held
      <3> QED
        BY <3>1, KeptWritten
    <2> QED
      BY <2>1, <2>2
  <1>8. ASSUME NEW min \in Sizes, CheckLoad(min, BufSize) PROVE Written'
    <2>1. CASE UNCHANGED <<buf, put>>
      <3>1. Data' = Data /\ put' = put /\ buf.alloc > 0
        BY <1>8, <2>1 DEF CheckLoad, Data, Held
      <3> QED
        BY <3>1, KeptWritten
    <2>2. ASSUME NEW read \in Nat, put' = put + read, buf' = Appended(read)
          PROVE  Written'
      BY <1>8, <2>2, StoredData, StoredWritten DEF CheckLoad
    <2>3. \/ UNCHANGED <<buf, put>>
          \/ \E read \in Nat : put' = put + read /\ buf' = Appended(read)
      <3>1. CASE min <= Held
        BY <1>8, <3>1 DEF CheckLoad
      <3>2. CASE ~(min <= Held)
        <4>1. PICK read \in 0..rest : put' = put + read /\ buf' = IF read = 0 THEN buf ELSE Appended(read)
          BY <1>8, <3>2 DEF CheckLoad
        <4>2. put \in Nat
          BY DEF FifoInv, IInv, Counts
        <4> QED
          BY <4>1, <4>2
      <3> QED
        BY <3>1, <3>2
    <2> QED
      BY <2>1, <2>2, <2>3
  <1>9. ASSUME NEW n \in 0..MaxBits, GetBits(n) PROVE Written'
    <2>1. /\ buf.alloc > 0 /\ Needed(n) <= Held /\ put' = put
          /\ buf' = [buf EXCEPT !.offset = @ + Needed(n)]
      BY <1>9 DEF GetBits
    <2>2. Needed(n) \in Nat
      BY NeededEnough DEF FifoInv, IInv, Counts
    <2>3. PICK k \in Nat : k = Needed(n)
      BY <2>2
    <2>4. Data' = SubSeq(Data, k + 1, Held)
      BY <2>1, <2>3, TakenData
    <2> QED
      BY <2>1, <2>3, <2>4, TakenWritten
  <1> QED
    BY <1>1, <1>2, <1>3, <1>4, <1>5, <1>6, <1>7, <1>8, <1>9 DEF Next

(* Every call keeps the word, and less than a byte of it.                  *)
LEMMA CacheStep == ASSUME FifoInv, [Next]_vars PROVE CacheInv'
  <1>1. cache \in [1..WordBits -> Nat] /\ ncached < ByteBits /\ ncached \in Nat
    BY DEF FifoInv, CacheInv, IInv, Counts
  <1>2. CASE UNCHANGED bits
    BY <1>1, <1>2 DEF bits, CacheInv
  <1>3. CASE cache' = Word /\ ncached' = 0
    BY <1>3, BufferAssumption DEF CacheInv, Word, Blank
  <1>4. ASSUME NEW n \in 0..MaxBits, GetBits(n) PROVE CacheInv'
    <2>1. PICK k \in Nat : k = Needed(n)
      BY <1>1, NeededEnough
    <2>2. buf.alloc > 0 /\ k <= Held
      BY <1>4, <2>1 DEF GetBits
    <2>3. PICK l \in Nat : l = k * ByteBits
      BY <2>2, FrontBits
    <2>4. PICK b \in [1..l -> Nat] : b = Fifo!BitsOf(SubSeq(Data, 1, k))
      BY <2>2, <2>3, FrontBits
    <2>5. cache' = LastOf(cache \o b, WordBits) /\ ncached' = ncached + k * ByteBits - n
      BY <1>4, <2>1, <2>4 DEF GetBits, LastOf
    <2>6. LastOf(cache \o b, WordBits) \in [1..WordBits -> Nat]
      BY <1>1, Shifted, BufferAssumption
    <2>7. ncached + k * ByteBits - n < ByteBits
      BY <1>1, <2>1, NeededLeast
    <2> QED
      BY <2>5, <2>6, <2>7 DEF CacheInv
  <1>5. CASE UNCHANGED vars
    BY <1>2, <1>5 DEF vars
  <1>6. CASE Clear \/ \E len \in InitLens : BufferInit(len)
    BY <1>3, <1>6 DEF Clear, BufferInit
  <1>7. CASE Free
    BY <1>2, <1>7 DEF Free
  <1>8. ASSUME NEW n \in Sizes, Store(n) \/ CheckAlloc(n) PROVE CacheInv'
    BY <1>2, <1>8 DEF Store, CheckAlloc
  <1>9. ASSUME NEW n \in Sizes, Get(n) \/ ConsumeEnd(n) PROVE CacheInv'
    BY <1>2, <1>9 DEF Get, ConsumeEnd
  <1>10. ASSUME NEW min \in Sizes, CheckLoad(min, BufSize) PROVE CacheInv'
    BY <1>2, <1>10 DEF CheckLoad
  <1> QED
    BY <1>4, <1>5, <1>6, <1>7, <1>8, <1>9, <1>10 DEF Next

(* Every call keeps the rest of the file and the results in their types.   *)
LEMMA FlagsStep == ASSUME FifoInv, [Next]_vars PROVE FlagsInv'
  <1>1. CASE UNCHANGED <<rest, failed>> /\ ok' \in BOOLEAN
    BY <1>1 DEF FifoInv, FlagsInv
  <1>2. ASSUME NEW min \in Sizes, CheckLoad(min, BufSize) PROVE FlagsInv'
    <2>1. CASE min <= Held
      BY <1>2, <2>1 DEF CheckLoad, FifoInv, FlagsInv
    <2>2. CASE ~(min <= Held)
      <3>1. PICK read \in 0..rest :
              /\ failed' = (read < Wanted(min, BufSize) /\ read < rest) /\ rest' = rest - read
              /\ ok' = (read > 0 /\ Held + read >= min)
        BY <1>2, <2>2 DEF CheckLoad
      <3>2. rest \in Nat
        BY DEF FifoInv, FlagsInv
      <3> QED
        BY <3>1, <3>2 DEF FlagsInv
    <2> QED
      BY <2>1, <2>2
  <1>3. CASE FileKeeps /\ UNCHANGED ok
    BY <1>3 DEF FileKeeps, FifoInv, FlagsInv
  <1>4. CASE UNCHANGED vars
    BY <1>3, <1>4 DEF vars, FileKeeps
  <1>5. CASE Clear \/ Free \/ \E len \in InitLens : BufferInit(len)
    BY <1>3, <1>5 DEF Clear, Free, BufferInit
  <1>6. ASSUME NEW n \in Sizes, Store(n) \/ CheckAlloc(n) PROVE FlagsInv'
    BY <1>3, <1>6 DEF Store, CheckAlloc
  <1>7. ASSUME NEW n \in Sizes, Get(n) \/ ConsumeEnd(n) PROVE FlagsInv'
    <2>1. FileKeeps /\ ok' = (n <= Held)
      BY <1>7 DEF Get, ConsumeEnd
    <2>2. (n <= Held) \in BOOLEAN
      OBVIOUS
    <2> QED
      BY <1>1, <2>1, <2>2 DEF FileKeeps
  <1>8. ASSUME NEW n \in 0..MaxBits, GetBits(n) PROVE FlagsInv'
    BY <1>3, <1>8 DEF GetBits
  <1> QED
    BY <1>2, <1>4, <1>5, <1>6, <1>7, <1>8 DEF Next

(* The strengthening is an invariant.                                      *)
THEOREM FifoInductive == Spec => []FifoInv
  <1>1. ASSUME Init PROVE FifoInv
    <2>1. IInv
      BY <1>1, InitIInv
    <2>2. Written
      BY <1>1 DEF Init, Written
    <2>3. CacheInv
      BY <1>1, BufferAssumption DEF Init, CacheInv, Word, Blank
    <2>4. FlagsInv
      BY <1>1, BufferAssumption DEF Init, FlagsInv
    <2> QED
      BY <2>1, <2>2, <2>3, <2>4 DEF FifoInv
  <1>2. ASSUME FifoInv, [Next]_vars PROVE FifoInv'
    BY <1>2, RegionStep, CountsStep, WrittenStep, CacheStep, FlagsStep DEF FifoInv, IInv
  <1> QED
    BY <1>1, <1>2, PTL DEF Spec

(* Every variable keeps its type: what is read was stored, and is at least *)
(* 1, so that the word always holds bits.                                  *)
THEOREM TypeCorrect == Spec => []TypeOK
  <1>1. FifoInv => TypeOK
    BY DEF FifoInv, IInv, RegionInv, Counts, CacheInv, FlagsInv, Region, TypeOK
  <1> QED
    BY <1>1, FifoInductive, PTL
-----------------------------------------------------------------------------
(* A step that takes n bytes from the front.                               *)
LEMMA TakesFront ==
  ASSUME FifoInv, buf.alloc > 0, buf'.alloc > 0, NEW n \in Nat, n <= Held,
         out' = SubSeq(Data, 1, n), Data' = SubSeq(Data, n + 1, Held), put' = put,
         UNCHANGED bits
  PROVE  Fifo!Next
  <1>1. Bytes = Data /\ Len(Data) = Held /\ n \in 0..Len(Data)
    BY BytesShape
  <1>2. Fifo!TakeFront(n)
    BY <1>1 DEF Fifo!TakeFront, bits
  <1> QED
    BY <1>1, <1>2 DEF Fifo!Next, Bytes

(* A step that drops n bytes from the back.                                *)
LEMMA DropsBack ==
  ASSUME FifoInv, buf.alloc > 0, buf'.alloc > 0, NEW n \in Nat, n <= Held,
         out' = <<>>, Data' = SubSeq(Data, 1, Held - n), put' = put, UNCHANGED bits
  PROVE  Fifo!Next
  <1>1. Bytes = Data /\ Len(Data) = Held /\ n \in 0..Len(Data)
    BY BytesShape
  <1>2. Fifo!DropBack(n)
    <2>1. Data' = SubSeq(Data, 1, Len(Data) - n)
      BY <1>1
    <2>2. buf.alloc # 0 /\ buf'.alloc # 0
      OBVIOUS
    <2> QED
      BY <2>1, <2>2 DEF Fifo!DropBack, bits
  <1> QED
    BY <1>1, <1>2 DEF Fifo!Next, Bytes

(* A step that reads n bits, taking as many bytes as it needs: while all   *)
(* the bits that are kept or taken have room in the word, none is lost.    *)
LEMMA ReadsBits ==
  ASSUME MaxBits + ByteBits <= WordBits + 1, FifoInv, NEW n \in 0..MaxBits, GetBits(n)
  PROVE  Fifo!Next
  <1>1. cache \in [1..WordBits -> Nat] /\ ncached < ByteBits /\ ncached \in Nat
    BY DEF FifoInv, CacheInv, IInv, Counts
  <1>2. PICK w \in Nat, nc \in Nat, k \in Nat : w = WordBits /\ nc = ncached /\ k = Needed(n)
    <2>1. Needed(n) \in Nat
      BY <1>1, NeededEnough
    <2> QED
      BY <1>1, <2>1, BufferAssumption
  <1>3. PICK c \in [1..w -> Nat] : c = cache
    BY <1>1, <1>2
  <1>4. w = WordBits /\ c = cache /\ nc = ncached /\ k = Needed(n)
    BY <1>2, <1>3
  <1>5. buf.alloc > 0 /\ k <= Held
    BY <1>4 DEF GetBits
  <1>6. PICK l \in Nat : l = k * ByteBits
    BY <1>5, FrontBits
  <1>7. PICK b \in [1..l -> Nat] : b = Fifo!BitsOf(SubSeq(Data, 1, k))
    BY <1>5, <1>6, FrontBits
  <1>8. n <= nc + l /\ nc + l < n + ByteBits
    <2>1. ncached + Needed(n) * ByteBits - n \in Nat
      BY <1>1, NeededEnough
    <2>2. ncached + Needed(n) * ByteBits < n + ByteBits
      BY <1>1, NeededLeast
    <2> QED
      BY <1>4, <1>6, <2>1, <2>2
  <1>9. nc + l <= w /\ nc <= w
    BY <1>4, <1>8, BufferAssumption
  <1> DEFINE left == nc + l - n
             word == LastOf(c \o b, w)
             next == LastOf(c, nc) \o b
             shown == Shown(word, w, left, n)
  <1>10. /\ Len(next) = nc + l
        /\ SubSeq(next, 1, n) = shown
        /\ SubSeq(next, n + 1, nc + l) = LastOf(word, left)
    <2>1. n \in Nat
      BY BufferAssumption
    <2>2. n <= nc + l /\ nc + l <= w
      BY <1>8, <1>9
    <2>3. Reads(w, c, nc, b, l, n)
      BY <2>1, <2>2, NextBits
    <2> QED
      BY <2>3, Zenon DEF Reads
  <1>11. /\ cache' = word /\ ncached' = left /\ out' = shown /\ put' = put
        /\ buf' = [buf EXCEPT !.offset = @ + k]
    BY <1>4, <1>6, <1>7 DEF GetBits, LastOf, Shown
  <1>12. Data' = SubSeq(Data, k + 1, Held) /\ buf'.alloc > 0
    BY <1>5, <1>11, TakenData
  <1>13. Ahead = LastOf(c, nc)
    <2>1. Len(c) = w
      BY <1>4, SeqOfFunction
    <2> QED
      BY <1>4, <1>5, <2>1 DEF Ahead, LastOf
  <1>14. Ahead' = LastOf(word, left)
    <2>1. Len(word) = w
      <3>1. word \in [1..w -> Nat]
        BY <1>4, Shifted
      <3> QED
        BY <3>1, SeqOfFunction
    <2> HIDE DEF word, left, shown
    <2>2. LastOf(word, left) = SubSeq(word, w - left + 1, w)
      BY <2>1 DEF LastOf
    <2>3. buf'.alloc # 0
      BY <1>12
    <2>4. Ahead' = SubSeq(cache', WordBits - ncached' + 1, WordBits)
      BY <2>3 DEF Ahead
    <2> QED
      BY <1>4, <1>11, <2>2, <2>4
  <1>15. Bytes = Data /\ Len(Data) = Held /\ k \in 0..Len(Data)
    BY <1>5, BytesShape
  <1>16. Bytes' = Data'
    <2>1. buf'.alloc # 0
      BY <1>12
    <2> QED
      BY <2>1, Zenon DEF Bytes
  <1>17. Len(Ahead) = nc
    BY <1>1, <1>4, <1>9, <1>13, LastShape, SeqOfFunction, SMTT(60)
  <1> HIDE DEF left, word, next, shown
  <1>18. Fifo!TakeBits(n, k)
    <2>1. next = Ahead \o Fifo!BitsOf(SubSeq(Bytes, 1, k))
      BY <1>7, <1>13, <1>15 DEF next
    <2>2. k = 0 \/ Len(next) < n + ByteBits
      BY <1>8, <1>10
    <2>3. Len(next) >= n
      BY <1>8, <1>10
    <2>4. out' = SubSeq(next, 1, n) /\ Ahead' = SubSeq(next, n + 1, Len(next))
      BY <1>10, <1>11, <1>14
    <2>5. Bytes' = SubSeq(Bytes, k + 1, Len(Bytes)) /\ put' = put
      BY <1>11, <1>12, <1>15, <1>16
    <2> QED
      BY <2>1, <2>2, <2>3, <2>4, <2>5 DEF Fifo!TakeBits, Ahead, Bytes
  <1>19. n \in 0..(Len(Ahead) + k * ByteBits)
    BY <1>6, <1>8, <1>17
  <1> QED
    BY <1>15, <1>18, <1>19 DEF Fifo!Next, Ahead, Bytes

(* Every call is a step of the queue, or leaves the queue alone.           *)
LEMMA FifoStep ==
  ASSUME MaxBits + ByteBits <= WordBits + 1, FifoInv, FifoInv', [Next]_vars
  PROVE  [Fifo!Next]_(Fifo!vars)
  <1>1. CASE UNCHANGED vars
    BY <1>1 DEF vars, bits, Fifo!vars, Data, Held
  <1>2. CASE Clear \/ Free \/ \E len \in InitLens : BufferInit(len)
    <2>1. cache' \in [1..WordBits -> Nat]
      BY DEF FifoInv, CacheInv
    <2>2. buf \in Region
      BY DEF FifoInv, IInv, RegionInv
    <2>3. CASE Clear
      <3>1. buf'.end = 0 /\ buf'.offset = 0 /\ ncached' = 0 /\ out' = <<>> /\ UNCHANGED put
        BY <2>2, <2>3 DEF Clear, Region
      <3> QED
        BY <2>1, <3>1, Emptied DEF Fifo!Next
    <2>4. CASE Free
      <3>1. buf'.alloc = 0 /\ out' = <<>> /\ UNCHANGED put
        BY <2>2, <2>4 DEF Free, Region
      <3> QED
        BY <2>1, <3>1, Emptied DEF Fifo!Next
    <2>5. ASSUME NEW len \in InitLens, BufferInit(len) PROVE Fifo!Next
      <3>1. buf'.end = 0 /\ buf'.offset = 0 /\ ncached' = 0 /\ out' = <<>> /\ UNCHANGED put
        BY <2>5 DEF BufferInit
      <3> QED
        BY <2>1, <3>1, Emptied DEF Fifo!Next
    <2> QED
      BY <1>2, <2>3, <2>4, <2>5
  <1>3. ASSUME NEW n \in Sizes, Store(n) PROVE Fifo!Next
    <2>1. /\ buf.alloc > 0 /\ put + n <= MaxBytes /\ buf' = Appended(n) /\ put' = put + n
          /\ out' = <<>> /\ UNCHANGED bits
      BY <1>3 DEF Store
    <2>2. n \in Nat /\ n <= MaxBytes
      BY <2>1, BufferAssumption DEF FifoInv, IInv, Counts
    <2> QED
      BY <2>1, <2>2, StoredData, Puts
  <1>4. ASSUME NEW n \in Sizes, CheckAlloc(n) PROVE Fifo!Next
    BY <1>4, CheckedData, PutsNothing DEF CheckAlloc
  <1>5. ASSUME NEW n \in Sizes, Get(n) PROVE Fifo!Next
    <2>1. n \in Nat /\ buf.alloc > 0 /\ UNCHANGED <<bits, put>>
      BY <1>5, BufferAssumption DEF Get
    <2>2. CASE n <= Held
      <3>1. out' = SubSeq(Data, 1, n) /\ buf' = [buf EXCEPT !.offset = @ + n]
        BY <1>5, <2>2 DEF Get
      <3>2. Data' = SubSeq(Data, n + 1, Held) /\ buf'.alloc > 0
        BY <2>1, <2>2, <3>1, TakenData
      <3> QED
        BY <2>1, <2>2, <3>1, <3>2, TakesFront
    <2>3. CASE ~(n <= Held)
      <3>1. out' = <<>> /\ buf' = buf
        BY <1>5, <2>3 DEF Get
      <3>2. Data' = Data
        BY <3>1 DEF Data, Held
      <3> QED
        BY <2>1, <3>1, <3>2, PutsNothing
    <2> QED
      BY <2>2, <2>3
  <1>6. ASSUME NEW n \in Sizes, ConsumeEnd(n) PROVE Fifo!Next
    <2>1. n \in Nat /\ buf.alloc > 0 /\ out' = <<>> /\ UNCHANGED <<bits, put>>
      BY <1>6, BufferAssumption DEF ConsumeEnd
    <2>2. CASE n <= Held
      <3>1. buf' = [buf EXCEPT !.end = @ - n]
        BY <1>6, <2>2 DEF ConsumeEnd
      <3>2. Data' = SubSeq(Data, 1, Held - n) /\ buf'.alloc > 0
        BY <2>1, <2>2, <3>1, TakenData
      <3> QED
        BY <2>1, <2>2, <3>1, <3>2, DropsBack
    <2>3. CASE ~(n <= Held)
      <3>1. buf' = buf
        BY <1>6, <2>3 DEF ConsumeEnd
      <3>2. Data' = Data
        BY <3>1 DEF Data, Held
      <3> QED
        BY <2>1, <3>1, <3>2, PutsNothing
    <2> QED
      BY <2>2, <2>3
  <1>7. ASSUME NEW min \in Sizes, CheckLoad(min, BufSize) PROVE Fifo!Next
    <2>1. buf.alloc > 0 /\ out' = <<>> /\ UNCHANGED bits
      BY <1>7 DEF CheckLoad
    <2>2. CASE UNCHANGED <<buf, put>>
      <3>1. Data' = Data
        BY <2>2 DEF Data, Held
      <3> QED
        BY <2>1, <2>2, <3>1, PutsNothing
    <2>3. CASE ~ UNCHANGED <<buf, put>>
      <3>1. ~(min <= Held)
        BY <1>7, <2>3 DEF CheckLoad
      <3>2. PICK read \in 0..rest :
              /\ put + read <= MaxBytes /\ put' = put + read
              /\ buf' = IF read = 0 THEN buf ELSE Appended(read)
        BY <1>7, <3>1 DEF CheckLoad
      <3>3. read \in Nat /\ read <= MaxBytes /\ read # 0
        BY <2>3, <3>2, BufferAssumption DEF FifoInv, IInv, Counts
      <3> QED
        BY <2>1, <3>2, <3>3, StoredData, Puts
    <2> QED
      BY <2>2, <2>3
  <1>8. ASSUME NEW n \in 0..MaxBits, GetBits(n) PROVE Fifo!Next
    BY <1>8, ReadsBits
  <1> QED
    BY <1>1, <1>2, <1>3, <1>4, <1>5, <1>6, <1>7, <1>8 DEF Next

(* Whatever is appended, read byte by byte or bit by bit, dropped or       *)
(* loaded comes out as it was stored and in that order, however often the  *)
(* memory grew or was compacted, if no more bits are asked for at once     *)
(* than leave room for the rest of a byte in the word: 25 of 32.           *)
THEOREM ImplementsQueue ==
  ASSUME MaxBits + ByteBits <= WordBits + 1
  PROVE  Spec => ImplementsFifo
  <1>1. Init => Fifo!Init
    BY DEF Init, Fifo!Init
  <1>2. FifoInv /\ FifoInv' /\ [Next]_vars => [Fifo!Next]_(Fifo!vars)
    BY FifoStep
  <1> QED
    BY <1>1, <1>2, FifoInductive, PTL DEF Spec, ImplementsFifo, Fifo!Spec
-----------------------------------------------------------------------------
(* What is stored is there afterwards.                                     *)
LEMMA StoredHeld ==
  ASSUME FifoInv, FifoInv', buf.alloc > 0, NEW n \in Nat, n > 0, buf' = Appended(n)
  PROVE  Held' = Held + n
  <1>1. Data' = Data \o Fifo!Fresh(n) /\ buf'.alloc > 0
    BY StoredData
  <1>2. PICK h \in Nat, g \in Nat : h = Held /\ g = Held'
    <2>1. Held \in Nat
      BY BytesShape
    <2>2. buf' \in Region /\ Sound(buf')
      BY <1>1 DEF FifoInv, IInv, RegionInv, Sound
    <2>3. Held' \in Nat
      BY <2>2 DEF Region, Sound, Held
    <2> QED
      BY <2>1, <2>3
  <1>3. PICK d \in Seq(Nat) : d = Data /\ Len(d) = h
    BY <1>2, BytesShape
  <1>4. PICK f \in [1..n -> Nat] : f = Fifo!Fresh(n)
    <2>1. PICK p \in Nat : p = put
      BY DEF FifoInv, IInv, Counts
    <2>2. [i \in 1..n |-> p + i] \in [1..n -> Nat]
      OBVIOUS
    <2> QED
      BY <2>1, <2>2 DEF Fifo!Fresh
  <1>5. f \in Seq(Nat) /\ Len(f) = n
    BY SeqOfFunction
  <1>6. d \o f \in Seq(Nat) /\ Len(d \o f) = h + n
    BY <1>3, <1>5, ConcatShape
  <1>7. DOMAIN (d \o f) = 1..(h + n)
    BY <1>6, FunctionOfSeq
  <1>8. DOMAIN Data' = 1..g
    BY <1>2 DEF Data
  <1>9. 1..g = 1..(h + n)
    BY <1>1, <1>3, <1>4, <1>7, <1>8
  <1>10. g = h + n
    <2>1. h + n \in 1..g
      BY <1>9
    <2>2. g \in 1..(h + n)
      BY <1>9, <2>1
    <2> QED
      BY <2>1, <2>2
  <1> QED
    BY <1>2, <1>10

(* buffer_check_load succeeds with as much as was asked for, and fails     *)
(* only at the end of the file or after a failed read, whatever is in the  *)
(* buffer and however little a single read may return.                     *)
THEOREM LoadsEnough == Spec => LoadComplete
  <1> DEFINE Done(min) == IF ok' THEN Held' >= min ELSE rest' = 0 \/ failed'
  <1>1. ASSUME FifoInv, FifoInv', NEW min \in Sizes, CheckLoad(min, BufSize)
        PROVE  Done(min)
    <2>1. buf.alloc > 0 /\ min \in Nat
      BY <1>1, BufferAssumption DEF CheckLoad
    <2>2. CASE min <= Held
      <3>1. ok' = TRUE /\ buf' = buf
        BY <1>1, <2>2 DEF CheckLoad
      <3>2. Held \in Nat
        BY <1>1, <2>1, BytesShape
      <3> QED
        BY <2>1, <2>2, <3>1, <3>2 DEF Held
    <2>3. CASE ~(min <= Held)
      <3>1. PICK read \in 0..rest :
              /\ read <= Wanted(min, BufSize)
              /\ failed' = (read < Wanted(min, BufSize) /\ read < rest) /\ rest' = rest - read
              /\ buf' = IF read = 0 THEN buf ELSE Appended(read)
              /\ ok' = (read > 0 /\ Held + read >= min)
        BY <1>1, <2>3 DEF CheckLoad
      <3>2. PICK h \in Nat, r \in Nat, want \in Nat :
              h = Held /\ r = rest /\ want = Wanted(min, BufSize) /\ want >= min - h
        <4>1. rest \in Nat /\ Held \in Nat
          BY <1>1, <2>1, BytesShape DEF FifoInv, FlagsInv
        <4>2. Wanted(min, BufSize) \in Nat /\ Wanted(min, BufSize) >= min - Held
          BY <2>1, <2>3, <4>1, BufferAssumption DEF Wanted
        <4> QED
          BY <4>1, <4>2
      <3>3. CASE read > 0 /\ h + read >= min
        <4>1. ok' /\ buf' = Appended(read) /\ read \in Nat /\ read > 0
          <5>1. read > 0 /\ Held + read >= min /\ read # 0 /\ read \in Nat
            BY <3>2, <3>3
          <5> QED
            BY <3>1, <5>1, Zenon
        <4>2. Held' = Held + read
          BY <1>1, <2>1, <4>1, StoredHeld
        <4> QED
          BY <3>2, <3>3, <4>1, <4>2
      <3>4. CASE ~(read > 0 /\ h + read >= min)
        <4>1. ~ok'
          BY <3>1, <3>2, <3>4
        <4>2. read < want
          BY <2>1, <2>3, <3>1, <3>2, <3>4
        <4>3. rest' = 0 \/ failed'
          <5>1. read < Wanted(min, BufSize)
            BY <3>2, <4>2
          <5>2. CASE read < rest
            BY <3>1, <5>1, <5>2, Zenon
          <5>3. CASE ~(read < rest)
            <6>1. rest - read = 0
              BY <3>2, <5>3
            <6> QED
              BY <3>1, <6>1, Zenon
          <5> QED
            BY <5>2, <5>3
        <4> QED
          BY <4>1, <4>3
      <3> QED
        BY <3>3, <3>4
    <2> QED
      BY <2>2, <2>3
  <1>2. FifoInv /\ FifoInv' /\ [Next]_vars
          => [\A min \in Sizes : CheckLoad(min, BufSize) => Done(min)]_vars
    BY <1>1
  <1> QED
    BY <1>2, FifoInductive, PTL DEF Spec, LoadComplete
=============================================================================
