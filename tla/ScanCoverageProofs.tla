------------------------- MODULE ScanCoverageProofs -------------------------
(***************************************************************************)
(* A finished scan misses nothing: NothingMissed and FreshFullScan of      *)
(* ScanPipeline, for every tree of directories.  The argument: while a     *)
(* scan is on that was not told to abort, every file that is due is still  *)
(* ahead of it, or has been seen to; at its end nothing is ahead.          *)
(***************************************************************************)
EXTENDS ScanPipelineProofs

-----------------------------------------------------------------------------
(* What is in a list.                                                      *)
Elems(q) == {q[i] : i \in DOMAIN q}

(* The directories to be entered, the entries to be read of the one that   *)
(* is being read, and the files to be scanned.                             *)
Waiting ==
  IF phase = "readdir" THEN Elems(Subdirs[Head(todo)]) \cup Elems(Tail(todo)) ELSE Elems(todo)
Unread ==
  IF phase = "readdir"
  THEN {Files[Head(todo)][i] : i \in {j \in DOMAIN Files[Head(todo)] : j >= entry}} ELSE {}
Queued == IF phase \in {"count", "counted"} THEN Elems(Tail(fileq)) ELSE Elems(fileq)
Ahead == FilesIn(Below(Waiting)) \cup Unread \cup Queued

Active == phase \notin {"none", "init"} /\ ~want /\ (phase = "idle" => ended = "finished")

(* A scan that starts with an empty database.                              *)
Fresh == "MS_CLEARDB" \in flags \/ ("MS_FULL_SCAN" \in flags /\ scans = 1)

(* The file has been seen to, though a crash may have kept the result.     *)
Told(f) == <<f, fs[f]>> \in sent \cup unsent /\ (Fresh => seen[f] > 0)

Coverage == Active => \A f \in Due : f \in Ahead \/ Told(f)

(* Which lists are empty when; an object's first scan opens the database.  *)
Stages ==
  /\ phase \in {"scan", "file", "send", "count", "counted"} => todo = <<>>
  /\ phase = "idle" /\ ended = "finished" => todo = <<>> /\ fileq = <<>>
  /\ phase = "none" => ended = "none" /\ scans = 0
  /\ scans = 0 => phase \in {"none", "idle"} /\ ~dbp
  /\ phase = "init" /\ scans = 1 => ~dbp

(* Results that were sent are told, lost or in the queue.                  *)
Accounted == sent = told \cup lost \cup Elems(pending)

(* Results are of contents a file has or had, and the result in hand is of *)
(* those it has, if it did not change during the scan.                     *)
Past ==
  /\ \A r \in Known : r[2] <= now /\ (fs[r[1]] # 0 => r[2] <= fs[r[1]])
  /\ phase = "send" /\ Head(fileq) \in stable => found = fs[Head(fileq)]

(* What a database holds that was empty at first is from this scan.        *)
FreshEntries ==
  dbp /\ phase # "init" /\ Fresh => \A f \in File \ excused :
    db[f] # 0 => seen[f] > 0 \/ (phase = "send" /\ Head(fileq) = f)

CInv == IInv /\ Stages /\ Accounted /\ Past /\ FreshEntries /\ Coverage
-----------------------------------------------------------------------------
(* Lists.                                                                  *)
LEMMA ElemsHead ==
  ASSUME NEW S, NEW q \in Seq(S), q # <<>>
  PROVE  Elems(q) = {Head(q)} \cup Elems(Tail(q))
  <1>1. DOMAIN q = 1..Len(q) /\ DOMAIN Tail(q) = 1..(Len(q) - 1) /\ Len(q) \in Nat /\ Len(q) > 0
    OBVIOUS
  <1>2. Head(q) = q[1] /\ \A i \in 1..(Len(q) - 1) : Tail(q)[i] = q[i + 1]
    OBVIOUS
  <1>3. ASSUME NEW x \in Elems(q) PROVE x \in {Head(q)} \cup Elems(Tail(q))
    <2>1. PICK i \in 1..Len(q) : x = q[i]
      BY <1>1 DEF Elems
    <2>2. CASE i = 1
      BY <1>2, <2>1, <2>2
    <2>3. CASE i # 1
      <3>1. i - 1 \in 1..(Len(q) - 1) /\ (i - 1) + 1 = i
        BY <1>1, <2>1, <2>3
      <3>2. x = Tail(q)[i - 1]
        BY <1>2, <2>1, <3>1
      <3> QED
        BY <1>1, <3>1, <3>2 DEF Elems
    <2> QED
      BY <2>2, <2>3
  <1>4. ASSUME NEW x \in Elems(Tail(q)) PROVE x \in Elems(q)
    <2>1. PICK i \in 1..(Len(q) - 1) : x = q[i + 1]
      BY <1>1, <1>2 DEF Elems
    <2>2. i + 1 \in 1..Len(q)
      BY <1>1, <2>1
    <2> QED
      BY <1>1, <2>1, <2>2 DEF Elems
  <1>5. Head(q) \in Elems(q)
    BY <1>1, <1>2 DEF Elems
  <1> QED
    BY <1>3, <1>4, <1>5

(* And of one put after another, or an element at its end.                 *)
LEMMA ElemsConcat ==
  ASSUME NEW S, NEW p \in Seq(S), NEW q \in Seq(S)
  PROVE  Elems(p \o q) = Elems(p) \cup Elems(q)
  <1>1. /\ DOMAIN p = 1..Len(p) /\ DOMAIN q = 1..Len(q)
        /\ DOMAIN (p \o q) = 1..(Len(p) + Len(q))
        /\ Len(p) \in Nat /\ Len(q) \in Nat
    OBVIOUS
  <1>2. /\ \A i \in 1..Len(p) : (p \o q)[i] = p[i]
        /\ \A i \in 1..Len(q) : (p \o q)[Len(p) + i] = q[i]
    OBVIOUS
  <1>3. ASSUME NEW x \in Elems(p \o q) PROVE x \in Elems(p) \cup Elems(q)
    <2>1. PICK i \in 1..(Len(p) + Len(q)) : x = (p \o q)[i]
      BY <1>1 DEF Elems
    <2>2. CASE i <= Len(p)
      <3>1. i \in 1..Len(p)
        BY <1>1, <2>1, <2>2
      <3> QED
        BY <1>1, <1>2, <2>1, <3>1 DEF Elems
    <2>3. CASE i > Len(p)
      <3>1. i - Len(p) \in 1..Len(q) /\ Len(p) + (i - Len(p)) = i
        BY <1>1, <2>1, <2>3
      <3>2. x = q[i - Len(p)]
        BY <1>2, <2>1, <3>1
      <3> QED
        BY <1>1, <3>1, <3>2 DEF Elems
    <2> QED
      BY <1>1, <2>1, <2>2, <2>3
  <1>4. ASSUME NEW x \in Elems(p) PROVE x \in Elems(p \o q)
    <2>1. PICK i \in 1..Len(p) : x = p[i]
      BY <1>1 DEF Elems
    <2>2. i \in 1..(Len(p) + Len(q))
      BY <1>1, <2>1
    <2> QED
      BY <1>1, <1>2, <2>1, <2>2 DEF Elems
  <1>5. ASSUME NEW x \in Elems(q) PROVE x \in Elems(p \o q)
    <2>1. PICK i \in 1..Len(q) : x = q[i]
      BY <1>1 DEF Elems
    <2>2. Len(p) + i \in 1..(Len(p) + Len(q))
      BY <1>1, <2>1
    <2> QED
      BY <1>1, <1>2, <2>1, <2>2 DEF Elems
  <1> QED
    BY <1>3, <1>4, <1>5

(* An element at the end.                                                  *)
LEMMA ElemsAppend ==
  ASSUME NEW S, NEW q \in Seq(S), NEW x \in S
  PROVE  Elems(Append(q, x)) = Elems(q) \cup {x}
  <1>1. <<x>> \in Seq(S) /\ Append(q, x) = q \o <<x>>
    OBVIOUS
  <1>2. DOMAIN <<x>> = 1..1 /\ <<x>>[1] = x
    <2>1. Len(<<x>>) = 1 /\ <<x>>[1] = x
      OBVIOUS
    <2>2. \A s \in Seq(S) : DOMAIN s = 1..Len(s)
      OBVIOUS
    <2> QED
      BY <1>1, <2>1, <2>2
  <1>3. Elems(<<x>>) = {x}
    BY <1>2 DEF Elems
  <1>4. Elems(q \o <<x>>) = Elems(q) \cup Elems(<<x>>)
    BY <1>1, ElemsConcat, ZenonT(60)
  <1> QED
    BY <1>1, <1>3, <1>4

(* The empty list.                                                         *)
LEMMA ElemsEmpty == Elems(<<>>) = {}
  BY DEF Elems
-----------------------------------------------------------------------------
(* The tree of directories.                                                *)
Closed(S) == \A e \in S : \A i \in DOMAIN Subdirs[e] : Subdirs[e][i] \in S

(* Below is the least closed set of directories.                           *)
LEMMA BelowLeast ==
  ASSUME NEW S \in SUBSET Dir, NEW R \in SUBSET S, Closed(S)
  PROVE  Below(R) \subseteq S
  BY DEF Below, Closed

(* Below has the directories it starts from, and their subdirectories.     *)
LEMMA BelowClosed ==
  ASSUME NEW R \in SUBSET Dir
  PROVE  Below(R) \subseteq Dir /\ R \subseteq Below(R) /\ Closed(Below(R))
  <1>1. Below(R) \subseteq Dir /\ R \subseteq Below(R)
    BY DEF Below
  <1>2. ASSUME NEW e \in Below(R), NEW i \in DOMAIN Subdirs[e]
        PROVE  Subdirs[e][i] \in Below(R)
    <2>1. Subdirs[e][i] \in Dir
      BY <1>1, ScanPipelineAssumption
    <2>2. ASSUME NEW S \in SUBSET Dir, R \subseteq S,
                 \A d \in S : \A j \in DOMAIN Subdirs[d] : Subdirs[d][j] \in S
          PROVE  Subdirs[e][i] \in S
      <3>1. e \in S
        BY <2>2 DEF Below
      <3> QED
        BY <2>2, <3>1
    <2> QED
      BY <2>1, <2>2 DEF Below
  <1> QED
    BY <1>1, <1>2 DEF Closed

(* What is below a set of directories is below one of them.                *)
LEMMA BelowUnion ==
  ASSUME NEW A \in SUBSET Dir, NEW B \in SUBSET Dir
  PROVE  Below(A \cup B) \subseteq Below(A) \cup Below(B)
  <1>1. /\ Below(A) \subseteq Dir /\ A \subseteq Below(A) /\ Closed(Below(A))
        /\ Below(B) \subseteq Dir /\ B \subseteq Below(B) /\ Closed(Below(B))
    BY BelowClosed
  <1>2. Closed(Below(A) \cup Below(B))
    BY <1>1 DEF Closed
  <1> QED
    BY <1>1, <1>2, BelowLeast

(* A directory that is entered leaves its subdirectories.                  *)
LEMMA BelowEntered ==
  ASSUME NEW h \in Dir, NEW T \in SUBSET Dir
  PROVE  Below({h} \cup T) \subseteq {h} \cup Below(Elems(Subdirs[h]) \cup T)
  <1> DEFINE R == Elems(Subdirs[h]) \cup T
  <1>1. R \in SUBSET Dir
    BY ScanPipelineAssumption DEF Elems
  <1>2. Below(R) \subseteq Dir /\ R \subseteq Below(R) /\ Closed(Below(R))
    BY <1>1, BelowClosed
  <1>3. Closed({h} \cup Below(R))
    BY <1>2 DEF Closed, Elems
  <1> QED
    BY <1>2, <1>3, BelowLeast

(* Below nothing is nothing.                                               *)
LEMMA BelowNothing == Below({}) = {}
  <1>1. Closed({})
    BY DEF Closed
  <1> QED
    BY <1>1, BelowLeast

(* Files of several directories.                                           *)
LEMMA FilesOf ==
  /\ FilesIn({}) = {}
  /\ \A A, B : FilesIn(A \cup B) = FilesIn(A) \cup FilesIn(B)
  /\ \A A, B : A \subseteq B => FilesIn(A) \subseteq FilesIn(B)
  /\ \A d : FilesIn({d}) \subseteq Elems(Files[d])
  BY DEF FilesIn, Elems
-----------------------------------------------------------------------------
(* Which steps change what the stages of a scan are told apart by.         *)
LEMMA StagesStep ==
  ASSUME TypeOK, AtHand, Stages, [Next]_vars PROVE Stages'
  <1> USE DEF object, progress, file, history, cache, span, walk, Stages
  <1>1. CASE UNCHANGED vars
    BY <1>1 DEF vars
  <1>2. CASE DoScan
    <2>1. CASE OpenCache \/ TruncateFails \/ OpenFails
      BY <2>1 DEF OpenCache, TruncateFails, OpenFails
    <2>2. CASE EnterDir \/ ReadEntry \/ LeaveDir \/ DirFails \/ SkipDir \/ Discovered
      BY <2>2 DEF EnterDir, ReadEntry, LeaveDir, DirFails, SkipDir, Discovered
    <2>3. CASE HashNext \/ GetFails \/ ScanNext \/ PutFails \/ SendNext \/ CountNext \/ TakeNext
      BY <2>3 DEF HashNext, GetFails, ScanNext, PutFails, SendNext, CountNext, TakeNext
    <2>4. CASE ScanAborted \/ ScanFinished
      BY <2>4 DEF ScanAborted, ScanFinished
    <2> QED
      BY <1>2, <2>1, <2>2, <2>3, <2>4 DEF DoScan
  <1>3. CASE Create
    BY <1>3 DEF Create, AtHand
  <1>4. CASE ScanBegin
    <2>1. scans \in Nat /\ scans' = scans + 1 /\ phase' = "init" /\ UNCHANGED dbp
      BY <1>4 DEF TypeOK, ScanBegin
    <2> QED
      BY <1>4, <2>1 DEF ScanBegin
  <1>5. CASE Abort \/ Deliver \/ (\E f \in File : ScanFile(f))
    BY <1>5 DEF Abort, Deliver, ScanFile
  <1>6. CASE Gone
    BY <1>6 DEF Gone
  <1>7. CASE \E f \in Good \cup Bad : Change(f)
    BY <1>7 DEF Change
  <1> QED
    BY <1>1, <1>2, <1>3, <1>4, <1>5, <1>6, <1>7
       DEF Next, Client, Destroy, Crash, Dies, Over

(* A result that is sent is told or queued.                                *)
LEMMA AccountSent ==
  ASSUME TypeOK, Accounted, NEW f \in File, NEW v \in Nat, SendResult(f, v)
  PROVE  Accounted'
  <1> DEFINE r == <<f, v>>
  <1>1. r \in File \X Nat /\ pending \in Seq(File \X Nat)
    BY DEF TypeOK
  <1>2. Elems(Append(pending, r)) = Elems(pending) \cup {r}
    BY <1>1, ElemsAppend, SMTT(60)
  <1>3. sent' = sent \cup {r} /\ lost' = lost
    BY DEF SendResult
  <1>4. \/ pending' = Append(pending, r) /\ told' = told
        \/ told' = told \cup {r} /\ pending' = pending
    BY DEF SendResult
  <1> HIDE DEF r
  <1> QED
    BY <1>2, <1>3, <1>4 DEF Accounted

(* A queue that is dropped is lost.                                        *)
LEMMA AccountDropped ==
  ASSUME Accounted, DropQueue, UNCHANGED <<sent, told>> PROVE Accounted'
  <1>1. lost' = lost \cup Elems(pending) /\ Elems(pending') = {}
    BY ElemsEmpty DEF DropQueue, Elems
  <1> QED
    BY <1>1 DEF Accounted

(* No result that was sent disappears.                                     *)
LEMMA AccountStep ==
  ASSUME TypeOK, AtHand, Accounted, [Next]_vars PROVE Accounted'
  <1> USE DEF object, progress, file, history, cache, span, walk
  <1>1. CASE UNCHANGED <<sent, told, lost, pending>>
    BY <1>1 DEF Accounted
  <1>2. CASE SendNext
    BY <1>2, FileAtHand, AccountSent DEF SendNext, TypeOK
  <1>3. CASE \E f \in File : ScanFile(f)
    <2>1. PICK f \in File : ScanFile(f)
      BY <1>3
    <2>2. fs[f] \in Nat
      BY DEF TypeOK
    <2> QED
      BY <2>1, <2>2, AccountSent DEF ScanFile
  <1>4. CASE ScanBegin
    <2>1. UNCHANGED <<sent, told>>
      BY <1>4 DEF ScanBegin
    <2>2. DropQueue \/ UNCHANGED <<pending, lost>>
      BY <1>4 DEF ScanBegin
    <2> QED
      BY <1>1, <2>1, <2>2, AccountDropped
  <1>5. CASE Gone
    BY <1>5, AccountDropped DEF Gone
  <1>6. CASE Deliver
    <2>1. Elems(pending) = {Head(pending)} \cup Elems(Tail(pending))
      BY <1>6, ElemsHead DEF TypeOK, Deliver
    <2> QED
      BY <1>6, <2>1 DEF Accounted, Deliver
  <1> QED
    BY <1>1, <1>2, <1>3, <1>4, <1>5, <1>6
       DEF Next, DoScan, Client, vars, OpenCache, TruncateFails, OpenFails, EnterDir, ReadEntry,
           LeaveDir, DirFails, SkipDir, Discovered, HashNext, GetFails, ScanNext, PutFails,
           CountNext, TakeNext, ScanAborted, ScanFinished, Create, Abort, Destroy, Crash, Dies,
           Change, Over

(* A new result is of the contents the file has.                           *)
LEMMA PastNew ==
  ASSUME TypeOK, HashOld, Past, NEW f \in File, Known' \subseteq Known \cup {<<f, fs[f]>>},
         UNCHANGED <<now, fs>>,
         \/ phase' # "send"
         \/ Head(fileq') = f /\ found' = fs[f]
  PROVE  Past'
  <1> DEFINE r == <<f, fs[f]>>
  <1>1. r[1] = f /\ r[2] = fs[f] /\ fs[f] <= now /\ fs[f] \in Nat
    BY DEF TypeOK, HashOld
  <1>2. Known' \subseteq Known \cup {r}
    OBVIOUS
  <1> HIDE DEF r
  <1>3. \A s \in Known' : s[2] <= now' /\ (fs'[s[1]] # 0 => s[2] <= fs'[s[1]])
    BY <1>1, <1>2 DEF Past
  <1> QED
    BY <1>3 DEF Past

(* Results are of the past.                                                *)
LEMMA PastStep ==
  ASSUME TypeOK, AtHand, HashOld, Past, [Next]_vars PROVE Past'
  <1> USE DEF object, progress, file, history, cache, span, walk
  <1>1. CASE /\ UNCHANGED <<now, fs, sent, unsent>>
             /\ \/ phase' # "send"
                \/ UNCHANGED <<phase, fileq, found, stable>>
    BY <1>1 DEF Past, Known, InHand
  <1>2. CASE ScanNext
    <2>1. Head(fileq) \in File /\ phase = "file"
      BY <1>2, FileAtHand DEF ScanNext
    <2>2. CASE CanScan(Head(fileq))
      <3>1. Known' = Known \cup {<<Head(fileq), fs[Head(fileq)]>>}
        BY <1>2, <2>2 DEF ScanNext, Known, InHand
      <3> QED
        BY <1>2, <2>1, <2>2, <3>1, PastNew DEF ScanNext
    <2> QED
      BY <1>1, <1>2, <2>2 DEF ScanNext
  <1>3. CASE PutFails
    <2>1. Head(fileq) \in File /\ phase = "file"
      BY <1>3, FileAtHand DEF PutFails
    <2>2. Known' = Known \cup {<<Head(fileq), fs[Head(fileq)]>>}
      BY <1>3 DEF PutFails, Known, InHand
    <2> QED
      BY <1>3, <2>1, <2>2, PastNew DEF PutFails
  <1>4. CASE SendNext
    <2>1. Known' = Known
      BY <1>4 DEF SendNext, SendResult, Known, InHand
    <2>2. UNCHANGED <<now, fs>> /\ phase' = "count"
      BY <1>4 DEF SendNext
    <2> QED
      BY <2>1, <2>2 DEF Past
  <1>5. CASE \E f \in File : ScanFile(f)
    <2>1. PICK f \in File : ScanFile(f)
      BY <1>5
    <2>2. Known' = Known \cup {<<f, fs[f]>>}
      BY <2>1 DEF ScanFile, Direct, SendResult, Known, InHand
    <2>3. UNCHANGED <<now, fs>> /\ phase' = "idle"
      BY <2>1 DEF ScanFile, Direct
    <2> QED
      BY <2>2, <2>3, PastNew
  <1>6. CASE Crash
    <2>1. UNCHANGED <<now, fs>> /\ phase' = "none"
      BY <1>6 DEF Crash, Dies, Gone
    <2>2. CASE Dies(db, InHand)
      <3>1. Known' \subseteq Known
        BY <2>2 DEF Dies, Gone, Known, InHand
      <3> QED
        BY <2>1, <3>1 DEF Past
    <2>3. CASE \E f \in File : Dies(Store(f, fs[f]), {<<f, fs[f]>>})
      <3>1. PICK f \in File : Dies(Store(f, fs[f]), {<<f, fs[f]>>})
        BY <2>3
      <3>2. Known' \subseteq Known \cup {<<f, fs[f]>>}
        BY <3>1 DEF Dies, Gone, Known, InHand
      <3> QED
        BY <2>1, <3>2, PastNew
    <2> QED
      BY <1>6, <2>2, <2>3 DEF Crash
  <1>7. CASE \E f \in Good \cup Bad : Change(f)
    <2>1. PICK f \in File : Change(f)
      BY <1>7, ScanPipelineAssumption
    <2>2. now \in Nat /\ now' = now + 1 /\ \A g \in File : fs'[g] \in {fs[g], 0, now + 1}
      BY <2>1 DEF TypeOK, Change
    <2>3. Known' = Known
      BY <2>1 DEF Change, Known, InHand
    <2>4. \A r \in Known : r[1] \in File /\ r[2] \in Nat
      <3>1. Known \subseteq File \X Nat
        BY FileAtHand DEF Known, TypeOK
      <3> QED
        BY <3>1
    <2>5. \A r \in Known : r[2] <= now' /\ (fs'[r[1]] # 0 => r[2] <= fs'[r[1]])
      BY <2>2, <2>4 DEF Past
    <2>6. /\ stable' = stable \ {f} /\ \A g \in File : g # f => fs'[g] = fs[g]
          /\ UNCHANGED <<phase, fileq, found>>
      BY <2>1 DEF TypeOK, Change
    <2>7. phase = "send" => Head(fileq) \in File
      BY FileAtHand
    <2> QED
      BY <2>3, <2>5, <2>6, <2>7 DEF Past
  <1>8. CASE ScanBegin
    BY <1>1, <1>8 DEF ScanBegin
  <1>9. CASE Destroy
    BY <1>1, <1>9 DEF Destroy, Gone
  <1>10. CASE Create \/ Abort \/ Deliver \/ Over \/ UNCHANGED vars
    BY <1>1, <1>10 DEF Create, Abort, Deliver, Over, vars
  <1>11. CASE OpenCache \/ TruncateFails \/ OpenFails \/ EnterDir \/ ReadEntry \/ LeaveDir \/ DirFails
    BY <1>1, <1>11 DEF OpenCache, TruncateFails, OpenFails, EnterDir, ReadEntry, LeaveDir, DirFails
  <1>12. CASE \/ SkipDir \/ Discovered \/ HashNext \/ GetFails \/ CountNext \/ TakeNext
              \/ ScanAborted \/ ScanFinished
    BY <1>1, <1>12 DEF SkipDir, Discovered, HashNext, GetFails, CountNext, TakeNext, ScanAborted,
                       ScanFinished
  <1> QED
    BY <1>2, <1>3, <1>4, <1>5, <1>6, <1>7, <1>8, <1>9, <1>10, <1>11, <1>12
       DEF Next, DoScan, Client

(* A scan that starts with an empty database puts into it only what it has *)
(* seen.                                                                   *)
LEMMA FreshStep ==
  ASSUME TypeOK, AtHand, Stages, FreshEntries, [Next]_vars PROVE FreshEntries'
  <1> USE DEF object, progress, file, history, cache, span, walk
  <1>1. CASE /\ UNCHANGED <<db, seen, dbp, flags, scans>> /\ excused \subseteq excused'
             /\ phase = "init" => phase' = "init" \/ ~dbp
             /\ phase = "send" => UNCHANGED <<phase, fileq>>
    BY <1>1 DEF FreshEntries, Fresh
  <1>2. CASE OpenCache
    BY <1>2 DEF OpenCache, Opened, OnceOpen, Zero, Stages, FreshEntries, Fresh
  <1>3. CASE TruncateFails
    BY <1>3 DEF TruncateFails, Fault, FreshEntries
  <1>4. ASSUME NEW f \in File, NEW v, SendResult(f, v), UNCHANGED <<dbp, flags, scans, excused>>,
               \A g \in File : g # f => db'[g] = db[g],
               phase # "init", phase = "send" => Head(fileq) = f
        PROVE  FreshEntries'
    <2>1. \A g \in File : seen[g] \in Nat /\ seen'[g] = IF g = f THEN seen[g] + 1 ELSE seen[g]
      BY <1>4, SendSeen
    <2> QED
      BY <1>4, <2>1 DEF FreshEntries, Fresh
  <1>5. CASE ScanNext
    <2>1. Head(fileq) \in File /\ phase = "file"
      BY <1>5, FileAtHand DEF ScanNext
    <2>2. CASE CanScan(Head(fileq))
      <3>1. \A g \in File : g # Head(fileq) => db'[g] = db[g]
        BY <1>5, <2>1, <2>2 DEF TypeOK, ScanNext, Store
      <3>2. phase' = "send" /\ UNCHANGED <<seen, dbp, flags, scans, excused, fileq>>
        BY <1>5, <2>2 DEF ScanNext
      <3> QED
        BY <2>1, <3>1, <3>2 DEF FreshEntries, Fresh
    <2>3. CASE ~CanScan(Head(fileq))
      BY <1>1, <1>5, <2>1, <2>3 DEF ScanNext
    <2> QED
      BY <2>2, <2>3
  <1>6. CASE PutFails
    BY <1>1, <1>6 DEF PutFails, Fault
  <1>7. CASE SendNext
    BY <1>4, <1>7, FileAtHand DEF SendNext
  <1>8. CASE \E f \in File : ScanFile(f)
    <2>1. PICK f \in File : ScanFile(f)
      BY <1>8
    <2>2. \A g \in File : g # f => db'[g] = db[g]
      BY <2>1 DEF TypeOK, ScanFile, Store
    <2> QED
      BY <1>4, <2>1, <2>2 DEF ScanFile, Direct
  <1>9. CASE ScanBegin
    BY <1>9 DEF ScanBegin, FreshEntries
  <1>10. CASE Create
    BY <1>10 DEF AtHand, Create, FreshEntries
  <1>11. CASE Gone
    BY <1>11 DEF Gone, FreshEntries
  <1>12. CASE OpenFails \/ EnterDir \/ ReadEntry \/ LeaveDir \/ DirFails \/ SkipDir \/ Discovered
    BY <1>1, <1>12 DEF OpenFails, EnterDir, ReadEntry, LeaveDir, DirFails, SkipDir, Discovered, Fault
  <1>13. CASE HashNext \/ GetFails \/ CountNext \/ TakeNext \/ ScanAborted \/ ScanFinished
    BY <1>1, <1>13 DEF HashNext, GetFails, CountNext, TakeNext, ScanAborted, ScanFinished, Fault
  <1>14. CASE \/ Abort \/ Deliver \/ (\E f \in Good \cup Bad : Change(f)) \/ Over
              \/ UNCHANGED vars
    BY <1>1, <1>14 DEF Abort, Deliver, Change, Over, vars
  <1> QED
    BY <1>2, <1>3, <1>5, <1>6, <1>7, <1>8, <1>9, <1>10, <1>11, <1>12, <1>13, <1>14
       DEF Next, DoScan, Client, Destroy, Crash, Dies
-----------------------------------------------------------------------------
(* A step keeps what is covered if each file that is due stays ahead or    *)
(* is seen to, and if no result is taken back.                             *)
LEMMA Covered ==
  ASSUME TypeOK, Coverage, Active' => Active, UNCHANGED <<flags, scans>>,
         sent \cup unsent \subseteq sent' \cup unsent', seen' \in [File -> Nat],
         \A f \in File : seen[f] > 0 => seen'[f] > 0,
         Active' => \A f \in Due' : /\ f \in Due /\ fs'[f] = fs[f]
                                    /\ f \in Ahead => f \in Ahead' \/ Told(f)'
  PROVE  Coverage'
  <1> SUFFICES ASSUME Active', NEW f \in Due'
               PROVE  f \in Ahead' \/ Told(f)'
    BY DEF Coverage
  <1>1. f \in File
    BY DEF Due, TypeOK
  <1>2. f \in Ahead \/ Told(f)
    BY DEF Coverage
  <1>3. Told(f) => Told(f)'
    BY <1>1 DEF Told, Fresh
  <1> QED
    BY <1>2, <1>3

(* The same for a step that only works on the lists.                       *)
LEMMA CoveredWalking ==
  ASSUME TypeOK, Coverage, Active' => Active, UNCHANGED <<flags, scans, fs, stable, sent, unsent, seen>>,
         excused \subseteq excused',
         Active' => \A f \in Due' : f \in Ahead => f \in Ahead' \/ Told(f)
  PROVE  Coverage'
  <1>1. \A f : f \in Due' => f \in Due
    BY DEF Due
  <1>2. \A f : Told(f)' <=> Told(f)
    BY DEF Told, Fresh
  <1>3. seen' \in [File -> Nat]
    BY DEF TypeOK
  <1> QED
    BY <1>1, <1>2, <1>3, Covered

(* The same for a step that sees to a file, if it does so with its present *)
(* contents.                                                               *)
LEMMA CoveredSending ==
  ASSUME TypeOK, Coverage, NEW f \in File, NEW v \in Nat, SendResult(f, v),
         f \in Due' => v = fs[f],
         UNCHANGED <<want, flags, scans, fs, stable, walk, fileq, ended>>,
         excused \subseteq excused', Active' => Active,
         \A g : g \in Ahead => g \in Ahead' \/ g = f
  PROVE  Coverage'
  <1>1. \A g \in File : seen[g] \in Nat /\ seen'[g] = IF g = f THEN seen[g] + 1 ELSE seen[g]
    BY SendSeen
  <1>2. seen' \in [File -> Nat] /\ sent \subseteq sent' /\ <<f, v>> \in sent' /\ UNCHANGED unsent
    BY SendType, SendClaims
  <1>3. f \in Due' => Told(f)'
    BY <1>1, <1>2 DEF Told
  <1>4. \A g : g \in Due' => g \in Due
    BY DEF Due
  <1> QED
    BY <1>1, <1>2, <1>3, <1>4, Covered

(* The walk: entering a directory, reading it and leaving it.              *)
LEMMA CoverageWalk ==
  ASSUME TypeOK, AtHand, Coverage, EnterDir \/ ReadEntry \/ LeaveDir PROVE Coverage'
  <1> USE DEF object, progress, file, history, cache, span, walk
  <1> DEFINE h == Head(todo)
  <1>0. todo # <<>> /\ todo \in Seq(Dir) /\ entry \in Nat /\ fileq \in Seq(Good \cup Bad)
    BY DEF TypeOK, AtHand, EnterDir, ReadEntry, LeaveDir
  <1>1. h \in Dir /\ Tail(todo) \in Seq(Dir) /\ Elems(todo) = {h} \cup Elems(Tail(todo))
    BY <1>0, TailType, ElemsHead
  <1>2. Files[h] \in Seq(File) /\ Subdirs[h] \in Seq(Dir)
    BY <1>1, ScanPipelineAssumption
  <1>3. Elems(Tail(todo)) \subseteq Dir
    BY <1>1 DEF Elems
  <1>4. /\ UNCHANGED <<flags, scans, fs, stable, sent, unsent, seen, excused, want, ended>>
        /\ Active' => Active
    <2>1. CASE EnterDir
      BY <2>1 DEF EnterDir, Active
    <2>2. CASE ReadEntry
      BY <2>2 DEF ReadEntry, Active
    <2>3. CASE LeaveDir
      BY <2>3 DEF LeaveDir, Active
    <2> QED
      BY <2>1, <2>2, <2>3
  <1>5. CASE EnterDir
    <2>1. Waiting = {h} \cup Elems(Tail(todo)) /\ Waiting' = Elems(Subdirs[h]) \cup Elems(Tail(todo))
      BY <1>1, <1>5 DEF EnterDir, Waiting
    <2>2. Unread' = Elems(Files[h])
      <3>1. DOMAIN Files[h] = 1..Len(Files[h]) /\ Len(Files[h]) \in Nat
        BY <1>2
      <3>2. {j \in DOMAIN Files[h] : j >= 1} = DOMAIN Files[h]
        BY <3>1
      <3> QED
        BY <1>5, <3>2 DEF EnterDir, Unread, Elems
    <2>3. Below(Waiting) \subseteq {h} \cup Below(Waiting')
      BY <1>1, <1>3, <2>1, BelowEntered
    <2>4. FilesIn(Below(Waiting)) \subseteq Elems(Files[h]) \cup FilesIn(Below(Waiting'))
      <3>1. FilesIn(Below(Waiting)) \subseteq FilesIn({h} \cup Below(Waiting'))
        BY <2>3, FilesOf, Zenon
      <3>2. FilesIn({h} \cup Below(Waiting')) = FilesIn({h}) \cup FilesIn(Below(Waiting'))
        BY FilesOf, Zenon
      <3>3. FilesIn({h}) \subseteq Elems(Files[h])
        BY FilesOf, Zenon
      <3> QED
        BY <3>1, <3>2, <3>3
    <2>5. Unread = {} /\ Queued' = Queued
      BY <1>5 DEF EnterDir, Unread, Queued
    <2>6. \A f : f \in Ahead => f \in Ahead'
      BY <2>2, <2>4, <2>5 DEF Ahead
    <2> QED
      BY <1>4, <2>6, CoveredWalking
  <1>6. CASE ReadEntry
    <2> DEFINE g == Files[h][entry]
    <2>1. Waiting' = Waiting /\ phase = "readdir" /\ phase' = "readdir" /\ entry' = entry + 1
      BY <1>6 DEF ReadEntry, Waiting
    <2>2. entry \in 1..Len(Files[h]) /\ DOMAIN Files[h] = 1..Len(Files[h]) /\ Len(Files[h]) \in Nat
      BY <1>0, <1>2, <1>6 DEF ReadEntry, AtHand
    <2>3. Unread \subseteq {g} \cup Unread'
      <3>1. \A j \in DOMAIN Files[h] : j >= entry => j = entry \/ j >= entry + 1
        BY <1>0, <2>2
      <3>2. Unread = {Files[h][i] : i \in {j \in DOMAIN Files[h] : j >= entry}}
        BY <2>1 DEF Unread
      <3>3. Unread' = {Files[h][i] : i \in {j \in DOMAIN Files[h] : j >= entry + 1}}
        BY <1>6, <2>1 DEF ReadEntry, Unread
      <3> QED
        BY <3>1, <3>2, <3>3
    <2>4. Queued \subseteq Queued'
      <3>1. ASSUME g \in Good \cup Bad, fileq' = Append(fileq, g) PROVE Queued' = Queued \cup {g}
        <4>1. Elems(Append(fileq, g)) = Elems(fileq) \cup {g}
          BY <1>0, <3>1, ElemsAppend
        <4> QED
          BY <2>1, <3>1, <4>1 DEF Queued
      <3>2. \/ g \in Good \cup Bad /\ fileq' = Append(fileq, g)
            \/ fileq' = fileq
        BY <1>6 DEF ReadEntry, ShouldScan
      <3> QED
        BY <2>1, <3>1, <3>2 DEF Queued
    <2>5. g \in Due' => g \in Queued'
      <3>1. g \in Due' => g \in Good /\ fs[g] # 0
        BY <1>4 DEF Due
      <3>2. g \in Due' => fileq' = Append(fileq, g)
        BY <1>6, <3>1 DEF ReadEntry, ShouldScan
      <3>3. g \in Good => Elems(Append(fileq, g)) = Elems(fileq) \cup {g}
        BY <1>0, ElemsAppend
      <3> QED
        BY <2>1, <3>1, <3>2, <3>3 DEF Queued
    <2>6. \A f \in Due' : f \in Ahead => f \in Ahead'
      BY <2>1, <2>3, <2>4, <2>5 DEF Ahead
    <2> QED
      BY <1>4, <2>6, CoveredWalking
  <1>7. CASE LeaveDir
    <2>1. Active' => ~want
      BY <1>4 DEF Active
    <2>2. ~want => Unread = {}
      <3>1. ~want => entry > Len(Files[h]) /\ phase = "readdir"
        BY <1>7 DEF LeaveDir
      <3>2. DOMAIN Files[h] = 1..Len(Files[h]) /\ Len(Files[h]) \in Nat
        BY <1>2
      <3> QED
        BY <1>0, <3>1, <3>2 DEF Unread
    <2>3. ~want => Waiting' = Waiting
      <3>1. \A p, q \in Seq(Dir) : Elems(p \o q) = Elems(p) \cup Elems(q)
        BY ElemsConcat
      <3>2. Elems(Subdirs[h] \o Tail(todo)) = Elems(Subdirs[h]) \cup Elems(Tail(todo))
        BY <1>1, <1>2, <3>1, Zenon
      <3> QED
        BY <1>7, <3>2 DEF LeaveDir, Waiting
    <2>4. Queued' = Queued
      BY <1>7 DEF LeaveDir, Queued
    <2>5. Active' => \A f : f \in Ahead => f \in Ahead'
      BY <2>1, <2>2, <2>3, <2>4 DEF Ahead
    <2> QED
      BY <1>4, <2>5, CoveredWalking
  <1> QED
    BY <1>5, <1>6, <1>7

(* A directory that cannot be read excuses the files below it.             *)
LEMMA CoverageDirFails ==
  ASSUME TypeOK, AtHand, Coverage, DirFails PROVE Coverage'
  <1> USE DEF object, progress, file, history, cache, span, walk
  <1> DEFINE h == Head(todo)
  <1>1. h \in Dir /\ Tail(todo) \in Seq(Dir) /\ Elems(todo) = {h} \cup Elems(Tail(todo))
    BY TailType, ElemsHead DEF TypeOK, DirFails
  <1>2. Waiting = {h} \cup Elems(Tail(todo)) /\ Waiting' = Elems(Tail(todo))
    BY <1>1 DEF DirFails, Waiting
  <1>3. Below(Waiting) \subseteq Below({h}) \cup Below(Waiting')
    <2>1. {h} \subseteq Dir /\ Elems(Tail(todo)) \subseteq Dir
      BY <1>1 DEF Elems
    <2> QED
      BY <1>2, <2>1, BelowUnion
  <1>4. FilesIn(Below(Waiting)) \subseteq FilesIn(Below({h})) \cup FilesIn(Below(Waiting'))
    <2>1. FilesIn(Below(Waiting)) \subseteq FilesIn(Below({h}) \cup Below(Waiting'))
      BY <1>3, FilesOf, Zenon
    <2>2. FilesIn(Below({h}) \cup Below(Waiting')) = FilesIn(Below({h})) \cup FilesIn(Below(Waiting'))
      BY FilesOf, Zenon
    <2> QED
      BY <2>1, <2>2
  <1>5. excused' = excused \cup FilesIn(Below({h})) /\ Unread = {} /\ Queued' = Queued
    BY DEF DirFails, Fault, Unread, Queued
  <1>6. \A f \in Due' : f \in Ahead => f \in Ahead'
    BY <1>4, <1>5 DEF Ahead, Due
  <1>7. /\ UNCHANGED <<flags, scans, fs, stable, sent, unsent, seen>> /\ excused \subseteq excused'
        /\ Active' => Active
    BY <1>5 DEF DirFails, Fault, Active
  <1> QED
    BY <1>6, <1>7, CoveredWalking

(* A file that is skipped is missing, was told already, or is excused.     *)
LEMMA CoverageHash ==
  ASSUME TypeOK, AtHand, Claimed(db), Past, FreshEntries, Coverage, HashNext \/ GetFails
  PROVE  Coverage'
  <1> USE DEF object, progress, file, history, cache, span, walk
  <1> DEFINE f == Head(fileq)
  <1>1. f \in File /\ Elems(fileq) = {f} \cup Elems(Tail(fileq))
    <2>1. fileq \in Seq(Good \cup Bad) /\ fileq # <<>>
      BY DEF TypeOK, HashNext, GetFails
    <2> QED
      BY <2>1, TailType, ElemsHead, ScanPipelineAssumption
  <1>2. /\ phase = "scan" /\ phase' \in {"count", "file"}
        /\ UNCHANGED <<flags, scans, fs, stable, sent, unsent, seen, todo, entry, fileq, want, ended>>
        /\ excused \subseteq excused'
    BY DEF HashNext, GetFails, Fault
  <1>3. Active' => Active
    BY <1>2 DEF Active
  <1>4. Waiting' = Waiting /\ Unread' = Unread
    BY <1>2 DEF Waiting, Unread
  <1>5. Queued \subseteq {f} \cup Queued' /\ (phase' = "file" => Queued' = Queued)
    BY <1>1, <1>2 DEF Queued
  <1>6. ASSUME Cached(f, fs[f]), fs[f] # 0, f \notin excused PROVE Told(f)
    <2>1. dbp /\ db[f] = fs[f]
      BY <1>6 DEF Cached
    <2>2. PICK r \in sent \cup unsent : r[1] = f /\ r[2] >= db[f]
      BY <1>1, <1>2, <1>6, <2>1 DEF Claimed, Backed, Known, InHand
    <2>3. r \in File \X Nat /\ fs[f] \in Nat
      BY <1>1 DEF TypeOK
    <2>4. r[2] = fs[f]
      BY <1>6, <2>1, <2>2, <2>3 DEF Past, Known
    <2>5. r = <<f, fs[f]>>
      BY <2>2, <2>3, <2>4
    <2>6. Fresh => seen[f] > 0
      BY <1>1, <1>2, <1>6, <2>1 DEF FreshEntries
    <2> QED
      BY <2>2, <2>5, <2>6 DEF Told
  <1>7. f \in Due' => phase' = "file" \/ Told(f)
    <2>1. CASE HashNext
      BY <1>2, <1>6, <2>1 DEF HashNext, Due
    <2>2. CASE GetFails
      BY <2>2 DEF GetFails, Fault, Due
    <2> QED
      BY <2>1, <2>2
  <1>8. \A g \in Due' : g \in Ahead => g \in Ahead' \/ Told(g)
    BY <1>4, <1>5, <1>7 DEF Ahead
  <1> QED
    BY <1>2, <1>3, <1>8, CoveredWalking

(* A file that is scanned has its result in hand, or cannot have one.      *)
LEMMA CoverageScan ==
  ASSUME TypeOK, AtHand, Coverage, ScanNext \/ PutFails PROVE Coverage'
  <1> USE DEF object, progress, file, history, cache, span, walk
  <1> DEFINE f == Head(fileq)
  <1>1. /\ phase = "file" /\ phase' \in {"send", "count"}
        /\ UNCHANGED <<flags, scans, fs, stable, sent, unsent, seen, todo, entry, fileq, want, ended>>
        /\ excused \subseteq excused'
    BY DEF ScanNext, PutFails, Fault
  <1>2. Elems(fileq) = {f} \cup Elems(Tail(fileq))
    BY <1>1, ElemsHead DEF TypeOK, AtHand
  <1>3. Active' => Active
    BY <1>1 DEF Active
  <1>4. /\ Waiting' = Waiting /\ Unread' = Unread /\ Queued \subseteq {f} \cup Queued'
        /\ phase' = "send" => Queued' = Queued
    BY <1>1, <1>2 DEF Waiting, Unread, Queued
  <1>5. f \in Due' => phase' = "send"
    BY <1>1 DEF ScanNext, PutFails, Due, CanScan
  <1>6. \A g \in Due' : g \in Ahead => g \in Ahead'
    BY <1>4, <1>5 DEF Ahead
  <1> QED
    BY <1>1, <1>3, <1>6, CoveredWalking

(* Then the result is sent.                                                *)
LEMMA CoverageSend ==
  ASSUME TypeOK, AtHand, Past, Coverage, SendNext PROVE Coverage'
  <1> USE DEF object, progress, file, history, cache, span, walk
  <1> DEFINE f == Head(fileq)
  <1>1. f \in File /\ Elems(fileq) = {f} \cup Elems(Tail(fileq)) /\ found \in Nat
    BY FileAtHand, ElemsHead DEF TypeOK, AtHand, SendNext
  <1>2. /\ phase = "send" /\ phase' = "count"
        /\ UNCHANGED <<flags, scans, fs, stable, excused, walk, todo, entry, fileq, want, ended>>
    BY DEF SendNext
  <1>3. Active' => Active
    BY <1>2 DEF Active
  <1>4. Waiting' = Waiting /\ Unread' = Unread /\ Queued = {f} \cup Queued'
    BY <1>1, <1>2 DEF Waiting, Unread, Queued
  <1>5. \A g : g \in Ahead => g \in Ahead' \/ g = f
    BY <1>4 DEF Ahead
  <1>6. f \in Due' => found = fs[f]
    BY <1>2 DEF Due, Past
  <1> QED
    BY <1>1, <1>2, <1>3, <1>5, <1>6, CoveredSending DEF SendNext

(* A change takes the file out of what is due.                             *)
LEMMA CoverageChange ==
  ASSUME TypeOK, Coverage, NEW f \in File, Change(f) PROVE Coverage'
  <1> USE DEF object, progress, file, history, cache, span, walk
  <1>1. /\ UNCHANGED <<flags, scans, sent, unsent, seen, want, phase, ended, todo, entry, fileq, excused>>
        /\ stable' = stable \ {f} /\ \A g \in File : g # f => fs'[g] = fs[g]
    BY DEF TypeOK, Change
  <1>2. (Active' => Active) /\ Ahead' = Ahead
    BY <1>1 DEF Active, Ahead, Waiting, Unread, Queued
  <1>3. \A g \in Due' : g \in Due /\ fs'[g] = fs[g]
    <2>1. \A g \in Due' : g \in File /\ g # f
      BY <1>1 DEF TypeOK, Due
    <2> QED
      BY <1>1, <2>1 DEF Due
  <1>4. seen' \in [File -> Nat]
    BY <1>1 DEF TypeOK
  <1> QED
    BY <1>1, <1>2, <1>3, <1>4, Covered

(* What is due at the beginning lies below the roots; from then on nothing *)
(* is left out.                                                            *)
LEMMA CoverageStep ==
  ASSUME IInv, Stages, Past, FreshEntries, Coverage, [Next]_vars PROVE Coverage'
  <1> USE DEF object, progress, file, history, cache, span, walk
  <1>0. TypeOK /\ AtHand /\ Claimed(db)
    BY DEF IInv
  <1>1. CASE ~Active'
    BY <1>1 DEF Coverage
  <1>2. CASE UNCHANGED <<phase, want, ended, flags, scans, fs, stable, sent, unsent, seen, excused,
                         todo, entry, fileq>>
    <2>1. (Active' => Active) /\ Ahead' = Ahead
      BY <1>2 DEF Active, Ahead, Waiting, Unread, Queued
    <2> QED
      BY <1>0, <1>2, <2>1, CoveredWalking
  <1>3. CASE OpenCache
    <2>1. Due' \subseteq FilesIn(Below(Elems(Roots)))
      BY DEF Due, Elems
    <2>2. Waiting' = Elems(Roots)
      BY <1>3 DEF OpenCache, Waiting
    <2> QED
      BY <2>1, <2>2 DEF Coverage, Ahead
  <1>13. CASE TruncateFails
    <2>1. excused' = excused \cup File
      BY <1>13 DEF TruncateFails, Fault
    <2>2. Due' = {}
      BY <2>1 DEF Due, FilesIn
    <2> QED
      BY <2>2 DEF Coverage
  <1>4. CASE EnterDir \/ ReadEntry \/ LeaveDir
    BY <1>0, <1>4, CoverageWalk
  <1>5. CASE DirFails
    BY <1>0, <1>5, CoverageDirFails
  <1>6. CASE HashNext \/ GetFails
    BY <1>0, <1>6, CoverageHash
  <1>7. CASE ScanNext \/ PutFails
    BY <1>0, <1>7, CoverageScan
  <1>14. CASE SendNext
    BY <1>0, <1>14, CoverageSend
  <1>8. CASE CountNext \/ TakeNext
    <2>1. Queued = Elems(Tail(fileq)) /\ Queued' = Elems(Tail(fileq))
      BY <1>8 DEF CountNext, TakeNext, Queued
    <2>2. Waiting' = Waiting /\ Unread' = Unread /\ (Active' => Active)
      BY <1>8 DEF CountNext, TakeNext, Waiting, Unread, Active
    <2>3. Ahead' = Ahead /\ UNCHANGED <<flags, scans, fs, stable, sent, unsent, seen, excused>>
      BY <1>8, <2>1, <2>2 DEF Ahead, CountNext, TakeNext
    <2> QED
      BY <1>0, <2>2, <2>3, CoveredWalking
  <1>9. CASE Discovered \/ ScanFinished
    <2>1. Ahead' = Ahead /\ (Active' => Active)
      BY <1>9 DEF Discovered, ScanFinished, Ahead, Waiting, Unread, Queued, Active
    <2>2. UNCHANGED <<flags, scans, fs, stable, sent, unsent, seen, excused>>
      BY <1>9 DEF Discovered, ScanFinished
    <2> QED
      BY <1>0, <2>1, <2>2, CoveredWalking
  <1>10. CASE \E f \in File : ScanFile(f)
    <2>1. PICK f \in File : ScanFile(f)
      BY <1>10
    <2>2. UNCHANGED <<want, flags, scans, fs, stable, walk, fileq, ended, phase, excused>>
      BY <2>1 DEF ScanFile
    <2>3. (Active' => Active) /\ Ahead' = Ahead
      BY <2>2 DEF Active, Ahead, Waiting, Unread, Queued
    <2>4. SendResult(f, fs[f]) /\ fs[f] \in Nat
      BY <1>0, <2>1 DEF ScanFile, TypeOK
    <2> QED
      BY <1>0, <2>2, <2>3, <2>4, CoveredSending
  <1>11. CASE \E f \in Good \cup Bad : Change(f)
    BY <1>0, <1>11, CoverageChange, ScanPipelineAssumption
  <1>12. CASE OpenFails \/ SkipDir \/ ScanAborted \/ Create \/ ScanBegin \/ Abort \/ Gone
    <2>1. ~Active'
      BY <1>12 DEF OpenFails, SkipDir, ScanAborted, Create, ScanBegin, Abort, Gone, Active, Stages
    <2> QED
      BY <1>1, <2>1
  <1> QED
    BY <1>2, <1>3, <1>4, <1>5, <1>6, <1>7, <1>8, <1>9, <1>10, <1>11, <1>12, <1>13, <1>14
       DEF Next, DoScan, Client, vars, Deliver, Destroy, Crash, Dies, Over
-----------------------------------------------------------------------------
(* Initially there is no object.                                           *)
LEMMA InitCInv == ASSUME Init PROVE CInv
  <1>1. Stages /\ FreshEntries /\ Coverage
    BY DEF Init, Stages, FreshEntries, Coverage, Active
  <1>2. Accounted /\ Past
    BY ElemsEmpty DEF Init, Accounted, Past, Known, InHand
  <1> QED
    BY <1>1, <1>2, InitIInv DEF CInv

(* Every step keeps the strengthening.                                     *)
LEMMA StepCInv == ASSUME CInv, [Next]_vars PROVE CInv'
  <1>1. TypeOK /\ AtHand /\ HashOld
    BY DEF CInv, IInv
  <1>2. IInv'
    BY StepIInv DEF CInv
  <1>3. Stages' /\ Accounted' /\ Past' /\ FreshEntries'
    BY <1>1, StagesStep, AccountStep, PastStep, FreshStep DEF CInv
  <1>4. Coverage'
    BY CoverageStep DEF CInv
  <1> QED
    BY <1>2, <1>3, <1>4 DEF CInv

(* When a scan has finished nothing is ahead of it.                        *)
LEMMA NothingAhead ==
  ASSUME CInv, Complete PROVE \A f \in Due : Told(f)
  <1>1. Active /\ phase = "idle" /\ todo = <<>> /\ fileq = <<>>
    BY DEF CInv, Stages, Complete, Active
  <1>2. Waiting = {} /\ Unread = {} /\ Queued = {}
    BY <1>1, ElemsEmpty DEF Waiting, Unread, Queued
  <1>3. Ahead = {}
    BY <1>2, BelowNothing, FilesOf DEF Ahead
  <1> QED
    BY <1>1, <1>3 DEF CInv, Coverage

(* That nothing is left out is inductive.                                  *)
THEOREM CoverageInductive == Spec => []CInv
  BY InitCInv, StepCInv, PTL DEF Spec

(* When a scan has finished, the client has been told of the present       *)
(* contents of every file it could reach, or gave up the queue they were   *)
(* in, or ended between the put and the callback of a scan before,         *)
(* whatever else is in the cache from scans, objects and crashes before.   *)
THEOREM ScanMissesNothing == Spec => []NothingMissed
  <1>1. CInv => NothingMissed
    <2> SUFFICES ASSUME CInv, Complete, pending = <<>>, NEW f \in Due
                 PROVE  <<f, fs[f]>> \in told \cup lost \cup unsent
      BY DEF NothingMissed
    <2>1. <<f, fs[f]>> \in sent \cup unsent
      BY NothingAhead DEF Told
    <2> QED
      BY <2>1, ElemsEmpty DEF CInv, Accounted
  <1> QED
    BY <1>1, CoverageInductive, PTL

(* A full scan with a new object, or one that clears the database, scans   *)
(* every file itself.                                                      *)
THEOREM FullScanIsFull == Spec => []FreshFullScan
  <1>1. CInv => FreshFullScan
    BY NothingAhead DEF FreshFullScan, Told, Fresh
  <1> QED
    BY <1>1, CoverageInductive, PTL
=============================================================================
