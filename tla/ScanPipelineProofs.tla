------------------------- MODULE ScanPipelineProofs -------------------------
(***************************************************************************)
(* Theorems about ScanPipeline: its type invariant, ProgressExact,         *)
(* CacheNeverAhead and ReportedOnce hold for every set of files and        *)
(* directories, and every number of scans, objects, changes and faults.    *)
(***************************************************************************)
EXTENDS ScanPipeline, TLAPS

-----------------------------------------------------------------------------
(* The strengthening: what is known of each place in do_scan.              *)

(* Where a directory or a file is at hand, there is one; without an object *)
(* no database is open.                                                    *)
AtHand ==
  /\ phase = "none" => ~dbp
  /\ phase = "readdir" => todo # <<>> /\ entry >= 1
  /\ phase \in {"file", "send", "count", "counted"} => fileq # <<>>

(* Versions are times of the past, and a file that is scanned has not gone *)
(* back behind what HashFile saw of it.                                    *)
HashOld ==
  /\ \A f \in File : fs[f] <= now
  /\ hash <= now
  /\ phase = "file" => fs[Head(fileq)] = 0 \/ hash <= fs[Head(fileq)]

(* What a database claims is known to have been sent, to be in hand, or to *)
(* have been lost in a crash.                                              *)
Known == sent \cup unsent \cup InHand
Backed(d, results) == \A f \in File : d[f] # 0 => \E r \in results : r[1] = f /\ r[2] >= d[f]
Claimed(d) == Backed(d, Known)

(* The scan uses the cache to tell what it has reported.                   *)
Caching == dbp /\ flags \cap {"MS_RESCAN", "MS_FULL_SCAN"} # {}

(* A file that was reported and has not changed is in the database, and is *)
(* not scanned again; nothing is reported before the database is open.     *)
Reported ==
  /\ phase = "init" => seen = Zero
  /\ Caching => \A f \in stable \ excused :
       /\ seen[f] <= 1
       /\ seen[f] # 0 => db[f] = fs[f]
       /\ phase = "file" /\ Head(fileq) = f => seen[f] = 0 /\ hash = fs[f]
       /\ phase = "send" /\ Head(fileq) = f => seen[f] = 0 /\ db[f] = fs[f]

IInv ==
  /\ TypeOK /\ AtHand /\ HashOld
  /\ ProgressExact /\ Claimed(db) /\ Claimed(disk) /\ Reported
-----------------------------------------------------------------------------
(* Types.  A result that is sent keeps those of the history.               *)
LEMMA SendType ==
  ASSUME TypeOK, NEW f \in File, NEW v \in Nat, SendResult(f, v)
  PROVE  /\ sent' \subseteq File \X Nat /\ told' \subseteq File \X Nat
         /\ lost' \subseteq File \X Nat /\ unsent' \subseteq File \X Nat
         /\ pending' \in Seq(File \X Nat) /\ seen' \in [File -> Nat]
  <1>1. <<f, v>> \in File \X Nat
    OBVIOUS
  <1>2. Append(pending, <<f, v>>) \in Seq(File \X Nat)
    BY <1>1 DEF TypeOK
  <1>3. [seen EXCEPT ![f] = @ + 1] \in [File -> Nat]
    BY DEF TypeOK
  <1> QED
    BY <1>1, <1>2, <1>3 DEF TypeOK, SendResult

(* Neither does giving up a queue.                                         *)
LEMMA DropType ==
  ASSUME TypeOK, DropQueue
  PROVE  pending' \in Seq(File \X Nat) /\ lost' \subseteq File \X Nat
  <1>1. \A i \in DOMAIN pending : pending[i] \in File \X Nat
    BY DEF TypeOK
  <1>2. <<>> \in Seq(File \X Nat)
    OBVIOUS
  <1> QED
    BY <1>1, <1>2 DEF TypeOK, DropQueue

(* The end of the object leaves every variable in its type.                *)
LEMMA GoneType ==
  ASSUME TypeOK, Gone, db' \in [File -> Nat], disk' \in [File -> Nat], faults' \in 0..MaxFaults,
         unsent' \subseteq File \X Nat
  PROVE  TypeOK'
  <1>1. pending' \in Seq(File \X Nat) /\ lost' \subseteq File \X Nat
    BY DropType DEF Gone
  <1>2. <<>> \in Seq(Dir) /\ <<>> \in Seq(Good \cup Bad) /\ Zero \in [File -> Nat]
    BY DEF Zero
  <1> QED
    BY <1>1, <1>2 DEF TypeOK, Gone

(* A fault is counted within its bound.                                    *)
LEMMA FaultType ==
  ASSUME TypeOK, NEW F \in SUBSET File, Fault(F)
  PROVE  faults' \in 0..MaxFaults /\ excused' \subseteq File /\ stable' \subseteq File
  BY ScanPipelineAssumption DEF TypeOK, Fault

(* What the database is when it could not be emptied, or the process       *)
(* ended.                                                                  *)
LEMMA KeptType ==
  ASSUME NEW d \in [File -> Nat], NEW e \in [File -> Nat], NEW kept
  PROVE  [f \in File |-> IF f \in kept THEN d[f] ELSE e[f]] \in [File -> Nat]
  OBVIOUS

(* What is taken off a list leaves a list.                                 *)
LEMMA TailType ==
  ASSUME NEW S, NEW q \in Seq(S), q # <<>>
  PROVE  Head(q) \in S /\ Tail(q) \in Seq(S) /\ Len(Tail(q)) = Len(q) - 1 /\ Len(q) > 0
  OBVIOUS

(* The file at hand is a file, and so is that of the result in hand.       *)
LEMMA FileAtHand ==
  ASSUME TypeOK, AtHand
  PROVE  /\ phase \in {"file", "send", "count", "counted"} => Head(fileq) \in File
         /\ InHand \subseteq File \X Nat
  <1>1. ASSUME fileq # <<>> PROVE Head(fileq) \in File
    BY <1>1, TailType, ScanPipelineAssumption DEF TypeOK
  <1> QED
    BY <1>1 DEF TypeOK, AtHand, InHand

(* The end of the process leaves every variable in its type.               *)
LEMMA DiesType ==
  ASSUME TypeOK, NEW d \in [File -> Nat], NEW H \in SUBSET (File \X Nat), Dies(d, H)
  PROVE  TypeOK'
  <1>1. PICK kept : db' = [f \in File |-> IF f \in kept THEN d[f] ELSE disk[f]]
    BY DEF Dies
  <1>2. db' \in [File -> Nat] /\ disk' \in [File -> Nat]
    BY <1>1, KeptType DEF TypeOK, Dies
  <1>3. faults' \in 0..MaxFaults /\ unsent' \subseteq File \X Nat
    BY ScanPipelineAssumption DEF TypeOK, Dies
  <1> QED
    BY <1>2, <1>3, GoneType DEF Dies

(* A step keeps every variable in its type, and what is at hand.           *)
LEMMA TypeStep == ASSUME TypeOK, AtHand, [Next]_vars PROVE TypeOK' /\ AtHand'
  <1> USE ScanPipelineAssumption DEF object, progress, file, history, cache, span, walk
  <1>1. CASE UNCHANGED vars
    <2>1. TypeOK'
      BY <1>1, ZenonT(30) DEF TypeOK, vars
    <2>2. AtHand'
      BY <1>1 DEF AtHand, vars
    <2> QED
      BY <2>1, <2>2
  <1>2. CASE OpenCache
    <2>1. db' \in [File -> Nat]
      BY <1>2 DEF TypeOK, OpenCache, Opened, OnceOpen, Zero
    <2> QED
      BY <1>2, <2>1 DEF TypeOK, AtHand, OpenCache
  <1>3. CASE OpenFails
    BY <1>3 DEF TypeOK, AtHand, OpenFails
  <1>4. CASE EnterDir
    <2>1. TypeOK'
      BY <1>4 DEF TypeOK, EnterDir
    <2>2. AtHand'
      BY <1>4 DEF AtHand, EnterDir
    <2> QED
      BY <2>1, <2>2
  <1>5. CASE ReadEntry
    <2>1. entry + 1 \in Nat /\ entry + 1 >= 1 /\ total + 1 \in Nat
      BY DEF TypeOK
    <2>2. fileq' \in Seq(Good \cup Bad) /\ total' \in Nat
      <3>1. CASE UNCHANGED <<fileq, total>>
        BY <3>1 DEF TypeOK
      <3>2. CASE \E f \in Good \cup Bad : fileq' = Append(fileq, f) /\ total' = total + 1
        BY <2>1, <3>2 DEF TypeOK
      <3> DEFINE f == Files[Head(todo)][entry]
      <3>3. \/ f \in Good \cup Bad /\ fileq' = Append(fileq, f) /\ total' = total + 1
            \/ UNCHANGED <<fileq, total>>
        BY <1>5 DEF ReadEntry, ShouldScan
      <3> HIDE DEF f
      <3> QED
        BY <3>1, <3>2, <3>3
    <2> QED
      BY <1>5, <2>1, <2>2 DEF TypeOK, AtHand, ReadEntry
  <1>6. CASE LeaveDir
    <2>1. todo \in Seq(Dir) /\ todo # <<>>
      BY <1>6 DEF TypeOK, AtHand, LeaveDir
    <2>2. Head(todo) \in Dir /\ Tail(todo) \in Seq(Dir)
      BY <2>1, TailType
    <2>3. Subdirs[Head(todo)] \in Seq(Dir) /\ <<>> \in Seq(Dir)
      BY <2>2
    <2>4. todo' \in Seq(Dir)
      BY <1>6, <2>2, <2>3 DEF LeaveDir
    <2> QED
      BY <1>6, <2>4 DEF TypeOK, AtHand, LeaveDir
  <1>7. CASE DirFails
    <2>1. Tail(todo) \in Seq(Dir)
      BY <1>7, TailType DEF TypeOK, DirFails
    <2>2. FilesIn(Below({Head(todo)})) \subseteq File
      BY DEF FilesIn
    <2>3. faults' \in 0..MaxFaults /\ excused' \subseteq File /\ stable' \subseteq File
      BY <1>7, <2>2, FaultType DEF DirFails
    <2> QED
      BY <1>7, <2>1, <2>3 DEF TypeOK, AtHand, DirFails
  <1>8. CASE SkipDir
    <2>1. Tail(todo) \in Seq(Dir)
      BY <1>8, TailType DEF TypeOK, SkipDir
    <2> QED
      BY <1>8, <2>1 DEF TypeOK, AtHand, SkipDir
  <1>9. CASE Discovered
    BY <1>9 DEF TypeOK, AtHand, Discovered
  <1>10. CASE HashNext
    <2>1. Head(fileq) \in File
      BY <1>10, TailType DEF TypeOK, HashNext
    <2> QED
      BY <1>10, <2>1 DEF TypeOK, AtHand, HashNext
  <1>11. CASE GetFails
    <2>1. Head(fileq) \in File
      BY <1>11, TailType DEF TypeOK, GetFails
    <2>2. faults' \in 0..MaxFaults /\ excused' \subseteq File /\ stable' \subseteq File
      BY <1>11, <2>1, FaultType DEF GetFails
    <2> QED
      BY <1>11, <2>1, <2>2 DEF TypeOK, AtHand, GetFails
  <1>12. CASE ScanNext
    <2>1. Head(fileq) \in File
      BY <1>12, FileAtHand DEF ScanNext
    <2>2. db' \in [File -> Nat] /\ found' \in Nat
      <3>1. [db EXCEPT ![Head(fileq)] = hash] \in [File -> Nat] /\ fs[Head(fileq)] \in Nat
        BY <2>1 DEF TypeOK
      <3>2. Store(Head(fileq), hash) \in [File -> Nat]
        BY <3>1 DEF TypeOK, Store
      <3>3. db' \in {db, Store(Head(fileq), hash)} /\ found' \in {found, fs[Head(fileq)]}
        BY <1>12 DEF ScanNext
      <3> QED
        BY <3>1, <3>2, <3>3 DEF TypeOK
    <2>3. phase' \in {"send", "count"} /\ fileq # <<>>
      BY <1>12 DEF ScanNext, AtHand
    <2>4. UNCHANGED <<now, fs, disk, dbp, want, walk, fileq, hash, progress, object, ended, asked,
                      span, history>>
      BY <1>12 DEF ScanNext
    <2>5. TypeOK'
      <3>1. phase' \in {"none", "idle", "init", "discover", "readdir", "scan", "file", "send",
                        "count", "counted"}
        BY <2>3
      <3> QED
        BY <2>2, <2>4, <3>1, Zenon DEF TypeOK
    <2>6. AtHand'
      BY <1>12, <2>3, <2>4 DEF AtHand, ScanNext
    <2> QED
      BY <2>5, <2>6
  <1>13. CASE PutFails
    <2>1. Head(fileq) \in File
      BY <1>13, FileAtHand DEF PutFails
    <2>2. faults' \in 0..MaxFaults /\ excused' \subseteq File /\ stable' \subseteq File
      BY <1>13, <2>1, FaultType DEF PutFails
    <2>3. found' \in Nat /\ phase' = "send" /\ fileq # <<>>
      BY <1>13, <2>1 DEF TypeOK, PutFails, AtHand
    <2>4. UNCHANGED <<now, fs, cache, want, walk, fileq, hash, progress, object, ended, asked,
                      history>>
      BY <1>13 DEF PutFails
    <2> QED
      BY <2>2, <2>3, <2>4, Zenon DEF TypeOK, AtHand
  <1>14. CASE SendNext
    <2>1. /\ sent' \subseteq File \X Nat /\ told' \subseteq File \X Nat
          /\ lost' \subseteq File \X Nat /\ unsent' \subseteq File \X Nat
          /\ pending' \in Seq(File \X Nat) /\ seen' \in [File -> Nat]
      BY <1>14, FileAtHand, SendType DEF SendNext, TypeOK
    <2>2. /\ phase' = "count" /\ fileq # <<>>
          /\ UNCHANGED <<now, fs, cache, want, walk, fileq, file, progress, object, ended, asked,
                         span>>
      BY <1>14 DEF SendNext, AtHand
    <2>3. TypeOK'
      BY <2>1, <2>2, Zenon DEF TypeOK
    <2>4. AtHand'
      BY <2>2 DEF AtHand
    <2> QED
      BY <2>3, <2>4
  <1>26. CASE CountNext
    <2>1. done' \in Nat
      BY <1>26 DEF TypeOK, CountNext
    <2> QED
      BY <1>26, <2>1 DEF TypeOK, AtHand, CountNext
  <1>27. CASE TakeNext
    <2>1. Tail(fileq) \in Seq(Good \cup Bad)
      BY <1>27, TailType DEF TypeOK, AtHand, TakeNext
    <2> QED
      BY <1>27, <2>1 DEF TypeOK, AtHand, TakeNext
  <1>28. CASE TruncateFails
    <2>1. OnceOpen \in [File -> Nat] /\ Zero \in [File -> Nat]
      BY DEF TypeOK, OnceOpen, Zero
    <2>2. db' \in [File -> Nat]
      BY <1>28, <2>1 DEF TruncateFails
    <2>3. faults' \in 0..MaxFaults /\ excused' \subseteq File /\ stable' \subseteq File
      BY <1>28, FaultType DEF TruncateFails
    <2>4. /\ phase' = "discover" /\ dbp' = TRUE /\ todo' \in Seq(Dir)
          /\ UNCHANGED <<now, fs, disk, want, entry, fileq, file, progress, object, ended, asked,
                         history>>
      BY <1>28 DEF TruncateFails
    <2> QED
      BY <2>2, <2>3, <2>4, Zenon DEF TypeOK, AtHand
  <1>15. CASE ScanAborted
    BY <1>15 DEF TypeOK, AtHand, ScanAborted
  <1>16. CASE ScanFinished
    BY <1>16 DEF TypeOK, AtHand, ScanFinished
  <1>17. CASE Create
    <2>1. flags' \subseteq {"MS_FULL_SCAN", "MS_RESCAN", "MS_CLEARDB"} /\ objects' \in Nat
      BY <1>17 DEF TypeOK, Create
    <2> QED
      BY <1>17, <2>1 DEF TypeOK, AtHand, Create
  <1>18. CASE ScanBegin
    <2>1. pending' \in Seq(File \X Nat) /\ lost' \subseteq File \X Nat
      BY <1>18, DropType DEF TypeOK, ScanBegin
    <2>2. seen' \in [File -> Nat]
      BY <1>18 DEF ScanBegin, Zero
    <2>3. scans' \in Nat
      BY <1>18 DEF TypeOK, ScanBegin
    <2>4. thread' \in BOOLEAN
      BY <1>18 DEF TypeOK, ScanBegin
    <2> QED
      BY <1>18, <2>1, <2>2, <2>3, <2>4 DEF TypeOK, AtHand, ScanBegin
  <1>19. CASE Abort
    BY <1>19 DEF TypeOK, AtHand, Abort, Scanning
  <1>20. CASE Deliver
    <2>1. Head(pending) \in File \X Nat /\ Tail(pending) \in Seq(File \X Nat)
      BY <1>20, TailType DEF TypeOK, Deliver
    <2>2. pending' \in Seq(File \X Nat) /\ told' \subseteq File \X Nat
      BY <1>20, <2>1 DEF TypeOK, Deliver
    <2>3. UNCHANGED <<now, fs, cache, phase, want, walk, fileq, file, progress, object, ended,
                      asked, span, lost, unsent, sent, seen>>
      BY <1>20 DEF Deliver
    <2> QED
      BY <2>2, <2>3, SMTT(60) DEF TypeOK, AtHand
  <1>21. CASE Destroy
    <2>1. TypeOK'
      BY <1>21, GoneType DEF TypeOK, Destroy
    <2> QED
      BY <1>21, <2>1 DEF AtHand, Destroy, Gone
  <1>22. CASE \E f \in File : ScanFile(f)
    <2>1. PICK f \in File : ScanFile(f)
      BY <1>22
    <2>2. db' \in [File -> Nat]
      BY <2>1 DEF TypeOK, ScanFile, Store
    <2>3. fs[f] \in Nat
      BY DEF TypeOK
    <2>4. /\ sent' \subseteq File \X Nat /\ told' \subseteq File \X Nat
          /\ lost' \subseteq File \X Nat /\ unsent' \subseteq File \X Nat
          /\ pending' \in Seq(File \X Nat) /\ seen' \in [File -> Nat]
      BY <2>1, <2>3, SendType DEF ScanFile
    <2>5. UNCHANGED <<now, fs, disk, dbp, phase, want, walk, fileq, file, progress, object, ended,
                      asked, span>>
      BY <2>1 DEF ScanFile
    <2>6. TypeOK'
      BY <2>2, <2>4, <2>5, ZenonT(30) DEF TypeOK
    <2>7. AtHand'
      BY <2>5 DEF AtHand
    <2> QED
      BY <2>6, <2>7
  <1>23. CASE Crash
    <2>1. TypeOK'
      <3>1. CASE Dies(db, InHand)
        BY <3>1, FileAtHand, DiesType DEF TypeOK
      <3>2. CASE \E f \in File : Dies(Store(f, fs[f]), {<<f, fs[f]>>})
        <4>1. PICK f \in File : Dies(Store(f, fs[f]), {<<f, fs[f]>>})
          BY <3>2
        <4>2. Store(f, fs[f]) \in [File -> Nat] /\ {<<f, fs[f]>>} \subseteq File \X Nat
          BY DEF TypeOK, Store
        <4> QED
          BY <4>1, <4>2, DiesType
      <3> QED
        BY <1>23, <3>1, <3>2 DEF Crash
    <2>2. phase' = "none" /\ ~dbp'
      BY <1>23 DEF Crash, Dies, Gone
    <2> QED
      BY <2>1, <2>2 DEF AtHand
  <1>24. CASE \E f \in Good \cup Bad : Change(f)
    <2>1. PICK f \in File : Change(f)
      BY <1>24
    <2>2. now' \in Nat /\ fs' \in [File -> Nat] /\ stable' \subseteq File
      <3>1. [fs EXCEPT ![f] = now + 1] \in [File -> Nat] /\ [fs EXCEPT ![f] = 0] \in [File -> Nat]
        BY DEF TypeOK
      <3>2. fs' \in [File -> Nat]
        BY <2>1, <3>1 DEF Change
      <3> QED
        BY <2>1, <3>2 DEF TypeOK, Change
    <2>3. UNCHANGED <<cache, phase, want, walk, fileq, file, progress, object, ended, asked,
                      excused, faults, history>>
      BY <2>1 DEF Change
    <2> QED
      BY <2>2, <2>3, SMTT(60) DEF TypeOK, AtHand
  <1>25. CASE Over
    BY <1>25 DEF TypeOK, AtHand, Over, vars
  <1> QED
    BY <1>1, <1>2, <1>3, <1>4, <1>5, <1>6, <1>7, <1>8, <1>9, <1>10, <1>11, <1>12, <1>13, <1>14,
       <1>15, <1>16, <1>17, <1>18, <1>19, <1>20, <1>21, <1>22, <1>23, <1>24, <1>25, <1>26,
       <1>27, <1>28
       DEF Next, DoScan, Client

(* Progress: what is put on the list is counted in total, and what is      *)
(* taken off it in done.                                                   *)
LEMMA ProgressStep ==
  ASSUME TypeOK, AtHand, ProgressExact, [Next]_vars PROVE ProgressExact'
  <1> USE DEF object, progress, file, history, cache, span, walk
  <1>0. total \in Nat /\ done \in Nat /\ Len(fileq) \in Nat
    BY DEF TypeOK
  <1>1. CASE UNCHANGED <<progress, fileq>> /\ (phase' = "counted" <=> phase = "counted")
    BY <1>1 DEF ProgressExact
  <1>2. CASE ReadEntry
    <2>1. \A f : Len(Append(fileq, f)) = Len(fileq) + 1
      BY DEF TypeOK
    <2>2. \/ total' = total + 1 /\ Len(fileq') = Len(fileq) + 1
          \/ UNCHANGED <<fileq, total>>
      BY <1>2, <2>1 DEF ReadEntry
    <2>3. phase = "readdir" /\ phase' = "readdir" /\ UNCHANGED done
      BY <1>2 DEF ReadEntry
    <2> QED
      BY <1>0, <2>2, <2>3 DEF ProgressExact
  <1>3. CASE CountNext
    <2>1. Len(Tail(fileq)) = Len(fileq) - 1 /\ Len(fileq) > 0
      BY <1>3, TailType DEF TypeOK, AtHand, CountNext
    <2>2. phase = "count" /\ phase' = "counted" /\ UNCHANGED <<fileq, total>>
      BY <1>3 DEF CountNext
    <2>3. HasProgress => done' = done + 1
      BY <1>3 DEF CountNext
    <2> QED
      BY <1>0, <2>1, <2>2, <2>3 DEF ProgressExact
  <1>4. CASE TakeNext
    BY <1>4 DEF ProgressExact, TakeNext
  <1>5. CASE Gone
    BY <1>5 DEF ProgressExact, Gone
  <1>6. CASE OpenCache \/ TruncateFails \/ OpenFails \/ EnterDir \/ LeaveDir \/ DirFails \/ SkipDir
    BY <1>1, <1>6 DEF OpenCache, TruncateFails, OpenFails, EnterDir, LeaveDir, DirFails, SkipDir
  <1>7. CASE \/ Discovered \/ HashNext \/ GetFails \/ ScanNext \/ PutFails \/ SendNext
             \/ ScanAborted \/ ScanFinished
    BY <1>1, <1>7 DEF Discovered, HashNext, GetFails, ScanNext, PutFails, SendNext, ScanAborted,
                      ScanFinished
  <1> QED
    BY <1>1, <1>2, <1>3, <1>4, <1>5, <1>6, <1>7
       DEF Next, DoScan, Client, vars, Create, ScanBegin, Abort, Deliver, Destroy, ScanFile, Crash,
           Dies, Change, Over

(* A result that is sent stays known, and so does what was known.          *)
LEMMA SendClaims ==
  ASSUME TypeOK, NEW f \in File, NEW v \in Nat, SendResult(f, v)
  PROVE  sent \subseteq sent' /\ <<f, v>> \in sent' /\ UNCHANGED unsent
  BY DEF SendResult

(* What a database claims stays true when more is known, and of an entry   *)
(* that is added if it is not ahead of what is known.                      *)
LEMMA ClaimKept ==
  ASSUME NEW d \in [File -> Nat], NEW e \in [File -> Nat], NEW K, NEW L, K \subseteq L,
         Backed(d, K),
         \A f \in File : \/ e[f] \in {0, d[f]}
                        \/ \E v \in Nat : <<f, v>> \in L /\ v >= e[f]
  PROVE  Backed(e, L)
  <1> SUFFICES ASSUME NEW f \in File, e[f] # 0
               PROVE  \E r \in L : r[1] = f /\ r[2] >= e[f]
    BY DEF Backed
  <1>1. CASE e[f] = d[f]
    BY <1>1 DEF Backed
  <1>2. CASE \E v \in Nat : <<f, v>> \in L /\ v >= e[f]
    <2>1. PICK v \in Nat : <<f, v>> \in L /\ v >= e[f]
      BY <1>2
    <2>2. <<f, v>>[1] = f /\ <<f, v>>[2] = v
      OBVIOUS
    <2> QED
      BY <2>1, <2>2
  <1> QED
    BY <1>1, <1>2

(* When the process ends, what was in hand of what is in the database then *)
(* is known to be lost.                                                    *)
LEMMA DiesClaims ==
  ASSUME TypeOK, NEW d \in [File -> Nat], NEW H \in SUBSET (File \X Nat), Dies(d, H),
         Backed(d, sent \cup unsent \cup H), Backed(disk, sent \cup unsent \cup H)
  PROVE  Claimed(db)' /\ Claimed(disk)'
  <1>1. PICK kept : db' = [f \in File |-> IF f \in kept THEN d[f] ELSE disk[f]]
    BY DEF Dies
  <1>2. disk' = db' /\ unsent' = unsent \cup {r \in H : db'[r[1]] # 0} /\ sent' = sent
    BY DEF Dies, Gone
  <1>3. ASSUME NEW f \in File, db'[f] # 0
        PROVE  \E r \in Known' : r[1] = f /\ r[2] >= db'[f]
    <2>1. PICK r \in sent \cup unsent \cup H : r[1] = f /\ r[2] >= db'[f]
      BY <1>1, <1>3 DEF Backed
    <2>2. r \in sent' \cup unsent'
      BY <1>2, <1>3, <2>1
    <2> QED
      BY <2>1, <2>2 DEF Known
  <1> QED
    BY <1>2, <1>3 DEF Claimed, Backed

(* Neither the database nor its file claims what is not known.             *)
LEMMA ClaimStep ==
  ASSUME TypeOK, TypeOK', AtHand, HashOld, Claimed(db), Claimed(disk), [Next]_vars
  PROVE  Claimed(db)' /\ Claimed(disk)'
  <1> USE DEF object, progress, file, history, cache, span, walk
  <1>0. db \in [File -> Nat] /\ disk \in [File -> Nat] /\ db' \in [File -> Nat]
        /\ disk' \in [File -> Nat]
    BY DEF TypeOK
  <1>1. CASE /\ Known \subseteq Known'
             /\ \A f \in File : db'[f] \in {0, db[f], disk[f]} /\ disk'[f] \in {0, db[f], disk[f]}
    BY <1>0, <1>1 DEF Claimed, Backed
  <1>2. ASSUME NEW f \in File, NEW w \in Nat, <<f, w>> \in Known', Known \subseteq Known',
               UNCHANGED disk, NEW v \in Nat, db' = Store(f, v), v <= w
        PROVE  Claimed(db)' /\ Claimed(disk)'
    <2>1. \A g \in File : db'[g] = db[g] \/ (g = f /\ db'[g] = v)
      BY <1>0, <1>2 DEF Store
    <2>2. \A g \in File : db'[g] \in {0, db[g]} \/ \E u \in Nat : <<g, u>> \in Known' /\ u >= db'[g]
      BY <1>2, <2>1
    <2>3. Backed(db', Known')
      BY <1>0, <1>2, <2>2, ClaimKept DEF Claimed
    <2>4. Claimed(disk)'
      BY <1>0, <1>2 DEF Claimed, Backed
    <2> QED
      BY <2>3, <2>4 DEF Claimed, Backed
  <1>3. CASE ScanNext
    <2>1. Head(fileq) \in File
      BY <1>3, FileAtHand DEF ScanNext
    <2>2. Known = sent \cup unsent /\ sent \cup unsent \subseteq Known'
      BY <1>3 DEF ScanNext, Known, InHand
    <2>3. CASE CanScan(Head(fileq))
      <3>1. hash <= fs[Head(fileq)] /\ hash \in Nat /\ fs[Head(fileq)] \in Nat
        BY <1>3, <2>1, <2>3 DEF TypeOK, HashOld, ScanNext, CanScan
      <3>2. <<Head(fileq), fs[Head(fileq)]>> \in Known'
        BY <1>3, <2>3 DEF ScanNext, Known, InHand
      <3> QED
        BY <1>2, <1>3, <2>1, <2>2, <2>3, <3>1, <3>2 DEF ScanNext
    <2>4. CASE ~CanScan(Head(fileq))
      BY <1>1, <1>3, <2>2, <2>4 DEF ScanNext
    <2> QED
      BY <2>3, <2>4
  <1>4. CASE \E f \in File : ScanFile(f)
    <2>1. PICK f \in File : ScanFile(f)
      BY <1>4
    <2>2. fs[f] \in Nat /\ fs[f] <= fs[f]
      BY SMTT(60) DEF TypeOK
    <2>3. sent \subseteq sent' /\ <<f, fs[f]>> \in sent' /\ UNCHANGED unsent
      BY <2>1, <2>2, SendClaims DEF ScanFile
    <2>4. Known \subseteq Known' /\ <<f, fs[f]>> \in Known'
      BY <2>1, <2>3 DEF ScanFile, Direct, Known, InHand
    <2> QED
      BY <1>2, <2>1, <2>2, <2>4 DEF ScanFile
  <1>5. CASE PutFails
    BY <1>1, <1>5 DEF PutFails, Known, InHand
  <1>6. CASE SendNext
    <2>1. sent \subseteq sent' /\ <<Head(fileq), found>> \in sent' /\ UNCHANGED unsent
      BY <1>6, FileAtHand, SendClaims DEF SendNext, TypeOK
    <2>2. Known \subseteq Known'
      BY <2>1 DEF Known, InHand
    <2> QED
      BY <1>1, <1>6, <2>2 DEF SendNext
  <1>7. CASE OpenCache \/ TruncateFails
    <2>1. Known \subseteq Known'
      BY <1>7 DEF OpenCache, TruncateFails, Known, InHand
    <2>2. \A f \in File : db'[f] \in {0, db[f]}
      BY <1>7 DEF OpenCache, TruncateFails, Opened, OnceOpen, Zero
    <2>3. UNCHANGED disk
      BY <1>7 DEF OpenCache, TruncateFails
    <2> QED
      BY <1>1, <2>1, <2>2, <2>3
  <1>8. CASE Destroy
    BY <1>1, <1>8 DEF Destroy, Gone, Known, InHand
  <1>9. CASE Crash
    <2>1. CASE Dies(db, InHand)
      BY <1>0, <2>1, FileAtHand, DiesClaims DEF Claimed, Known
    <2>2. CASE \E f \in File : dbp /\ Direct(f) /\ Dies(Store(f, fs[f]), {<<f, fs[f]>>})
      <3>1. PICK f \in File : dbp /\ Direct(f) /\ Dies(Store(f, fs[f]), {<<f, fs[f]>>})
        BY <2>2
      <3> DEFINE d == Store(f, fs[f])
                 H == {<<f, fs[f]>>}
                 L == sent \cup unsent \cup H
      <3>2. d \in [File -> Nat] /\ H \in SUBSET (File \X Nat) /\ fs[f] \in Nat
        <4>1. fs[f] \in Nat /\ db \in [File -> Nat]
          BY DEF TypeOK
        <4> QED
          BY <4>1 DEF Store
      <3>3. Known \subseteq L /\ <<f, fs[f]>> \in L
        BY <3>1 DEF Direct, Known, InHand
      <3>4. \A g \in File : d[g] = db[g] \/ (g = f /\ d[g] = fs[f])
        BY <1>0 DEF Store
      <3>5. Dies(d, H)
        BY <3>1
      <3> HIDE DEF d, H, L
      <3>6. \A g \in File : d[g] \in {0, db[g]} \/ \E u \in Nat : <<g, u>> \in L /\ u >= d[g]
        BY <3>2, <3>3, <3>4
      <3>7. Backed(d, L)
        <4>1. Backed(db, Known) /\ db \in [File -> Nat] /\ d \in [File -> Nat] /\ Known \subseteq L
          BY <1>0, <3>2, <3>3 DEF Claimed
        <4> QED
          BY <3>6, <4>1, ClaimKept, Zenon
      <3>8. Backed(disk, L)
        BY <3>3 DEF Claimed, Backed
      <3> QED
        BY <3>2, <3>5, <3>7, <3>8, DiesClaims DEF L
    <2> QED
      BY <1>9, <2>1, <2>2 DEF Crash
  <1>10. CASE /\ UNCHANGED <<db, disk, sent, unsent>>
              /\ phase # "send" \/ UNCHANGED <<phase, fileq, found>>
    <2>1. Known \subseteq Known'
      BY <1>10 DEF Known, InHand
    <2> QED
      BY <1>1, <1>10, <2>1
  <1>11. CASE \/ OpenFails \/ EnterDir \/ ReadEntry \/ LeaveDir \/ DirFails \/ SkipDir \/ Discovered
    BY <1>10, <1>11 DEF OpenFails, EnterDir, ReadEntry, LeaveDir, DirFails, SkipDir, Discovered
  <1>12. CASE HashNext \/ GetFails \/ CountNext \/ TakeNext \/ ScanAborted \/ ScanFinished
    BY <1>10, <1>12 DEF HashNext, GetFails, CountNext, TakeNext, ScanAborted, ScanFinished
  <1>13. CASE Create \/ ScanBegin \/ Abort \/ Deliver
    BY <1>10, <1>13 DEF Create, ScanBegin, Abort, Deliver
  <1>14. CASE UNCHANGED vars \/ \E f \in Good \cup Bad : Change(f)
    BY <1>10, <1>14 DEF vars, Change
  <1> QED
    BY <1>3, <1>4, <1>5, <1>6, <1>7, <1>8, <1>9, <1>11, <1>12, <1>13, <1>14
       DEF Next, DoScan, Client, Over

(* A change makes a version later than all there are.                      *)
LEMMA HashStep == ASSUME TypeOK, AtHand, HashOld, [Next]_vars PROVE HashOld'
  <1> USE DEF object, progress, file, history, cache, span, walk
  <1>1. CASE UNCHANGED <<now, fs, hash, fileq>> /\ (phase' # "file" \/ phase = "file")
    BY <1>1 DEF HashOld
  <1>2. CASE HashNext
    <2>1. Head(fileq) \in File
      BY <1>2, TailType, ScanPipelineAssumption DEF TypeOK, HashNext
    <2>2. fs[Head(fileq)] \in Nat /\ fs[Head(fileq)] <= now /\ now \in Nat
      BY <2>1 DEF TypeOK, HashOld
    <2> QED
      BY <1>2, <2>2 DEF HashOld, HashNext
  <1>3. CASE GetFails
    <2>1. Head(fileq) \in File
      BY <1>3, TailType, ScanPipelineAssumption DEF TypeOK, GetFails
    <2>2. fs[Head(fileq)] \in Nat /\ fs[Head(fileq)] <= now /\ now \in Nat
      BY <2>1 DEF TypeOK, HashOld
    <2> QED
      BY <1>3, <2>2 DEF HashOld, GetFails
  <1>4. CASE TakeNext
    BY <1>4 DEF TypeOK, HashOld, TakeNext
  <1>5. CASE ReadEntry
    BY <1>5 DEF HashOld, ReadEntry
  <1>6. CASE Gone
    BY <1>6 DEF TypeOK, HashOld, Gone
  <1>7. CASE \E f \in Good \cup Bad : Change(f)
    <2>1. PICK f \in File : Change(f)
      BY <1>7, ScanPipelineAssumption
    <2>2. \A g \in File : fs'[g] \in {fs[g], 0, now + 1} /\ fs[g] \in Nat
      BY <2>1 DEF TypeOK, Change
    <2>3. now' = now + 1 /\ now \in Nat /\ hash \in Nat /\ UNCHANGED <<hash, fileq, phase>>
      BY <2>1 DEF TypeOK, Change
    <2>4. phase = "file" => Head(fileq) \in File
      BY TailType, ScanPipelineAssumption DEF TypeOK, AtHand
    <2> QED
      BY <2>2, <2>3, <2>4 DEF HashOld
  <1> QED
    BY <1>1, <1>2, <1>3, <1>4, <1>5, <1>6, <1>7
       DEF Next, DoScan, Client, vars, OpenCache, TruncateFails, OpenFails, EnterDir, LeaveDir,
           DirFails, SkipDir, Discovered, ScanNext, PutFails, SendNext, CountNext, ScanAborted,
           ScanFinished, Create, ScanBegin, Abort, Deliver, Destroy, ScanFile, Crash, Dies, Over

(* A result is counted once.                                               *)
LEMMA SendSeen ==
  ASSUME TypeOK, NEW f \in File, NEW v, SendResult(f, v)
  PROVE  \A g \in File : /\ seen[g] \in Nat
                         /\ seen'[g] = IF g = f THEN seen[g] + 1 ELSE seen[g]
  BY DEF TypeOK, SendResult

(* A file is reported again only if it changed, or met with an error.      *)
LEMMA ReportedStep ==
  ASSUME TypeOK, AtHand, Reported, [Next]_vars PROVE Reported'
  <1> USE DEF object, progress, file, history, cache, span, walk
  <1>0. phase \in {"file", "send"} => Head(fileq) \in File
    BY FileAtHand
  <1>1. CASE /\ UNCHANGED <<dbp, flags, seen, db, fs, hash, fileq>>
             /\ stable' = stable /\ excused \subseteq excused'
             /\ phase' \notin {"init", "file", "send"} \/ phase' = phase
    BY <1>1 DEF Reported, Caching
  <1>2. CASE OpenCache
    <2>1. \A f \in File : seen'[f] = 0
      BY <1>2 DEF OpenCache, Reported, Zero
    <2>2. phase' = "discover" /\ stable' \subseteq File
      BY <1>2 DEF TypeOK, OpenCache
    <2> QED
      BY <2>1, <2>2 DEF Reported
  <1>3. CASE ReadEntry
    BY <1>3 DEF ReadEntry, Reported, Caching
  <1>4. CASE HashNext
    <2>1. phase' = "init" => FALSE
      BY <1>4 DEF HashNext
    <2>2. ASSUME NEW f \in stable \ excused, Caching, phase' = "file", Head(fileq) = f
          PROVE  seen[f] = 0 /\ hash' = fs[f]
      BY <1>4, <2>2 DEF HashNext, Reported, Caching, Cached
    <2> QED
      BY <1>4, <2>1, <2>2 DEF HashNext, Reported, Caching
  <1>5. CASE GetFails
    BY <1>5 DEF GetFails, Fault, Reported, Caching
  <1>6. CASE TakeNext
    BY <1>6 DEF TakeNext, Reported, Caching
  <1>7. CASE ScanBegin
    <2>1. \A f \in File : seen'[f] = 0
      BY <1>7 DEF ScanBegin, Zero
    <2>2. seen' = Zero /\ phase' = "init" /\ stable' = File
      BY <1>7 DEF ScanBegin
    <2> QED
      BY <2>1, <2>2 DEF Reported, Zero
  <1>8. CASE ScanNext
    <2>1. CASE CanScan(Head(fileq))
      <3>1. dbp => \A g \in File : db'[g] = IF g = Head(fileq) THEN hash ELSE db[g]
        BY <1>8, <2>1 DEF TypeOK, ScanNext, Store
      <3>2. stable \subseteq File
        BY DEF TypeOK
      <3>3. /\ phase = "file" /\ phase' = "send"
            /\ UNCHANGED <<dbp, flags, fs, fileq, stable, excused, seen>>
        BY <1>8, <2>1 DEF ScanNext
      <3> QED
        BY <3>1, <3>2, <3>3 DEF Reported, Caching
    <2>2. CASE ~CanScan(Head(fileq))
      BY <1>8, <2>2 DEF ScanNext, Reported, Caching
    <2> QED
      BY <2>1, <2>2
  <1>9. CASE PutFails
    <2>1. /\ phase' = "send" /\ UNCHANGED <<dbp, flags, fs, db, stable, fileq, seen>>
          /\ excused' = excused \cup {Head(fileq)} /\ stable \subseteq File
      BY <1>9 DEF TypeOK, PutFails, Fault
    <2> QED
      BY <2>1 DEF Reported, Caching
  <1>14. CASE SendNext
    <2>1. \A g \in File : seen[g] \in Nat /\ seen'[g] = IF g = Head(fileq) THEN seen[g] + 1 ELSE seen[g]
      BY <1>0, <1>14, SendSeen DEF SendNext
    <2>2. /\ phase = "send" /\ phase' = "count"
          /\ UNCHANGED <<dbp, flags, fs, db, fileq, stable, excused>> /\ stable \subseteq File
      BY <1>14 DEF TypeOK, SendNext
    <2> QED
      BY <2>1, <2>2 DEF Reported, Caching
  <1>15. CASE TruncateFails
    <2>1. \A f \in File : seen'[f] = 0
      BY <1>15 DEF TruncateFails, Reported, Zero
    <2>2. phase' = "discover" /\ stable' \subseteq File
      BY <1>15 DEF TypeOK, TruncateFails, Fault
    <2> QED
      BY <2>1, <2>2 DEF Reported
  <1>10. CASE \E f \in File : ScanFile(f)
    <2>1. PICK f \in File : ScanFile(f)
      BY <1>10
    <2>2. \A g \in File : seen[g] \in Nat /\ seen'[g] = IF g = f THEN seen[g] + 1 ELSE seen[g]
      BY <2>1, SendSeen DEF ScanFile
    <2>3. dbp => \A g \in File : db'[g] = IF g = f THEN fs[f] ELSE db[g]
      BY <2>1 DEF TypeOK, ScanFile, Store
    <2>4. /\ phase' = "idle" /\ UNCHANGED <<dbp, flags, fs, stable, excused>>
          /\ stable \subseteq File
      BY <2>1 DEF TypeOK, ScanFile, Direct
    <2>5. Caching /\ f \in stable \ excused => seen[f] = 0
      BY <2>1 DEF ScanFile, Direct, Reported, Caching, Cached
    <2> QED
      BY <2>2, <2>3, <2>4, <2>5 DEF Reported, Caching
  <1>11. CASE Gone
    BY <1>11 DEF Gone, Reported, Caching
  <1>12. CASE \E f \in Good \cup Bad : Change(f)
    <2>1. PICK f \in File : Change(f)
      BY <1>12, ScanPipelineAssumption
    <2>2. \A g \in stable' : g # f /\ g \in stable /\ fs'[g] = fs[g]
      BY <2>1 DEF TypeOK, Change
    <2> QED
      BY <2>1, <2>2 DEF Change, Reported, Caching
  <1>13. CASE Create
    BY <1>13 DEF AtHand, Create, Reported, Caching
  <1> QED
    BY <1>1, <1>2, <1>3, <1>4, <1>5, <1>6, <1>7, <1>8, <1>9, <1>10, <1>11, <1>12, <1>13, <1>14,
       <1>15
       DEF Next, DoScan, Client, vars, OpenFails, EnterDir, LeaveDir, DirFails, SkipDir, Fault,
           Discovered, CountNext, ScanAborted, ScanFinished, Abort, Deliver, Destroy, Crash, Dies,
           Over

-----------------------------------------------------------------------------
(* Initially all of it holds.                                              *)
LEMMA InitIInv == ASSUME Init PROVE IInv
  <1>1. TypeOK
    <2>1. /\ <<>> \in Seq(Dir) /\ <<>> \in Seq(Good \cup Bad) /\ <<>> \in Seq(File \X Nat)
          /\ Zero \in [File -> Nat] /\ [f \in File |-> 1] \in [File -> Nat]
          /\ 0 \in 0..MaxFaults
      BY ScanPipelineAssumption DEF Zero
    <2> QED
      BY <2>1 DEF Init, TypeOK
  <1>2. AtHand /\ HashOld /\ ProgressExact
    BY DEF Init, AtHand, HashOld, ProgressExact
  <1>3. Claimed(db) /\ Claimed(disk) /\ Reported
    BY DEF Init, Claimed, Backed, Zero, Reported, Caching, Known, InHand
  <1> QED
    BY <1>1, <1>2, <1>3 DEF IInv

(* Every step keeps it.                                                    *)
LEMMA StepIInv == ASSUME IInv, [Next]_vars PROVE IInv'
  <1>1. TypeOK' /\ AtHand'
    BY TypeStep DEF IInv
  <1>2. HashOld'
    BY HashStep DEF IInv
  <1>3. ProgressExact'
    BY ProgressStep DEF IInv
  <1>4. Claimed(db)' /\ Claimed(disk)'
    BY <1>1, ClaimStep DEF IInv
  <1>5. Reported'
    BY ReportedStep DEF IInv
  <1> QED
    BY <1>1, <1>2, <1>3, <1>4, <1>5 DEF IInv

(* The strengthening is an invariant.                                      *)
THEOREM Inductive == Spec => []IInv
  BY InitIInv, StepIInv, PTL DEF Spec

(* Every variable of the scan pipeline keeps its type.                     *)
THEOREM TypeCorrect == Spec => []TypeOK
  <1>1. IInv => TypeOK
    BY DEF IInv
  <1> QED
    BY <1>1, Inductive, PTL

(* Progress is exact: recurse_dir and do_scan count the same files.        *)
THEOREM ProgressCounts == Spec => []ProgressExact
  <1>1. IInv => ProgressExact
    BY DEF IInv
  <1> QED
    BY <1>1, Inductive, PTL

(* The cache never claims contents for which ms_scan_file has not sent a   *)
(* result, is about to send one, or was kept from it by a crash between    *)
(* the put and the callback; failures of the database leave it so too.     *)
THEOREM CacheHonest == Spec => []CacheNeverAhead
  <1>1. IInv => CacheNeverAhead
    BY DEF IInv, Claimed, Backed, Known, CacheNeverAhead
  <1> QED
    BY <1>1, Inductive, PTL

(* A scan that uses the cache reports a file at most once, however often   *)
(* it is on the list, unless it changes or meets with an error.            *)
THEOREM OnceEach == Spec => []ReportedOnce
  <1>1. IInv => ReportedOnce
    BY DEF IInv, Reported, Caching, ReportedOnce
  <1> QED
    BY <1>1, Inductive, PTL
-----------------------------------------------------------------------------
(* That a scan ends: what it has ahead of it.                              *)

(* The directories form a tree: entering those of a list, reading them and *)
(* entering the ones below takes a number of steps.  (Of directories that  *)
(* contain themselves through a link there is no such number: recurse_dir  *)
(* has no limit to the depth that applies.)                                *)
Tree(W) ==
  /\ W \in [Seq(Dir) -> Nat]
  /\ \A q \in Seq(Dir) :
       q # <<>> =>
         /\ W[q] >= 6 * Len(Files[Head(q)]) + 2 + W[Subdirs[Head(q)] \o Tail(q)]
         /\ W[Subdirs[Head(q)] \o Tail(q)] >= W[Tail(q)]

(* Directories with no others below have one: as many steps for each as    *)
(* the fullest of them takes.                                              *)
LEMMA FlatIsTree ==
  ASSUME \A d \in Dir : Subdirs[d] = <<>>,
         NEW most \in Nat, \A d \in Dir : 6 * Len(Files[d]) + 2 <= most
  PROVE  Tree([q \in Seq(Dir) |-> most * Len(q)])
  <1> DEFINE W == [q \in Seq(Dir) |-> most * Len(q)]
  <1>1. W \in [Seq(Dir) -> Nat]
    OBVIOUS
  <1>2. ASSUME NEW q \in Seq(Dir), q # <<>>
        PROVE  /\ W[q] >= 6 * Len(Files[Head(q)]) + 2 + W[Subdirs[Head(q)] \o Tail(q)]
               /\ W[Subdirs[Head(q)] \o Tail(q)] >= W[Tail(q)]
    <2>1. Head(q) \in Dir /\ Tail(q) \in Seq(Dir) /\ Len(Tail(q)) = Len(q) - 1
      BY <1>2
    <2>2. Subdirs[Head(q)] \o Tail(q) = Tail(q)
      <3>1. <<>> \o Tail(q) = Tail(q)
        BY <2>1
      <3> QED
        BY <2>1, <3>1
    <2>3. PICK n \in Nat : n + 1 = Len(q) /\ n = Len(Tail(q))
      <3>1. Len(q) - 1 \in Nat /\ Len(q) - 1 + 1 = Len(q)
        BY <1>2
      <3> QED
        BY <2>1, <3>1
    <2>8. PICK l \in Nat : l = Len(Files[Head(q)]) /\ 6 * l + 2 <= most
      BY <2>1, ScanPipelineAssumption
    <2>4. W[q] = most * (n + 1) /\ W[Tail(q)] = most * n
      <3>1. W[q] = most * Len(q) /\ W[Tail(q)] = most * Len(Tail(q))
        BY <2>1
      <3> QED
        BY <2>3, <3>1
    <2>5. PICK k \in Nat : k = most * n /\ most * (n + 1) = k + most
      OBVIOUS
    <2> HIDE DEF W
    <2>6. /\ W[q] = k + most /\ W[Tail(q)] = k
          /\ W[Subdirs[Head(q)] \o Tail(q)] = k
      BY <2>2, <2>4, <2>5
    <2>7. k + most >= 6 * l + 2 + k /\ k >= k
      BY <2>8
    <2> QED
      BY <2>6, <2>7, <2>8
  <1> QED
    BY <1>1, <1>2 DEF Tree

(* A directory that contains itself belongs to no tree.                    *)
LEMMA LoopIsNoTree ==
  ASSUME NEW W, NEW d \in Dir, Subdirs[d] = <<d>>
  PROVE  ~Tree(W)
  <1> SUFFICES ASSUME Tree(W) PROVE FALSE
    OBVIOUS
  <1>1. <<d>> \in Seq(Dir) /\ <<d>> # <<>> /\ Head(<<d>>) = d /\ Tail(<<d>>) = <<>>
    OBVIOUS
  <1>2. <<d>> \o <<>> = <<d>>
    OBVIOUS
  <1>3. PICK a \in Nat, l \in Nat : a = W[<<d>>] /\ l = Len(Files[d])
    <2>1. W[<<d>>] \in Nat
      BY <1>1 DEF Tree
    <2>2. Len(Files[d]) \in Nat
      BY ScanPipelineAssumption
    <2> QED
      BY <2>1, <2>2
  <1>4. W[<<d>>] >= 6 * Len(Files[Head(<<d>>)]) + 2 + W[Subdirs[Head(<<d>>)] \o Tail(<<d>>)]
    BY <1>1 DEF Tree
  <1>5. a >= 6 * l + 2 + a
    BY <1>1, <1>2, <1>3, <1>4
  <1> QED
    BY <1>3, <1>5

(* From p on, with k steps of recurse_dir to take and n files on the list. *)
StepsFrom(p, k, n) ==
  CASE p = "init" -> k + 5 * n + 3
    [] p = "discover" -> k + 5 * n + 2
    [] p = "readdir" -> k + 5 * n + 3
    [] p = "scan" -> 5 * n + 1
    [] p = "file" -> 5 * n
    [] p = "send" -> 5 * n - 1
    [] p = "count" -> 5 * n - 2
    [] p = "counted" -> 5 * n - 3
    [] p \in {"none", "idle"} -> 0

ToWalk(W) ==
  IF phase = "init" THEN W[Roots]
  ELSE IF phase = "readdir"
  THEN 6 * (Len(Files[Head(todo)]) + 1 - entry) + W[Subdirs[Head(todo)] \o Tail(todo)]
  ELSE W[todo]

StepsLeft(W) == StepsFrom(phase, ToWalk(W), Len(fileq))

(* Each step of do_scan is one off what it has ahead of it, a directory    *)
(* that cannot be read or a file found twice included; and nothing else    *)
(* that happens, but the start of another scan, adds to it.                *)
GetsNearer(W) ==
  [][/\ DoScan => StepsLeft(W)' < StepsLeft(W)
     /\ ~ScanBegin => StepsLeft(W)' <= StepsLeft(W)]_vars

(* The entry that is read is one of the directory's, or the end of it.     *)
EntryThere == phase = "readdir" => entry \in 1..(Len(Files[Head(todo)]) + 1)

(* What is left from each place.                                           *)
Left(k, n) ==
  /\ StepsFrom("init", k, n) = k + 5 * n + 3 /\ StepsFrom("discover", k, n) = k + 5 * n + 2
  /\ StepsFrom("readdir", k, n) = k + 5 * n + 3 /\ StepsFrom("scan", k, n) = 5 * n + 1
  /\ StepsFrom("file", k, n) = 5 * n /\ StepsFrom("send", k, n) = 5 * n - 1
  /\ StepsFrom("count", k, n) = 5 * n - 2 /\ StepsFrom("counted", k, n) = 5 * n - 3
  /\ StepsFrom("none", k, n) = 0 /\ StepsFrom("idle", k, n) = 0

(* So it is defined.                                                       *)
LEMMA LeftFrom == ASSUME NEW k, NEW n PROVE Left(k, n)
  BY DEF Left, StepsFrom

(* An entry is read after the one before it.                               *)
LEMMA EntryStep == ASSUME TypeOK, AtHand, EntryThere, [Next]_vars PROVE EntryThere'
  <1> USE DEF object, progress, file, history, cache, span, walk
  <1>1. CASE UNCHANGED vars
    BY <1>1 DEF EntryThere, vars
  <1>2. CASE EnterDir
    <2>1. todo # <<>> /\ UNCHANGED todo /\ entry' = 1
      BY <1>2 DEF EnterDir
    <2>2. Head(todo) \in Dir
      BY <2>1 DEF TypeOK
    <2>3. Len(Files[Head(todo)]) \in Nat
      BY <2>2, ScanPipelineAssumption
    <2> QED
      BY <2>1, <2>3 DEF EntryThere
  <1>3. CASE ReadEntry
    BY <1>3 DEF ReadEntry, EntryThere
  <1>4. CASE phase' # "readdir" \/ UNCHANGED <<phase, todo, entry>>
    BY <1>4 DEF EntryThere
  <1>5. CASE OpenCache \/ TruncateFails \/ OpenFails \/ LeaveDir \/ DirFails \/ SkipDir \/ Discovered
    BY <1>4, <1>5 DEF OpenCache, TruncateFails, OpenFails, LeaveDir, DirFails, SkipDir, Discovered
  <1>6. CASE \/ HashNext \/ GetFails \/ ScanNext \/ PutFails \/ SendNext \/ CountNext \/ TakeNext
             \/ ScanAborted \/ ScanFinished
    BY <1>4, <1>6 DEF HashNext, GetFails, ScanNext, PutFails, SendNext, CountNext, TakeNext,
                      ScanAborted, ScanFinished
  <1>7. CASE Client \/ Crash \/ (\E f \in Good \cup Bad : Change(f)) \/ Over
    BY <1>1, <1>4, <1>7 DEF Client, Create, ScanBegin, Abort, Deliver, Destroy, Gone, ScanFile, Crash,
                            Dies, Change, Over
  <1> QED
    BY <1>1, <1>2, <1>3, <1>5, <1>6, <1>7 DEF Next, DoScan

(* Both hold throughout.                                                   *)
LEMMA AlwaysThere == Spec => [](IInv /\ EntryThere)
  <1>1. Init => EntryThere
    BY DEF Init, EntryThere
  <1>2. IInv => TypeOK /\ AtHand
    BY DEF IInv
  <1> QED
    BY <1>1, <1>2, EntryStep, Inductive, PTL DEF Spec

(* What is ahead is a number.                                              *)
LEMMA Numbers ==
  ASSUME NEW W, Tree(W), IInv, EntryThere
  PROVE  Len(fileq) \in Nat /\ ToWalk(W) \in Nat /\ StepsLeft(W) \in Nat
  <1>1. Len(fileq) \in Nat /\ (phase \in {"send", "count", "counted"} => Len(fileq) > 0)
    BY DEF IInv, TypeOK, AtHand
  <1>2. ToWalk(W) \in Nat
    <2>1. CASE phase = "readdir"
      <3>1. Head(todo) \in Dir /\ Tail(todo) \in Seq(Dir)
        BY <2>1 DEF IInv, TypeOK, AtHand
      <3>2. Subdirs[Head(todo)] \in Seq(Dir) /\ Len(Files[Head(todo)]) \in Nat
        BY <3>1, ScanPipelineAssumption
      <3>3. Subdirs[Head(todo)] \o Tail(todo) \in Seq(Dir)
        BY <3>1, <3>2
      <3>4. W[Subdirs[Head(todo)] \o Tail(todo)] \in Nat
        BY <3>3 DEF Tree
      <3>5. 6 * (Len(Files[Head(todo)]) + 1 - entry) \in Nat
        BY <2>1, <3>2 DEF EntryThere
      <3> QED
        BY <2>1, <3>4, <3>5 DEF ToWalk
    <2>2. CASE phase # "readdir"
      BY <2>2, ScanPipelineAssumption DEF ToWalk, Tree, IInv, TypeOK
    <2> QED
      BY <2>1, <2>2
  <1>3. PICK k \in Nat, n \in Nat : k = ToWalk(W) /\ n = Len(fileq)
    BY <1>1, <1>2
  <1>4. Left(k, n)
    BY LeftFrom
  <1>5. StepsFrom(phase, k, n) \in Nat
    <2>1. CASE phase \in {"none", "idle", "init", "discover"}
      BY <1>4, <2>1 DEF Left
    <2>2. CASE phase \in {"readdir", "scan", "file"}
      BY <1>4, <2>2 DEF Left
    <2>3. CASE phase \in {"send", "count", "counted"}
      BY <1>1, <1>3, <1>4, <2>3 DEF Left
    <2> QED
      BY <2>1, <2>2, <2>3 DEF IInv, TypeOK
  <1> QED
    BY <1>1, <1>2, <1>3, <1>5 DEF StepsLeft

(* A step of recurse_dir is one off what it has ahead of it.               *)
LEMMA WalkNearer ==
  ASSUME NEW W, Tree(W), IInv, EntryThere,
         EnterDir \/ ReadEntry \/ LeaveDir \/ DirFails \/ SkipDir
  PROVE  StepsLeft(W)' < StepsLeft(W)
  <1>1. todo # <<>> /\ phase \in {"discover", "readdir"}
    BY DEF EnterDir, ReadEntry, LeaveDir, DirFails, SkipDir, IInv, AtHand
  <1>2. Head(todo) \in Dir /\ Tail(todo) \in Seq(Dir) /\ todo \in Seq(Dir)
    BY <1>1 DEF IInv, TypeOK
  <1>3. Subdirs[Head(todo)] \in Seq(Dir) /\ Len(Files[Head(todo)]) \in Nat
    BY <1>2, ScanPipelineAssumption
  <1>4. Subdirs[Head(todo)] \o Tail(todo) \in Seq(Dir)
    BY <1>2, <1>3
  <1>5. PICK a \in Nat, b \in Nat, c \in Nat, l \in Nat, n \in Nat :
          /\ a = W[todo] /\ b = W[Subdirs[Head(todo)] \o Tail(todo)] /\ c = W[Tail(todo)]
          /\ l = Len(Files[Head(todo)]) /\ n = Len(fileq)
    <2>1. Len(fileq) \in Nat
      BY DEF IInv, TypeOK
    <2> QED
      BY <1>2, <1>3, <1>4, <2>1 DEF Tree
  <1>6. a >= 6 * l + 2 + b /\ b >= c
    BY <1>1, <1>2, <1>5 DEF Tree
  <1>7. Left(ToWalk(W), Len(fileq)) /\ Left(ToWalk(W)', Len(fileq)')
    BY LeftFrom
  <1>8. CASE EnterDir
    <2>1. /\ phase = "discover" /\ phase' = "readdir" /\ entry' = 1 /\ UNCHANGED <<todo, fileq>>
      BY <1>8 DEF EnterDir
    <2>2. ToWalk(W) = a /\ ToWalk(W)' = 6 * l + b
      BY <1>5, <2>1 DEF ToWalk
    <2>3. PICK k \in Nat : k = 6 * l + b
      BY <1>5
    <2>4. StepsLeft(W) = a + 5 * n + 2
      BY <1>5, <1>7, <2>1, <2>2 DEF Left, StepsLeft
    <2>5. StepsLeft(W)' = k + 5 * n + 3
      BY <1>5, <1>7, <2>1, <2>2, <2>3 DEF Left, StepsLeft
    <2> QED
      BY <1>6, <2>3, <2>4, <2>5
  <1>9. CASE ReadEntry
    <2>1. /\ phase = "readdir" /\ UNCHANGED <<phase, todo>> /\ entry' = entry + 1 /\ entry <= l
      BY <1>5, <1>9 DEF ReadEntry, walk
    <2>2. PICK e \in Nat : e = entry
      BY DEF IInv, TypeOK
    <2>3. ToWalk(W) = 6 * (l + 1 - e) + b /\ ToWalk(W)' = 6 * (l + 1 - (e + 1)) + b
      BY <1>5, <2>1, <2>2 DEF ToWalk
    <2>4. Len(fileq)' = n \/ Len(fileq)' = n + 1
      <3>1. CASE UNCHANGED fileq
        BY <1>5, <3>1
      <3>2. CASE fileq' = Append(fileq, Files[Head(todo)][entry])
        BY <1>5, <3>2 DEF IInv, TypeOK
      <3> QED
        BY <1>9, <3>1, <3>2 DEF ReadEntry
    <2>5. StepsLeft(W) = 6 * (l + 1 - e) + b + 5 * n + 3
      BY <1>5, <1>7, <2>1, <2>3 DEF Left, StepsLeft
    <2>6. PICK m \in Nat : m = Len(fileq)' /\ m <= n + 1
      BY <2>4
    <2>7. StepsLeft(W)' = 6 * (l + 1 - (e + 1)) + b + 5 * m + 3
      BY <1>7, <2>1, <2>3, <2>6 DEF Left, StepsLeft
    <2> QED
      BY <2>5, <2>6, <2>7
  <1>10. CASE LeaveDir
    <2>1. /\ phase = "readdir" /\ phase' = "discover" /\ UNCHANGED fileq
          /\ todo' = Tail(todo) \/ todo' = Subdirs[Head(todo)] \o Tail(todo)
      <3>1. <<>> \o Tail(todo) = Tail(todo)
        BY <1>2
      <3> QED
        BY <1>10, <3>1 DEF LeaveDir
    <2>2. PICK d \in Nat : d = l + 1 - entry
      BY <1>5, <2>1 DEF EntryThere
    <2>3. ToWalk(W) = 6 * d + b
      BY <1>5, <2>1, <2>2 DEF ToWalk
    <2>4. ToWalk(W)' = b \/ ToWalk(W)' = c
      BY <1>5, <2>1 DEF ToWalk
    <2>5. StepsLeft(W) = 6 * d + b + 5 * n + 3
      BY <1>5, <1>7, <2>1, <2>3 DEF Left, StepsLeft
    <2>6. PICK k \in Nat : k = ToWalk(W)' /\ k <= b
      BY <1>6, <2>4
    <2>7. StepsLeft(W)' = k + 5 * n + 2
      BY <1>5, <1>7, <2>1, <2>6 DEF Left, StepsLeft
    <2> QED
      BY <2>5, <2>6, <2>7
  <1>11. CASE DirFails \/ SkipDir
    <2>1. phase = "discover" /\ phase' = phase /\ todo' = Tail(todo) /\ UNCHANGED fileq
      BY <1>11 DEF DirFails, SkipDir
    <2>2. ToWalk(W) = a /\ ToWalk(W)' = c
      BY <1>5, <2>1 DEF ToWalk
    <2>3. StepsLeft(W) = a + 5 * n + 2
      BY <1>5, <1>7, <2>1, <2>2 DEF Left, StepsLeft
    <2>4. StepsLeft(W)' = c + 5 * n + 2
      BY <1>5, <1>7, <2>1, <2>2 DEF Left, StepsLeft
    <2> QED
      BY <1>6, <2>3, <2>4
  <1> QED
    BY <1>8, <1>9, <1>10, <1>11

(* So is each of the other steps of do_scan.                               *)
LEMMA DoScanNearer ==
  ASSUME NEW W, Tree(W), IInv, EntryThere, DoScan
  PROVE  StepsLeft(W)' < StepsLeft(W)
  <1>1. PICK k \in Nat, n \in Nat : k = ToWalk(W) /\ n = Len(fileq)
    BY Numbers
  <1>2. Left(k, n) /\ Left(ToWalk(W)', Len(fileq)')
    BY <1>1, LeftFrom
  <1>3. CASE EnterDir \/ ReadEntry \/ LeaveDir \/ DirFails \/ SkipDir
    BY <1>3, WalkNearer
  <1>4. CASE OpenCache \/ TruncateFails
    <2>1. phase = "init" /\ phase' = "discover" /\ todo' = Roots /\ UNCHANGED fileq
      BY <1>4 DEF OpenCache, TruncateFails
    <2>2. ToWalk(W)' = k
      BY <1>1, <2>1 DEF ToWalk
    <2> QED
      BY <1>1, <1>2, <2>1, <2>2 DEF Left, StepsLeft
  <1>5. CASE OpenFails \/ ScanAborted \/ ScanFinished
    <2>1. phase \in {"init", "scan"} /\ phase' = "idle"
      BY <1>5 DEF OpenFails, ScanAborted, ScanFinished
    <2> QED
      BY <1>1, <1>2, <2>1, SMTT(60) DEF Left, StepsLeft
  <1>6. CASE Discovered
    <2>1. phase = "discover" /\ phase' = "scan" /\ UNCHANGED fileq
      BY <1>6 DEF Discovered
    <2> QED
      BY <1>1, <1>2, <2>1 DEF Left, StepsLeft
  <1>7. CASE HashNext \/ GetFails
    <2>1. phase = "scan" /\ phase' \in {"file", "count"} /\ UNCHANGED fileq
      BY <1>7 DEF HashNext, GetFails
    <2> QED
      BY <1>1, <1>2, <2>1 DEF Left, StepsLeft
  <1>8. CASE ScanNext \/ PutFails
    <2>1. phase = "file" /\ phase' \in {"send", "count"} /\ UNCHANGED fileq
      BY <1>8 DEF ScanNext, PutFails
    <2> QED
      BY <1>1, <1>2, <2>1 DEF Left, StepsLeft
  <1>9. CASE SendNext
    <2>1. phase = "send" /\ phase' = "count" /\ UNCHANGED fileq
      BY <1>9 DEF SendNext
    <2> QED
      BY <1>1, <1>2, <2>1 DEF Left, StepsLeft
  <1>10. CASE CountNext
    <2>1. phase = "count" /\ phase' = "counted" /\ UNCHANGED fileq
      BY <1>10 DEF CountNext
    <2> QED
      BY <1>1, <1>2, <2>1 DEF Left, StepsLeft
  <1>11. CASE TakeNext
    <2>1. phase = "counted" /\ phase' = "scan" /\ fileq # <<>> /\ fileq' = Tail(fileq)
      BY <1>11 DEF TakeNext, IInv, AtHand
    <2>2. Len(fileq)' = n - 1
      BY <1>1, <2>1 DEF IInv, TypeOK
    <2> QED
      BY <1>1, <1>2, <2>1, <2>2 DEF Left, StepsLeft
  <1> QED
    BY <1>3, <1>4, <1>5, <1>6, <1>7, <1>8, <1>9, <1>10, <1>11 DEF DoScan

(* What happens besides adds nothing, but for the start of another scan.   *)
LEMMA OthersKeep ==
  ASSUME NEW W, Tree(W), IInv, EntryThere, IInv', EntryThere', [Next]_vars, ~DoScan, ~ScanBegin
  PROVE  StepsLeft(W)' <= StepsLeft(W)
  <1>1. StepsLeft(W) \in Nat
    BY Numbers
  <1>2. CASE UNCHANGED <<phase, todo, entry, fileq>>
    <2>1. StepsLeft(W)' = StepsLeft(W)
      BY <1>2 DEF StepsLeft, ToWalk
    <2> QED
      BY <1>1, <2>1
  <1>3. CASE phase' \in {"none", "idle"}
    <2>1. Left(ToWalk(W)', Len(fileq)')
      BY LeftFrom
    <2>2. StepsLeft(W)' = 0
      BY <1>3, <2>1 DEF Left, StepsLeft
    <2> QED
      BY <1>1, <2>2
  <1>4. CASE Create \/ Destroy \/ Crash
    BY <1>3, <1>4 DEF Create, Destroy, Crash, Dies, Gone
  <1>5. CASE Abort \/ Deliver \/ (\E f \in File : ScanFile(f))
    BY <1>2, <1>5 DEF Abort, Deliver, ScanFile, walk
  <1>6. CASE (\E f \in Good \cup Bad : Change(f)) \/ Over \/ UNCHANGED vars
    BY <1>2, <1>6 DEF Change, Over, vars, walk
  <1> QED
    BY <1>4, <1>5, <1>6 DEF Next, Client

(* A scan cannot go on for ever where the directories form a tree: every   *)
(* step of do_scan takes it nearer to its end, whatever is found, fails or *)
(* changes, and nothing takes it back.                                     *)
THEOREM AlwaysNearer ==
  ASSUME NEW W, Tree(W)
  PROVE  Spec => [](StepsLeft(W) \in Nat) /\ GetsNearer(W)
  <1>1. IInv /\ EntryThere => StepsLeft(W) \in Nat
    BY Numbers
  <1>2. (IInv /\ EntryThere) /\ (IInv /\ EntryThere)' /\ (StepsLeft(W) \in Nat)' /\ [Next]_vars
          => [/\ DoScan => StepsLeft(W)' < StepsLeft(W)
              /\ ~ScanBegin => StepsLeft(W)' <= StepsLeft(W)]_vars
    <2> SUFFICES ASSUME IInv, EntryThere, IInv', EntryThere', StepsLeft(W)' \in Nat, [Next]_vars
                 PROVE  /\ DoScan => StepsLeft(W)' < StepsLeft(W)
                        /\ ~ScanBegin => StepsLeft(W)' <= StepsLeft(W)
      OBVIOUS
    <2>1. StepsLeft(W) \in Nat
      BY Numbers
    <2>2. CASE DoScan
      <3>1. StepsLeft(W)' < StepsLeft(W)
        BY <2>2, DoScanNearer
      <3> QED
        BY <2>1, <3>1
    <2>3. CASE ~DoScan
      <3>1. ~ScanBegin => StepsLeft(W)' <= StepsLeft(W)
        BY <2>3, OthersKeep
      <3> QED
        BY <2>3, <3>1
    <2> QED
      BY <2>2, <2>3
  <1> QED
    BY <1>1, <1>2, AlwaysThere, PTL DEF Spec, GetsNearer
=============================================================================
