---------------------------- MODULE ScanPipeline ----------------------------
(***************************************************************************)
(* What ms_scan scans: do_scan walks the directories into a list of files, *)
(* and ms_scan_file takes each file on the list through HashFile, the      *)
(* cache database and result_scan.  The client uses one MediaScan object   *)
(* for several scans, destroys it and makes another; the cache outlives    *)
(* it, and files change on disk all the while.  Sources: do_scan,          *)
(* ms_scan_file and the ms_* functions around them in src/mediascan.c,     *)
(* recurse_dir in src/mediascan_unix.c, src/database.c, src/progress.c.    *)
(*                                                                         *)
(* A file's contents are a version: 0 when it is missing or empty, else    *)
(* the time of its last change, which is also what HashFile makes of it    *)
(* (changes HashFile cannot see, of the same size in the same second, are  *)
(* not modelled).  How results travel to the client is AsyncScan's         *)
(* subject; here they are told at once (sync) or left pending (async).     *)
(***************************************************************************)
EXTENDS Naturals, Sequences

CONSTANTS
  File, Dir,
  Good,             \* files result_scan can make a result of,
  Bad,              \*   those it cannot; other files have no known extension
  Roots,            \* s->paths, a sequence of directories
  Files,            \* the entries of each directory that are files, in order
  Subdirs,          \* and those that are directories to be scanned
  MaxTime,          \* bound: changes of files
  MaxScans,         \* bound: scans with the first object, with each later one one less
  MaxObjects,       \* bound: objects made one after the other
  MaxDirect,        \* bound: results of one file when the client scans it directly
  MaxFaults,        \* bound: crashes and errors of the disk
  FlagSets,         \* what ms_set_flags is called with
  HasProgress       \* the client has set a progress callback

ASSUME ScanPipelineAssumption ==
  /\ Good \subseteq File /\ Bad \subseteq File \ Good
  /\ Roots \in Seq(Dir)
  /\ Files \in [Dir -> Seq(File)] /\ Subdirs \in [Dir -> Seq(Dir)]
  /\ MaxTime \in Nat /\ MaxScans \in Nat /\ MaxObjects \in Nat
  /\ MaxDirect \in Nat /\ MaxFaults \in Nat
  /\ FlagSets \subseteq SUBSET {"MS_FULL_SCAN", "MS_RESCAN", "MS_CLEARDB"}
  /\ HasProgress \in BOOLEAN

VARIABLES
  now, fs,          \* time, and the version of each file
  db,               \* version of each file whose hash the database holds, 0 for none
  disk,             \* what of it is in its file for sure
  dbp,              \* s->dbp is open
  phase,            \* where the object is: none, idle, or a place in do_scan
  flags,            \* s->flags
  thread,           \* s->thread is set: there was an asynchronous scan
  want,             \* s->_want_abort
  todo,             \* directories recurse_dir has yet to enter, the next one first
  entry,            \* the entry of that directory recurse_dir reads, 0 for none
  fileq,            \* s->_dirq flattened: the files to scan
  hash,             \* version HashFile saw in the file being scanned
  found,            \* version result_scan made the result of that is in hand
  total, done,      \* s->progress
  pending, told,    \* results queued for the client, and those it was given
  (* history *)
  ended,            \* how the last scan ended
  scans, objects,   \* scans of this object, objects made so far
  asked,            \* an abort was asked for during this scan
  stable,           \* the files that have not changed during this scan
  lost,             \* results that were in a queue nobody reads any more
  unsent,           \* results a crash kept from being sent, though the database has them
  sent,             \* every result ever sent
  seen,             \* how many results this scan sent for each file
  excused,          \* files this scan met an error with
  faults            \* crashes and errors so far

object == <<flags, thread, scans, objects>>
progress == <<total, done>>
file == <<hash, found>>
walk == <<todo, entry>>
history == <<sent, seen, told, pending, lost, unsent>>
cache == <<db, disk, dbp>>
span == <<stable, excused, faults>>
vars == <<now, fs, cache, phase, want, walk, fileq, file, progress, object, ended, asked,
          span, history>>

Zero == [f \in File |-> 0]

Scanning == phase \notin {"none", "idle"}

-----------------------------------------------------------------------------
(* A result holds the contents v result_scan found.  It goes to the        *)
(* callback or, once there was a thread, to its queue.                     *)
SendResult(f, v) ==
  /\ sent' = sent \cup {<<f, v>>}
  /\ seen' = [seen EXCEPT ![f] = @ + 1]
  /\ UNCHANGED <<lost, unsent>>
  /\ IF thread
     THEN pending' = Append(pending, <<f, v>>) /\ UNCHANGED told
     ELSE told' = told \cup {<<f, v>>} /\ UNCHANGED pending

(* Mutant of Cached: DB_GET by path, without comparing the hash.           *)
CachedByPath(f, v) == dbp /\ flags \cap {"MS_RESCAN", "MS_FULL_SCAN"} # {} /\ db[f] # 0

(* DB_GET_BOTH finds the path with this very hash.                         *)
Cached(f, v) == dbp /\ flags \cap {"MS_RESCAN", "MS_FULL_SCAN"} # {} /\ db[f] = v

(* Mutant of Store: the database is never written.                         *)
StoreNothing(f, v) == db

(* The database after a result for f whose hash was v.                     *)
Store(f, v) == IF dbp THEN [db EXCEPT ![f] = v] ELSE db

(* result_scan opens the file and recognises what is in it.                *)
CanScan(f) == f \in Good /\ fs[f] # 0

-----------------------------------------------------------------------------
(* The queue goes, with what is in it.                                     *)
DropQueue == pending' = <<>> /\ lost' = lost \cup {pending[i] : i \in DOMAIN pending}

(* ms_create, with ms_set_flags before the first scan.                     *)
Create ==
  /\ phase = "none" /\ objects < MaxObjects
  /\ objects' = objects + 1 /\ flags' \in FlagSets /\ phase' = "idle"
  /\ UNCHANGED <<now, fs, cache, want, walk, fileq, file, progress, thread, scans, ended, asked,
                 span, history>>

(* ms_scan, with ms_set_async before it or not.  In async mode a new       *)
(* thread with a new queue takes the place of the last one, and nobody     *)
(* reads the old queue any more; else the last thread stays.               *)
ScanBegin ==
  /\ phase = "idle" /\ scans + objects <= MaxScans
  /\ phase' = "init" /\ scans' = scans + 1
  /\ ended' = "none" /\ asked' = FALSE /\ stable' = File /\ seen' = Zero
  /\ excused' = {}
  /\ \/ thread' = TRUE /\ DropQueue
     \/ UNCHANGED <<thread, pending, lost>>
  /\ UNCHANGED <<now, fs, cache, want, walk, fileq, file, progress, flags, objects, sent,
                 unsent, told, faults>>

(* Mutant of Opened: opened without DB_TRUNCATE.                           *)
OpenedAsIs == IF "MS_CLEARDB" \in flags THEN Zero ELSE db

(* What init_bdb leaves in the database: an object opens it once, and      *)
(* empties it then for a full scan.                                        *)
OnceOpen == IF ~dbp /\ "MS_FULL_SCAN" \in flags THEN Zero ELSE db

(* And what reset_bdb leaves of that.                                      *)
Opened == IF "MS_CLEARDB" \in flags THEN Zero ELSE OnceOpen

OpenCache ==
  /\ phase = "init"
  /\ db' = Opened /\ dbp' = TRUE
  /\ todo' = Roots
  /\ phase' = "discover"
  /\ UNCHANGED <<now, fs, disk, want, entry, fileq, file, progress, object, ended, asked, span,
                 history>>

(* An error of the disk, that a scan of these files meets with.            *)
Fault(files) ==
  /\ faults < MaxFaults /\ faults' = faults + 1
  /\ excused' = excused \cup files /\ UNCHANGED stable

(* The database cannot be emptied, or not all of it, which reset_bdb does  *)
(* not notice.                                                             *)
TruncateFails ==
  /\ phase = "init" /\ "MS_CLEARDB" \in flags /\ Fault(File)
  /\ \E kept \in SUBSET File : db' = [f \in File |-> IF f \in kept THEN OnceOpen[f] ELSE 0]
  /\ dbp' = TRUE
  /\ todo' = Roots
  /\ phase' = "discover"
  /\ UNCHANGED <<now, fs, disk, want, entry, fileq, file, progress, object, ended, asked,
                 history>>

(* init_bdb fails: an error is sent, and the finish callback called.       *)
OpenFails ==
  /\ phase = "init" /\ ~dbp
  /\ phase' = "idle" /\ ended' = "failed"
  /\ UNCHANGED <<now, fs, cache, want, walk, fileq, file, progress, object, asked, span,
                 history>>

(* Mutant of ShouldScan: every file is listed.                             *)
ShouldScanAll(f) == TRUE

(* _should_scan knows the extension.                                       *)
ShouldScan(f) == f \in Good \cup Bad

(* recurse_dir opens the next directory.                                   *)
EnterDir ==
  /\ phase = "discover" /\ todo # <<>> /\ ~want
  /\ phase' = "readdir" /\ entry' = 1
  /\ UNCHANGED <<now, fs, cache, want, todo, fileq, file, progress, object, ended, asked,
                 span, history>>

(* An entry is read: a file with a known extension is put on the list.  A  *)
(* missing file has no entry, an empty one has.                            *)
ReadEntry ==
  /\ phase = "readdir" /\ entry <= Len(Files[Head(todo)]) /\ ~want
  /\ entry' = entry + 1
  /\ LET f == Files[Head(todo)][entry] IN
       \/ ShouldScan(f) /\ fileq' = Append(fileq, f) /\ total' = total + 1
       \/ (ShouldScan(f) => fs[f] = 0) /\ UNCHANGED <<fileq, total>>
  /\ UNCHANGED <<now, fs, cache, phase, want, todo, file, done, object, ended, asked, span,
                 history>>

(* The directory is read: recurse_dir enters its subdirectories, before    *)
(* anything else that is left to enter.  After an abort it leaves the rest *)
(* of the directory, and its subdirectories.                               *)
LeaveDir ==
  /\ phase = "readdir" /\ (want \/ entry > Len(Files[Head(todo)]))
  /\ phase' = "discover" /\ entry' = 0
  /\ todo' = (IF want THEN <<>> ELSE Subdirs[Head(todo)]) \o Tail(todo)
  /\ UNCHANGED <<now, fs, cache, want, fileq, file, progress, object, ended, asked, span,
                 history>>

(* The directories below those of roots.                                   *)
Below(roots) ==
  {d \in Dir : \A S \in SUBSET Dir :
     /\ roots \subseteq S
     /\ \A e \in S : \A i \in DOMAIN Subdirs[e] : Subdirs[e][i] \in S
     => d \in S}

FilesIn(dirs) == {f \in File : \E d \in dirs : \E i \in DOMAIN Files[d] : Files[d][i] = f}

(* opendir fails: the directory is left out, and all below it; no error is *)
(* sent.                                                                   *)
DirFails ==
  /\ phase = "discover" /\ todo # <<>> /\ ~want
  /\ Fault(FilesIn(Below({Head(todo)})))
  /\ todo' = Tail(todo)
  /\ UNCHANGED <<now, fs, cache, phase, want, entry, fileq, file, progress, object, ended, asked,
                 history>>

(* Mutant of SkipDir: the loop does not take the directory off its list.   *)
SkipDirAgain == phase = "discover" /\ todo # <<>> /\ want /\ UNCHANGED vars

(* After an abort directories are not entered, or left at once.            *)
SkipDir ==
  /\ phase = "discover" /\ todo # <<>> /\ want
  /\ todo' = Tail(todo)
  /\ UNCHANGED <<now, fs, cache, phase, want, entry, fileq, file, progress, object, ended, asked,
                 span, history>>

Discovered ==
  /\ phase = "discover" /\ todo = <<>>
  /\ phase' = "scan"
  /\ UNCHANGED <<now, fs, cache, want, walk, fileq, file, progress, object, ended, asked,
                 span, history>>

(* ms_scan_file begins: HashFile, and the two reasons to skip the file.    *)
HashNext ==
  /\ phase = "scan" /\ fileq # <<>> /\ ~want
  /\ LET f == Head(fileq) IN
       /\ hash' = fs[f]
       /\ phase' = IF fs[f] = 0 \/ Cached(f, fs[f]) THEN "count" ELSE "file"
  /\ UNCHANGED <<now, fs, cache, want, walk, fileq, found, progress, object, ended, asked, span,
                 history>>

(* The database's get fails: that is not DB_NOTFOUND, and the file is      *)
(* skipped as if it were in the cache.                                     *)
GetFails ==
  /\ phase = "scan" /\ fileq # <<>> /\ ~want
  /\ LET f == Head(fileq) IN
       /\ hash' = fs[f] /\ fs[f] # 0
       /\ dbp /\ flags \cap {"MS_RESCAN", "MS_FULL_SCAN"} # {}
       /\ Fault({f})
  /\ phase' = "count"
  /\ UNCHANGED <<now, fs, cache, want, walk, fileq, found, progress, object, ended, asked, history>>

(* Mutant of ScanNext: the hash is stored whatever result_scan returns.    *)
ScanNextStoresFirst ==
  /\ phase = "file"
  /\ LET f == Head(fileq) IN
       /\ db' = Store(f, hash)
       /\ IF CanScan(f) THEN found' = fs[f] /\ phase' = "send"
                        ELSE phase' = "count" /\ UNCHANGED found
  /\ UNCHANGED <<now, fs, disk, dbp, want, walk, fileq, hash, progress, object, ended, asked,
                 span, history>>

(* ms_scan_file goes on: result_scan makes a result, and its hash goes     *)
(* into the database; or there is an error.                                *)
ScanNext ==
  /\ phase = "file"
  /\ LET f == Head(fileq) IN
       IF CanScan(f)
       THEN db' = Store(f, hash) /\ found' = fs[f] /\ phase' = "send"
       ELSE phase' = "count" /\ UNCHANGED <<db, found>>
  /\ UNCHANGED <<now, fs, disk, dbp, want, walk, fileq, hash, progress, object, ended, asked,
                 span, history>>

(* The database's put fails: the result is sent, and will be again.        *)
PutFails ==
  /\ phase = "file" /\ dbp
  /\ LET f == Head(fileq) IN CanScan(f) /\ found' = fs[f] /\ Fault({f})
  /\ phase' = "send"
  /\ UNCHANGED <<now, fs, cache, want, walk, fileq, hash, progress, object, ended, asked,
                 history>>

(* ms_scan_file ends: the result is sent.                                  *)
SendNext ==
  /\ phase = "send"
  /\ SendResult(Head(fileq), found)
  /\ phase' = "count"
  /\ UNCHANGED <<now, fs, cache, want, walk, fileq, file, progress, object, ended, asked, span>>

(* The file is counted if anyone looks at the count ...                    *)
CountNext ==
  /\ phase = "count"
  /\ done' = IF HasProgress THEN done + 1 ELSE done
  /\ phase' = "counted"
  /\ UNCHANGED <<now, fs, cache, want, walk, fileq, file, total, object, ended, asked, span,
                 history>>

(* ... and taken off the list, after the progress callback.                *)
TakeNext ==
  /\ phase = "counted"
  /\ fileq' = Tail(fileq) /\ hash' = 0 /\ found' = 0
  /\ phase' = "scan"
  /\ UNCHANGED <<now, fs, cache, want, walk, progress, object, ended, asked, span, history>>

(* Mutant of ScanAborted: the file it stops at is dropped, not counted.    *)
ScanAbortedDropping ==
  /\ phase = "scan" /\ fileq # <<>> /\ want
  /\ phase' = "idle" /\ ended' = "aborted" /\ fileq' = Tail(fileq)
  /\ UNCHANGED <<now, fs, cache, want, walk, file, progress, object, asked, span, history>>

(* The abort is noticed with files left, which stay on the list.           *)
ScanAborted ==
  /\ phase = "scan" /\ fileq # <<>> /\ want
  /\ phase' = "idle" /\ ended' = "aborted"
  /\ UNCHANGED <<now, fs, cache, want, walk, fileq, file, progress, object, asked, span,
                 history>>

ScanFinished ==
  /\ phase = "scan" /\ fileq = <<>>
  /\ phase' = "idle" /\ ended' = "finished"
  /\ UNCHANGED <<now, fs, cache, want, walk, fileq, file, progress, object, asked, span,
                 history>>

DoScan ==
  \/ OpenCache \/ TruncateFails \/ OpenFails
  \/ EnterDir \/ ReadEntry \/ LeaveDir \/ DirFails \/ SkipDir \/ Discovered
  \/ HashNext \/ GetFails \/ ScanNext \/ PutFails \/ SendNext \/ CountNext \/ TakeNext
  \/ ScanAborted \/ ScanFinished

-----------------------------------------------------------------------------
(* The client calls ms_scan_file itself, between scans, for a file that is *)
(* to be scanned.                                                          *)
Direct(f) ==
  phase = "idle" /\ CanScan(f) /\ ~Cached(f, fs[f]) /\ seen[f] < MaxDirect

ScanFile(f) ==
  /\ Direct(f)
  /\ db' = Store(f, fs[f]) /\ SendResult(f, fs[f])
  /\ UNCHANGED <<now, fs, disk, dbp, phase, want, walk, fileq, file, progress, object, ended,
                 asked, span>>

(* ms_abort, from a callback or another place in the client.               *)
Abort ==
  /\ phase # "none" /\ ~want
  /\ want' = TRUE /\ asked' = (asked \/ Scanning)
  /\ UNCHANGED <<now, fs, cache, phase, walk, fileq, file, progress, object, ended, span,
                 history>>

(* ms_async_process hands over the next result.                            *)
Deliver ==
  /\ phase # "none" /\ pending # <<>>
  /\ told' = told \cup {Head(pending)}
  /\ pending' = Tail(pending)
  /\ UNCHANGED <<now, fs, cache, phase, want, walk, fileq, file, progress, object, ended,
                 asked, span, lost, unsent, sent, seen>>

(* The object and what belongs to it is gone.                              *)
Gone ==
  /\ phase' = "none" /\ flags' = {} /\ thread' = FALSE /\ scans' = 0
  /\ want' = FALSE /\ dbp' = FALSE /\ todo' = <<>> /\ entry' = 0 /\ fileq' = <<>>
  /\ hash' = 0 /\ found' = 0 /\ total' = 0 /\ done' = 0 /\ DropQueue
  /\ ended' = "none" /\ asked' = FALSE /\ stable' = File /\ seen' = Zero /\ excused' = {}
  /\ UNCHANGED <<now, fs, objects, told, sent>>

(* ms_destroy, after the abort and the join AsyncScan models: what is      *)
(* queued is discarded, and the database closed.                           *)
Destroy == phase = "idle" /\ Gone /\ disk' = db /\ UNCHANGED <<db, faults, unsent>>

(* A result do_scan has in hand, its hash in the database already.         *)
InHand == IF phase = "send" THEN {<<Head(fileq), found>>} ELSE {}

(* The client's process ends when the database is d, before it was told    *)
(* the results in hand.  Of each file the database then has the last       *)
(* entry, or the one that was there when it was last closed.               *)
Dies(d, inHand) ==
  /\ faults < MaxFaults /\ faults' = faults + 1
  /\ Gone
  /\ \E kept \in SUBSET File : db' = [f \in File |-> IF f \in kept THEN d[f] ELSE disk[f]]
  /\ disk' = db'
  /\ unsent' = unsent \cup {r \in inHand : db'[r[1]] # 0}

(* That happens at any point, within ms_scan_file too.                     *)
Crash ==
  /\ phase # "none"
  /\ \/ Dies(db, InHand)
     \/ \E f \in File : dbp /\ Direct(f) /\ Dies(Store(f, fs[f]), {<<f, fs[f]>>})

(* Somebody writes a file, or removes or empties it.  (What the scan never *)
(* looks at does not change.)                                              *)
Change(f) ==
  /\ now < MaxTime
  /\ now' = now + 1
  /\ fs' \in {[fs EXCEPT ![f] = now + 1], [fs EXCEPT ![f] = 0]}
  /\ stable' = stable \ {f}
  /\ UNCHANGED <<cache, phase, want, walk, fileq, file, progress, object, ended, asked,
                 excused, faults, history>>

Client ==
  \/ Create \/ ScanBegin \/ Abort \/ Deliver \/ Destroy
  \/ \E f \in File : ScanFile(f)

Over == phase = "none" /\ objects = MaxObjects /\ UNCHANGED vars

Init ==
  /\ now = 1 /\ fs = [f \in File |-> 1] /\ db = Zero /\ dbp = FALSE
  /\ phase = "none" /\ flags = {} /\ thread = FALSE /\ want = FALSE
  /\ todo = <<>> /\ entry = 0 /\ fileq = <<>> /\ hash = 0 /\ found = 0
  /\ total = 0 /\ done = 0 /\ pending = <<>> /\ told = {}
  /\ ended = "none" /\ scans = 0 /\ objects = 0 /\ asked = FALSE
  /\ disk = Zero /\ excused = {} /\ faults = 0
  /\ stable = File /\ lost = {} /\ unsent = {} /\ sent = {} /\ seen = Zero

Next == DoScan \/ Client \/ Crash \/ (\E f \in Good \cup Bad : Change(f)) \/ Over

Spec == Init /\ [][Next]_vars
LiveSpec == Spec /\ WF_vars(DoScan)
-----------------------------------------------------------------------------
(* Every variable keeps its type; only files with a known extension are    *)
(* on the list.                                                            *)
TypeOK ==
  /\ now \in Nat /\ fs \in [File -> Nat] /\ db \in [File -> Nat]
  /\ disk \in [File -> Nat] /\ dbp \in BOOLEAN
  /\ phase \in {"none", "idle", "init", "discover", "readdir", "scan", "file", "send", "count",
                "counted"}
  /\ flags \subseteq {"MS_FULL_SCAN", "MS_RESCAN", "MS_CLEARDB"}
  /\ thread \in BOOLEAN /\ want \in BOOLEAN
  /\ todo \in Seq(Dir) /\ entry \in Nat /\ fileq \in Seq(Good \cup Bad)
  /\ hash \in Nat /\ found \in Nat /\ total \in Nat /\ done \in Nat
  /\ pending \in Seq(File \X Nat)
  /\ told \subseteq File \X Nat /\ lost \subseteq File \X Nat /\ sent \subseteq File \X Nat
  /\ unsent \subseteq File \X Nat
  /\ ended \in {"none", "failed", "aborted", "finished"} /\ asked \in BOOLEAN
  /\ scans \in Nat /\ objects \in Nat /\ stable \subseteq File /\ seen \in [File -> Nat]
  /\ excused \subseteq File /\ faults \in 0..MaxFaults

(* The files a scan should have a result for: there, unchanged since it    *)
(* began, and met with no error.                                           *)
Due ==
  {f \in (stable \cap Good) \ excused :
     fs[f] # 0 /\ f \in FilesIn(Below({Roots[i] : i \in DOMAIN Roots}))}

Complete == phase = "idle" /\ ended = "finished" /\ ~want

(* A finished scan leaves nothing out: the client has been told of the     *)
(* present contents of every file, by this scan or by an earlier one that  *)
(* the cache remembers, even of another object, unless it gave up a queue  *)
(* that held the result, or ended between the put and the callback.        *)
NothingMissed ==
  Complete /\ pending = <<>> => \A f \in Due : <<f, fs[f]>> \in told \cup lost \cup unsent

(* A full scan with an object that has not scanned before, or that clears  *)
(* the database, scans every file.                                         *)
FreshFullScan ==
  Complete /\ ("MS_CLEARDB" \in flags \/ ("MS_FULL_SCAN" \in flags /\ scans = 1)) =>
    \A f \in Due : seen[f] > 0

(* A file on the list several times, because the paths overlap, is         *)
(* reported once if it does not change: the first scan's hash is in the    *)
(* database by the time of the second.                                     *)
ReportedOnce ==
  dbp /\ flags \cap {"MS_RESCAN", "MS_FULL_SCAN"} # {} => \A f \in stable \ excused : seen[f] <= 1

(* The database never claims more than was scanned: a hash in it belongs   *)
(* to contents, or to earlier ones than those, of a result that was sent,  *)
(* is being sent, or would have been but for a crash.  HashFile runs       *)
(* before result_scan, and the file may change in between.                 *)
CacheNeverAhead ==
  \A f \in File :
    db[f] # 0 => \E r \in sent \cup unsent \cup InHand : r[1] = f /\ r[2] >= db[f]

(* Files found less files done are the files on the list that are not      *)
(* counted yet, also after an abort that left files on it and through the  *)
(* next scan.                                                              *)
ProgressExact ==
  HasProgress => total = done + Len(IF phase = "counted" THEN Tail(fileq) ELSE fileq)

(* Every scan ends: each directory and file is left behind.                *)
ScanEnds == Scanning ~> ~Scanning

-----------------------------------------------------------------------------
(* Claims the repository makes that the code does not keep.                *)

(* libmediascan.h: "MS_FULL_SCAN - Scan all files found that are not       *)
(* specified in the ignore list".                                          *)
FullScanScansAll ==
  Complete /\ "MS_FULL_SCAN" \in flags => \A f \in Due : seen[f] > 0

(* mediascan.c, ms_abort: "Request current scan to abort", so a scan stops *)
(* short only if that was requested of it.                                 *)
OnlyCurrentAborts == ended = "aborted" => asked

(* libmediascan.h, ms_set_result_callback: the callback "will be called    *)
(* for every scanned file", so none is still to be called for a file that  *)
(* a scan has finished with.  A queue that is dropped breaks it, and so    *)
(* does a crash after the put and before the callback.                     *)
EveryResultTold ==
  Complete /\ pending = <<>> => \A f \in Due : <<f, fs[f]>> \in told
=============================================================================
