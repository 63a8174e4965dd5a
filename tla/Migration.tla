------------------------------ MODULE Migration ------------------------------
(***************************************************************************)
(* src/migration.rs: copying one block device onto another, with progress  *)
(* kept in a JSON state file so that a later invocation can resume.        *)
(*                                                                         *)
(* Every `rmdadm migration start|resume|pause` and every REST handler is a *)
(* process of its own; processes share nothing but the state file and the  *)
(* devices, and no lock protects either.  A save is File::create (which    *)
(* truncates) followed by the writes of the serializer, token by token; a  *)
(* load reads byte by byte.  So other processes load or save in between, a *)
(* load or a save that meets another's save ends in spliced bytes, and a   *)
(* killed process leaves the file torn.                                    *)
(*                                                                         *)
(* Abstractions: the device is a sequence of equal blocks; a record keeps  *)
(* the two fields that are ever read back (bytes_copied and status); an    *)
(* absent file and an unparsable one are the same, since load_state fails  *)
(* on both.  What spliced bytes say is not worked out: they may parse as   *)
(* any record at all (8388608 written over 12582912 reads 83886082).       *)
(***************************************************************************)
EXTENDS Integers

CONSTANTS
  Procs,         \* invocations of the migration commands
  Jobs,          \* (source, target) pairs
  JobOf,         \* JobOf[p]: the pair given to invocation p
  Ids,           \* names of state files
  IdOf,          \* IdOf[j]: the name id() derives from the pair j
  SourceSize,    \* SourceSize[j], in blocks
  TargetSize,    \* TargetSize[j], in blocks
  BufferSize,    \* COPY_BUFFER_SIZE, in blocks
  Unmeasured,    \* pairs whose sizes `blockdev` may fail to tell, see Measured
  Offsets        \* the numbers that spliced digits may spell

ASSUME MigrationAssumption ==
  /\ JobOf \in [Procs -> Jobs]
  /\ IdOf \in [Jobs -> Ids]
  /\ SourceSize \in [Jobs -> Nat]
  /\ TargetSize \in [Jobs -> Nat]
  /\ BufferSize \in Nat \ {0}
  /\ Unmeasured \subseteq Jobs
  /\ Offsets \subseteq Nat

VARIABLES
  file,      \* file[i]: what load_state makes of state file i
  landed,    \* landed[j]: source blocks of j that the target returns when read
  durable,   \* durable[j]: those that are on stable storage
  run        \* run[p]: where invocation p is, and its local MigrationState

vars == <<file, landed, durable, run>>

-----------------------------------------------------------------------------
(* Data. *)

Status == {"Running", "Paused", "Completed"}
Labels ==
  {"idle", "resume", "pause", "begin", "save", "write", "loop", "copy", "sync"}

Blocks(j) == 0 .. (SourceSize[j] - 1)
Prefix(n) == 0 .. (n - 1)

(* exact is only observed: no byte of the record, or of what it was made   *)
(* from, was read or written while another process saved to the same file. *)
Record(c, s, exact) ==
  [whole |-> TRUE, copied |-> c, status |-> s, exact |-> exact]
Unreadable ==
  [whole |-> FALSE, copied |-> 0, status |-> "Running", exact |-> TRUE]

(* met: the load or the save under way has met another's save.             *)
Idle == [pc |-> "idle", copied |-> 0, total |-> 0, status |-> "Running",
         exact |-> TRUE, met |-> FALSE]

Id(p) == IdOf[JobOf[p]]

(* The size device_size reports: for a block device it falls back, when    *)
(* blockdev cannot be run, to the length of the device node, which is 0.   *)
Measured(j, size) == IF j \in Unmeasured THEN {size, 0} ELSE {size}

(* The other invocations that are between the truncation and the last      *)
(* write of a save to the file of p, and those that it meets in a load too.*)
SameFile(p) == {q \in Procs \ {p} : Id(q) = Id(p)}
Saving(p) == {q \in SameFile(p) : run[q].pc = "write"}
Accessing(p) ==
  {q \in SameFile(p) : run[q].pc \in {"write", "resume", "pause", "loop"}}

Own(p) == Record(run[p].copied, run[p].status, run[p].exact)

(* What bytes of several saves may parse as.                               *)
Spliced ==
  {Unreadable} \cup
  [whole : {TRUE}, copied : Offsets, status : Status, exact : {FALSE}]

(* What p finds in the file, and what the file holds when p has written.   *)
Found(p) == IF run[p].met THEN Spliced ELSE {file[Id(p)]}
Left(p) == IF run[p].met THEN Spliced ELSE {Own(p)}

-----------------------------------------------------------------------------
(* The three commands.  Each is refused, changing nothing, when a size     *)
(* check or load_state fails.                                              *)

Init ==
  /\ file = [i \in Ids |-> Unreadable]
  /\ landed = [j \in Jobs |-> {}]
  /\ durable = [j \in Jobs |-> {}]
  /\ run = [p \in Procs |-> Idle]

Become(p, r) == run' = [run EXCEPT ![p] = r]

(* mutant: no size check. *)
PrepareUnchecked(p, offset, exact) ==
  \E source \in Measured(JobOf[p], SourceSize[JobOf[p]]) :
    Become(p, [Idle EXCEPT !.pc = "begin", !.copied = offset,
                           !.total = source, !.exact = exact])

(* copy_with_resume up to its first save.                                  *)
Prepare(p, offset, exact) ==
  \E source \in Measured(JobOf[p], SourceSize[JobOf[p]]),
     target \in Measured(JobOf[p], TargetSize[JobOf[p]]) :
    Become(p, IF target >= source
                THEN [Idle EXCEPT !.pc = "begin", !.copied = offset,
                                  !.total = source, !.exact = exact]
                ELSE Idle)

Start(p) ==
  /\ run[p].pc = "idle"
  /\ Prepare(p, 0, TRUE)
  /\ UNCHANGED <<file, landed, durable>>

(* The file is opened; what it says is known when it has been read.        *)
BeginLoad(p, label) ==
  /\ run[p].pc = "idle"
  /\ Become(p, [Idle EXCEPT !.pc = label, !.met = Saving(p) # {}])
  /\ UNCHANGED <<file, landed, durable>>

Resume(p) == BeginLoad(p, "resume")
Pause(p) == BeginLoad(p, "pause")

ResumeLoaded(p) ==
  /\ run[p].pc = "resume"
  /\ \E r \in Found(p) :
       IF r.whole THEN Prepare(p, r.copied, r.exact) ELSE Become(p, Idle)
  /\ UNCHANGED <<file, landed, durable>>

PauseLoaded(p) ==
  /\ run[p].pc = "pause"
  /\ \E r \in Found(p) :
       Become(p, IF r.whole /\ r.status = "Running"
                   THEN [Idle EXCEPT !.pc = "save", !.copied = r.copied,
                                     !.status = "Paused", !.exact = r.exact]
                   ELSE Idle)
  /\ UNCHANGED <<file, landed, durable>>

-----------------------------------------------------------------------------
(* save_state. *)

SaveOpen(p) ==
  /\ run[p].pc \in {"begin", "save"}
  /\ file' = [file EXCEPT ![Id(p)] = Unreadable]
  /\ run' = [q \in Procs |->
               IF q = p
                 THEN [run[p] EXCEPT !.pc = "write", !.met = Saving(p) # {}]
                 ELSE [run[q] EXCEPT !.met = @ \/ q \in Accessing(p)]]
  /\ UNCHANGED <<landed, durable>>

(* Some of the writes of a save, while others save or after they have.     *)
SavePart(p) ==
  /\ run[p].pc = "write"
  /\ run[p].met
  /\ \E r \in Left(p) : file' = [file EXCEPT ![Id(p)] = r]
  /\ UNCHANGED <<landed, durable, run>>

(* A Running record is saved by a copy that goes on, to the load at the    *)
(* head of its loop; Paused and Completed are saved just before returning. *)
SaveWrite(p) ==
  /\ run[p].pc = "write"
  /\ \E r \in Left(p) : file' = [file EXCEPT ![Id(p)] = r]
  /\ Become(p, IF run[p].status = "Running"
                 THEN [run[p] EXCEPT !.pc = "loop", !.met = Saving(p) # {}]
                 ELSE Idle)
  /\ UNCHANGED <<landed, durable>>

-----------------------------------------------------------------------------
(* The copy loop. *)

(* A file that cannot be read counts as "not paused".                      *)
SaysPaused(r) == r.whole /\ r.status = "Paused"

(* mutant: `continue` where the code returns. *)
LoopCheckAgain(p) ==
  /\ run[p].pc = "loop"
  /\ \E r \in Found(p) :
       Become(p, IF SaysPaused(r)
                   THEN run[p]
                   ELSE [run[p] EXCEPT !.pc = "copy", !.met = FALSE])
  /\ UNCHANGED <<file, landed, durable>>

LoopCheck(p) ==
  /\ run[p].pc = "loop"
  /\ \E r \in Found(p) :
       Become(p, IF SaysPaused(r)
                   THEN [run[p] EXCEPT !.pc = "save", !.met = FALSE,
                                       !.status = "Paused"]
                   ELSE [run[p] EXCEPT !.pc = "copy", !.met = FALSE])
  /\ UNCHANGED <<file, landed, durable>>

(* mutant: the buffer is written whole, not just the bytes read. *)
ChunkWhole(p, n) ==
  /\ run[p].copied < SourceSize[JobOf[p]]
  /\ run[p].copied + n <= TargetSize[JobOf[p]]

(* n more blocks fit: they are in the buffer, the source and the target.   *)
Chunk(p, n) ==
  /\ run[p].copied + n <= SourceSize[JobOf[p]]
  /\ run[p].copied + n <= TargetSize[JobOf[p]]

Land(p, n) ==
  landed' = [landed EXCEPT ![JobOf[p]] =
               @ \cup run[p].copied .. (run[p].copied + n - 1)]

(* mutant: a short read counts as a full buffer. *)
CopyChunkFull(p) ==
  /\ run[p].pc = "copy"
  /\ \E n \in 1 .. BufferSize :
       /\ Chunk(p, n)
       /\ Land(p, n)
       /\ run' = [run EXCEPT ![p].pc = "save", ![p].copied = @ + BufferSize]
  /\ UNCHANGED <<file, durable>>

CopyChunk(p) ==
  /\ run[p].pc = "copy"
  /\ \E n \in 1 .. BufferSize :
       /\ Chunk(p, n)
       /\ Land(p, n)
       /\ run' = [run EXCEPT ![p].pc = "save", ![p].copied = @ + n]
  /\ UNCHANGED <<file, durable>>

(* write_all fails after n blocks of the chunk: the error is returned.     *)
CopyFails(p) ==
  /\ run[p].pc = "copy"
  /\ \E n \in 1 .. BufferSize : Chunk(p, n) /\ Land(p, n)
  /\ Become(p, Idle)
  /\ UNCHANGED <<file, durable>>

(* The target is full though the source is not at its end.                 *)
TargetFull(p) ==
  /\ run[p].pc = "copy"
  /\ run[p].copied < SourceSize[JobOf[p]]
  /\ run[p].copied >= TargetSize[JobOf[p]]
  /\ Become(p, Idle)
  /\ UNCHANGED <<file, landed, durable>>

(* The read returns 0.                                                     *)
EndOfSource(p) ==
  /\ run[p].pc = "copy"
  /\ run[p].copied >= SourceSize[JobOf[p]]
  /\ run' = [run EXCEPT ![p].pc = "sync"]
  /\ UNCHANGED <<file, landed, durable>>

(* mutant: no sync_all before the Completed record. *)
SyncForgotten(p) ==
  /\ run[p].pc = "sync"
  /\ run' = [run EXCEPT ![p] = [@ EXCEPT !.pc = "save", !.status = "Completed",
                                         !.copied = run[p].total]]
  /\ UNCHANGED <<file, landed, durable>>

SyncAll(p) ==
  /\ run[p].pc = "sync"
  /\ durable' = [durable EXCEPT ![JobOf[p]] = landed[JobOf[p]]]
  /\ run' = [run EXCEPT ![p] =
               [@ EXCEPT !.pc = "save", !.status = "Completed",
                         !.copied = run[p].total]]
  /\ UNCHANGED <<file, landed>>

(* The process is killed, or a call fails and `?` returns the error.       *)
Die(p) ==
  /\ run[p].pc # "idle"
  /\ Become(p, Idle)
  /\ UNCHANGED <<file, landed, durable>>

-----------------------------------------------------------------------------
(* What a running invocation does by itself, unless it dies.               *)
Step(p) ==
  \/ ResumeLoaded(p)
  \/ PauseLoaded(p)
  \/ SaveOpen(p)
  \/ SaveWrite(p)
  \/ LoopCheck(p)
  \/ CopyChunk(p)
  \/ TargetFull(p)
  \/ EndOfSource(p)
  \/ SyncAll(p)

Next ==
  \E p \in Procs :
    \/ Start(p)
    \/ Resume(p)
    \/ Pause(p)
    \/ Step(p)
    \/ SavePart(p)
    \/ CopyFails(p)
    \/ Die(p)

Spec == Init /\ [][Next]_vars

(* The kernel schedules every process that is not blocked: an invocation   *)
(* that can take its next step eventually does.  Nobody has to start one.  *)
FairSpec == Spec /\ \A p \in Procs : WF_vars(Step(p))

-----------------------------------------------------------------------------
(* Properties. *)

FileState == [whole : BOOLEAN, copied : Nat, status : Status, exact : BOOLEAN]
RunState ==
  [pc : Labels, copied : Nat, total : Nat, status : Status,
   exact : BOOLEAN, met : BOOLEAN]

(* The values the variables take: only a load or an open save can meet     *)
(* another's, and whatever an overlap of them makes up is not exact.       *)
TypeOK ==
  /\ file \in [Ids -> FileState]
  /\ landed \in [Jobs -> SUBSET Int]
  /\ \A j \in Jobs : landed[j] \subseteq Blocks(j)
  /\ durable \in [Jobs -> SUBSET Int]
  /\ \A j \in Jobs : durable[j] \subseteq landed[j]
  /\ run \in [Procs -> RunState]
  /\ \A p \in Procs :
       run[p].met => run[p].pc \in {"write", "resume", "pause", "loop"}

(* Two pairs never share a state file.  id() replaces every character that *)
(* is not alphanumeric by '_', so the code does not ensure it.             *)
DistinctIds == \A j, k \in Jobs : IdOf[j] = IdOf[k] => j = k

(* An offset that resume would read is backed by the target, everything    *)
(* below it has been copied, unless the number came out of spliced bytes:  *)
(* whatever invocations start, pause, resume, overtake one another and die *)
(* in between, only a load or save that meets another's save can break it  *)
(* (state.bytes_copied only grows past a successful write_all).            *)
ProgressBacked ==
  \A j \in Jobs :
    file[IdOf[j]].whole /\ file[IdOf[j]].exact
      => Prefix(file[IdOf[j]].copied) \subseteq landed[j]

(* A record that says Completed and is exact is only ever read when the    *)
(* whole source is on the target's stable storage: the sync comes before   *)
(* the record, and neither a stale pause nor a second copy can put the     *)
(* status on other data.  A copy that resumes from spliced bytes may well  *)
(* complete with blocks missing: its record is not exact.                  *)
CompletedMeansDurable ==
  \A j \in Jobs :
    file[IdOf[j]].whole /\ file[IdOf[j]].exact
      /\ file[IdOf[j]].status = "Completed"
      => Blocks(j) \subseteq durable[j]

(* The size check precedes the first write: where blockdev can be run, no  *)
(* block reaches a target that is smaller than its source.                 *)
TooSmallTargetUntouched ==
  \A j \in Jobs \ Unmeasured :
    TargetSize[j] < SourceSize[j] => landed[j] = {}

(* Migration implements ResumableCopy as far as its records are exact: a   *)
(* file with spliced bytes is taken to claim nothing, and then every step  *)
(* that changes the claim or the target is one the promise allows, between *)
(* any two steps of any invocation.                                        *)
Claim(r) ==
  IF r.exact
    THEN [whole |-> r.whole, copied |-> r.copied, status |-> r.status]
    ELSE [whole |-> FALSE, copied |-> 0, status |-> "Running"]
Claims == [i \in Ids |-> Claim(file[i])]
Promise == INSTANCE ResumableCopy
             WITH claim <- Claims, held <- landed, safe <- durable
KeepsPromise == Promise!Spec

(* Every invocation comes back: the loop gets to the end of the source, to *)
(* a pause or to an error, however loads and saves of others interleave    *)
(* with its own and whatever their spliced bytes say.                      *)
EveryCallReturns == \A p \in Procs : run[p].pc # "idle" ~> run[p].pc = "idle"

-----------------------------------------------------------------------------
(* What the documentation says and the code does not do. *)

(* README.md "Pause a running migration": a pause that has been recorded   *)
(* (exactly, no spliced bytes) is not overwritten by the progress saves of *)
(* the copy that it should stop.                                           *)
PauseIsNotOverwritten ==
  [][\A p \in Procs :
       run[p].pc = "save" /\ run[p].status = "Running"
         /\ run'[p].pc = "write"
         => ~(SaysPaused(file[Id(p)]) /\ file[Id(p)].exact)]_vars
=============================================================================
