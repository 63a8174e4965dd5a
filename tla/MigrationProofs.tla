--------------------------- MODULE MigrationProofs ---------------------------
(***************************************************************************)
(* Proofs about Migration for any invocations, pairs, sizes and buffer.    *)
(*                                                                         *)
(* An exact record in a file and the local state of an exact invocation    *)
(* make the same promise, Backed: it is written down by save_state and     *)
(* read back by resume and pause, so neither half is inductive without the *)
(* other.  Nothing is assumed of what spliced bytes say, nor of what an    *)
(* invocation does that was misled by them.                                *)
(***************************************************************************)
EXTENDS Migration, TLAPS

Backed(copied, status, j) ==
  /\ Prefix(copied) \subseteq landed[j]
  /\ status = "Completed" => Blocks(j) \subseteq durable[j]

(* Every exact invocation is Backed; before the sync it has read the whole *)
(* source; and the size that an invocation will report is at most that of  *)
(* the source.                                                             *)
Sound(r, p) ==
  /\ r.exact => Backed(r.copied, r.status, JobOf[p])
  /\ r.exact /\ r.pc = "sync" => Blocks(JobOf[p]) \subseteq landed[JobOf[p]]
  /\ r.total <= SourceSize[JobOf[p]]

RunBacked == \A p \in Procs : Sound(run[p], p)

(* A record that claims what its pair has.                                 *)
True(r, j) == r.whole /\ r.exact => Backed(r.copied, r.status, j)

FileBacked == \A j \in Jobs : True(file[IdOf[j]], j)

IInv == TypeOK /\ RunBacked /\ FileBacked

USE MigrationAssumption

-----------------------------------------------------------------------------
(* What is found in a file, and what is left in it, is a record of the     *)
(* right type (no assumption on the names of the files is needed for that).*)
LEMMA SplicedType == Spliced \subseteq FileState
<1>1. Unreadable \in FileState
  BY DEF Unreadable, FileState, Status
<1>2. ASSUME NEW r \in [whole : {TRUE}, copied : Offsets,
                         status : Status, exact : {FALSE}]
      PROVE  r \in FileState
  <2>1. Offsets \subseteq Nat
    OBVIOUS
  <2>2. /\ r = [whole |-> r.whole, copied |-> r.copied, status |-> r.status,
                exact |-> r.exact]
        /\ r.whole = TRUE /\ r.exact = FALSE
        /\ r.copied \in Offsets /\ r.status \in Status
    BY <1>2
  <2> QED
    BY <2>1, <2>2 DEF FileState
<1> QED
  BY <1>1, <1>2 DEF Spliced

LEMMA SplicedCases == \A r \in Spliced : r = Unreadable \/ ~r.exact
BY DEF Spliced

LEMMA FoundType ==
  ASSUME TypeOK, NEW p \in Procs
  PROVE  Found(p) \subseteq FileState /\ Left(p) \subseteq FileState
<1>1. file[Id(p)] \in FileState
  BY DEF TypeOK, Id
<1>2. Own(p) \in FileState
  BY DEF TypeOK, RunState, FileState, Own, Record
<1> QED
  BY <1>1, <1>2, SplicedType DEF Found, Left

Fit(r) ==
  /\ r \in RunState
  /\ r.met => r.pc \in {"write", "resume", "pause", "loop"}

LEMMA IdleFit == Fit(Idle) /\ Idle.met = FALSE /\ Idle.pc = "idle"
BY DEF Idle, Fit, RunState, Labels, Status

(* It is enough to look at the local state that a step replaced.           *)
LEMMA FitUpdate ==
  ASSUME TypeOK, NEW p \in Procs, NEW r, Fit(r), Become(p, r)
  PROVE  run' \in [Procs -> RunState] /\ \A q \in Procs : Fit(run'[q])
BY DEF TypeOK, Fit, Become

(* Where copy_with_resume leaves the invocation before its first save.     *)
Prepared(offset, source, exact) ==
  [Idle EXCEPT !.pc = "begin", !.copied = offset, !.total = source,
               !.exact = exact]

LEMMA PreparedFields ==
  ASSUME NEW offset, NEW source, NEW exact
  PROVE  /\ Prepared(offset, source, exact).pc = "begin"
         /\ Prepared(offset, source, exact).copied = offset
         /\ Prepared(offset, source, exact).total = source
         /\ Prepared(offset, source, exact).exact = exact
         /\ Prepared(offset, source, exact).status = "Running"
BY DEF Prepared, Idle

LEMMA PreparedFit ==
  ASSUME NEW offset \in Nat, NEW source \in Nat, NEW exact \in BOOLEAN
  PROVE  Fit(Prepared(offset, source, exact))
BY DEF Prepared, Idle, Fit, RunState, Labels, Status

LEMMA PrepareCases ==
  ASSUME NEW p \in Procs, NEW offset, NEW exact, Prepare(p, offset, exact)
  PROVE  \/ Become(p, Idle)
         \/ \E source \in Measured(JobOf[p], SourceSize[JobOf[p]]),
                target \in Measured(JobOf[p], TargetSize[JobOf[p]]) :
              /\ target >= source
              /\ Become(p, Prepared(offset, source, exact))
BY DEF Prepare, Prepared

LEMMA PrepareFit ==
  ASSUME TypeOK, NEW p \in Procs, NEW offset \in Nat, NEW exact \in BOOLEAN,
         Prepare(p, offset, exact)
  PROVE  run' \in [Procs -> RunState] /\ \A q \in Procs : Fit(run'[q])
<1>1. CASE Become(p, Idle)
  BY <1>1, IdleFit, FitUpdate
<1>2. ASSUME NEW source \in Measured(JobOf[p], SourceSize[JobOf[p]]),
             Become(p, Prepared(offset, source, exact))
      PROVE  run' \in [Procs -> RunState] /\ \A q \in Procs : Fit(run'[q])
  <2>1. source \in Nat
    BY DEF Measured
  <2>2. Fit(Prepared(offset, source, exact))
    BY <2>1, PreparedFit
  <2> QED
    BY <1>2, <2>2, FitUpdate
<1> QED
  BY <1>1, <1>2, PrepareCases

(* A step keeps every variable in its range.                               *)
LEMMA TypeStep == TypeOK /\ [Next]_vars => TypeOK'
<1> SUFFICES ASSUME TypeOK, [Next]_vars
             PROVE  TypeOK'
  OBVIOUS
<1>0. ASSUME NEW p \in Procs
      PROVE  Fit(run[p]) /\ run[p] \in RunState
  BY DEF TypeOK, Fit
<1>a. ASSUME run' \in [Procs -> RunState], \A q \in Procs : Fit(run'[q]),
             UNCHANGED <<file, landed, durable>>
      PROVE  TypeOK'
  BY <1>a DEF TypeOK, Fit
<1>1. CASE UNCHANGED vars
  BY <1>1 DEF vars, TypeOK
<1>2. ASSUME NEW p \in Procs, Start(p) PROVE TypeOK'
  BY <1>2, <1>a, PrepareFit DEF Start
<1>3. ASSUME NEW p \in Procs, NEW label \in {"resume", "pause"},
             BeginLoad(p, label)
      PROVE  TypeOK'
  <2>1. PICK r : r = [Idle EXCEPT !.pc = label, !.met = Saving(p) # {}]
    OBVIOUS
  <2>2. r.pc = label /\ r \in RunState
    BY <2>1 DEF Idle, RunState, Labels, Status
  <2>3. Fit(r)
    BY <2>2 DEF Fit
  <2> QED
    BY <1>3, <1>a, <2>1, <2>3, FitUpdate DEF BeginLoad
<1>4. ASSUME NEW p \in Procs, ResumeLoaded(p) PROVE TypeOK'
  <2>1. PICK r \in Found(p) :
          IF r.whole THEN Prepare(p, r.copied, r.exact) ELSE Become(p, Idle)
    BY <1>4 DEF ResumeLoaded
  <2>2. r.copied \in Nat /\ r.exact \in BOOLEAN
    BY FoundType DEF FileState
  <2>3. run' \in [Procs -> RunState] /\ \A q \in Procs : Fit(run'[q])
    BY <2>1, <2>2, PrepareFit, IdleFit, FitUpdate
  <2> QED
    BY <1>4, <1>a, <2>3 DEF ResumeLoaded
<1>5. ASSUME NEW p \in Procs, PauseLoaded(p) PROVE TypeOK'
  <2>1. PICK r \in Found(p) :
          \/ Become(p, Idle)
          \/ Become(p, [Idle EXCEPT !.pc = "save", !.copied = r.copied,
                                    !.status = "Paused", !.exact = r.exact])
    BY <1>5 DEF PauseLoaded
  <2>2. r.copied \in Nat /\ r.exact \in BOOLEAN
    BY FoundType DEF FileState
  <2>3. Fit([Idle EXCEPT !.pc = "save", !.copied = r.copied,
                         !.status = "Paused", !.exact = r.exact])
    BY <2>2 DEF Idle, Fit, RunState, Labels, Status
  <2> QED
    BY <1>5, <1>a, <2>1, <2>3, IdleFit, FitUpdate DEF PauseLoaded
<1>6. ASSUME NEW p \in Procs, SaveOpen(p) PROVE TypeOK'
  <2>1. file' \in [Ids -> FileState]
    BY <1>6 DEF SaveOpen, Unreadable, FileState, Status, TypeOK
  <2>2. ASSUME NEW q \in Procs
        PROVE  Fit(run'[q])
    <3>1. CASE q = p
      <4>1. PICK s : s = [run[p] EXCEPT !.pc = "write", !.met = Saving(p) # {}]
        OBVIOUS
      <4>2. s \in RunState /\ s.pc = "write"
        BY <1>0, <4>1 DEF RunState, Labels
      <4> QED
        BY <1>6, <3>1, <4>1, <4>2 DEF SaveOpen, Fit
    <3>2. CASE q # p
      <4>1. PICK s : s = [run[q] EXCEPT !.met = @ \/ q \in Accessing(p)]
        OBVIOUS
      <4>2. s \in RunState /\ s.pc = run[q].pc
             /\ (s.met => run[q].met \/ q \in Accessing(p))
        BY <1>0, <4>1 DEF RunState
      <4>3. Fit(s)
        BY <1>0, <4>2 DEF Fit, Accessing
      <4> QED
        BY <1>6, <3>2, <4>1, <4>3 DEF SaveOpen
    <3> QED
      BY <3>1, <3>2
  <2>3. run' \in [Procs -> RunState]
    <3>1. run' = [q \in Procs |-> run'[q]]
      BY <1>6 DEF SaveOpen
    <3> QED
      BY <2>2, <3>1 DEF Fit
  <2> QED
    BY <1>6, <2>1, <2>2, <2>3 DEF SaveOpen, TypeOK, Fit
<1>7. ASSUME NEW p \in Procs, SaveWrite(p) PROVE TypeOK'
  <2>1. file' \in [Ids -> FileState]
    BY <1>7, FoundType DEF SaveWrite, TypeOK
  <2>2. PICK r : /\ Become(p, r)
                 /\ \/ r = Idle
                    \/ r = [run[p] EXCEPT !.pc = "loop", !.met = Saving(p) # {}]
    BY <1>7 DEF SaveWrite
  <2>3. Fit([run[p] EXCEPT !.pc = "loop", !.met = Saving(p) # {}])
    BY <1>0 DEF RunState, Labels, Fit
  <2>4. run' \in [Procs -> RunState] /\ \A q \in Procs : Fit(run'[q])
    BY <2>2, <2>3, IdleFit, FitUpdate
  <2> QED
    BY <1>7, <2>1, <2>4 DEF SaveWrite, TypeOK, Fit
<1>8. ASSUME NEW p \in Procs, SavePart(p) PROVE TypeOK'
  <2>1. file' \in [Ids -> FileState]
    BY <1>8, FoundType DEF SavePart, TypeOK
  <2> QED
    BY <1>8, <2>1 DEF SavePart, TypeOK
<1>9. ASSUME NEW p \in Procs, LoopCheck(p) PROVE TypeOK'
  <2>1. PICK r : /\ Become(p, r)
                 /\ \/ r = [run[p] EXCEPT !.pc = "save", !.met = FALSE,
                                           !.status = "Paused"]
                    \/ r = [run[p] EXCEPT !.pc = "copy", !.met = FALSE]
    BY <1>9 DEF LoopCheck
  <2>2. r \in RunState /\ r.met = FALSE
    BY <1>0, <2>1 DEF RunState, Labels, Status
  <2>3. run' \in [Procs -> RunState] /\ \A q \in Procs : Fit(run'[q])
    BY <2>1, <2>2, FitUpdate DEF Fit
  <2> QED
    BY <1>9, <1>a, <2>3 DEF LoopCheck
<1>10. ASSUME NEW p \in Procs, NEW n \in 1 .. BufferSize, Chunk(p, n), Land(p, n)
       PROVE  /\ landed' \in [Jobs -> SUBSET Int]
              /\ \A j \in Jobs : landed[j] \subseteq landed'[j]
              /\ \A j \in Jobs : landed'[j] \subseteq Blocks(j)
  <2>1. run[p].copied \in Nat /\ JobOf[p] \in Jobs
    BY <1>0 DEF RunState
  <2>2. run[p].copied .. (run[p].copied + n - 1) \subseteq Blocks(JobOf[p])
    BY <1>10, <2>1 DEF Chunk, Blocks
  <2> QED
    BY <1>10, <2>1, <2>2 DEF Land, TypeOK
<1>11. ASSUME NEW p \in Procs, CopyChunk(p) PROVE TypeOK'
  <2>1. PICK n \in 1 .. BufferSize :
          /\ Chunk(p, n)
          /\ Land(p, n)
          /\ run' = [run EXCEPT ![p].pc = "save", ![p].copied = @ + n]
    BY <1>11 DEF CopyChunk
  <2>2. PICK c \in Nat : c = run[p].copied + n
    BY <1>0 DEF RunState
  <2>3. PICK r : r = [run[p] EXCEPT !.pc = "save", !.copied = c]
    OBVIOUS
  <2>4. Become(p, r)
    BY <2>1, <2>2, <2>3 DEF Become
  <2>5. r \in RunState /\ r.met = run[p].met
    BY <1>0, <2>3 DEF RunState, Labels
  <2>6. Fit(r)
    BY <1>0, <1>11, <2>5 DEF Fit, CopyChunk
  <2>7. run' \in [Procs -> RunState] /\ \A q \in Procs : Fit(run'[q])
    BY <2>4, <2>6, FitUpdate
  <2> QED
    BY <1>10, <1>11, <2>1, <2>7 DEF CopyChunk, TypeOK, Fit
<1>12. ASSUME NEW p \in Procs, CopyFails(p) PROVE TypeOK'
  <2>1. run' \in [Procs -> RunState] /\ \A q \in Procs : Fit(run'[q])
    BY <1>12, IdleFit, FitUpdate DEF CopyFails
  <2> QED
    BY <1>10, <1>12, <2>1 DEF CopyFails, TypeOK, Fit
<1>13. ASSUME NEW p \in Procs, TargetFull(p) \/ Die(p) PROVE TypeOK'
  BY <1>13, <1>a, IdleFit, FitUpdate DEF TargetFull, Die
<1>14. ASSUME NEW p \in Procs, EndOfSource(p) PROVE TypeOK'
  <2>1. PICK r : r = [run[p] EXCEPT !.pc = "sync"]
    OBVIOUS
  <2>2. Become(p, r)
    BY <1>14, <2>1 DEF EndOfSource, Become
  <2>3. r \in RunState /\ r.met = run[p].met
    BY <1>0, <2>1 DEF RunState, Labels
  <2>4. Fit(r)
    BY <1>0, <1>14, <2>3 DEF Fit, EndOfSource
  <2> QED
    BY <1>14, <1>a, <2>2, <2>4, FitUpdate DEF EndOfSource
<1>15. ASSUME NEW p \in Procs, SyncAll(p) PROVE TypeOK'
  <2>1. PICK r : r = [run[p] EXCEPT !.pc = "save", !.status = "Completed",
                                    !.copied = run[p].total]
    OBVIOUS
  <2>2. Become(p, r)
    BY <1>15, <2>1 DEF SyncAll, Become
  <2>3. r \in RunState /\ r.met = run[p].met
    BY <1>0, <2>1 DEF RunState, Labels, Status
  <2>4. Fit(r)
    BY <1>0, <1>15, <2>3 DEF Fit, SyncAll
  <2>5. run' \in [Procs -> RunState] /\ \A q \in Procs : Fit(run'[q])
    BY <2>2, <2>4, FitUpdate
  <2>6. /\ durable' \in [Jobs -> SUBSET Int]
        /\ \A j \in Jobs : durable'[j] \subseteq landed[j]
    BY <1>15 DEF SyncAll, TypeOK
  <2> QED
    BY <1>15, <2>5, <2>6 DEF SyncAll, TypeOK, Fit
<1> QED
  BY <1>1, <1>2, <1>3, <1>4, <1>5, <1>6, <1>7, <1>8, <1>9, <1>11, <1>12, <1>13,
     <1>14, <1>15 DEF Next, Step, Resume, Pause

(* TypeOK: the variables keep their ranges, only accesses to a file meet,  *)
(* and no block is durable that has not landed.                            *)
THEOREM TypeCorrect == Spec => []TypeOK
<1>1. Init => TypeOK
  BY DEF Init, TypeOK, Unreadable, Idle, FileState, RunState, Status, Labels
<1>2. TypeOK /\ [Next]_vars => TypeOK'
  BY TypeStep
<1> QED
  BY <1>1, <1>2, PTL DEF Spec

-----------------------------------------------------------------------------
(* Nothing that has landed is lost, nothing durable either: what has been  *)
(* promised about them stays true.                                         *)
LEMMA Monotone ==
  ASSUME TypeOK, [Next]_vars, NEW j \in Jobs
  PROVE  landed[j] \subseteq landed'[j] /\ durable[j] \subseteq durable'[j]
<1>1. CASE UNCHANGED <<landed, durable>>
  BY <1>1
<1>2. ASSUME NEW p \in Procs, NEW n \in 1 .. BufferSize, Land(p, n),
             UNCHANGED durable
      PROVE  landed[j] \subseteq landed'[j] /\ durable[j] \subseteq durable'[j]
  BY <1>2 DEF Land, TypeOK
<1>3. ASSUME NEW p \in Procs, SyncAll(p)
      PROVE  landed[j] \subseteq landed'[j] /\ durable[j] \subseteq durable'[j]
  BY <1>3 DEF SyncAll, TypeOK
<1>4. ASSUME NEW p \in Procs, CopyChunk(p) \/ CopyFails(p)
      PROVE  landed[j] \subseteq landed'[j] /\ durable[j] \subseteq durable'[j]
  BY <1>2, <1>4 DEF CopyChunk, CopyFails
<1> QED
  BY <1>1, <1>3, <1>4 DEF Next, Step, Start, Resume, Pause, BeginLoad,
     ResumeLoaded, PauseLoaded, SaveOpen, SaveWrite, SavePart, LoopCheck,
     TargetFull, EndOfSource, Die, vars

LEMMA BackedKept ==
  ASSUME TypeOK, [Next]_vars, NEW j \in Jobs, NEW c, NEW s, Backed(c, s, j)
  PROVE  Backed(c, s, j)'
BY Monotone DEF Backed

LEMMA SoundKept ==
  ASSUME TypeOK, [Next]_vars, NEW p \in Procs, NEW r, Sound(r, p)
  PROVE  Sound(r, p)'
<1>1. JobOf[p] \in Jobs
  OBVIOUS
<1> QED
  BY <1>1, BackedKept, Monotone DEF Sound

(* It is enough to look at the local state that the step replaced.         *)
LEMMA SoundUpdate ==
  ASSUME TypeOK, RunBacked, [Next]_vars, NEW p \in Procs, NEW r,
         Become(p, r), Sound(r, p)'
  PROVE  RunBacked'
<1> SUFFICES ASSUME NEW q \in Procs
             PROVE  Sound(run[q], q)'
  BY DEF RunBacked
<1>1. CASE q = p
  BY <1>1 DEF TypeOK, Become
<1>2. CASE q # p
  <2>1. run'[q] = run[q]
    BY <1>2 DEF TypeOK, Become
  <2>2. Sound(run[q], q)
    BY DEF RunBacked
  <2> QED
    BY <2>1, <2>2, SoundKept
<1> QED
  BY <1>1, <1>2

(* A step that does not change what Sound speaks of.                       *)
LEMMA SoundSame ==
  ASSUME NEW p \in Procs, NEW r, NEW s, Sound(r, p),
         s.exact = r.exact, s.copied = r.copied, s.status = r.status,
         s.total = r.total, s.pc # "sync"
  PROVE  Sound(s, p)
BY DEF Sound

(* A record found is true of the pair, if it is exact: only invocations    *)
(* for that pair use the file.                                             *)
LEMMA FoundTrue ==
  ASSUME IInv, NEW p \in Procs, NEW r \in Found(p)
  PROVE  True(r, JobOf[p])
<1>1. True(file[Id(p)], JobOf[p])
  BY DEF IInv, FileBacked, Id
<1>2. \A x \in Spliced : True(x, JobOf[p])
  BY SplicedCases DEF True, Unreadable
<1> QED
  BY <1>1, <1>2 DEF Found

LEMMA LeftTrue ==
  ASSUME IInv, NEW p \in Procs, NEW r \in Left(p)
  PROVE  True(r, JobOf[p])
<1>1. True(Own(p), JobOf[p])
  BY DEF IInv, RunBacked, Sound, True, Own, Record
<1>2. \A x \in Spliced : True(x, JobOf[p])
  BY SplicedCases DEF True, Unreadable
<1> QED
  BY <1>1, <1>2 DEF Left

LEMMA IdleSound == ASSUME NEW p \in Procs PROVE Sound(Idle, p)
<1>1. SourceSize[JobOf[p]] \in Nat
  OBVIOUS
<1> QED
  BY <1>1 DEF Sound, Idle, Backed, Prefix

(* No step breaks the promise an invocation carries.                       *)
LEMMA RunStep == IInv /\ [Next]_vars => RunBacked'
<1> SUFFICES ASSUME IInv, TypeOK, RunBacked, [Next]_vars
             PROVE  RunBacked'
  BY DEF IInv
<1>0. ASSUME NEW p \in Procs
      PROVE  /\ Sound(run[p], p)
             /\ run[p] \in RunState
             /\ JobOf[p] \in Jobs
             /\ SourceSize[JobOf[p]] \in Nat
  BY DEF RunBacked, TypeOK
<1>1. CASE UNCHANGED vars
  BY <1>1 DEF vars, RunBacked, Sound, Backed
<1>2. ASSUME NEW p \in Procs, Become(p, Idle)
      PROVE  RunBacked'
  BY <1>2, IdleSound, SoundKept, SoundUpdate
<1>3. ASSUME NEW p \in Procs, NEW c, NEW e, Prepare(p, c, e),
             e => Backed(c, "Running", JobOf[p])
      PROVE  RunBacked'
  <2>1. ASSUME NEW source \in Measured(JobOf[p], SourceSize[JobOf[p]]),
               Become(p, Prepared(c, source, e))
        PROVE  RunBacked'
    <3>1. source <= SourceSize[JobOf[p]]
      BY <1>0 DEF Measured
    <3>2. PICK r : r = Prepared(c, source, e)
      OBVIOUS
    <3>3. /\ r.pc = "begin" /\ r.copied = c /\ r.total = source
          /\ r.exact = e /\ r.status = "Running"
      BY <3>2, PreparedFields
    <3>4. Sound(r, p)
      BY <1>3, <3>1, <3>3 DEF Sound
    <3> QED
      BY <2>1, <3>2, <3>4, SoundKept, SoundUpdate
  <2> QED
    BY <1>2, <1>3, <2>1, PrepareCases
<1>4. ASSUME NEW p \in Procs, Start(p)
      PROVE  RunBacked'
  <2>1. Backed(0, "Running", JobOf[p])
    BY DEF Backed, Prefix
  <2> QED
    BY <1>3, <1>4, <2>1 DEF Start
<1>5. ASSUME NEW p \in Procs, NEW label \in {"resume", "pause"}, BeginLoad(p, label)
      PROVE  RunBacked'
  <2>1. PICK r : r = [Idle EXCEPT !.pc = label, !.met = Saving(p) # {}]
    OBVIOUS
  <2>2. /\ r.exact = Idle.exact /\ r.copied = Idle.copied
        /\ r.status = Idle.status /\ r.total = Idle.total /\ r.pc # "sync"
    BY <2>1 DEF Idle
  <2>3. Sound(r, p)
    BY <2>2, IdleSound, SoundSame
  <2> QED
    BY <1>5, <2>1, <2>3, SoundKept, SoundUpdate DEF BeginLoad
<1>6. ASSUME NEW p \in Procs, ResumeLoaded(p)
      PROVE  RunBacked'
  <2>1. PICK r \in Found(p) :
          IF r.whole THEN Prepare(p, r.copied, r.exact) ELSE Become(p, Idle)
    BY <1>6 DEF ResumeLoaded
  <2>2. CASE r.whole
    <3>1. r.exact => Backed(r.copied, "Running", JobOf[p])
      BY <2>2, FoundTrue DEF True, Backed
    <3> QED
      BY <1>3, <2>1, <2>2, <3>1
  <2>3. CASE ~r.whole
    BY <1>2, <2>1, <2>3
  <2> QED
    BY <2>2, <2>3
<1>7. ASSUME NEW p \in Procs, PauseLoaded(p)
      PROVE  RunBacked'
  <2>1. PICK r \in Found(p) :
          \/ Become(p, Idle)
          \/ /\ r.whole
             /\ Become(p, [Idle EXCEPT !.pc = "save", !.copied = r.copied,
                                       !.status = "Paused", !.exact = r.exact])
    BY <1>7 DEF PauseLoaded
  <2>2. PICK s : s = [Idle EXCEPT !.pc = "save", !.copied = r.copied,
                                  !.status = "Paused", !.exact = r.exact]
    OBVIOUS
  <2>3. /\ s.pc = "save" /\ s.copied = r.copied /\ s.status = "Paused"
        /\ s.exact = r.exact /\ s.total = 0
    BY <2>2 DEF Idle
  <2>4. CASE r.whole
    <3>1. Sound(s, p)
      BY <1>0, <2>3, <2>4, FoundTrue DEF True, Sound, Backed
    <3> QED
      BY <1>2, <2>1, <2>2, <3>1, SoundKept, SoundUpdate
  <2>5. CASE ~r.whole
    BY <1>2, <2>1, <2>5
  <2> QED
    BY <2>4, <2>5
<1>8. ASSUME NEW p \in Procs, SaveOpen(p)
      PROVE  RunBacked'
  <2> SUFFICES ASSUME NEW q \in Procs
               PROVE  Sound(run[q], q)'
    BY DEF RunBacked
  <2>1. PICK met, pc : /\ run'[q] = [run[q] EXCEPT !.pc = pc, !.met = met]
                       /\ pc = IF q = p THEN "write" ELSE run[q].pc
    <3>1. CASE q = p
      BY <1>8, <3>1 DEF SaveOpen
    <3>2. CASE q # p
      <4>1. PICK s : s = [run[q] EXCEPT !.met = @ \/ q \in Accessing(p)]
        OBVIOUS
      <4>2. s = [run[q] EXCEPT !.pc = run[q].pc, !.met = s.met]
        BY <1>0, <4>1 DEF RunState
      <4> QED
        BY <1>8, <3>2, <4>1, <4>2 DEF SaveOpen
    <3> QED
      BY <3>1, <3>2
  <2>2. Sound(run'[q], q)
    BY <1>0, <2>1 DEF Sound, RunState
  <2> QED
    BY <2>2, SoundKept
<1>9. ASSUME NEW p \in Procs, SaveWrite(p)
      PROVE  RunBacked'
  <2>1. PICK r : r = [run[p] EXCEPT !.pc = "loop", !.met = Saving(p) # {}]
    OBVIOUS
  <2>2. Become(p, Idle) \/ Become(p, r)
    BY <1>9, <2>1 DEF SaveWrite
  <2>3. /\ r.exact = run[p].exact /\ r.copied = run[p].copied
        /\ r.status = run[p].status /\ r.total = run[p].total
        /\ r.pc # "sync"
    BY <1>0, <2>1 DEF RunState
  <2>4. Sound(r, p)
    BY <1>0, <2>3, SoundSame
  <2> QED
    BY <1>2, <2>2, <2>4, SoundKept, SoundUpdate
<1>10. ASSUME NEW p \in Procs, LoopCheck(p)
       PROVE  RunBacked'
  <2>1. PICK r : /\ Become(p, r)
                 /\ \/ r = [run[p] EXCEPT !.pc = "save", !.met = FALSE,
                                           !.status = "Paused"]
                    \/ r = [run[p] EXCEPT !.pc = "copy", !.met = FALSE]
    BY <1>10 DEF LoopCheck
  <2>2. /\ r.pc # "sync" /\ r.exact = run[p].exact /\ r.copied = run[p].copied
        /\ r.total = run[p].total /\ r.status \in {run[p].status, "Paused"}
    BY <1>0, <2>1 DEF RunState
  <2>3. Sound(r, p)
    BY <1>0, <2>2 DEF Sound, Backed
  <2> QED
    BY <2>1, <2>3, SoundKept, SoundUpdate
<1>11. ASSUME NEW p \in Procs, CopyChunk(p)
       PROVE  RunBacked'
  <2>1. PICK n \in 1 .. BufferSize :
          Land(p, n) /\ run' = [run EXCEPT ![p].pc = "save", ![p].copied = @ + n]
    BY <1>11 DEF CopyChunk
  <2>2. PICK r : r = [run[p] EXCEPT !.pc = "save", !.copied = @ + n]
    OBVIOUS
  <2>3. /\ r.pc = "save" /\ r.copied = run[p].copied + n
        /\ r.status = run[p].status /\ r.total = run[p].total
        /\ r.exact = run[p].exact
    BY <1>0, <2>2 DEF RunState
  <2>4. run[p].exact => Prefix(run[p].copied + n) \subseteq landed'[JobOf[p]]
    <3>1. landed'[JobOf[p]] =
            landed[JobOf[p]] \cup run[p].copied .. (run[p].copied + n - 1)
      BY <1>0, <2>1 DEF Land, TypeOK
    <3>2. run[p].exact => Prefix(run[p].copied) \subseteq landed[JobOf[p]]
      BY <1>0 DEF Sound, Backed
    <3>3. run[p].copied \in Nat
      BY <1>0 DEF RunState
    <3> QED
      BY <3>1, <3>2, <3>3 DEF Prefix
  <2>5. run[p].exact /\ run[p].status = "Completed"
          => Blocks(JobOf[p]) \subseteq durable'[JobOf[p]]
    BY <1>0, <1>11 DEF CopyChunk, Sound, Backed
  <2>6. Sound(r, p)'
    BY <1>0, <2>3, <2>4, <2>5 DEF Sound, Backed, Blocks
  <2> QED
    BY <2>1, <2>2, <2>6, SoundUpdate DEF Become
<1>12. ASSUME NEW p \in Procs, EndOfSource(p)
       PROVE  RunBacked'
  <2>1. PICK r : r = [run[p] EXCEPT !.pc = "sync"]
    OBVIOUS
  <2>2. Become(p, r)
    BY <1>12, <2>1 DEF EndOfSource, Become
  <2>3. /\ r.exact = run[p].exact /\ r.copied = run[p].copied
        /\ r.status = run[p].status /\ r.total = run[p].total
        /\ run[p].copied \in Nat /\ run[p].copied >= SourceSize[JobOf[p]]
    BY <1>0, <1>12, <2>1 DEF EndOfSource, RunState
  <2>4. Sound(r, p)
    BY <1>0, <2>3 DEF Sound, Backed, Prefix, Blocks
  <2> QED
    BY <2>2, <2>4, SoundKept, SoundUpdate
<1>13. ASSUME NEW p \in Procs, SyncAll(p)
       PROVE  RunBacked'
  <2>1. PICK r : r = [run[p] EXCEPT !.pc = "save", !.status = "Completed",
                                    !.copied = run[p].total]
    OBVIOUS
  <2>2. r.exact => Blocks(JobOf[p]) \subseteq landed[JobOf[p]]
    BY <1>0, <1>13, <2>1 DEF SyncAll, Sound, RunState
  <2>3. Prefix(run[p].total) \subseteq Blocks(JobOf[p])
    BY <1>0 DEF Sound, RunState, Prefix, Blocks
  <2>4. r.pc = "save" /\ r.copied = run[p].total /\ r.total = run[p].total
    BY <1>0, <2>1 DEF RunState
  <2>5. landed' = landed /\ durable'[JobOf[p]] = landed[JobOf[p]]
    BY <1>0, <1>13 DEF SyncAll, TypeOK
  <2>6. Become(p, r)
    BY <1>13, <2>1 DEF SyncAll, Become
  <2>7. run[p].total <= SourceSize[JobOf[p]]
    BY <1>0 DEF Sound
  <2>8. Sound(r, p)'
    BY <2>2, <2>3, <2>4, <2>5, <2>7 DEF Sound, Backed, Blocks
  <2> QED
    BY <2>6, <2>8, SoundUpdate
<1>14. ASSUME NEW p \in Procs, SavePart(p)
       PROVE  RunBacked'
  BY <1>14 DEF SavePart, RunBacked, Sound, Backed
<1>15. ASSUME NEW p \in Procs, TargetFull(p) \/ Die(p) \/ CopyFails(p)
       PROVE  RunBacked'
  BY <1>2, <1>15 DEF TargetFull, Die, CopyFails
<1> QED
  BY <1>1, <1>4, <1>5, <1>6, <1>7, <1>8, <1>9, <1>10, <1>11, <1>12, <1>13,
     <1>14, <1>15 DEF Next, Step, Resume, Pause

-----------------------------------------------------------------------------
(* No step puts a record in a file that is not true of its pair, unless    *)
(* it is known to be spliced.                                              *)
LEMMA FileStep == DistinctIds /\ IInv /\ [Next]_vars => FileBacked'
<1> SUFFICES ASSUME DistinctIds, IInv, [Next]_vars, NEW j \in Jobs
             PROVE  True(file[IdOf[j]], j)'
  BY DEF FileBacked
<1> DEFINE i == IdOf[j]
<1>0. i \in Ids /\ TypeOK
  BY DEF IInv
<1>1. CASE file'[i] = file[i]
  <2>1. True(file[i], j)
    BY DEF IInv, FileBacked
  <2>2. PICK r : r = file[i]
    OBVIOUS
  <2>3. True(r, j)'
    BY <1>0, <2>1, <2>2, BackedKept DEF True
  <2> QED
    BY <1>1, <2>2, <2>3
<1>2. ASSUME NEW p \in Procs, SaveOpen(p), Id(p) = i
      PROVE  True(file[i], j)'
  BY <1>0, <1>2 DEF SaveOpen, Unreadable, TypeOK, True
<1>3. ASSUME NEW p \in Procs, SaveWrite(p) \/ SavePart(p), Id(p) = i
      PROVE  True(file[i], j)'
  <2>1. JobOf[p] = j
    BY <1>3 DEF Id, DistinctIds
  <2>2. file'[i] \in Left(p) /\ UNCHANGED <<landed, durable>>
    BY <1>0, <1>3 DEF SaveWrite, SavePart, TypeOK
  <2>3. True(file'[i], j)
    BY <2>1, <2>2, LeftTrue
  <2> QED
    BY <2>2, <2>3 DEF True, Backed
<1>4. ASSUME NEW p \in Procs, SaveOpen(p) \/ SaveWrite(p) \/ SavePart(p), Id(p) # i
      PROVE  file'[i] = file[i]
  BY <1>0, <1>4 DEF SaveOpen, SaveWrite, SavePart, TypeOK
<1>5. \/ UNCHANGED file
      \/ \E p \in Procs : SaveOpen(p) \/ SaveWrite(p) \/ SavePart(p)
  BY DEF Next, Step, Start, Resume, Pause, BeginLoad, ResumeLoaded, PauseLoaded,
     LoopCheck, CopyChunk, CopyFails, TargetFull, EndOfSource, SyncAll, Die, vars
<1> QED
  BY <1>1, <1>2, <1>3, <1>4, <1>5

LEMMA Inductive == DistinctIds => (Spec => []IInv)
<1> SUFFICES ASSUME DistinctIds
             PROVE  Spec => []IInv
  OBVIOUS
<1>1. Init => TypeOK
  BY DEF Init, TypeOK, Unreadable, Idle, FileState, RunState, Status, Labels
<1>2. Init => RunBacked /\ FileBacked
  BY IdleSound DEF Init, RunBacked, FileBacked, True, Unreadable
<1>3. Init => IInv
  BY <1>1, <1>2 DEF IInv
<1>4. IInv /\ [Next]_vars => IInv'
  BY TypeStep, RunStep, FileStep DEF IInv
<1> QED
  BY <1>3, <1>4, PTL DEF Spec

(* ProgressBacked: as long as two pairs never share a state file, an offset*)
(* that resume reads and that no splice made up is covered by the target,  *)
(* whatever any number of invocations do around each other, deaths and     *)
(* copies from spliced offsets included.                                   *)
THEOREM OffsetsAreBacked == DistinctIds => (Spec => []ProgressBacked)
<1>1. IInv => ProgressBacked
  BY DEF IInv, FileBacked, True, Backed, ProgressBacked
<1> QED
  BY <1>1, Inductive, PTL

(* CompletedMeansDurable: under the same condition, and without power cuts,*)
(* an exact record says Completed only when the whole source is durable.   *)
THEOREM CompletedIsDurable == DistinctIds => (Spec => []CompletedMeansDurable)
<1>1. IInv => CompletedMeansDurable
  BY DEF IInv, FileBacked, True, Backed, CompletedMeansDurable
<1> QED
  BY <1>1, Inductive, PTL

-----------------------------------------------------------------------------
(* The size check.  An invocation for a pair whose target is known to be   *)
(* too small gets no further than loading or, if it is a `pause`, saving a *)
(* Paused record: it is never in the copy loop.                            *)
TooSmall(j) == j \in Jobs \ Unmeasured /\ TargetSize[j] < SourceSize[j]

(* Loading, or saving a Paused record.                                     *)
Harmless(r) ==
  \/ r.pc \in {"idle", "resume", "pause"}
  \/ r.pc \in {"save", "write"} /\ r.status = "Paused"

OnlyPaused == \A p \in Procs : TooSmall(JobOf[p]) => Harmless(run[p])

LEMMA OnlyPausedStep == TypeOK /\ OnlyPaused /\ [Next]_vars => OnlyPaused'
<1> SUFFICES ASSUME TypeOK, OnlyPaused, [Next]_vars, NEW q \in Procs,
                    TooSmall(JobOf[q])
             PROVE  Harmless(run'[q])
  BY DEF OnlyPaused, TooSmall, Harmless
<1>0. run[q] \in RunState /\ run \in [Procs -> RunState] /\ Harmless(run[q])
  BY DEF TypeOK, OnlyPaused
<1>1. CASE run'[q] = run[q]
  BY <1>0, <1>1
<1>a. CASE Become(q, Idle)
  BY <1>0, <1>a DEF Become, Idle, Harmless
<1>2. ASSUME NEW offset, NEW exact, Prepare(q, offset, exact)
      PROVE  Harmless(run'[q])
  <2>1. /\ Measured(JobOf[q], SourceSize[JobOf[q]]) = {SourceSize[JobOf[q]]}
        /\ Measured(JobOf[q], TargetSize[JobOf[q]]) = {TargetSize[JobOf[q]]}
    BY DEF Measured, TooSmall
  <2>2. SourceSize[JobOf[q]] \in Nat /\ TargetSize[JobOf[q]] \in Nat
    BY DEF TooSmall
  <2>3. ASSUME NEW source \in Measured(JobOf[q], SourceSize[JobOf[q]]),
               NEW target \in Measured(JobOf[q], TargetSize[JobOf[q]]),
               target >= source
        PROVE  FALSE
    BY <2>1, <2>2, <2>3 DEF TooSmall
  <2> QED
    BY <1>2, <1>a, <2>3, PrepareCases
<1>3. ASSUME NEW label \in {"resume", "pause"}, BeginLoad(q, label)
      PROVE  Harmless(run'[q])
  BY <1>0, <1>3 DEF BeginLoad, Become, Idle, Harmless
<1>4. CASE Start(q)
  BY <1>2, <1>4 DEF Start
<1>5. CASE ResumeLoaded(q)
  BY <1>2, <1>5, <1>a DEF ResumeLoaded
<1>6. CASE PauseLoaded(q)
  <2>1. PICK c, e :
          \/ Become(q, Idle)
          \/ Become(q, [Idle EXCEPT !.pc = "save", !.copied = c,
                                    !.status = "Paused", !.exact = e])
    BY <1>6 DEF PauseLoaded
  <2>2. Harmless([Idle EXCEPT !.pc = "save", !.copied = c,
                              !.status = "Paused", !.exact = e])
    BY DEF Idle, Harmless
  <2> QED
    BY <1>0, <1>a, <2>1, <2>2 DEF Become
<1>7. CASE SaveWrite(q)
  <2>1. run[q].status = "Paused"
    BY <1>0, <1>7 DEF SaveWrite, Harmless
  <2> QED
    BY <1>7, <1>a, <2>1 DEF SaveWrite
<1>8. CASE LoopCheck(q) \/ CopyChunk(q) \/ CopyFails(q) \/ TargetFull(q)
             \/ EndOfSource(q) \/ SyncAll(q)
  BY <1>0, <1>8
     DEF LoopCheck, CopyChunk, CopyFails, TargetFull, EndOfSource, SyncAll,
         Harmless
<1>9. CASE Die(q)
  BY <1>9, <1>a DEF Die
<1>10. ASSUME NEW p \in Procs, SaveOpen(p)
       PROVE  Harmless(run'[q])
  <2>1. CASE q = p
    <3>1. run[q].status = "Paused"
      BY <1>0, <1>10, <2>1 DEF SaveOpen, Harmless
    <3>2. PICK met : run'[q] = [run[q] EXCEPT !.pc = "write", !.met = met]
      BY <1>10, <2>1 DEF SaveOpen
    <3> QED
      BY <1>0, <3>1, <3>2 DEF RunState, Harmless
  <2>2. CASE q # p
    <3>1. PICK r : r = [run[q] EXCEPT !.met = @ \/ q \in Accessing(p)]
      OBVIOUS
    <3>2. r.pc = run[q].pc /\ r.status = run[q].status
      BY <1>0, <3>1 DEF RunState
    <3> QED
      BY <1>0, <1>10, <2>2, <3>1, <3>2 DEF SaveOpen, Harmless
  <2> QED
    BY <2>1, <2>2
<1>11. ASSUME NEW p \in Procs, p # q, ~SaveOpen(p),
              \/ Start(p) \/ Resume(p) \/ Pause(p) \/ Step(p)
              \/ SavePart(p) \/ CopyFails(p) \/ Die(p)
       PROVE  run'[q] = run[q]
  <2>1. ASSUME NEW r, Become(p, r)
        PROVE  run'[q] = run[q]
    BY <1>0, <1>11, <2>1 DEF Become
  <2>2. ASSUME NEW c, NEW e, Prepare(p, c, e)
        PROVE  run'[q] = run[q]
    BY <2>1, <2>2, PrepareCases
  <2>3. CASE ResumeLoaded(p)
    BY <2>1, <2>2, <2>3 DEF ResumeLoaded
  <2>4. CASE Start(p)
    BY <2>2, <2>4 DEF Start
  <2>5. CASE Resume(p) \/ Pause(p)
    BY <2>1, <2>5 DEF Resume, Pause, BeginLoad
  <2>6. CASE PauseLoaded(p) \/ SaveWrite(p) \/ LoopCheck(p)
    BY <2>1, <2>6 DEF PauseLoaded, SaveWrite, LoopCheck
  <2>7. CASE SavePart(p) \/ CopyChunk(p) \/ CopyFails(p) \/ TargetFull(p)
               \/ EndOfSource(p) \/ SyncAll(p) \/ Die(p)
    BY <1>0, <1>11, <2>1, <2>7 DEF SavePart, CopyChunk, CopyFails, TargetFull,
       EndOfSource, SyncAll, Die
  <2> QED
    BY <1>11, <2>3, <2>4, <2>5, <2>6, <2>7 DEF Step
<1>12. CASE SavePart(q) \/ UNCHANGED vars
  BY <1>1, <1>12 DEF SavePart, vars
<1> QED
  BY <1>1, <1>3, <1>4, <1>5, <1>6, <1>7, <1>8, <1>9, <1>10, <1>11, <1>12
     DEF Next, Step, Resume, Pause

(* TooSmallTargetUntouched: no block is ever written to a target that is   *)
(* known to be smaller than its source, not even by a resume of a record   *)
(* that another pair, or a splice, left in the state file.                 *)
THEOREM TooSmallIsRefused == Spec => []TooSmallTargetUntouched
<1> DEFINE Refused == TypeOK /\ OnlyPaused /\ TooSmallTargetUntouched
<1>1. Init => Refused
  <2>1. Init => TypeOK
    BY DEF Init, TypeOK, Unreadable, Idle, FileState, RunState, Status, Labels
  <2> QED
    BY <2>1 DEF Init, OnlyPaused, Harmless, TooSmallTargetUntouched, Idle
<1>2. Refused /\ [Next]_vars => Refused'
  <2> SUFFICES ASSUME Refused, [Next]_vars, NEW j \in Jobs \ Unmeasured,
                      TargetSize[j] < SourceSize[j]
               PROVE  landed'[j] = {}
    BY TypeStep, OnlyPausedStep DEF TooSmallTargetUntouched
  <2>1. landed[j] = {} /\ TooSmall(j)
    BY DEF TooSmallTargetUntouched, TooSmall
  <2>2. CASE UNCHANGED landed
    BY <2>1, <2>2
  <2>3. ASSUME NEW p \in Procs, CopyChunk(p) \/ CopyFails(p)
        PROVE  landed'[j] = {}
    <3>1. run[p].pc = "copy"
      BY <2>3 DEF CopyChunk, CopyFails
    <3>2. JobOf[p] # j
      BY <2>1, <3>1 DEF OnlyPaused, Harmless
    <3>3. landed'[j] = landed[j]
      BY <2>3, <3>2 DEF CopyChunk, CopyFails, Land, TypeOK
    <3> QED
      BY <2>1, <3>3
  <2> QED
    BY <2>2, <2>3 DEF Next, Step, Start, Resume, Pause, BeginLoad, ResumeLoaded,
       PauseLoaded, SaveOpen, SaveWrite, SavePart, LoopCheck, TargetFull,
       EndOfSource, SyncAll, Die, vars
<1> QED
  BY <1>1, <1>2, PTL DEF Spec

-----------------------------------------------------------------------------
(* What a record claims: an exact one what it says, another one nothing.   *)
LEMMA ClaimIs ==
  ASSUME NEW r \in FileState
  PROVE  /\ Claim(r) \in Promise!Claim
         /\ Claim(r).whole => /\ r.whole /\ r.exact
                              /\ Claim(r).copied = r.copied
                              /\ Claim(r).status = r.status
BY DEF Claim, FileState, Promise!Claim, Status, Promise!Status

(* A change of one file changes its claim only.                            *)
LEMMA ClaimsUpdate ==
  ASSUME TypeOK, NEW i \in Ids, NEW r, file' = [file EXCEPT ![i] = r]
  PROVE  Claims' = [Claims EXCEPT ![i] = Claim(r)] /\ Claims'[i] = Claim(r)
BY DEF TypeOK, Claims, Claim

(* Every step is one that the promise allows, or does not concern it.      *)
LEMMA StepKeepsPromise ==
  DistinctIds /\ IInv /\ [Next]_vars => [Promise!Next]_<<Claims, landed, durable>>
<1> SUFFICES ASSUME DistinctIds, IInv, [Next]_vars
             PROVE  [Promise!Next]_<<Claims, landed, durable>>
  OBVIOUS
<1>0. TypeOK /\ TypeOK'
  BY TypeStep DEF IInv
<1>1. ASSUME NEW p \in Procs, SaveOpen(p)
      PROVE  Promise!Withdraw(Id(p)) /\ Id(p) \in Ids
  <2>1. Id(p) \in Ids
    BY DEF Id
  <2>2. Claim(Unreadable) = Promise!NoClaim
    BY DEF Claim, Unreadable, Promise!NoClaim
  <2>3. Claims' = [Claims EXCEPT ![Id(p)] = Promise!NoClaim]
    BY <1>0, <1>1, <2>1, <2>2, ClaimsUpdate DEF SaveOpen
  <2> QED
    BY <1>1, <2>1, <2>3 DEF SaveOpen, Promise!Withdraw
<1>2. ASSUME NEW p \in Procs, SaveWrite(p) \/ SavePart(p)
      PROVE  (Promise!Withdraw(Id(p)) \/ Promise!Assert(Id(p))) /\ Id(p) \in Ids
  <2>1. Id(p) \in Ids
    BY DEF Id
  <2>2. PICK r \in Left(p) : file' = [file EXCEPT ![Id(p)] = r]
    BY <1>2 DEF SaveWrite, SavePart
  <2>3. r \in FileState
    BY <1>0, FoundType
  <2>4. Claims' = [Claims EXCEPT ![Id(p)] = Claim(r)] /\ Claims'[Id(p)] = Claim(r)
    BY <1>0, <2>1, <2>2, ClaimsUpdate
  <2>5. UNCHANGED <<landed, durable>>
    BY <1>2 DEF SaveWrite, SavePart
  <2>6. CASE Claim(r).whole
    <3>1. Backed(Claim(r).copied, Claim(r).status, JobOf[p])
      BY <2>3, <2>6, ClaimIs, LeftTrue DEF True
    <3>2. ASSUME NEW j \in Jobs, IdOf[j] = Id(p)
          PROVE  Promise!Justified(Claim(r), j)
      BY <3>1, <3>2
         DEF Id, DistinctIds, Promise!Justified, Backed, Prefix, Blocks
    <3> QED
      BY <2>1, <2>3, <2>4, <2>5, <2>6, <3>2, ClaimIs DEF Promise!Assert
  <2>7. CASE ~Claim(r).whole
    <3>1. r = Unreadable \/ ~r.exact
      <4>1. CASE r = Own(p)
        BY <2>7, <4>1 DEF Own, Record, Claim
      <4>2. CASE r \in Spliced
        BY <4>2, SplicedCases
      <4>3. r = Own(p) \/ r \in Spliced
        BY DEF Left
      <4> QED
        BY <4>1, <4>2, <4>3
    <3>2. Claim(r) = Promise!NoClaim
      <4>1. CASE r = Unreadable
        BY <4>1 DEF Claim, Unreadable, Promise!NoClaim
      <4>2. CASE ~r.exact
        BY ZenonT(40), <4>2 DEF Claim, Promise!NoClaim
      <4> QED
        BY <3>1, <4>1, <4>2
    <3> QED
      BY <2>1, <2>4, <2>5, <3>2 DEF Promise!Withdraw
  <2> QED
    BY <2>6, <2>7
<1>3. ASSUME NEW p \in Procs, CopyChunk(p) \/ CopyFails(p)
      PROVE  Promise!Land(JobOf[p]) /\ JobOf[p] \in Jobs
  <2>1. PICK n \in 1 .. BufferSize : Land(p, n)
    BY <1>3 DEF CopyChunk, CopyFails
  <2>2. landed' = [landed EXCEPT ![JobOf[p]] = landed'[JobOf[p]]]
    BY <1>0, <2>1 DEF Land, TypeOK
  <2>3. landed[JobOf[p]] \subseteq landed'[JobOf[p]]
    BY Monotone, <1>0
  <2>4. landed'[JobOf[p]] \subseteq 0 .. (SourceSize[JobOf[p]] - 1)
    BY <1>0 DEF TypeOK, Blocks
  <2>5. UNCHANGED <<Claims, durable>>
    BY <1>3 DEF CopyChunk, CopyFails, Claims, Claim
  <2> QED
    BY <2>2, <2>3, <2>4, <2>5 DEF Promise!Land
<1>4. ASSUME NEW p \in Procs, SyncAll(p)
      PROVE  Promise!Sync(JobOf[p]) /\ JobOf[p] \in Jobs
  BY <1>4 DEF SyncAll, Promise!Sync, Claims, Claim
<1>5. \/ UNCHANGED <<file, landed, durable>>
      \/ \E p \in Procs : \/ SaveOpen(p)
                          \/ SaveWrite(p)
                          \/ SavePart(p)
                          \/ CopyChunk(p)
                          \/ CopyFails(p)
                          \/ SyncAll(p)
  BY DEF Next, Step, Start, Resume, Pause, BeginLoad, ResumeLoaded, PauseLoaded,
     LoopCheck, TargetFull, EndOfSource, Die, vars
<1>6. CASE UNCHANGED <<file, landed, durable>>
  BY <1>6 DEF Claims, Claim
<1> QED
  BY <1>1, <1>2, <1>3, <1>4, <1>5, <1>6 DEF Promise!Next

(* KeepsPromise: as far as its records are exact, the copier implements    *)
(* ResumableCopy, step for step.                                           *)
THEOREM ImplementsPromise == DistinctIds => (Spec => KeepsPromise)
<1> SUFFICES ASSUME DistinctIds
             PROVE  Spec => KeepsPromise
  OBVIOUS
<1>1. Init => Promise!Init
  BY DEF Init, Promise!Init, Unreadable, Promise!NoClaim, Claims, Claim
<1>2. IInv /\ [Next]_vars => [Promise!Next]_<<Claims, landed, durable>>
  BY StepKeepsPromise
<1>3. Spec => []IInv
  BY Inductive
<1> QED
  BY <1>1, <1>2, <1>3, PTL
     DEF Spec, KeepsPromise, Promise!Spec, Promise!avars
=============================================================================
