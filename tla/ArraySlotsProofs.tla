--------------------------- MODULE ArraySlotsProofs ---------------------------
(***************************************************************************)
(* Proofs about ArrayOps: which disk gets which slot, where disks are only *)
(* assembled (Assembling).  Superblocks then stay what they were at first, *)
(* so everything about a list of components is a fact about constants.     *)
(***************************************************************************)
EXTENDS ArrayOpsProofs, FiniteSetTheorems

USE ArrayAssumption

-----------------------------------------------------------------------------
(* Counting.  Numbers below b that are all different are b at most; and n  *)
(* numbers below n that ascend are 0, 1, ..., n - 1.                       *)
LEMMA DistinctBelow ==
  ASSUME NEW n \in Nat, NEW b \in Nat, NEW f \in [1 .. n -> 0 .. b - 1],
         \A k, l \in 1 .. n : f[k] = f[l] => k = l
  PROVE  n <= b
<1>1. /\ IsFiniteSet(1 .. n) /\ Cardinality(1 .. n) = n
      /\ IsFiniteSet(0 .. b - 1) /\ Cardinality(0 .. b - 1) = b
  BY FS_Interval
<1> SUFFICES ASSUME b < n
             PROVE  FALSE
  OBVIOUS
<1>2. Cardinality(0 .. b - 1) < Cardinality(1 .. n)
  BY <1>1
<1>3. \E x, y \in 1 .. n : x # y /\ f[x] = f[y]
  <2> DEFINE S == 1 .. n
             T == 0 .. b - 1
  <2>1. IsFiniteSet(S) /\ IsFiniteSet(T) /\ Cardinality(T) < Cardinality(S)
    BY <1>1, <1>2
  <2>2. f \in [S -> T]
    OBVIOUS
  <2> HIDE DEF S, T
  <2>3. \E x, y \in S : x # y /\ f[x] = f[y]
    BY SMTT(30), <2>1, <2>2, FS_PigeonHole
  <2> QED
    BY <2>3 DEF S
<1> QED
  BY <1>3

LEMMA AscendingBelow ==
  ASSUME NEW n \in Nat, NEW f \in [1 .. n -> 0 .. n - 1],
         \A k, l \in 1 .. n : k < l => f[k] < f[l],
         NEW k \in 1 .. n
  PROVE  f[k] = k - 1
<1>1. k - 1 <= f[k]
  <2> DEFINE g == [j \in 1 .. k - 1 |-> f[j]]
  <2>1. \A j \in 1 .. k - 1 : j \in 1 .. n /\ f[j] < f[k] /\ f[j] \in Nat
    OBVIOUS
  <2>2. k - 1 \in Nat /\ f[k] \in Nat
    OBVIOUS
  <2>3. g \in [1 .. k - 1 -> 0 .. f[k] - 1]
    BY <2>1, <2>2
  <2>4. \A j, l \in 1 .. k - 1 : g[j] = g[l] => j = l
    <3> SUFFICES ASSUME NEW j \in 1 .. k - 1, NEW l \in 1 .. k - 1, j < l
                 PROVE  f[j] # f[l]
      OBVIOUS
    <3>1. f[j] < f[l] /\ f[j] \in Nat /\ f[l] \in Nat
      BY <2>1
    <3> QED
      BY <3>1
  <2> HIDE DEF g
  <2> QED
    BY <2>2, <2>3, <2>4, DistinctBelow
<1>2. n - k <= n - 1 - f[k]
  <2> DEFINE g == [j \in 1 .. n - k |-> f[k + j] - f[k] - 1]
  <2>1. \A j \in 1 .. n - k :
          /\ k + j \in 1 .. n
          /\ f[k] < f[k + j]
          /\ f[k + j] \in 0 .. n - 1
    OBVIOUS
  <2>2. n - k \in Nat /\ n - 1 - f[k] \in Nat /\ f[k] \in Nat
    OBVIOUS
  <2>3. g \in [1 .. n - k -> 0 .. (n - 1 - f[k]) - 1]
    <3> SUFFICES ASSUME NEW j \in 1 .. n - k
                 PROVE  f[k + j] - f[k] - 1 \in 0 .. (n - 1 - f[k]) - 1
      OBVIOUS
    <3> QED
      BY SMTT(30), <2>1, <2>2
  <2>4. \A j, l \in 1 .. n - k : g[j] = g[l] => j = l
    <3>1. ASSUME NEW j \in 1 .. n - k, NEW l \in 1 .. n - k, j < l
          PROVE  f[k + j] - f[k] - 1 # f[k + l] - f[k] - 1
      <4>1. f[k + j] < f[k + l] /\ f[k + j] \in Nat /\ f[k + l] \in Nat
        BY <2>1, <3>1
      <4> QED
        BY SMTT(30), <2>2, <4>1
    <3>2. \A j, l \in 1 .. n - k : j < l \/ l < j \/ j = l
      OBVIOUS
    <3> QED
      BY <3>1, <3>2
  <2> HIDE DEF g
  <2> QED
    BY <2>2, <2>3, <2>4, DistinctBelow
<1> QED
  BY <1>1, <1>2

-----------------------------------------------------------------------------
(* What the superblocks say at first, and what is asked of them: the disks *)
(* of a set agree on its size and are numbered apart below it, as create   *)
(* writes them; every disk has one path; and who assembles by hand lists   *)
(* as many disks as their superblocks say.                                 *)
Initial(d) == Best(Super0[d])

WellNumbered ==
  /\ \A k, l \in DOMAIN PathOrder : PathOrder[k] = PathOrder[l] => k = l
  /\ \A d \in Disks : Initial(d) # Blank => Initial(d).number < Initial(d).disks
  /\ \A d, e \in Disks :
       Initial(d) # Blank /\ Initial(e).uuid = Initial(d).uuid
         => /\ Initial(d).disks = Initial(e).disks
            /\ Initial(d).number = Initial(e).number => d = e

Fits(comps) ==
  \A k \in DOMAIN comps :
    Initial(comps[k]) # Blank => Initial(comps[k]).disks = Len(comps)

ListsFit == \A r \in Requests : r.op = "assemble" => Fits(r.todo[1].comps)

WellKept == Assembling /\ WellNumbered /\ ListsFit

(* The paths of a set sort as its disks are numbered.                      *)
PathsFollowNumbers ==
  \A k, l \in DOMAIN PathOrder :
    LET d == Initial(PathOrder[k])
        e == Initial(PathOrder[l])
    IN  k < l /\ d # Blank /\ e.uuid = d.uuid => d.number < e.number

Ascending(comps) ==
  \A k, l \in DOMAIN comps :
    k < l => Initial(comps[k]).number < Initial(comps[l]).number

(* An automatic assembly has gathered disks of the set of its seed.        *)
Seeking(r) ==
  r.pc = "scan" =>
    /\ r.seed \in Disks
    /\ Initial(r.seed) # Blank
    /\ Initial(r.seed).uuid = r.uuid
    /\ Initial(r.seed).disks = r.need
    /\ \A k \in DOMAIN r.comps : Initial(r.comps[k]).uuid = r.uuid

(* From then on the list is as long as the set is large.                   *)
Filling(r) ==
  /\ r.pc \in {"ensure", "open", "setinfo", "loadall", "add", "run"} =>
       /\ Fits(r.comps)
       /\ r.op = "auto" /\ PathsFollowNumbers => Ascending(r.comps)
  /\ r.pc \in {"add", "run"} =>
       \A k \in DOMAIN r.comps : Initial(r.comps[k]) # Blank
  /\ r.pc = "add" => r.i <= r.need

(* The first n disks of a list, each in the slot of its place.             *)
Firsts(list, n) == {<<k, list[k + 1]>> : k \in 0 .. n - 1}

(* What the owner of array m has put into it so far.                       *)
Slotted(r, m) ==
  r.pc \in {"loadall", "add", "run"} /\ ~r.dry /\ r.md = m =>
    /\ r.pc = "loadall" => md[m].members = {}
    /\ r.pc = "add" => md[m].members = Firsts(r.comps, r.i)
    /\ r.pc = "run" => md[m].members = Firsts(r.comps, Len(r.comps))

WholeAt(m) ==
  md[m].active =>
    \A d \in Members(m) : Slots(m) = 0 .. (Initial(d).disks - 1)

Local == super = Super0 /\ \A p \in Procs : Seeking(run[p]) /\ Filling(run[p])
SlotInv == \A m \in Arrays : WholeAt(m) /\ \A p \in Procs : Slotted(run[p], m)

LEMMA InitialType ==
  ASSUME super = Super0, TypeOK
  PROVE  /\ \A d \in Disks : Initial(d) \in Supers \cup {Blank}
         /\ \A d : Stored(d) = Initial(d)
         /\ \A d : Loads(d) => /\ d \in Disks
                               /\ Load(d) = Initial(d)
                               /\ Initial(d) # Blank
         /\ \A d : Load(d).uuid \in UUIDs => Loads(d)
<1>1. \A d : Stored(d) = Initial(d)
  BY DEF Stored, Initial
<1>2. \A d \in Disks : Initial(d) \in Supers \cup {Blank}
  BY <1>1, StoredType
<1>3. ASSUME NEW d, Loads(d)
      PROVE  d \in Disks /\ Load(d) = Initial(d) /\ Initial(d) # Blank
  BY <1>1, <1>3, LoadType, LoadStored DEF Loads, TypeOK
<1>4. ASSUME NEW d, Load(d).uuid \in UUIDs
      PROVE  Loads(d)
  BY <1>4 DEF Loads, Blank
<1> QED
  BY <1>1, <1>2, <1>3, <1>4

-----------------------------------------------------------------------------
(* The scan.                                                               *)

(* One more disk of the set.                                               *)
LEMMA GatherStep ==
  ASSUME IInv, Local, NEW p \in Procs, NEW r, run[p].pc = "scan",
         NEW d \in Disks, Found(run[p], d),
         r = [run[p] EXCEPT !.i = @ + 1, !.comps = Append(@, d)]
  PROVE  Seeking(r) /\ Filling(r)
<1> DEFINE s == run[p]
           n == Len(s.comps)
<1>0. /\ s \in RunState /\ s.comps \in Seq(Disks) /\ n \in Nat
      /\ TypeOK /\ super = Super0 /\ Seeking(s) /\ s.uuid \in UUIDs
  BY DEF IInv, TypeInv, Good, RunState, Local
<1>1. Initial(d).uuid = s.uuid
  BY <1>0, InitialType DEF Found
<1>2. /\ r.pc = "scan" /\ r.comps = Append(s.comps, d)
      /\ r.seed = s.seed /\ r.uuid = s.uuid /\ r.need = s.need
  BY <1>0 DEF RunState
<1>3. ASSUME NEW k \in DOMAIN r.comps
      PROVE  r.comps[k] = d \/ \E l \in DOMAIN s.comps : r.comps[k] = s.comps[l]
  BY <1>0, <1>2, AppendProperties, LenProperties
<1>4. ASSUME NEW k \in DOMAIN r.comps
      PROVE  Initial(r.comps[k]).uuid = r.uuid
  BY <1>0, <1>1, <1>2, <1>3 DEF Seeking
<1> QED
  BY <1>0, <1>2, <1>4 DEF Seeking, Filling

(* At the end of the scan: sort puts each disk once, in the order of the   *)
(* paths.                                                                  *)
LEMMA SortedApart ==
  ASSUME WellKept, NEW c \in Seq(Disks), NEW comps \in Sorted(c)
  PROVE  \A k, l \in DOMAIN comps : comps[k] = comps[l] => k = l
<1>1. \A k, l \in DOMAIN comps : k < l => Before(comps[k], comps[l])
  BY SortedComps
<1>2. ASSUME NEW k \in DOMAIN comps, NEW l \in DOMAIN comps, k < l
      PROVE  comps[k] # comps[l]
  <2>1. Before(comps[k], comps[l])
    BY <1>1, <1>2
  <2>2. PICK i, j \in DOMAIN PathOrder :
          i < j /\ PathOrder[i] = comps[k] /\ PathOrder[j] = comps[l]
    BY <2>1 DEF Before
  <2>3. i # j
    BY <2>2
  <2> QED
    BY <2>2, <2>3 DEF WellKept, WellNumbered
<1>3. DOMAIN comps = 1 .. Len(comps) /\ Len(comps) \in Nat
  BY SortedComps, LenProperties
<1>4. \A k, l \in DOMAIN comps : k < l \/ l < k \/ k = l
  BY <1>3
<1> QED
  BY <1>2, <1>4

(* Different disks of one set have different numbers below its size, so    *)
(* there are no more of them than that.                                    *)
LEMMA ScanEnds ==
  ASSUME WellKept, IInv, Local, NEW p \in Procs, run[p].pc = "scan",
         NEW comps \in Sorted(run[p].comps), Enough(comps, run[p].need)
  PROVE  Fits(comps) /\ (PathsFollowNumbers => Ascending(comps))
<1> DEFINE s == run[p]
           n == Len(comps)
           f == [k \in 1 .. n |-> Initial(comps[k]).number]
<1>0. /\ s \in RunState /\ s.comps \in Seq(Disks)
      /\ TypeOK /\ super = Super0
      /\ Seeking(s) /\ s.uuid \in UUIDs /\ s.need \in Nat
  BY DEF IInv, TypeInv, Good, RunState, Local
<1>a. comps \in Seq(Disks) /\ n \in Nat /\ DOMAIN comps = 1 .. n
  BY <1>0, SortedComps, LenProperties
<1>b. ASSUME NEW k \in 1 .. n
      PROVE  \E l \in DOMAIN s.comps : comps[k] = s.comps[l]
  <2>1. Listed(comps) = Listed(s.comps)
    BY <1>0, SortedComps
  <2>2. comps[k] \in Listed(s.comps)
    BY <1>a, <2>1 DEF Listed
  <2> QED
    BY <2>2 DEF Listed
<1>1. ASSUME NEW k \in 1 .. n
      PROVE  /\ comps[k] \in Disks
             /\ Initial(comps[k]) # Blank
             /\ Initial(comps[k]).uuid = s.uuid
             /\ Initial(comps[k]).disks = s.need
             /\ Initial(comps[k]).number \in 0 .. s.need - 1
  <2>1. comps[k] \in Disks
    BY <1>a
  <2>2. Initial(comps[k]).uuid = s.uuid /\ Initial(comps[k]) # Blank
    BY <1>0, <1>b DEF Seeking, Blank
  <2>3. Initial(comps[k]).disks = s.need
    BY <1>0, <2>1, <2>2 DEF Seeking, WellKept, WellNumbered
  <2>4. Initial(comps[k]) \in Supers
    BY <1>0, <2>1, <2>2, InitialType
  <2>5. Initial(comps[k]).number < s.need /\ Initial(comps[k]).number \in Nat
    BY <2>1, <2>2, <2>3, <2>4 DEF WellKept, WellNumbered, Supers
  <2> QED
    BY <1>0, <2>1, <2>2, <2>3, <2>5
<1>2. f \in [1 .. n -> 0 .. s.need - 1]
  BY <1>1
<1>3. \A k, l \in 1 .. n : f[k] = f[l] => k = l
  <2> SUFFICES ASSUME NEW k \in 1 .. n, NEW l \in 1 .. n,
                      Initial(comps[k]).number = Initial(comps[l]).number
               PROVE  k = l
    OBVIOUS
  <2>1. comps[k] = comps[l]
    BY <1>1 DEF WellKept, WellNumbered
  <2> QED
    BY <1>0, <1>a, <2>1, SortedApart
<1>4. n <= s.need
  <2> HIDE DEF f
  <2> QED
    BY <1>0, <1>a, <1>2, <1>3, DistinctBelow
<1>5. n = s.need
  BY <1>0, <1>a, <1>4 DEF Enough
<1>6. ASSUME PathsFollowNumbers, NEW k \in 1 .. n, NEW l \in 1 .. n, k < l
      PROVE  Initial(comps[k]).number < Initial(comps[l]).number
  <2>1. Before(comps[k], comps[l])
    BY <1>0, <1>a, <1>6, SortedComps
  <2>2. PICK i, j \in DOMAIN PathOrder :
          i < j /\ PathOrder[i] = comps[k] /\ PathOrder[j] = comps[l]
    BY <2>1 DEF Before
  <2>3. Initial(comps[k]) # Blank /\ Initial(comps[l]).uuid = Initial(comps[k]).uuid
    BY <1>1
  <2>4. Initial(PathOrder[i]).number < Initial(PathOrder[j]).number
    BY <1>6, <2>2, <2>3 DEF PathsFollowNumbers
  <2> QED
    BY <2>2, <2>4
<1>7. Fits(comps)
  BY <1>a, <1>1, <1>5 DEF Fits
<1>8. PathsFollowNumbers => Ascending(comps)
  BY <1>a, <1>6 DEF Ascending
<1> QED
  BY <1>7, <1>8

-----------------------------------------------------------------------------
(* The local states.                                                       *)
LEMMA LocalReplaced ==
  ASSUME IInv, Local, super' = super, NEW p \in Procs, NEW r, Become(p, r),
         Seeking(r), Filling(r)
  PROVE  Local'
<1>1. run' = [run EXCEPT ![p] = r] /\ run \in [Procs -> RunState]
  BY DEF Become, IInv, TypeInv, TypeOK
<1>2. ASSUME NEW q \in Procs
      PROVE  Seeking(run'[q]) /\ Filling(run'[q])
  BY <1>1 DEF Local
<1> QED
  BY <1>2 DEF Local, Seeking, Filling

LEMMA IdleLocal == Seeking(Idle) /\ Filling(Idle)
BY IdleKeeps DEF Seeking, Filling

LEMMA LocalStep == WellKept /\ IInv /\ Local /\ [Next]_vars => Local'
<1> SUFFICES ASSUME WellKept, IInv, Local, [Next]_vars
             PROVE  Local'
  OBVIOUS
<1>a. TypeOK /\ super = Super0 /\ run \in [Procs -> RunState]
  BY DEF IInv, TypeInv, TypeOK, Local
<1>0. ASSUME NEW p \in Procs
      PROVE  /\ run[p] \in RunState /\ Seeking(run[p]) /\ Filling(run[p])
             /\ Assembler(run[p])
             /\ Failed(run[p]) = Idle /\ Done(run[p]) = Idle
  BY EndsIdle DEF IInv, TypeInv, Good, SharedInv, Local
<1>b. super' = super
  <2>1. ASSUME NEW p \in Procs
        PROVE  ~WriteSuper(p)
    BY <1>0 DEF Assembler, WriteSuper
  <2> QED
    BY ZenonT(40), <2>1 DEF Next, Step, Begin, Hotplug, Kill, Stop, Plug,
       Unplug, Reboot,
       Validate, Ensure, EnsureFails, WriteFails, Written, LoadSeed, ScanDisk, Scanned,
       OpenArray, SetInfo, LoadAll, AddDisk, Added, RunArray, vars
<1>1. ASSUME NEW p \in Procs, NEW r, Become(p, r), Seeking(r), Filling(r)
      PROVE  Local'
  BY <1>1, <1>b, LocalReplaced
<1>2. ASSUME NEW p \in Procs, Become(p, Idle)
      PROVE  Local'
  BY <1>1, <1>2, IdleLocal
<1>3. CASE run' = run
  BY <1>3, <1>b DEF Local, Seeking, Filling
<1>4. ASSUME NEW p \in Procs, Begin(p)
      PROVE  Local'
  <2>1. PICK req \in Requests : Become(p, Enter(req.op, req.dry, req.todo))
    BY <1>4 DEF Begin
  <2>2. PICK r : r = Enter(req.op, req.dry, req.todo)
    OBVIOUS
  <2>3. CASE req.op = "assemble"
    <3>1. r.pc = "open" /\ r.comps = req.todo[1].comps /\ r.op = "assemble"
      BY <2>2, <2>3 DEF Enter, Idle
    <3>2. Fits(r.comps)
      BY <2>3, <3>1 DEF WellKept, ListsFit
    <3> QED
      BY <1>1, <2>1, <2>2, <3>1, <3>2 DEF Seeking, Filling
  <2>4. CASE req.op = "auto"
    <3>1. r.pc = "seed"
      BY <2>2, <2>4 DEF Enter, Idle
    <3> QED
      BY <1>1, <2>1, <2>2, <3>1 DEF Seeking, Filling
  <2> QED
    BY <2>3, <2>4 DEF WellKept, Assembling
<1>5. ASSUME NEW p \in Procs, Hotplug(p)
      PROVE  Local'
  <2>1. PICK todo : Become(p, Enter("auto", FALSE, todo))
    BY <1>5 DEF Hotplug
  <2>2. PICK r : r = Enter("auto", FALSE, todo)
    OBVIOUS
  <2>3. r.pc = "seed"
    BY <2>2 DEF Enter, Idle
  <2> QED
    BY <1>1, <2>1, <2>2, <2>3 DEF Seeking, Filling
<1>6. ASSUME NEW p \in Procs, Ensure(p)
      PROVE  Local'
  <2>1. PICK r : r = [run[p] EXCEPT !.pc = "open"]
    OBVIOUS
  <2>2. Become(p, r) /\ run[p].pc = "ensure"
    BY <1>0, <1>6, <2>1 DEF Ensure, Goto, Assembler
  <2>3. r.pc = "open" /\ r.comps = run[p].comps /\ r.op = run[p].op
    BY <1>0, <2>1 DEF RunState
  <2> QED
    BY <1>0, <1>1, <2>2, <2>3 DEF Seeking, Filling
<1>7. ASSUME NEW p \in Procs, LoadSeed(p)
      PROVE  Local'
  <2>1. CASE Loads(run[p].seed)
    <3>1. PICK r : r = [run[p] EXCEPT !.pc = "scan",
                          !.uuid = Load(run[p].seed).uuid,
                          !.need = Load(run[p].seed).disks,
                          !.comps = <<run[p].seed>>]
      OBVIOUS
    <3>2. /\ run[p].seed \in Disks /\ Initial(run[p].seed) # Blank
          /\ Load(run[p].seed) = Initial(run[p].seed)
      BY <1>a, <2>1, InitialType
    <3>4. /\ r.pc = "scan" /\ r.comps = <<r.seed>> /\ r.seed = run[p].seed
          /\ r.uuid = Initial(r.seed).uuid /\ r.need = Initial(r.seed).disks
      BY <1>0, <3>1, <3>2 DEF RunState
    <3>5. \A k \in DOMAIN r.comps : r.comps[k] = r.seed
      BY <3>4
    <3>6. Seeking(r) /\ Filling(r)
      BY <3>2, <3>4, <3>5 DEF Seeking, Filling
    <3> QED
      BY <1>1, <1>7, <2>1, <3>1, <3>6 DEF LoadSeed
  <2>2. CASE ~Loads(run[p].seed)
    BY <1>0, <1>2, <1>7, <2>2 DEF LoadSeed
  <2> QED
    BY <2>1, <2>2
<1>8. ASSUME NEW p \in Procs, ScanDisk(p)
      PROVE  Local'
  <2> DEFINE d == ScanOrder[run[p].i + 1]
  <2>0. run[p].pc = "scan" /\ d \in Disks
    BY <1>0, <1>8, PathAssumption DEF ScanDisk, RunState
  <2>1. CASE Found(run[p], d)
    <3>1. PICK r : r = [run[p] EXCEPT !.i = @ + 1, !.comps = Append(@, d)]
      OBVIOUS
    <3>2. Become(p, r)
      BY <1>8, <2>1, <3>1 DEF ScanDisk
    <3> QED
      BY <1>1, <2>0, <2>1, <3>1, <3>2, GatherStep
  <2>2. CASE ~Found(run[p], d)
    <3>1. PICK r : r = [run[p] EXCEPT !.i = @ + 1, !.comps = @]
      OBVIOUS
    <3>2. Become(p, r) /\ run[p].pc = "scan"
      BY <1>8, <2>2, <3>1 DEF ScanDisk
    <3>3. /\ r.pc = "scan" /\ r.comps = run[p].comps
          /\ r.seed = run[p].seed /\ r.uuid = run[p].uuid /\ r.need = run[p].need
      BY <1>0, <3>1, <3>2 DEF RunState
    <3>5. Seeking(r) /\ Filling(r)
      BY <1>0, <3>2, <3>3 DEF Seeking, Filling
    <3> QED
      BY <1>1, <3>2, <3>5
  <2> QED
    BY <2>1, <2>2
<1>9. ASSUME NEW p \in Procs, Scanned(p)
      PROVE  Local'
  <2>0. PICK comps \in Sorted(run[p].comps) :
          Become(p, IF Enough(comps, run[p].need)
                      THEN [run[p] EXCEPT !.pc = "ensure", !.i = 0,
                                          !.comps = comps,
                                          !.md = AutoName[run[p].uuid]]
                      ELSE Failed(run[p]))
    BY <1>9 DEF Scanned
  <2>1. CASE Enough(comps, run[p].need)
    <3>1. PICK r : r = [run[p] EXCEPT !.pc = "ensure", !.i = 0, !.comps = comps,
                                      !.md = AutoName[run[p].uuid]]
      OBVIOUS
    <3>2. r.pc = "ensure" /\ r.comps = comps /\ run[p].pc = "scan"
      BY <1>0, <1>9, <3>1 DEF RunState, Scanned
    <3>3. Fits(r.comps) /\ (PathsFollowNumbers => Ascending(r.comps))
      BY <2>1, <3>2, ScanEnds
    <3>4. Seeking(r) /\ Filling(r)
      BY <3>2, <3>3 DEF Seeking, Filling
    <3> QED
      BY <1>1, <2>0, <2>1, <3>1, <3>4
  <2>2. CASE ~Enough(comps, run[p].need)
    BY <1>0, <1>2, <2>0, <2>2
  <2> QED
    BY <2>1, <2>2
<1>10. ASSUME NEW p \in Procs, OpenArray(p)
       PROVE  Local'
  <2>1. PICK r : r = [run[p] EXCEPT !.pc = "setinfo",
                                    !.uuid = Load(run[p].comps[1]).uuid]
    OBVIOUS
  <2>2. /\ r.pc = "setinfo" /\ r.comps = run[p].comps /\ r.op = run[p].op
        /\ run[p].pc = "open"
    BY <1>0, <1>10, <2>1 DEF RunState, OpenArray
  <2>3. Seeking(r) /\ Filling(r)
    BY <1>0, <2>2 DEF Seeking, Filling
  <2> QED
    BY <1>0, <1>1, <1>2, <1>10, <2>1, <2>3 DEF OpenArray
<1>11. ASSUME NEW p \in Procs, SetInfo(p)
       PROVE  Local'
  <2>1. PICK r : r = [run[p] EXCEPT !.pc = "loadall"]
    OBVIOUS
  <2>2. /\ r.pc = "loadall" /\ r.comps = run[p].comps /\ r.op = run[p].op
        /\ run[p].pc = "setinfo"
    BY <1>0, <1>11, <2>1 DEF RunState, SetInfo
  <2>3. Seeking(r) /\ Filling(r)
    BY <1>0, <2>2 DEF Seeking, Filling
  <2> QED
    BY <1>0, <1>1, <1>2, <1>11, <2>1, <2>3 DEF SetInfo, GotoIf
<1>12. ASSUME NEW p \in Procs, LoadAll(p)
       PROVE  Local'
  <2>1. CASE \A k \in DOMAIN run[p].comps : Loads(run[p].comps[k])
    <3>1. PICK n \in 0 .. Len(run[p].comps) :
            Become(p, [run[p] EXCEPT !.pc = "add", !.i = 0, !.need = n])
      BY <1>12, <2>1 DEF LoadAll
    <3>2. PICK r : r = [run[p] EXCEPT !.pc = "add", !.i = 0, !.need = n]
      OBVIOUS
    <3>3. /\ r.pc = "add" /\ r.comps = run[p].comps /\ r.op = run[p].op
          /\ r.i = 0 /\ r.need = n /\ run[p].pc = "loadall"
      BY <1>0, <1>12, <3>2 DEF RunState, LoadAll
    <3>4. \A k \in DOMAIN r.comps : Initial(r.comps[k]) # Blank
      BY <1>a, <2>1, <3>3, InitialType
    <3>5. 0 <= n
      BY <1>0 DEF RunState
    <3>6. Seeking(r) /\ Filling(r)
      BY <1>0, <3>3, <3>4, <3>5 DEF Seeking, Filling
    <3> QED
      BY <1>1, <3>1, <3>2, <3>6
  <2>2. CASE ~\A k \in DOMAIN run[p].comps : Loads(run[p].comps[k])
    BY <1>0, <1>2, <1>12, <2>2 DEF LoadAll
  <2> QED
    BY <2>1, <2>2
<1>13. ASSUME NEW p \in Procs, AddDisk(p)
       PROVE  Local'
  <2>1. PICK r : r = [run[p] EXCEPT !.i = @ + 1]
    OBVIOUS
  <2>2. Become(p, r) \/ Become(p, Failed(run[p]))
    BY <1>13, <2>1 DEF AddDisk
  <2>3. /\ r.pc = "add" /\ r.comps = run[p].comps /\ r.op = run[p].op
        /\ r.i = run[p].i + 1 /\ r.need = run[p].need /\ run[p].pc = "add"
        /\ run[p].i \in Nat /\ run[p].need \in Nat /\ run[p].i < run[p].need
    BY <1>0, <1>13, <2>1 DEF RunState, AddDisk
  <2>4. r.i <= r.need
    BY <2>3
  <2>5. Seeking(r) /\ Filling(r)
    BY <1>0, <2>3, <2>4 DEF Seeking, Filling
  <2> QED
    BY <1>0, <1>1, <1>2, <2>2, <2>5
<1>14. ASSUME NEW p \in Procs, Added(p)
       PROVE  Local'
  <2>1. PICK r : r = [run[p] EXCEPT !.pc = "run"]
    OBVIOUS
  <2>2. /\ r.pc = "run" /\ r.comps = run[p].comps /\ r.op = run[p].op
        /\ run[p].pc = "add"
    BY <1>0, <1>14, <2>1 DEF RunState, Added
  <2>3. Seeking(r) /\ Filling(r)
    BY <1>0, <2>2 DEF Seeking, Filling
  <2> QED
    BY <1>0, <1>1, <1>2, <1>14, <2>1, <2>3 DEF Added, GotoIf
<1>15. ASSUME NEW p \in Procs,
              EnsureFails(p) \/ RunArray(p) \/ Kill(p) \/ WriteFails(p)
       PROVE  Local'
  BY <1>0, <1>2, <1>15 DEF EnsureFails, RunArray, Kill, WriteFails
<1>16. ASSUME NEW p \in Procs, Validate(p) \/ WriteSuper(p) \/ Written(p)
       PROVE  Local'
  BY <1>0, <1>16 DEF Assembler, Validate, WriteSuper, Written
<1>17. CASE Reboot
  <2>1. \A q \in Procs : run'[q] = Idle
    BY <1>17 DEF Reboot
  <2> QED
    BY <1>b, <2>1, IdleLocal DEF Local, Seeking, Filling
<1>18. ASSUME NEW d \in Disks, Plug(d) \/ Unplug(d)
       PROVE  Local'
  BY <1>3, <1>18 DEF Plug, Unplug
<1>19. CASE UNCHANGED vars
  BY <1>3, <1>19 DEF vars
<1> QED
  BY <1>4, <1>5, <1>6, <1>7, <1>8, <1>9, <1>10, <1>11, <1>12, <1>13, <1>14,
     <1>15, <1>16, <1>17, <1>18, <1>19 DEF Next, Step, WellKept, Assembling

-----------------------------------------------------------------------------
(* The arrays.                                                             *)
LEMMA FirstsSlots ==
  ASSUME NEW list, NEW n
  PROVE  /\ {x[1] : x \in Firsts(list, n)} = 0 .. n - 1
         /\ {x[2] : x \in Firsts(list, n)} = {list[k + 1] : k \in 0 .. n - 1}
<1>1. \A k \in 0 .. n - 1 : /\ <<k, list[k + 1]>> \in Firsts(list, n)
                            /\ <<k, list[k + 1]>>[1] = k
                            /\ <<k, list[k + 1]>>[2] = list[k + 1]
  BY DEF Firsts
<1>2. ASSUME NEW x \in Firsts(list, n)
      PROVE  \E k \in 0 .. n - 1 : x[1] = k /\ x[2] = list[k + 1]
  <2>1. PICK k \in 0 .. n - 1 : x = <<k, list[k + 1]>>
    BY DEF Firsts
  <2> QED
    BY <1>1, <2>1
<1>3. {x[1] : x \in Firsts(list, n)} \subseteq 0 .. n - 1
  BY <1>2
<1>4. 0 .. n - 1 \subseteq {x[1] : x \in Firsts(list, n)}
  BY <1>1
<1>5. {x[2] : x \in Firsts(list, n)} \subseteq {list[k + 1] : k \in 0 .. n - 1}
  BY <1>2
<1>6. {list[k + 1] : k \in 0 .. n - 1} \subseteq {x[2] : x \in Firsts(list, n)}
  <2> SUFFICES ASSUME NEW k \in 0 .. n - 1
               PROVE  \E x \in Firsts(list, n) : x[2] = list[k + 1]
    OBVIOUS
  <2>1. <<k, list[k + 1]>> \in Firsts(list, n)
    BY <1>1
  <2>2. <<k, list[k + 1]>>[2] = list[k + 1]
    BY <1>1
  <2> QED
    BY <2>1, <2>2
<1> QED
  BY <1>3, <1>4, <1>5, <1>6

LEMMA FirstsGrow ==
  ASSUME NEW list, NEW n \in Nat
  PROVE  Firsts(list, n + 1) = Firsts(list, n) \cup {<<n, list[n + 1]>>}
<1>1. 0 .. (n + 1) - 1 = 0 .. n - 1 \cup {n}
  OBVIOUS
<1> QED
  BY <1>1 DEF Firsts

LEMMA FirstsNone == \A list : Firsts(list, 0) = {}
BY DEF Firsts

(* A step that adds no member and starts no array: what is left to check   *)
(* is the process it concerns.                                             *)
LEMMA SlotsKept ==
  ASSUME IInv, SlotInv, NEW p \in Procs, NEW r, Become(p, r),
         \A m \in Arrays : /\ md'[m].members = md[m].members
                           /\ md'[m].active = md[m].active,
         \A m \in Arrays : Slotted(r, m)
  PROVE  SlotInv'
<1>1. run' = [run EXCEPT ![p] = r] /\ run \in [Procs -> RunState]
  BY DEF Become, IInv, TypeInv, TypeOK
<1>2. ASSUME NEW m \in Arrays
      PROVE  WholeAt(m)'
  BY DEF SlotInv, WholeAt, Members, Slots
<1>3. ASSUME NEW m \in Arrays, NEW q \in Procs
      PROVE  Slotted(run[q], m)'
  <2>1. PICK x : x = run'[q]
    OBVIOUS
  <2>2. Slotted(x, m)
    BY <1>1, <2>1 DEF SlotInv
  <2> QED
    BY <2>1, <2>2 DEF Slotted
<1> QED
  BY <1>2, <1>3 DEF SlotInv

LEMMA SlotStep ==
  WellKept /\ IInv /\ Local /\ SlotInv /\ [Next]_vars => SlotInv'
<1> SUFFICES ASSUME WellKept, IInv, Local, SlotInv, [Next]_vars
             PROVE  SlotInv'
  OBVIOUS
<1>a. /\ TypeOK /\ super = Super0 /\ run \in [Procs -> RunState]
      /\ md \in [Arrays -> MdState]
  BY DEF IInv, TypeInv, TypeOK, Local, MdState
<1>0. ASSUME NEW p \in Procs
      PROVE  /\ run[p] \in RunState /\ Filling(run[p])
             /\ Assembler(run[p]) /\ Agreed(run[p])
             /\ Failed(run[p]) = Idle /\ Done(run[p]) = Idle
             /\ \A m \in Arrays : Slotted(run[p], m)
  BY EndsIdle DEF IInv, TypeInv, Good, SharedInv, Local, SlotInv
<1>b. ASSUME NEW r, r.pc \notin {"loadall", "add", "run"}
      PROVE  \A m \in Arrays : Slotted(r, m)
  BY <1>b DEF Slotted
<1>1. ASSUME NEW p \in Procs, NEW r, Become(p, r), md' = md,
             r.pc \notin {"loadall", "add", "run"}
      PROVE  SlotInv'
  BY <1>1, <1>b, SlotsKept
<1>2. ASSUME NEW p \in Procs, Become(p, Idle), md' = md
      PROVE  SlotInv'
  BY <1>1, <1>2, IdleKeeps
<1>3. CASE md' = md /\ run' = run
  BY <1>3 DEF SlotInv, WholeAt, Slotted, Members, Slots
<1>4. ASSUME NEW p \in Procs, Begin(p) \/ Hotplug(p)
      PROVE  SlotInv'
  BY <1>1, <1>4, OffDisks DEF Begin, Hotplug
<1>5. ASSUME NEW p \in Procs, Ensure(p)
      PROVE  SlotInv'
  <2>1. [run[p] EXCEPT !.pc = "open"].pc = "open"
    BY <1>0 DEF RunState
  <2>2. Become(p, [run[p] EXCEPT !.pc = "open"])
    BY <1>0, <1>5 DEF Ensure, Goto, Assembler
  <2>3. \A m \in Arrays : /\ md'[m].members = md[m].members
                          /\ md'[m].active = md[m].active
    BY ZenonT(40), <1>5, <1>a DEF Ensure, NewNode, MdState
  <2> QED
    BY <1>b, <2>1, <2>2, <2>3, SlotsKept
<1>20. ASSUME NEW p \in Procs, EnsureFails(p)
       PROVE  SlotInv'
  <2>1. \A m \in Arrays : /\ md'[m].members = md[m].members
                          /\ md'[m].active = md[m].active
    <3>1. CASE md' = md
      BY <3>1
    <3>2. CASE md' = [md EXCEPT ![run[p].md].node = TRUE]
      BY ZenonT(40), <1>a, <3>2 DEF MdState
    <3> QED
      BY <1>20, <3>1, <3>2 DEF EnsureFails
  <2>2. Become(p, Idle)
    BY <1>0, <1>20 DEF EnsureFails
  <2> QED
    BY <1>b, <2>1, <2>2, IdleKeeps, SlotsKept
<1>6. ASSUME NEW p \in Procs, LoadSeed(p)
      PROVE  SlotInv'
  <2>1. [run[p] EXCEPT !.pc = "scan", !.uuid = Load(run[p].seed).uuid,
                       !.need = Load(run[p].seed).disks,
                       !.comps = <<run[p].seed>>].pc = "scan"
    BY <1>0 DEF RunState
  <2> QED
    BY <1>0, <1>1, <1>2, <1>6, <2>1 DEF LoadSeed
<1>7. ASSUME NEW p \in Procs, ScanDisk(p)
      PROVE  SlotInv'
  <2>1. \A c : [run[p] EXCEPT !.i = @ + 1, !.comps = c].pc = "scan"
    BY <1>0, <1>7 DEF RunState, ScanDisk
  <2>2. PICK c : Become(p, [run[p] EXCEPT !.i = @ + 1, !.comps = c])
    BY <1>7 DEF ScanDisk
  <2> QED
    BY <1>1, <1>7, <2>1, <2>2 DEF ScanDisk
<1>8. ASSUME NEW p \in Procs, Scanned(p)
      PROVE  SlotInv'
  <2>0. PICK comps :
          \/ Become(p, [run[p] EXCEPT !.pc = "ensure", !.i = 0, !.comps = comps,
                                      !.md = AutoName[run[p].uuid]])
          \/ Become(p, Idle)
    BY <1>0, <1>8 DEF Scanned
  <2>1. [run[p] EXCEPT !.pc = "ensure", !.i = 0, !.comps = comps,
                       !.md = AutoName[run[p].uuid]].pc = "ensure"
    BY <1>0 DEF RunState
  <2>2. md' = md
    BY <1>8 DEF Scanned
  <2> QED
    BY <1>1, <1>2, <2>0, <2>1, <2>2
<1>9. ASSUME NEW p \in Procs, OpenArray(p)
      PROVE  SlotInv'
  <2>1. [run[p] EXCEPT !.pc = "setinfo",
                       !.uuid = Load(run[p].comps[1]).uuid].pc = "setinfo"
    BY <1>0 DEF RunState
  <2> QED
    BY <1>0, <1>1, <1>2, <1>9, <2>1 DEF OpenArray
<1>10. ASSUME NEW p \in Procs, SetInfo(p)
       PROVE  SlotInv'
  <2>0. \A m \in Arrays : /\ md'[m].members = md[m].members
                          /\ md'[m].active = md[m].active
    BY <1>10, <1>a DEF SetInfo, MdState
  <2>1. PICK r : r = [run[p] EXCEPT !.pc = "loadall"]
    OBVIOUS
  <2>2. /\ r.pc = "loadall" /\ r.md = run[p].md /\ r.dry = run[p].dry
    BY <1>0, <2>1 DEF RunState
  <2>3. CASE run[p].dry \/ ~md[run[p].md].info
    <3>1. Become(p, r)
      BY <1>10, <2>1, <2>3 DEF SetInfo, GotoIf
    <3>2. ASSUME NEW m \in Arrays
          PROVE  Slotted(r, m)
      <4>1. ~md[m].info => md[m].members = {}
        BY DEF IInv, SharedInv, Owned
      <4> QED
        BY <2>2, <2>3, <4>1 DEF Slotted
    <3> QED
      BY <2>0, <3>1, <3>2, SlotsKept
  <2>4. CASE ~(run[p].dry \/ ~md[run[p].md].info)
    <3>1. Become(p, Idle)
      BY <1>0, <1>10, <2>4 DEF SetInfo, GotoIf
    <3> QED
      BY <1>b, <2>0, <3>1, IdleKeeps, SlotsKept
  <2> QED
    BY <2>3, <2>4
<1>11. ASSUME NEW p \in Procs, LoadAll(p)
       PROVE  SlotInv'
  <2>1. CASE Become(p, Idle)
    BY <1>2, <1>11, <2>1 DEF LoadAll
  <2>2. CASE ~Become(p, Idle)
    <3>1. PICK n : Become(p, [run[p] EXCEPT !.pc = "add", !.i = 0, !.need = n])
      BY <1>0, <1>11, <2>2 DEF LoadAll
    <3>2. PICK r : r = [run[p] EXCEPT !.pc = "add", !.i = 0, !.need = n]
      OBVIOUS
    <3>3. /\ r.pc = "add" /\ r.md = run[p].md /\ r.dry = run[p].dry
          /\ r.i = 0 /\ run[p].pc = "loadall"
      BY <1>0, <1>11, <3>2 DEF RunState, LoadAll
    <3>4. ASSUME NEW m \in Arrays
          PROVE  Slotted(r, m)
      BY <1>0, <3>3, FirstsNone DEF Slotted
    <3>5. md' = md
      BY <1>11 DEF LoadAll
    <3> QED
      BY <3>1, <3>2, <3>4, <3>5, SlotsKept
  <2> QED
    BY <2>1, <2>2
<1>12. ASSUME NEW p \in Procs, AddDisk(p)
       PROVE  SlotInv'
  <2> DEFINE d == run[p].comps[run[p].i + 1]
             n == run[p].md
  <2>1. PICK ok \in BOOLEAN :
          /\ ok => run[p].dry \/ ~md[n].active
          /\ Become(p, IF ok THEN [run[p] EXCEPT !.i = @ + 1] ELSE Failed(run[p]))
          /\ md' = IF ok /\ ~run[p].dry
                     THEN [md EXCEPT ![n].members = @ \cup {<<run[p].i, d>>}]
                     ELSE md
    BY <1>12 DEF AddDisk, Member
  <2>2. CASE ~ok
    BY <1>0, <1>2, <2>1, <2>2
  <2>3. PICK r : r = [run[p] EXCEPT !.i = @ + 1]
    OBVIOUS
  <2>4. /\ r.pc = "add" /\ r.md = n /\ r.dry = run[p].dry
        /\ r.i = run[p].i + 1 /\ r.comps = run[p].comps
        /\ run[p].pc = "add" /\ run[p].i \in Nat
    BY <1>0, <1>12, <2>3 DEF RunState, AddDisk
  <2>5. CASE ok /\ run[p].dry
    <3>1. \A m \in Arrays : Slotted(r, m)
      BY <2>4, <2>5 DEF Slotted
    <3> QED
      BY <2>1, <2>3, <2>5, <3>1, SlotsKept
  <2>6. CASE ok /\ ~run[p].dry
    <3>1. n \in Arrays /\ ~md[n].active
      BY <1>0, <2>1, <2>4, <2>6 DEF Assembler
    <3>2. /\ md'[n].members = md[n].members \cup {<<run[p].i, d>>}
          /\ ~md'[n].active
          /\ \A m \in Arrays \ {n} : md'[m] = md[m]
      BY <1>a, <2>1, <2>6, <3>1 DEF MdState
    <3>3. run'[p] = r /\ \A q \in Procs \ {p} : run'[q] = run[q]
      BY <1>a, <2>1, <2>3, <2>6 DEF Become
    <3>4. md'[n].members = Firsts(r.comps, r.i)
      <4>1. md[n].members = Firsts(run[p].comps, run[p].i)
        BY <1>0, <2>4, <2>6, <3>1 DEF Slotted
      <4> QED
        BY <2>4, <3>2, <4>1, FirstsGrow
    <3>5. ASSUME NEW m \in Arrays
          PROVE  WholeAt(m)'
      <4>1. CASE m = n
        BY <3>2, <4>1 DEF WholeAt
      <4>2. CASE m # n
        BY <3>2, <4>2 DEF SlotInv, WholeAt, Members, Slots
      <4> QED
        BY <4>1, <4>2
    <3>6. ASSUME NEW m \in Arrays, NEW q \in Procs
          PROVE  Slotted(run[q], m)'
      <4>1. CASE q = p /\ m = n
        BY <2>4, <3>3, <3>4, <4>1 DEF Slotted
      <4>2. CASE q = p /\ m # n
        BY <2>4, <3>3, <4>2 DEF Slotted
      <4>3. CASE q # p /\ m = n
        <5>1. Owns(p, n)
          BY <2>4, <2>6 DEF Owns
        <5>2. ~Owns(q, n)
          BY <3>1, <4>3, <5>1 DEF IInv, SharedInv, Owned
        <5> QED
          BY <3>3, <4>3, <5>2 DEF Slotted, Owns
      <4>4. CASE q # p /\ m # n
        <5>1. PICK x : x = run'[q]
          OBVIOUS
        <5>2. Slotted(x, m) /\ md'[m] = md[m]
          BY <1>0, <3>2, <3>3, <4>4, <5>1
        <5> QED
          BY <5>1, <5>2 DEF Slotted
      <4> QED
        BY <4>1, <4>2, <4>3, <4>4
    <3> QED
      BY <3>5, <3>6 DEF SlotInv
  <2> QED
    BY <2>2, <2>5, <2>6
<1>13. ASSUME NEW p \in Procs, Added(p)
       PROVE  SlotInv'
  <2>1. CASE run[p].need = Len(run[p].comps)
    <3>1. PICK r : r = [run[p] EXCEPT !.pc = "run"]
      OBVIOUS
    <3>2. /\ r.pc = "run" /\ r.md = run[p].md /\ r.dry = run[p].dry
          /\ r.comps = run[p].comps /\ run[p].pc = "add"
      BY <1>0, <1>13, <3>1 DEF RunState, Added
    <3>3. run[p].i = Len(run[p].comps)
      BY <1>0, <1>13, <2>1 DEF Added, Filling, RunState
    <3>4. \A m \in Arrays : Slotted(r, m)
      BY ZenonT(40), <1>0, <3>2, <3>3 DEF Slotted
    <3>5. Become(p, r) /\ md' = md
      BY <1>13, <2>1, <3>1 DEF Added, GotoIf
    <3> QED
      BY <3>4, <3>5, SlotsKept
  <2>2. CASE run[p].need # Len(run[p].comps)
    BY <1>0, <1>2, <1>13, <2>2 DEF Added, GotoIf
  <2> QED
    BY <2>1, <2>2
<1>14. ASSUME NEW p \in Procs, RunArray(p)
       PROVE  SlotInv'
  <2> DEFINE n == run[p].md
             list == run[p].comps
  <2>1. Become(p, Idle)
    BY <1>0, <1>14 DEF RunArray
  <2>2. CASE md' = md
    BY <1>2, <2>1, <2>2
  <2>3. CASE md' # md
    <3>1. ~run[p].dry /\ md' = [md EXCEPT ![n].active = TRUE]
      BY <1>14, <2>3 DEF RunArray
    <3>2. n \in Arrays /\ list \in Seq(Disks) /\ DOMAIN list = 1 .. Len(list)
          /\ Len(list) \in Nat
      BY <1>0, <1>14, LenProperties DEF Assembler, RunArray, RunState
    <3>3. \A m \in Arrays : /\ md'[m].members = md[m].members
                            /\ m # n => md'[m].active = md[m].active
      BY <1>a, <3>1, <3>2 DEF MdState
    <3>4. md[n].members = Firsts(list, Len(list))
      BY <1>0, <1>14, <3>1, <3>2 DEF RunArray, Slotted
    <3>5. Slots(n) = 0 .. Len(list) - 1
      BY <3>4, FirstsSlots DEF Slots
    <3>6. ASSUME NEW e \in Members(n)
          PROVE  Initial(e).disks = Len(list)
      <4>1. Members(n) = {list[k + 1] : k \in 0 .. Len(list) - 1}
        BY <3>4, FirstsSlots DEF Members
      <4>2. PICK k \in 0 .. Len(list) - 1 : e = list[k + 1]
        BY <4>1
      <4>3. k + 1 \in DOMAIN list
        BY <3>2
      <4>4. Fits(list) /\ Initial(list[k + 1]) # Blank
        BY <1>0, <1>14, <4>3 DEF RunArray, Filling
      <4> QED
        BY <4>2, <4>3, <4>4 DEF Fits
    <3>7. ASSUME NEW m \in Arrays, m = n
          PROVE  WholeAt(m)'
      <4>1. Members(m)' = Members(n) /\ Slots(m)' = Slots(n)
        BY <3>3, <3>7 DEF Members, Slots
      <4> QED
        BY <3>5, <3>6, <4>1 DEF WholeAt
    <3>8. ASSUME NEW m \in Arrays, m # n
          PROVE  WholeAt(m)'
      BY <3>3, <3>8 DEF SlotInv, WholeAt, Members, Slots
    <3>9. ASSUME NEW m \in Arrays, NEW q \in Procs
          PROVE  Slotted(run[q], m)'
      <4>1. CASE q = p
        <5>1. run'[q].pc = "idle"
          BY <1>a, <2>1, <4>1, IdleKeeps DEF Become
        <5> QED
          BY <5>1 DEF Slotted
      <4>2. CASE q # p
        <5>1. PICK x : x = run'[q]
          OBVIOUS
        <5>2. Slotted(x, m)
          BY <1>0, <1>a, <2>1, <4>2, <5>1 DEF Become
        <5> QED
          BY <3>3, <5>1, <5>2 DEF Slotted
      <4> QED
        BY <4>1, <4>2
    <3>10. \A m \in Arrays : WholeAt(m)'
      BY <3>7, <3>8
    <3> QED
      BY <3>9, <3>10 DEF SlotInv
  <2> QED
    BY <2>2, <2>3
<1>15. ASSUME NEW p \in Procs, Kill(p)
       PROVE  SlotInv'
  BY <1>2, <1>15 DEF Kill
<1>16. ASSUME NEW p \in Procs,
              Validate(p) \/ WriteSuper(p) \/ WriteFails(p) \/ Written(p)
       PROVE  SlotInv'
  BY <1>0, <1>16 DEF Assembler, Validate, WriteSuper, WriteFails, Written
<1>17. CASE Reboot
  <2>1. \A q \in Procs : run'[q].pc = "idle"
    BY <1>17, IdleKeeps DEF Reboot
  <2>2. \A m \in Arrays : ~md'[m].active
    BY <1>17 DEF Reboot, Empty
  <2> QED
    BY <2>1, <2>2 DEF SlotInv, WholeAt, Slotted
<1>18. ASSUME NEW d \in Disks, Plug(d) \/ Unplug(d)
       PROVE  SlotInv'
  BY <1>3, <1>18 DEF Plug, Unplug
<1>19. CASE UNCHANGED vars
  BY <1>3, <1>19 DEF vars
<1> QED
  BY <1>4, <1>5, <1>6, <1>7, <1>8, <1>9, <1>10, <1>11, <1>12, <1>13, <1>14,
     <1>15, <1>16, <1>17, <1>18, <1>19, <1>20 DEF Next, Step, WellKept, Assembling

LEMMA SlotsAlways == WellKept => (Spec => [](IInv /\ Local /\ SlotInv))
<1> SUFFICES ASSUME WellKept
             PROVE  Spec => [](IInv /\ Local /\ SlotInv)
  OBVIOUS
<1>1. Init => IInv
  BY TypeInit, SharedInit DEF IInv
<1>2. Init => Local /\ SlotInv
  <2> SUFFICES ASSUME Init
               PROVE  Local /\ SlotInv
    OBVIOUS
  <2>1. \A p \in Procs : run[p] = Idle
    BY DEF Init
  <2>2. \A m \in Arrays : ~md[m].active
    BY DEF Init, Empty
  <2>3. super = Super0
    BY DEF Init
  <2> QED
    BY <2>1, <2>2, <2>3, IdleLocal, IdleKeeps DEF Local, SlotInv, WholeAt, Slotted
<1>3. IInv /\ Local /\ SlotInv /\ [Next]_vars => (IInv /\ Local /\ SlotInv)'
  BY TypeStep, SharedStep, LocalStep, SlotStep DEF IInv, WellKept
<1> QED
  BY <1>1, <1>2, <1>3, PTL DEF Spec

(* ActiveIsWhole, where disks are only assembled: whoever assembles, and   *)
(* whoever is killed on the way, an array that runs has a disk in every    *)
(* slot of its set.                                                        *)
THEOREM RunningArraysAreWhole == WellKept => (Spec => []ActiveIsWhole)
<1> SUFFICES ASSUME WellKept
             PROVE  Spec => []ActiveIsWhole
  OBVIOUS
<1>1. IInv /\ Local /\ SlotInv => ActiveIsWhole
  <2> SUFFICES ASSUME IInv, Local, SlotInv, NEW m \in Arrays, md[m].active,
                      NEW d \in Members(m)
               PROVE  Slots(m) = 0 .. (Load(d).disks - 1)
    BY DEF ActiveIsWhole, Whole
  <2>1. d \in present
    BY DEF IInv, SharedInv
  <2>2. Load(d) = Initial(d)
    BY <2>1, LoadStored, InitialType DEF IInv, TypeInv, Local
  <2> QED
    BY <2>2 DEF SlotInv, WholeAt
<1> QED
  BY <1>1, SlotsAlways, PTL

(* AutoFollowsNumbers: the superblock's number is never read, but where    *)
(* paths sort as the disks are numbered it is the slot all the same: the   *)
(* disks gathered are those of the whole set, in ascending order.          *)
THEOREM AutoSlotsAreNumbers ==
  WellKept /\ PathsFollowNumbers => (Spec => AutoFollowsNumbers)
<1> SUFFICES ASSUME WellKept, PathsFollowNumbers
             PROVE  Spec => AutoFollowsNumbers
  OBVIOUS
<1>1. IInv /\ Local /\ SlotInv /\ [Next]_vars =>
        [\A p \in Procs :
           run[p].op = "auto" /\ AddDisk(p) /\ md' # md
             => Load(run[p].comps[run[p].i + 1]).number = run[p].i]_vars
  <2> SUFFICES ASSUME IInv, Local, NEW p \in Procs, run[p].op = "auto",
                      AddDisk(p), md' # md
               PROVE  Load(run[p].comps[run[p].i + 1]).number = run[p].i
    OBVIOUS
  <2> DEFINE s == run[p]
             n == Len(s.comps)
             f == [k \in 1 .. n |-> Initial(s.comps[k]).number]
  <2>1. /\ s \in RunState /\ s.comps \in Seq(Disks) /\ n \in Nat
        /\ DOMAIN s.comps = 1 .. n /\ s.i \in Nat /\ s.need \in Nat
        /\ s.pc = "add" /\ s.i < s.need /\ s.need <= n
        /\ TypeOK /\ super = Super0 /\ Filling(s)
    <3>1. /\ s \in RunState /\ s.pc = "add" /\ s.i < s.need /\ TypeOK
          /\ super = Super0 /\ Filling(s) /\ Agreed(s)
      BY DEF IInv, TypeInv, Good, Local, AddDisk, SharedInv
    <3>2. s.comps \in Seq(Disks) /\ s.i \in Nat /\ s.need \in Nat
      BY <3>1 DEF RunState
    <3>3. n \in Nat /\ DOMAIN s.comps = 1 .. n
      BY <3>2, LenProperties
    <3>4. s.need <= n
      BY <3>1 DEF Agreed
    <3> QED
      BY <3>1, <3>2, <3>3, <3>4
  <2>2. s.i + 1 \in 1 .. n /\ s.comps[s.i + 1] \in present
    BY <2>1 DEF AddDisk
  <2>3. ASSUME NEW k \in 1 .. n
        PROVE  Initial(s.comps[k]).number \in 0 .. n - 1
    <3>1. s.comps[k] \in Disks
      BY <2>1
    <3>2. Initial(s.comps[k]) # Blank /\ Initial(s.comps[k]).disks = n
      BY <2>1 DEF Filling, Fits
    <3>3. Initial(s.comps[k]) \in Supers
      BY <2>1, <3>1, <3>2, InitialType
    <3>4. /\ Initial(s.comps[k]).number < n
          /\ Initial(s.comps[k]).number \in Nat
      BY <3>1, <3>2, <3>3 DEF WellKept, WellNumbered, Supers
    <3> QED
      BY <2>1, <3>4
  <2>4. f \in [1 .. n -> 0 .. n - 1]
    BY <2>3
  <2>5. \A k, l \in 1 .. n : k < l => f[k] < f[l]
    BY <2>1 DEF Filling, Ascending
  <2>6. f[s.i + 1] = (s.i + 1) - 1
    <3>1. PICK j : j = s.i + 1
      OBVIOUS
    <3>2. n \in Nat /\ j \in 1 .. n
      BY <2>1, <2>2, <3>1
    <3> HIDE DEF f, n, s
    <3>3. f[j] = j - 1
      BY ZenonT(40), <2>4, <2>5, <3>2, AscendingBelow
    <3> QED
      BY <3>1, <3>3
  <2>7. Load(s.comps[s.i + 1]) = Initial(s.comps[s.i + 1])
    BY <2>1, <2>2, LoadStored, InitialType
  <2> QED
    BY <2>1, <2>2, <2>6, <2>7
<1> QED
  BY <1>1, SlotsAlways, PTL DEF Spec, AutoFollowsNumbers
=============================================================================
