---------------------------- MODULE ArrayOpsProofs ----------------------------
(***************************************************************************)
(* Proofs about ArrayOps for any processes, disks, arrays and requests.    *)
(*                                                                         *)
(* A step replaces the state of one process, so what holds of every run[p] *)
(* is stated as an operator on such a state (Good, Assembler) and shown of *)
(* the new one; what ties processes to arrays is in Owned.                 *)
(***************************************************************************)
EXTENDS ArrayOps, SequenceTheorems, TLAPS

USE ArrayAssumption

-----------------------------------------------------------------------------
(* The local state of a process: its type; only apply works through a      *)
(* list; a dry command never gets to write; and the UUID that a create     *)
(* writes, or a scan looks for, is one.                                    *)
Good(r) ==
  /\ r \in RunState
  /\ r.todo # <<>> => r.op = "apply"
  /\ r.pc = "write" => ~r.dry
  /\ r.pc \in {"write", "scan"} => r.uuid \in UUIDs

TypeInv == TypeOK /\ \A p \in Procs : Good(run[p])

(* The superblock load would return if the disk were plugged in.           *)
Best(locations) ==
  LET there == {k \in Minors : locations[k] # Blank}
  IN  IF there # {}
        THEN locations[CHOOSE k \in there : \A l \in there : l <= k]
        ELSE Blank

Stored(d) == Best(super[d])

LEMMA StoredType ==
  ASSUME TypeOK, NEW d \in Disks
  PROVE  Stored(d) \in Supers \cup {Blank}
<1> DEFINE there == {k \in Minors : super[d][k] # Blank}
           top == CHOOSE k \in there : \A l \in there : l <= k
<1>1. CASE there = {}
  BY <1>1 DEF Stored, Best
<1>2. CASE there # {}
  <2>1. \A k \in there : k = 0 \/ k = 1 \/ k = 2
    BY DEF Minors
  <2>2. \E k \in there : \A l \in there : l <= k
    <3>1. CASE 2 \in there
      BY <2>1, <3>1
    <3>2. CASE 2 \notin there /\ 1 \in there
      BY <2>1, <3>2
    <3>3. CASE 2 \notin there /\ 1 \notin there
      BY <1>2, <2>1, <3>3
    <3> QED
      BY <3>1, <3>2, <3>3
  <2>3. top \in there
    BY <2>2
  <2>4. top \in Minors
    BY <2>3
  <2>5. Stored(d) = super[d][top]
    BY <1>2 DEF Stored, Best
  <2> QED
    BY <2>4, <2>5 DEF TypeOK
<1> QED
  BY <1>1, <1>2

LEMMA LoadStored == \A d : Load(d) = IF d \in present THEN Stored(d) ELSE Blank
BY DEF Load, Stored, Best

LEMMA LoadType ==
  ASSUME TypeOK, NEW d
  PROVE  /\ Load(d) \in Supers \cup {Blank}
         /\ Loads(d) => Load(d).uuid \in UUIDs /\ d \in present
<1>1. CASE d \in present
  <2>1. Load(d) \in Supers \cup {Blank}
    BY <1>1, LoadStored, StoredType DEF TypeOK
  <2> QED
    BY <1>1, <2>1 DEF Loads, Supers
<1>2. CASE d \notin present
  BY <1>2, LoadStored DEF Loads
<1> QED
  BY <1>1, <1>2

-----------------------------------------------------------------------------
(* The operators that replace a local state keep it Good.                  *)
LEMMA IdleGood == Good(Idle)
BY DEF Good, Idle, RunState, Labels, Manual, Minors

(* What an automatic assembly starts from and ends with.                   *)
LEMMA SeedRunState ==
  ASSUME NEW r \in RunState, NEW u \in UUIDs, NEW n \in Nat, NEW c \in Seq(Disks)
  PROVE  [r EXCEPT !.pc = "scan", !.uuid = u, !.need = n, !.comps = c] \in RunState
BY DEF RunState, Labels

LEMMA ScannedRunState ==
  ASSUME NEW r \in RunState, NEW c \in Seq(Disks), NEW m \in Arrays
  PROVE  [r EXCEPT !.pc = "ensure", !.i = 0, !.comps = c, !.md = m] \in RunState
BY DEF RunState, Labels

(* sort and dedup give the same disks, in the order of their paths.        *)
LEMMA SortedComps ==
  ASSUME NEW c \in Seq(Disks), NEW s \in Sorted(c)
  PROVE  /\ s \in Seq(Disks) /\ Listed(s) = Listed(c)
         /\ \A j, k \in DOMAIN s : j < k => Before(s[j], s[k])
<1>1. PICK n \in 0 .. Len(c) : s \in [1 .. n -> Listed(c)]
  BY DEF Sorted
<1>2. Listed(c) \subseteq Disks
  BY DEF Listed
<1>3. n \in Nat /\ s \in [1 .. n -> Disks]
  BY <1>1, <1>2
<1> QED
  BY <1>3 DEF Sorted

(* The updates the steps make.                                             *)
LEMMA RunStateExcept ==
  ASSUME NEW r \in RunState
  PROVE  /\ [r EXCEPT !.i = @ + 1] \in RunState
         /\ \A c \in Seq(Disks) : [r EXCEPT !.i = @ + 1, !.comps = c] \in RunState
         /\ \A pc \in Labels :
              /\ [r EXCEPT !.pc = pc, !.i = 0] \in RunState
              /\ \A n \in Nat :
                   [r EXCEPT !.pc = pc, !.i = 0, !.need = n] \in RunState
              /\ \A u \in UUIDs : [r EXCEPT !.pc = pc, !.uuid = u] \in RunState
              /\ \A u \in UUIDs, n \in Nat :
                   [r EXCEPT !.pc = pc, !.uuid = u, !.need = n] \in RunState
<1>0. PICK j \in Nat : j = r.i + 1
  BY DEF RunState
<1>1. [r EXCEPT !.i = j] \in RunState
  BY DEF RunState
<1>2. ASSUME NEW c \in Seq(Disks)
      PROVE  [r EXCEPT !.i = j, !.comps = c] \in RunState
  BY DEF RunState
<1>3. ASSUME NEW pc \in Labels
      PROVE  [r EXCEPT !.pc = pc, !.i = 0] \in RunState
  BY DEF RunState
<1>4. ASSUME NEW pc \in Labels, NEW n \in Nat
      PROVE  [r EXCEPT !.pc = pc, !.i = 0, !.need = n] \in RunState
  BY DEF RunState
<1>5. ASSUME NEW pc \in Labels, NEW u \in UUIDs
      PROVE  [r EXCEPT !.pc = pc, !.uuid = u] \in RunState
  BY DEF RunState
<1>6. ASSUME NEW pc \in Labels, NEW u \in UUIDs, NEW n \in Nat
      PROVE  [r EXCEPT !.pc = pc, !.uuid = u, !.need = n] \in RunState
  BY DEF RunState
<1> QED
  BY <1>0, <1>1, <1>2, <1>3, <1>4, <1>5, <1>6

LEMMA EnterGood ==
  ASSUME NEW op \in Manual \cup {"auto"}, NEW dry \in BOOLEAN,
         NEW todo \in Seq(Entry), todo # <<>>,
         op = "auto" => todo[1].comps # <<>>,
         op # "apply" => Len(todo) = 1
  PROVE  Good(Enter(op, dry, todo))
<1> DEFINE e == Enter(op, dry, todo)
<1>0. Len(todo) \in Nat \ {0} /\ DOMAIN todo = 1 .. Len(todo)
  BY EmptySeq, LenProperties
<1>1. todo[1] \in Entry /\ Tail(todo) \in Seq(Entry)
  BY <1>0, HeadTailProperties, ElementOfSeq
<1>2. /\ todo[1].md \in Arrays \cup {None}
      /\ todo[1].minor \in Minors
      /\ todo[1].comps \in Seq(Disks)
  BY <1>1 DEF Entry
<1>3. op # "apply" => Tail(todo) = <<>>
  <2>1. Len(Tail(todo)) = Len(todo) - 1
    BY HeadTailProperties
  <2>2. op # "apply" => Len(Tail(todo)) = 0
    BY <2>1
  <2> QED
    BY <1>1, <2>2, EmptySeq
<1>4. op = "auto" => todo[1].comps[1] \in Disks
  BY <1>2
<1>5. /\ e.pc \in {"validate", "seed", "open"}
      /\ e.op = op /\ e.todo = Tail(todo)
  BY DEF Enter, Idle
<1>6. e \in RunState
  <2>1. PICK pc : pc = CASE op = "create" -> "validate"
                         [] op = "auto" -> "seed"
                         [] OTHER -> "open"
    OBVIOUS
  <2>2. PICK comps : comps = IF op = "auto" THEN <<>> ELSE todo[1].comps
    OBVIOUS
  <2>3. PICK seed : seed = IF op = "auto" THEN todo[1].comps[1] ELSE None
    OBVIOUS
  <2>0. PICK creating : creating = (op = "create")
    OBVIOUS
  <2>4. pc \in Labels
    BY <2>1 DEF Labels
  <2>5. comps \in Seq(Disks) /\ seed \in Disks \cup {None}
    BY <1>2, <1>4, <2>2, <2>3
  <2>6. creating \in BOOLEAN
    BY <2>0
  <2>7. e = [Idle EXCEPT
               !.pc = pc, !.op = op, !.dry = dry, !.creating = creating,
               !.md = todo[1].md, !.minor = todo[1].minor, !.todo = Tail(todo),
               !.comps = comps, !.seed = seed]
    BY <2>0, <2>1, <2>2, <2>3, Zenon DEF Enter
  <2>8. Idle \in RunState
    BY IdleGood DEF Good
  <2> HIDE DEF e
  <2> QED
    BY ZenonT(40), <1>1, <1>2, <2>4, <2>5, <2>6, <2>7, <2>8 DEF RunState
<1> QED
  BY <1>3, <1>5, <1>6 DEF Good

LEMMA FailedGood == ASSUME NEW r, Good(r) PROVE Good(Failed(r))
<1>1. CASE r.op = "apply" /\ ~r.creating
  <2>1. PICK s : s = [r EXCEPT !.pc = "validate", !.creating = TRUE,
                               !.uuid = None, !.i = 0, !.need = 0]
    OBVIOUS
  <2>2. s \in RunState
    BY <2>1 DEF Good, RunState, Labels
  <2>3. s.pc = "validate" /\ s.op = "apply"
    BY <1>1, <2>1 DEF Good, RunState
  <2>4. Good(s)
    BY <2>2, <2>3 DEF Good
  <2> QED
    BY <1>1, <2>1, <2>4 DEF Failed
<1>2. CASE ~(r.op = "apply" /\ ~r.creating)
  BY <1>2, IdleGood DEF Failed
<1> QED
  BY <1>1, <1>2

LEMMA DoneGood == ASSUME NEW r, Good(r) PROVE Good(Done(r))
<1>1. r.op \in Manual \cup {"auto"} /\ r.dry \in BOOLEAN /\ r.todo \in Seq(Entry)
  BY DEF Good, RunState
<1>2. CASE r.todo # <<>>
  <2>1. r.op = "apply"
    BY <1>2 DEF Good
  <2> QED
    BY <1>1, <1>2, <2>1, EnterGood DEF Done
<1>3. CASE r.todo = <<>>
  BY <1>3, IdleGood DEF Done
<1> QED
  BY <1>2, <1>3

LEMMA GotoGood ==
  ASSUME NEW r, Good(r), NEW label \in Labels \ {"write", "scan"}
  PROVE  Good([r EXCEPT !.pc = label])
<1>1. PICK s : s = [r EXCEPT !.pc = label]
  OBVIOUS
<1>2. s \in RunState /\ s.pc = label /\ s.todo = r.todo /\ s.op = r.op
  BY <1>1 DEF Good, RunState
<1>3. Good(s)
  BY <1>2 DEF Good
<1> QED
  BY <1>1, <1>3

GoodRuns == run \in [Procs -> RunState] /\ \A q \in Procs : Good(run[q])

LEMMA RunGood ==
  ASSUME TypeInv, NEW p \in Procs, NEW r, Good(r), Become(p, r)
  PROVE  GoodRuns'
<1>1. r \in RunState
  BY DEF Good
<1>2. run' = [run EXCEPT ![p] = r]
  BY DEF Become
<1> QED
  BY <1>1, <1>2 DEF TypeInv, TypeOK, GoodRuns

LEMMA GotoIfGood ==
  ASSUME TypeInv, NEW p \in Procs, NEW ok, NEW label \in Labels \ {"write", "scan"},
         GotoIf(p, ok, label)
  PROVE  GoodRuns'
<1>1. Good(run[p])
  BY DEF TypeInv
<1>2. CASE ok
  BY <1>1, <1>2, GotoGood, RunGood DEF GotoIf
<1>3. CASE ~ok
  BY <1>1, <1>3, FailedGood, RunGood DEF GotoIf
<1> QED
  BY <1>2, <1>3

(* An update of one array; m is None before an automatic assembly names it. *)
MdState == [node : BOOLEAN, info : BOOLEAN, active : BOOLEAN,
            members : SUBSET (Nat \X Disks)]

LEMMA MdType ==
  ASSUME TypeOK, NEW m,
         \/ md' = md
         \/ md' = [md EXCEPT ![m].node = TRUE]
         \/ md' = [md EXCEPT ![m].info = TRUE]
         \/ md' = [md EXCEPT ![m].active = TRUE]
         \/ \E i \in Nat, d \in Disks :
              md' = [md EXCEPT ![m].members = @ \cup {<<i, d>>}]
         \/ \E node \in BOOLEAN : md' = [md EXCEPT ![m] = Empty(node)]
  PROVE  md' \in [Arrays -> MdState]
<1>0. md \in [Arrays -> MdState]
  BY DEF TypeOK, MdState
<1>1. ASSUME NEW x \in MdState
      PROVE  /\ [x EXCEPT !.node = TRUE] \in MdState
             /\ [x EXCEPT !.info = TRUE] \in MdState
             /\ [x EXCEPT !.active = TRUE] \in MdState
  BY DEF MdState
<1>2. ASSUME NEW x \in MdState, NEW i \in Nat, NEW d \in Disks
      PROVE  [x EXCEPT !.members = @ \cup {<<i, d>>}] \in MdState
  <2>1. x.members \cup {<<i, d>>} \in SUBSET (Nat \X Disks)
    BY DEF MdState
  <2>2. PICK ms : ms = x.members \cup {<<i, d>>}
    OBVIOUS
  <2>3. [x EXCEPT !.members = ms] \in MdState
    BY <2>1, <2>2 DEF MdState
  <2> QED
    BY <2>2, <2>3
<1>3. \A node \in BOOLEAN : Empty(node) \in MdState
  BY DEF MdState, Empty
<1>4. CASE md' = [md EXCEPT ![m].node = TRUE]
  BY <1>0, <1>1, <1>4
<1>5. CASE md' = [md EXCEPT ![m].info = TRUE]
  BY <1>0, <1>1, <1>5
<1>6. CASE md' = [md EXCEPT ![m].active = TRUE]
  BY <1>0, <1>1, <1>6
<1>7. CASE \E i \in Nat, d \in Disks :
             md' = [md EXCEPT ![m].members = @ \cup {<<i, d>>}]
  <2>1. PICK i \in Nat, d \in Disks :
          md' = [md EXCEPT ![m].members = @ \cup {<<i, d>>}]
    BY <1>7
  <2>2. CASE m \in Arrays
    <3>1. PICK x : x = [md[m] EXCEPT !.members = @ \cup {<<i, d>>}]
      OBVIOUS
    <3>2. x \in MdState
      BY <1>0, <1>2, <2>2, <3>1
    <3>3. md' = [md EXCEPT ![m] = x]
      BY <1>0, <2>1, <2>2, <3>1
    <3> QED
      BY <1>0, <3>2, <3>3
  <2>3. CASE m \notin Arrays
    BY <1>0, <2>1, <2>3
  <2> QED
    BY <2>2, <2>3
<1>8. CASE \E node \in BOOLEAN : md' = [md EXCEPT ![m] = Empty(node)]
  BY <1>0, <1>3, <1>8
<1> QED
  BY <1>0, <1>4, <1>5, <1>6, <1>7, <1>8

LEMMA QueueType ==
  ASSUME TypeOK, NEW ds \in SUBSET Disks, events' = Queue(ds)
  PROVE  events' \subseteq Disks
BY DEF TypeOK, Queue

(* A step of a process that leaves disks and arrays alone.                 *)
LEMMA RunOnly ==
  ASSUME TypeInv, GoodRuns', UNCHANGED <<super, present, md, events, fresh>>
  PROVE  TypeInv'
BY DEF TypeInv, TypeOK, GoodRuns

LEMMA TypeStep == TypeInv /\ [Next]_vars => TypeInv'
<1> SUFFICES ASSUME TypeInv, [Next]_vars
             PROVE  TypeInv'
  OBVIOUS
<1> USE DEF TypeInv
<1>0. ASSUME NEW p \in Procs
      PROVE  Good(run[p]) /\ run[p] \in RunState
  BY DEF Good
<1>1. CASE UNCHANGED vars
  BY <1>1 DEF vars, TypeOK, Good
<1>2. ASSUME NEW p \in Procs, Begin(p) PROVE TypeInv'
  <2>1. PICK req \in Requests : Become(p, Enter(req.op, req.dry, req.todo))
    BY <1>2 DEF Begin
  <2>2. /\ req.op \in Manual \cup {"auto"} /\ req.dry \in BOOLEAN
        /\ req.todo \in Seq(Entry) /\ req.todo # <<>>
        /\ req.op = "auto" => req.todo[1].comps # <<>>
        /\ req.op # "apply" => Len(req.todo) = 1
    BY DEF Request
  <2>3. Good(Enter(req.op, req.dry, req.todo))
    BY <2>2, EnterGood
  <2> QED
    BY <1>2, <2>1, <2>3, RunGood, RunOnly DEF Begin
<1>3. ASSUME NEW p \in Procs, Hotplug(p) PROVE TypeInv'
  <2>1. PICK d \in events :
          /\ events' = events \ {d}
          /\ Become(p, Enter("auto", FALSE,
                             <<[md |-> None, comps |-> <<d>>, minor |-> 0]>>))
    BY <1>3 DEF Hotplug
  <2>2. d \in Disks /\ events' \subseteq Disks
    BY <2>1 DEF TypeOK
  <2>3. PICK e : e = [md |-> None, comps |-> <<d>>, minor |-> 0]
    OBVIOUS
  <2>4. e \in Entry /\ e.comps # <<>>
    BY <2>2, <2>3 DEF Entry, Minors
  <2>5. <<e>> \in Seq(Entry) /\ <<e>> # <<>> /\ Len(<<e>>) = 1 /\ <<e>>[1] = e
    BY <2>4
  <2>6. Good(Enter("auto", FALSE, <<e>>))
    BY <2>4, <2>5, EnterGood
  <2>7. GoodRuns'
    BY <2>1, <2>3, <2>6, RunGood
  <2> QED
    BY <1>3, <2>2, <2>7 DEF Hotplug, TypeOK, GoodRuns
<1>4. ASSUME NEW p \in Procs, Validate(p) PROVE TypeInv'
  <2>1. PICK ok : GotoIf(p, ok, "ensure")
    BY <1>4 DEF Validate
  <2> QED
    BY <1>4, <2>1, GotoIfGood, RunOnly DEF Validate, Labels
<1>5. ASSUME NEW p \in Procs, Ensure(p) PROVE TypeInv'
  <2>1. md' \in [Arrays -> MdState]
    BY <1>5, MdType DEF Ensure, NewNode
  <2>2. GoodRuns' /\ fresh' \subseteq UUIDs
    <3>1. CASE run[p].creating /\ ~run[p].dry
      <4>1. PICK u \in fresh :
              /\ fresh' = fresh \ {u}
              /\ Become(p, [run[p] EXCEPT !.pc = "write", !.uuid = u])
        BY <1>5, <3>1 DEF Ensure
      <4>2. PICK r : r = [run[p] EXCEPT !.pc = "write", !.uuid = u]
        OBVIOUS
      <4>3. u \in UUIDs
        BY DEF TypeOK
      <4>4. r \in RunState
        BY <1>0, <4>2, <4>3, RunStateExcept DEF Labels
      <4>5. r.uuid = u /\ r.todo = run[p].todo /\ r.op = run[p].op
            /\ r.dry = run[p].dry
        BY <1>0, <4>2 DEF RunState
      <4>6. Good(r)
        BY <1>0, <3>1, <4>3, <4>4, <4>5 DEF Good
      <4> QED
        BY <4>1, <4>2, <4>6, RunGood DEF TypeOK
    <3>2. CASE run[p].creating /\ run[p].dry
      BY <1>0, <1>5, <3>2, DoneGood, RunGood DEF Ensure, TypeOK
    <3>3. CASE ~run[p].creating
      <4>1. Become(p, [run[p] EXCEPT !.pc = "open"]) /\ fresh' = fresh
        BY <1>5, <3>3 DEF Ensure, Goto
      <4> QED
        BY <1>0, <4>1, GotoGood, RunGood DEF TypeOK, Labels
    <3> QED
      BY <3>1, <3>2, <3>3
  <2> QED
    BY <1>5, <2>1, <2>2 DEF Ensure, TypeOK, GoodRuns, MdState
<1>6. ASSUME NEW p \in Procs, WriteSuper(p) PROVE TypeInv'
  <2> DEFINE d == run[p].comps[run[p].i + 1]
  <2>1. d \in Disks /\ run[p].uuid \in UUIDs /\ run[p].minor \in Minors
        /\ run[p].i \in Nat /\ Len(run[p].comps) \in Nat
    BY <1>0, <1>6 DEF WriteSuper, TypeOK, Good, RunState
  <2>2. PICK s : s = [uuid |-> run[p].uuid, number |-> run[p].i,
                      disks |-> Len(run[p].comps)]
    OBVIOUS
  <2>3. s \in Supers
    BY <2>1, <2>2 DEF Supers
  <2>4. super' = [super EXCEPT ![d][run[p].minor] = s]
    BY <1>6, <2>2 DEF WriteSuper
  <2>5. super' \in [Disks -> [Minors -> Supers \cup {Blank}]]
    BY <2>1, <2>3, <2>4 DEF TypeOK
  <2>6. events' \subseteq Disks
    BY <1>6, <2>1, QueueType DEF WriteSuper
  <2>7. PICK r : r = [run[p] EXCEPT !.i = @ + 1]
    OBVIOUS
  <2>8. r \in RunState
    BY <1>0, <2>7, RunStateExcept
  <2>9. r.todo = run[p].todo /\ r.op = run[p].op /\ r.pc = run[p].pc
        /\ r.dry = run[p].dry /\ r.uuid = run[p].uuid
    BY <1>0, <2>7 DEF RunState
  <2>10. Good(r)
    BY <1>0, <2>8, <2>9 DEF Good
  <2>11. GoodRuns'
    BY <1>6, <2>7, <2>10, RunGood DEF WriteSuper
  <2> QED
    BY <1>6, <2>5, <2>6, <2>11 DEF WriteSuper, TypeOK, GoodRuns
<1>7. ASSUME NEW p \in Procs, WriteFails(p) PROVE TypeInv'
  BY <1>0, <1>7, FailedGood, RunGood, RunOnly DEF WriteFails
<1>8. ASSUME NEW p \in Procs, Written(p) PROVE TypeInv'
  <2>1. PICK r : r = [run[p] EXCEPT !.pc = "open", !.i = 0]
    OBVIOUS
  <2>2. r \in RunState
    BY <1>0, <2>1, RunStateExcept DEF Labels
  <2>3. r.todo = run[p].todo /\ r.op = run[p].op /\ r.pc = "open"
    BY <1>0, <2>1 DEF RunState
  <2>4. Good(r)
    BY <1>0, <2>2, <2>3 DEF Good
  <2> QED
    BY <1>8, <2>1, <2>4, RunGood, RunOnly DEF Written
<1>9. ASSUME NEW p \in Procs, LoadSeed(p) PROVE TypeInv'
  <2>1. CASE Loads(run[p].seed)
    <3>1. PICK r : r = [run[p] EXCEPT !.pc = "scan",
                          !.uuid = Load(run[p].seed).uuid,
                          !.need = Load(run[p].seed).disks,
                          !.comps = <<run[p].seed>>]
      OBVIOUS
    <3>2. Load(run[p].seed).uuid \in UUIDs /\ Load(run[p].seed).disks \in Nat
      BY <2>1, LoadType DEF Supers, Loads
    <3>6. <<run[p].seed>> \in Seq(Disks)
      BY <2>1, LoadType DEF TypeOK
    <3>3. r \in RunState
      BY <1>0, <3>1, <3>2, <3>6, SeedRunState
    <3>4. r.todo = run[p].todo /\ r.op = run[p].op /\ r.pc = "scan"
          /\ r.uuid \in UUIDs
      BY <1>0, <3>1, <3>2 DEF RunState
    <3>5. Good(r)
      BY <1>0, <3>3, <3>4 DEF Good
    <3> QED
      BY <1>9, <2>1, <3>1, <3>5, RunGood, RunOnly DEF LoadSeed
  <2>2. CASE ~Loads(run[p].seed)
    BY <1>0, <1>9, <2>2, FailedGood, RunGood, RunOnly DEF LoadSeed
  <2> QED
    BY <2>1, <2>2
<1>10. ASSUME NEW p \in Procs, ScanDisk(p) PROVE TypeInv'
  <2> DEFINE d == ScanOrder[run[p].i + 1]
  <2>1. d \in Disks
    BY <1>0, <1>10, PathAssumption DEF ScanDisk, RunState
  <2>2. PICK comps : comps = IF Found(run[p], d) THEN Append(run[p].comps, d)
                                                 ELSE run[p].comps
    OBVIOUS
  <2>3. comps \in Seq(Disks)
    BY <1>0, <2>1, <2>2 DEF RunState
  <2>4. PICK r : r = [run[p] EXCEPT !.i = @ + 1, !.comps = comps]
    OBVIOUS
  <2>5. Become(p, r)
    BY <1>10, <2>2, <2>4 DEF ScanDisk
  <2>6. r \in RunState
    BY <1>0, <2>3, <2>4, RunStateExcept
  <2>7. r.todo = run[p].todo /\ r.op = run[p].op /\ r.pc = run[p].pc
        /\ r.dry = run[p].dry /\ r.uuid = run[p].uuid
    BY <1>0, <2>4 DEF RunState
  <2>8. Good(r)
    BY <1>0, <2>6, <2>7 DEF Good
  <2> QED
    BY <1>10, <2>5, <2>8, RunGood, RunOnly DEF ScanDisk
<1>11. ASSUME NEW p \in Procs, Scanned(p) PROVE TypeInv'
  <2>0. PICK comps \in Sorted(run[p].comps) :
          Become(p, IF Enough(comps, run[p].need)
                      THEN [run[p] EXCEPT !.pc = "ensure", !.i = 0,
                                          !.comps = comps,
                                          !.md = AutoName[run[p].uuid]]
                      ELSE Failed(run[p]))
    BY <1>11 DEF Scanned
  <2>1. CASE Enough(comps, run[p].need)
    <3>1. PICK r : r = [run[p] EXCEPT !.pc = "ensure", !.i = 0, !.comps = comps,
                                      !.md = AutoName[run[p].uuid]]
      OBVIOUS
    <3>2. AutoName[run[p].uuid] \in Arrays /\ comps \in Seq(Disks)
      BY <1>0, <1>11, SortedComps DEF Scanned, Good, RunState
    <3>3. r \in RunState
      BY <1>0, <3>1, <3>2, ScannedRunState
    <3>5. r.todo = run[p].todo /\ r.op = run[p].op /\ r.pc = "ensure"
      BY <1>0, <3>1 DEF RunState
    <3>4. Good(r)
      BY <1>0, <3>3, <3>5 DEF Good
    <3> QED
      BY <1>11, <2>0, <2>1, <3>1, <3>4, RunGood, RunOnly DEF Scanned
  <2>2. CASE ~Enough(comps, run[p].need)
    BY <1>0, <1>11, <2>0, <2>2, FailedGood, RunGood, RunOnly DEF Scanned
  <2> QED
    BY <2>1, <2>2
<1>12. ASSUME NEW p \in Procs, OpenArray(p) PROVE TypeInv'
  <2> DEFINE ok == md[run[p].md].node /\ run[p].comps # <<>>
                     /\ Loads(run[p].comps[1])
  <2>1. CASE ok
    <3>1. PICK r : r = [run[p] EXCEPT !.pc = "setinfo",
                                      !.uuid = Load(run[p].comps[1]).uuid]
      OBVIOUS
    <3>2. Load(run[p].comps[1]).uuid \in UUIDs
      BY <2>1, LoadType
    <3>3. r \in RunState /\ r.todo = run[p].todo /\ r.op = run[p].op
          /\ r.pc = "setinfo"
      BY ZenonT(40), <1>0, <3>1, <3>2 DEF RunState, Labels
    <3>4. Good(r)
      BY <1>0, <3>3 DEF Good
    <3> QED
      BY <1>12, <2>1, <3>1, <3>4, RunGood, RunOnly DEF OpenArray
  <2>2. CASE ~ok
    BY <1>0, <1>12, <2>2, FailedGood, RunGood, RunOnly DEF OpenArray
  <2> QED
    BY <2>1, <2>2
<1>13. ASSUME NEW p \in Procs, SetInfo(p) PROVE TypeInv'
  <2>1. GoodRuns'
    BY <1>13, GotoIfGood DEF SetInfo, Labels
  <2>2. md' \in [Arrays -> MdState]
    BY <1>13, MdType DEF SetInfo
  <2> QED
    BY <1>13, <2>1, <2>2 DEF SetInfo, TypeOK, GoodRuns, MdState
<1>14. ASSUME NEW p \in Procs, LoadAll(p) PROVE TypeInv'
  <2>1. CASE \A k \in DOMAIN run[p].comps : Loads(run[p].comps[k])
    <3>1. PICK n \in 0 .. Len(run[p].comps) :
            Become(p, [run[p] EXCEPT !.pc = "add", !.i = 0, !.need = n])
      BY <1>14, <2>1 DEF LoadAll
    <3>2. PICK r : r = [run[p] EXCEPT !.pc = "add", !.i = 0, !.need = n]
      OBVIOUS
    <3>3. n \in Nat /\ 0 \in Nat
      BY <1>0 DEF RunState
    <3>6. r \in RunState
      BY <1>0, <3>2, <3>3, RunStateExcept DEF Labels
    <3>4. r.todo = run[p].todo /\ r.op = run[p].op /\ r.pc = "add"
      BY <1>0, <3>2 DEF RunState
    <3>5. Good(r)
      BY <1>0, <3>6, <3>4 DEF Good
    <3> QED
      BY <1>14, <3>1, <3>2, <3>5, RunGood, RunOnly DEF LoadAll
  <2>2. CASE ~\A k \in DOMAIN run[p].comps : Loads(run[p].comps[k])
    BY <1>0, <1>14, <2>2, FailedGood, RunGood, RunOnly DEF LoadAll
  <2> QED
    BY <2>1, <2>2
<1>15. ASSUME NEW p \in Procs, AddDisk(p) PROVE TypeInv'
  <2> DEFINE d == run[p].comps[run[p].i + 1]
  <2>1. PICK ok \in BOOLEAN :
          /\ ok => d \in present
          /\ Become(p, IF ok THEN [run[p] EXCEPT !.i = @ + 1] ELSE Failed(run[p]))
          /\ md' = IF ok /\ ~run[p].dry
                     THEN [md EXCEPT ![run[p].md].members = @ \cup {<<run[p].i, d>>}]
                     ELSE md
    BY <1>15 DEF AddDisk, Member
  <2>2. md' \in [Arrays -> MdState]
    <3>1. run[p].i \in Nat /\ (ok => d \in Disks)
      BY <1>0, <2>1 DEF RunState, TypeOK
    <3> QED
      BY <2>1, <3>1, MdType
  <2>3. GoodRuns'
    <3>1. CASE ok
      <4>1. PICK r : r = [run[p] EXCEPT !.i = @ + 1]
        OBVIOUS
      <4>2. r \in RunState
        BY <1>0, <4>1, RunStateExcept
      <4>3. r.todo = run[p].todo /\ r.op = run[p].op /\ r.pc = run[p].pc
        BY <1>0, <4>1 DEF RunState
      <4>4. Good(r)
        BY <1>0, <1>15, <4>2, <4>3 DEF Good, AddDisk
      <4> QED
        BY <2>1, <3>1, <4>1, <4>4, RunGood
    <3>2. CASE ~ok
      BY <1>0, <2>1, <3>2, FailedGood, RunGood
    <3> QED
      BY <3>1, <3>2
  <2> QED
    BY <1>15, <2>2, <2>3 DEF AddDisk, TypeOK, GoodRuns, MdState
<1>16. ASSUME NEW p \in Procs, Added(p) PROVE TypeInv'
  BY <1>16, GotoIfGood, RunOnly DEF Added, Labels
<1>17. ASSUME NEW p \in Procs, RunArray(p) PROVE TypeInv'
  <2>1. GoodRuns'
    BY <1>0, <1>17, DoneGood, FailedGood, RunGood DEF RunArray
  <2>2. md' \in [Arrays -> MdState]
    BY <1>17, MdType DEF RunArray
  <2> QED
    BY <1>17, <2>1, <2>2 DEF RunArray, TypeOK, GoodRuns, MdState
<1>18. ASSUME NEW p \in Procs, Kill(p) PROVE TypeInv'
  BY <1>18, IdleGood, RunGood, RunOnly DEF Kill
<1>19. ASSUME NEW m \in Stoppable, Stop(m) PROVE TypeInv'
  <2>1. md' \in [Arrays -> MdState]
    BY <1>19, MdType DEF Stop
  <2> QED
    BY <1>19, <2>1 DEF Stop, TypeOK, Good, MdState
<1>20. ASSUME NEW d \in Disks, Plug(d) \/ Unplug(d) PROVE TypeInv'
  BY <1>20, QueueType DEF Plug, Unplug, TypeOK, Good
<1>22. ASSUME NEW p \in Procs, EnsureFails(p) PROVE TypeInv'
  <2>1. md' \in [Arrays -> MdState]
    BY <1>22, MdType DEF EnsureFails
  <2>2. GoodRuns'
    BY <1>0, <1>22, FailedGood, RunGood DEF EnsureFails
  <2> QED
    BY <1>22, <2>1, <2>2 DEF EnsureFails, TypeOK, GoodRuns, MdState
<1>21. CASE Reboot
  <2>1. md' \in [Arrays -> MdState]
    BY <1>21 DEF Reboot, MdState, Empty
  <2>2. events' \subseteq Disks
    BY <1>21, QueueType DEF Reboot, TypeOK
  <2>3. GoodRuns'
    BY <1>21, IdleGood DEF Reboot, GoodRuns, Good
  <2> QED
    BY <1>21, <2>1, <2>2, <2>3 DEF Reboot, TypeOK, GoodRuns, MdState
<1> QED
  BY <1>1, <1>2, <1>3, <1>4, <1>5, <1>6, <1>7, <1>8, <1>9, <1>10, <1>11, <1>12,
     <1>13, <1>14, <1>15, <1>16, <1>17, <1>18, <1>19, <1>20, <1>21, <1>22
     DEF Next, Step

LEMMA TypeInit == Init => TypeInv
<1> SUFFICES ASSUME Init
             PROVE  TypeInv
  OBVIOUS
<1>1. GoodRuns
  BY IdleGood DEF Init, GoodRuns, Good
<1>2. md \in [Arrays -> MdState]
  BY DEF Init, MdState, Empty
<1>3. events \subseteq Disks /\ fresh \subseteq UUIDs /\ present \subseteq Disks
      /\ super \in [Disks -> [Minors -> Supers \cup {Blank}]]
  BY DEF Init
<1> QED
  BY <1>1, <1>2, <1>3 DEF TypeInv, TypeOK, GoodRuns, MdState

(* TypeOK: the variables keep their ranges; with Good, a dry command never *)
(* reaches the writes and only apply works through a list.                 *)
THEOREM TypeCorrect == Spec => []TypeOK
<1>1. TypeInv => TypeOK
  BY DEF TypeInv
<1> QED
  BY <1>1, TypeInit, TypeStep, PTL DEF Spec

-----------------------------------------------------------------------------
(* DryRunInert: a dry run goes through the steps of a real one; the only   *)
(* ones that do not ask for it are the writes of create, which Good keeps  *)
(* out of its reach.                                                       *)
LEMMA DryStep ==
  ASSUME TypeInv, NEW p \in Procs, run[p].dry, Step(p)
  PROVE  UNCHANGED <<super, md, events, fresh>>
<1>1. run[p].pc # "write"
  BY DEF TypeInv, Good
<1>2. CASE Ensure(p)
  BY <1>2 DEF Ensure, NewNode
<1>3. CASE SetInfo(p)
  BY <1>3 DEF SetInfo
<1>4. CASE AddDisk(p)
  BY <1>4 DEF AddDisk
<1>5. CASE RunArray(p)
  BY <1>5 DEF RunArray
<1>6. CASE Scanned(p)
  BY <1>6 DEF Scanned
<1>7. CASE Validate(p)
  BY <1>7 DEF Validate
<1> QED
  BY <1>1, <1>2, <1>3, <1>4, <1>5, <1>6, <1>7 DEF Step, EnsureFails, WriteSuper,
     WriteFails, Written, LoadSeed, ScanDisk, OpenArray, LoadAll, Added

(* DryRunInert: each action of a dry run asks before it changes anything,  *)
(* and a dry create never gets to its writes.                              *)
THEOREM DryIsInert == Spec => DryRunInert
<1>1. TypeInv /\ [Next]_vars =>
        [\A p \in Procs :
           run[p].dry /\ Step(p) => UNCHANGED <<super, md, events, fresh>>]_vars
  BY DryStep
<1> QED
  BY <1>1, TypeInit, TypeStep, PTL DEF Spec, DryRunInert

-----------------------------------------------------------------------------
(* Assemblies alone, by hand and by udev: no create, and nobody stops an   *)
(* array.  Processes may still be killed, disks pulled out and put back,   *)
(* and the machine restarted at any moment.                                *)
Assembling ==
  /\ Stoppable = {}
  /\ \A r \in Requests : r.op \in {"assemble", "auto"}

Assembler(r) ==
  /\ r.op \in {"assemble", "auto"}
  /\ ~r.creating
  /\ r.pc \notin {"validate", "write"}
  /\ r.pc \notin {"idle", "seed", "scan"} => r.md \in Arrays

(* The components that are about to be added carry the UUID that was read  *)
(* from the first of them, also if they are out at the moment.             *)
Agreed(r) ==
  r.pc \in {"add", "run"} =>
    /\ r.need <= Len(r.comps)
    /\ \A k \in 1 .. r.need : Stored(r.comps[k]).uuid = r.uuid

(* Process p got SET_ARRAY_INFO of array m accepted and is not done.       *)
Owns(p, m) ==
  run[p].pc \in {"loadall", "add", "run"} /\ ~run[p].dry /\ run[p].md = m

(* An array has one owner at most, none before it is configured, and its   *)
(* members carry the UUID its owner is looking for.                        *)
Owned(m) ==
  /\ \A p, q \in Procs : Owns(p, m) /\ Owns(q, m) => p = q
  /\ ~md[m].info => md[m].members = {} /\ \A p \in Procs : ~Owns(p, m)
  /\ \A p \in Procs :
       Owns(p, m) => \A d \in Members(m) : Stored(d).uuid = run[p].uuid

Shared(m) == \A d, e \in Members(m) : Stored(d).uuid = Stored(e).uuid

SharedInv ==
  /\ \A p \in Procs : Assembler(run[p]) /\ Agreed(run[p])
  /\ \A m \in Arrays : Owned(m) /\ Shared(m) /\ Members(m) \subseteq present

IInv == TypeInv /\ SharedInv

LEMMA StoredKept == super' = super => \A d : Stored(d)' = Stored(d)
BY DEF Stored

LEMMA AgreedKept ==
  ASSUME super' = super, NEW r, Agreed(r)
  PROVE  Agreed(r)'
BY StoredKept DEF Agreed

SameArrays ==
  \A m \in Arrays :
    md'[m].info = md[m].info /\ md'[m].members = md[m].members

(* Most steps replace the state of one process by one that owns nothing or *)
(* what it owned before.                                                   *)
LEMMA Keep ==
  ASSUME IInv, NEW p \in Procs, NEW r,
         run' = [run EXCEPT ![p] = r], super' = super, present' = present,
         SameArrays, Assembler(r), Agreed(r),
         r.pc \in {"loadall", "add", "run"} /\ ~r.dry =>
           /\ Owns(p, run[p].md)
           /\ r.md = run[p].md
           /\ r.uuid = run[p].uuid
  PROVE  SharedInv'
<1>1. ASSUME NEW q \in Procs
      PROVE  run'[q] = IF q = p THEN r ELSE run[q]
  BY DEF IInv, TypeInv, TypeOK
<1>2. ASSUME NEW q \in Procs
      PROVE  Assembler(run'[q]) /\ Agreed(run[q])'
  <2>1. Assembler(run[q]) /\ Agreed(run[q])
    BY DEF IInv, SharedInv
  <2>2. PICK x : x = run'[q]
    OBVIOUS
  <2>3. Assembler(x) /\ Agreed(x)
    BY <1>1, <2>1, <2>2
  <2>4. Agreed(x)'
    BY <2>3, AgreedKept
  <2> QED
    BY <2>2, <2>3, <2>4
<1>3. ASSUME NEW q \in Procs, NEW m \in Arrays, Owns(q, m)'
      PROVE  Owns(q, m) /\ run'[q].uuid = run[q].uuid
  BY <1>1, <1>3 DEF Owns
<1>4. ASSUME NEW m \in Arrays
      PROVE  /\ Members(m)' = Members(m)
             /\ Members(m)' \subseteq present'
             /\ Shared(m)'
  <2>1. Members(m)' = Members(m)
    BY DEF SameArrays, Members
  <2>2. Shared(m) /\ Members(m) \subseteq present
    BY DEF IInv, SharedInv
  <2> QED
    BY <2>1, <2>2, StoredKept DEF Shared
<1>5. ASSUME NEW m \in Arrays
      PROVE  Owned(m)'
  <2>1. Owned(m)
    BY DEF IInv, SharedInv
  <2>2. \A q, s \in Procs : Owns(q, m)' /\ Owns(s, m)' => q = s
    BY <1>3, <2>1 DEF Owned
  <2>3. ~md'[m].info => md'[m].members = {} /\ \A q \in Procs : ~Owns(q, m)'
    BY <1>3, <2>1 DEF Owned, SameArrays
  <2>4. ASSUME NEW q \in Procs, Owns(q, m)', NEW d \in Members(m)'
        PROVE  Stored(d)' = Stored(d) /\ Stored(d).uuid = run'[q].uuid
    BY <1>3, <1>4, <2>1, <2>4, StoredKept DEF Owned
  <2> QED
    BY <2>2, <2>3, <2>4 DEF Owned
<1> QED
  BY <1>2, <1>4, <1>5 DEF SharedInv, Assembler

LEMMA IdleKeeps == Assembler(Idle) /\ Agreed(Idle) /\ Idle.pc = "idle"
BY DEF Assembler, Agreed, Idle

(* Where a command ends, in this setting.                                  *)
LEMMA EndsIdle ==
  ASSUME NEW r, Good(r), Assembler(r)
  PROVE  Failed(r) = Idle /\ Done(r) = Idle
BY DEF Good, Assembler, Failed, Done

(* A step after which the process owns nothing.                            *)
LEMMA KeepOff ==
  ASSUME IInv, NEW p \in Procs, NEW r, Become(p, r),
         super' = super, present' = present, SameArrays,
         Assembler(r), r.pc \notin {"loadall", "add", "run"}
  PROVE  SharedInv'
BY Keep DEF Become, Agreed

LEMMA KeepIdle ==
  ASSUME IInv, NEW p \in Procs, Become(p, Idle),
         super' = super, present' = present, SameArrays
  PROVE  SharedInv'
BY KeepOff, IdleKeeps

LEMMA SameMd ==
  ASSUME TypeOK,
         \/ md' = md
         \/ \E m : md' = [md EXCEPT ![m].active = TRUE]
         \/ \E m : md' = [md EXCEPT ![m].node = TRUE]
  PROVE  SameArrays
<1>0. md \in [Arrays -> MdState]
  BY DEF TypeOK, MdState
<1>1. CASE md' = md
  BY <1>1 DEF SameArrays
<1>2. CASE \E m : md' = [md EXCEPT ![m].active = TRUE]
  BY <1>0, <1>2 DEF SameArrays, MdState
<1>3. CASE \E m : md' = [md EXCEPT ![m].node = TRUE]
  BY <1>0, <1>3 DEF SameArrays, MdState
<1> QED
  BY <1>1, <1>2, <1>3

LEMMA SecondOfAdded ==
  ASSUME NEW S, NEW i, NEW d
  PROVE  {x[2] : x \in S \cup {<<i, d>>}} = {x[2] : x \in S} \cup {d}
<1>1. <<i, d>>[2] = d
  OBVIOUS
<1>2. \A x : x \in S \cup {<<i, d>>} <=> x \in S \/ x = <<i, d>>
  OBVIOUS
<1> QED
  BY <1>1, <1>2

(* The owner adds its next component.                                      *)
LEMMA AddStep ==
  ASSUME IInv, NEW p \in Procs, NEW r, r = [run[p] EXCEPT !.i = @ + 1],
         Become(p, r), run[p].pc = "add", ~run[p].dry, run[p].i < run[p].need,
         NEW d \in present, d = run[p].comps[run[p].i + 1],
         md' = [md EXCEPT ![run[p].md].members = @ \cup {<<run[p].i, d>>}],
         super' = super, present' = present
  PROVE  SharedInv'
<1>0. /\ md \in [Arrays -> MdState] /\ run \in [Procs -> RunState]
      /\ \A q \in Procs : Assembler(run[q]) /\ Agreed(run[q])
  BY DEF IInv, TypeInv, TypeOK, MdState, SharedInv
<1>1. PICK m \in Arrays : m = run[p].md /\ Owns(p, m)
  BY <1>0 DEF Assembler, Owns
<1>2. Stored(d).uuid = run[p].uuid
  <2>1. run[p].i + 1 \in 1 .. run[p].need
    BY <1>0 DEF RunState
  <2> QED
    BY <1>0, <2>1 DEF Agreed
<1>3. /\ Members(m)' = Members(m) \cup {d}
      /\ \A n \in Arrays \ {m} : Members(n)' = Members(n)
      /\ \A n \in Arrays : md'[n].info = md[n].info
  <2>1. md'[m].members = md[m].members \cup {<<run[p].i, d>>}
    BY <1>0, <1>1 DEF MdState
  <2>2. /\ \A n \in Arrays \ {m} : md'[n].members = md[n].members
        /\ \A n \in Arrays : md'[n].info = md[n].info
    BY <1>0, <1>1 DEF MdState
  <2>3. Members(m)' = Members(m) \cup {d}
    <3>1. {x[2] : x \in md[m].members \cup {<<run[p].i, d>>}}
            = {x[2] : x \in md[m].members} \cup {d}
      BY SecondOfAdded
    <3>2. {x[2] : x \in md'[m].members} = {x[2] : x \in md[m].members} \cup {d}
      BY <2>1, <3>1
    <3> QED
      BY <3>2 DEF Members
  <2> QED
    BY <2>2, <2>3 DEF Members
<1>4. /\ r.pc = run[p].pc /\ r.md = run[p].md /\ r.dry = run[p].dry
      /\ r.uuid = run[p].uuid /\ r.need = run[p].need /\ r.comps = run[p].comps
      /\ r.op = run[p].op /\ r.creating = run[p].creating
  BY <1>0 DEF RunState
<1>5. ASSUME NEW q \in Procs
      PROVE  run'[q] = IF q = p THEN r ELSE run[q]
  BY <1>0 DEF Become
<1>6. Assembler(r) /\ Agreed(r)
  BY <1>0, <1>4 DEF Assembler, Agreed
<1>7. ASSUME NEW q \in Procs
      PROVE  Assembler(run[q])' /\ Agreed(run[q])'
  <2>1. PICK x : x = run'[q]
    OBVIOUS
  <2>2. Assembler(x) /\ Agreed(x)
    BY <1>0, <1>5, <1>6, <2>1
  <2>3. Agreed(x)'
    BY <2>2, AgreedKept
  <2> QED
    BY <2>1, <2>2, <2>3 DEF Assembler
<1>8. ASSUME NEW q \in Procs, NEW n \in Arrays
      PROVE  (Owns(q, n)' <=> Owns(q, n)) /\ run'[q].uuid = run[q].uuid
  BY <1>4, <1>5 DEF Owns
<1>9. ASSUME NEW n \in Arrays
      PROVE  Owned(n)' /\ Shared(n)' /\ Members(n)' \subseteq present'
  <2>1. Owned(n) /\ Shared(n) /\ Members(n) \subseteq present
    BY DEF IInv, SharedInv
  <2>2. CASE n = m
    <3>1. md[m].info /\ md'[m].info
      BY <1>1, <1>3, <2>1, <2>2 DEF Owned
    <3>2. \A e \in Members(m)' : Stored(e).uuid = run[p].uuid
      BY <1>1, <1>2, <1>3, <2>1, <2>2 DEF Owned
    <3>3. Shared(m)' /\ Members(m)' \subseteq present'
      BY <1>3, <2>1, <2>2, <3>2, StoredKept DEF Shared
    <3>4. \A q, s \in Procs : Owns(q, m)' /\ Owns(s, m)' => q = s
      BY <1>8, <2>1, <2>2 DEF Owned
    <3>5. \A q \in Procs : Owns(q, m)' => q = p
      BY <1>1, <1>8, <2>1, <2>2 DEF Owned
    <3>6. \A q \in Procs :
            Owns(q, m)' => \A e \in Members(m)' : Stored(e)'.uuid = run'[q].uuid
      BY <1>8, <3>2, <3>5, StoredKept
    <3>7. Owned(m)'
      BY <3>1, <3>4, <3>6 DEF Owned
    <3> QED
      BY <2>2, <3>3, <3>7
  <2>3. CASE n # m
    <3>1. Members(n)' = Members(n) /\ md'[n].info = md[n].info
      BY <1>3, <2>3
    <3>2. md'[n].members = md[n].members
      BY <1>0, <1>1, <2>3
    <3>3. Shared(n)' /\ Members(n)' \subseteq present'
      BY <2>1, <3>1, StoredKept DEF Shared
    <3>4. Owned(n)'
      <4>1. \A q, s \in Procs : Owns(q, n)' /\ Owns(s, n)' => q = s
        BY <1>8, <2>1 DEF Owned
      <4>2. ~md'[n].info => md'[n].members = {} /\ \A q \in Procs : ~Owns(q, n)'
        BY <1>8, <2>1, <3>1, <3>2 DEF Owned
      <4>3. \A q \in Procs :
              Owns(q, n)' => \A e \in Members(n)' : Stored(e)'.uuid = run'[q].uuid
        BY <1>8, <2>1, <3>1, StoredKept DEF Owned
      <4> QED
        BY <4>1, <4>2, <4>3 DEF Owned
    <3> QED
      BY <3>3, <3>4
  <2> QED
    BY <2>2, <2>3
<1> QED
  BY <1>7, <1>9 DEF SharedInv

(* SET_ARRAY_INFO is accepted: the process becomes the owner.              *)
LEMMA OwnStep ==
  ASSUME IInv, NEW p \in Procs, NEW r, r = [run[p] EXCEPT !.pc = "loadall"],
         Become(p, r), run[p].pc = "setinfo", ~run[p].dry, ~md[run[p].md].info,
         md' = [md EXCEPT ![run[p].md].info = TRUE],
         super' = super, present' = present
  PROVE  SharedInv'
<1>0. /\ md \in [Arrays -> MdState] /\ run \in [Procs -> RunState]
      /\ \A q \in Procs : Assembler(run[q]) /\ Agreed(run[q])
  BY DEF IInv, TypeInv, TypeOK, MdState, SharedInv
<1>1. PICK m \in Arrays : m = run[p].md
  BY <1>0 DEF Assembler
<1>2. /\ md'[m].info
      /\ \A n \in Arrays : md'[n].members = md[n].members
      /\ \A n \in Arrays \ {m} : md'[n].info = md[n].info
  BY ZenonT(40), <1>0, <1>1 DEF MdState
<1>3. /\ r.pc = "loadall" /\ r.md = m /\ r.op = run[p].op
      /\ r.creating = run[p].creating
  BY <1>0, <1>1 DEF RunState
<1>4. ASSUME NEW q \in Procs
      PROVE  run'[q] = IF q = p THEN r ELSE run[q]
  BY <1>0 DEF Become
<1>5. Assembler(r) /\ Agreed(r)
  BY <1>0, <1>3 DEF Assembler, Agreed
<1>6. ASSUME NEW q \in Procs
      PROVE  Assembler(run[q])' /\ Agreed(run[q])'
  <2>1. PICK x : x = run'[q]
    OBVIOUS
  <2>2. Assembler(x) /\ Agreed(x)
    BY <1>0, <1>4, <1>5, <2>1
  <2>3. Agreed(x)'
    BY <2>2, AgreedKept
  <2> QED
    BY <2>1, <2>2, <2>3 DEF Assembler
<1>7. ASSUME NEW q \in Procs, NEW n \in Arrays, Owns(q, n)'
      PROVE  \/ q = p /\ n = m
             \/ q # p /\ Owns(q, n) /\ run'[q].uuid = run[q].uuid
  BY <1>3, <1>4, <1>7 DEF Owns
<1>8. md[m].members = {} /\ \A q \in Procs : ~Owns(q, m)
  BY <1>1 DEF IInv, SharedInv, Owned
<1>9. ASSUME NEW n \in Arrays
      PROVE  Owned(n)' /\ Shared(n)' /\ Members(n)' \subseteq present'
  <2>1. Owned(n) /\ Shared(n) /\ Members(n) \subseteq present
    BY DEF IInv, SharedInv
  <2>2. Members(n)' = Members(n)
    BY <1>2 DEF Members
  <2>3. Shared(n)' /\ Members(n)' \subseteq present'
    BY <2>1, <2>2, StoredKept DEF Shared
  <2>4. \A q, s \in Procs : Owns(q, n)' /\ Owns(s, n)' => q = s
    BY <1>7, <1>8, <2>1 DEF Owned
  <2>5. ~md'[n].info => md'[n].members = {} /\ \A q \in Procs : ~Owns(q, n)'
    BY <1>2, <1>7, <2>1 DEF Owned
  <2>6. ASSUME NEW q \in Procs, Owns(q, n)', NEW d \in Members(n)'
        PROVE  Stored(d)'.uuid = run'[q].uuid
    <3>1. CASE n = m
      BY <1>8, <2>2, <2>6, <3>1 DEF Members
    <3>2. CASE n # m
      BY <1>7, <2>1, <2>2, <2>6, <3>2, StoredKept DEF Owned
    <3> QED
      BY <3>1, <3>2
  <2>7. Owned(n)'
    BY <2>4, <2>5, <2>6 DEF Owned
  <2> QED
    BY <2>3, <2>7
<1> QED
  BY <1>6, <1>9 DEF SharedInv

LEMMA SharedStep ==
  ASSUME Assembling, IInv, [Next]_vars
  PROVE  SharedInv'
<1>0. ASSUME NEW p \in Procs
      PROVE  /\ run[p] \in RunState /\ Good(run[p])
             /\ Assembler(run[p]) /\ Agreed(run[p])
  BY DEF IInv, TypeInv, Good, SharedInv
<1>a. TypeOK
  BY DEF IInv, TypeInv
<1>b. ASSUME NEW p \in Procs
      PROVE  Failed(run[p]) = Idle /\ Done(run[p]) = Idle
  BY <1>0, EndsIdle
<1>1. CASE UNCHANGED vars
  <2>1. super' = super /\ present' = present /\ md' = md /\ run' = run
    BY <1>1 DEF vars
  <2>2. ASSUME NEW q \in Procs
        PROVE  Assembler(run[q])' /\ Agreed(run[q])'
    BY <1>0, <2>1, StoredKept DEF Assembler, Agreed
  <2>3. ASSUME NEW m \in Arrays
        PROVE  Owned(m)' /\ Shared(m)' /\ Members(m)' \subseteq present'
    <3>1. Owned(m) /\ Shared(m) /\ Members(m) \subseteq present
      BY DEF IInv, SharedInv
    <3> QED
      BY <2>1, <3>1, StoredKept DEF Owned, Owns, Shared, Members
  <2> QED
    BY <2>2, <2>3 DEF SharedInv
<1>2. ASSUME NEW p \in Procs, NEW op \in {"assemble", "auto"}, NEW dry, NEW todo,
             op = "assemble" => todo[1].md \in Arrays,
             Become(p, Enter(op, dry, todo)),
             super' = super, present' = present, md' = md
      PROVE  SharedInv'
  <2>1. Enter(op, dry, todo).pc = IF op = "auto" THEN "seed" ELSE "open"
    BY DEF Enter, Idle
  <2>2. Enter(op, dry, todo).op = op /\ ~Enter(op, dry, todo).creating
    BY DEF Enter, Idle
  <2>3. Enter(op, dry, todo).md = todo[1].md
    BY DEF Enter, Idle
  <2>4. Assembler(Enter(op, dry, todo))
    BY <1>2, <2>1, <2>2, <2>3 DEF Assembler
  <2>5. SameArrays
    BY <1>2 DEF SameArrays
  <2> QED
    BY <1>2, <2>1, <2>4, <2>5, KeepOff
<1>3. ASSUME NEW p \in Procs, Begin(p) PROVE SharedInv'
  <2>1. PICK req \in Requests : Become(p, Enter(req.op, req.dry, req.todo))
    BY <1>3 DEF Begin
  <2>2. req.op \in {"assemble", "auto"}
    BY DEF Assembling
  <2>3. req.op = "assemble" => req.todo[1].md \in Arrays
    <3>1. req.todo \in Seq(Entry) /\ req.todo # <<>>
      BY DEF Request
    <3>2. 1 \in DOMAIN req.todo
      BY <3>1, EmptySeq, LenProperties
    <3> QED
      BY <3>2 DEF Manual
  <2> QED
    BY <1>2, <1>3, <2>1, <2>2, <2>3 DEF Begin
<1>4. ASSUME NEW p \in Procs, Hotplug(p) PROVE SharedInv'
  <2>1. PICK d \in events :
          Become(p, Enter("auto", FALSE,
                          <<[md |-> None, comps |-> <<d>>, minor |-> 0]>>))
    BY <1>4 DEF Hotplug
  <2> QED
    BY <1>2, <1>4, <2>1 DEF Hotplug
<1>5. ASSUME NEW p \in Procs, Ensure(p) PROVE SharedInv'
  <2>1. PICK r : r = [run[p] EXCEPT !.pc = "open"]
    OBVIOUS
  <2>2. Become(p, r)
    BY <1>0, <1>5, <2>1 DEF Ensure, Goto, Assembler
  <2>3. /\ r.pc = "open" /\ r.op = run[p].op /\ r.md = run[p].md
        /\ r.creating = run[p].creating
    BY <1>0, <2>1 DEF RunState
  <2>4. Assembler(r)
    BY <1>0, <1>5, <2>3 DEF Assembler, Ensure
  <2>5. SameArrays
    BY <1>5, <1>a, SameMd DEF Ensure, NewNode
  <2> QED
    BY <1>5, <2>2, <2>3, <2>4, <2>5, KeepOff DEF Ensure
<1>6. ASSUME NEW p \in Procs, LoadSeed(p) PROVE SharedInv'
  <2>1. PICK r : r = [run[p] EXCEPT !.pc = "scan",
                        !.uuid = Load(run[p].seed).uuid,
                        !.need = Load(run[p].seed).disks,
                        !.comps = <<run[p].seed>>]
    OBVIOUS
  <2>2. r.pc = "scan" /\ r.op = run[p].op /\ r.creating = run[p].creating
    BY <1>0, <2>1 DEF RunState
  <2>3. Assembler(r)
    BY <1>0, <2>2 DEF Assembler
  <2>4. Become(p, r) \/ Become(p, Idle)
    BY <1>6, <1>b, <2>1 DEF LoadSeed
  <2> QED
    BY <1>6, <2>2, <2>3, <2>4, KeepOff, KeepIdle DEF LoadSeed, SameArrays
<1>7. ASSUME NEW p \in Procs, ScanDisk(p) PROVE SharedInv'
  <2>1. PICK comps : Become(p, [run[p] EXCEPT !.i = @ + 1, !.comps = comps])
    BY <1>7 DEF ScanDisk
  <2>2. PICK r : r = [run[p] EXCEPT !.i = @ + 1, !.comps = comps]
    OBVIOUS
  <2>3. r.pc = "scan" /\ r.op = run[p].op /\ r.creating = run[p].creating
    BY <1>0, <1>7, <2>2 DEF RunState, ScanDisk
  <2>4. Assembler(r)
    BY <1>0, <2>3 DEF Assembler
  <2> QED
    BY <1>7, <2>1, <2>2, <2>3, <2>4, KeepOff DEF ScanDisk, SameArrays
<1>8. ASSUME NEW p \in Procs, Scanned(p) PROVE SharedInv'
  <2>0. PICK comps :
          \/ Become(p, [run[p] EXCEPT !.pc = "ensure", !.i = 0, !.comps = comps,
                                      !.md = AutoName[run[p].uuid]])
          \/ Become(p, Idle)
    BY <1>8, <1>b DEF Scanned
  <2>1. PICK r : r = [run[p] EXCEPT !.pc = "ensure", !.i = 0, !.comps = comps,
                                    !.md = AutoName[run[p].uuid]]
    OBVIOUS
  <2>2. AutoName[run[p].uuid] \in Arrays
    BY <1>0, <1>8 DEF Scanned, Good
  <2>3. /\ r.pc = "ensure" /\ r.op = run[p].op /\ r.md \in Arrays
        /\ r.creating = run[p].creating
    BY <1>0, <2>1, <2>2 DEF RunState
  <2>4. Assembler(r)
    BY <1>0, <2>3 DEF Assembler
  <2>5. Become(p, r) \/ Become(p, Idle)
    BY <2>0, <2>1
  <2> QED
    BY <1>8, <2>3, <2>4, <2>5, KeepOff, KeepIdle DEF Scanned, SameArrays
<1>9. ASSUME NEW p \in Procs, OpenArray(p) PROVE SharedInv'
  <2>1. PICK r : r = [run[p] EXCEPT !.pc = "setinfo",
                                    !.uuid = Load(run[p].comps[1]).uuid]
    OBVIOUS
  <2>2. /\ r.pc = "setinfo" /\ r.op = run[p].op /\ r.md = run[p].md
        /\ r.creating = run[p].creating
    BY <1>0, <2>1 DEF RunState
  <2>3. Assembler(r)
    BY <1>0, <1>9, <2>2 DEF Assembler, OpenArray
  <2>4. Become(p, r) \/ Become(p, Idle)
    BY <1>9, <1>b, <2>1 DEF OpenArray
  <2> QED
    BY <1>9, <2>2, <2>3, <2>4, KeepOff, KeepIdle DEF OpenArray, SameArrays
<1>10. ASSUME NEW p \in Procs, SetInfo(p) PROVE SharedInv'
  <2>1. PICK r : r = [run[p] EXCEPT !.pc = "loadall"]
    OBVIOUS
  <2>2. /\ r.pc = "loadall" /\ r.op = run[p].op /\ r.md = run[p].md
        /\ r.creating = run[p].creating /\ r.dry = run[p].dry
    BY <1>0, <2>1 DEF RunState
  <2>3. Assembler(r) /\ Agreed(r)
    BY <1>0, <1>10, <2>2 DEF Assembler, Agreed, SetInfo
  <2>4. CASE run[p].dry
    <3>1. Become(p, r) /\ md' = md
      BY <1>10, <2>1, <2>4 DEF SetInfo, GotoIf
    <3> QED
      BY <1>10, <2>2, <2>3, <2>4, <3>1, Keep DEF SetInfo, SameArrays, Become
  <2>5. CASE ~run[p].dry /\ ~md[run[p].md].info
    BY <1>10, <2>1, <2>5, OwnStep DEF SetInfo, GotoIf
  <2>6. CASE ~run[p].dry /\ md[run[p].md].info
    <3>1. Become(p, Idle)
      BY <1>10, <1>b, <2>6 DEF SetInfo, GotoIf
    <3>2. SameArrays
      <4>1. md \in [Arrays -> MdState] /\ run[p].md \in Arrays
        BY <1>0, <1>10, <1>a DEF TypeOK, MdState, Assembler, SetInfo
      <4>2. md' = [md EXCEPT ![run[p].md].info = TRUE]
        BY <1>10, <2>6 DEF SetInfo
      <4> QED
        BY <2>6, <4>1, <4>2 DEF SameArrays, MdState
    <3> QED
      BY <1>10, <3>1, <3>2, KeepIdle DEF SetInfo
  <2> QED
    BY <2>4, <2>5, <2>6
<1>11. ASSUME NEW p \in Procs, LoadAll(p) PROVE SharedInv'
  <2>1. CASE Become(p, Idle)
    BY <1>11, <2>1, KeepIdle DEF LoadAll, SameArrays
  <2>2. CASE ~Become(p, Idle)
    <3>1. PICK n \in 0 .. Len(run[p].comps) :
            /\ \A k \in DOMAIN run[p].comps : Loads(run[p].comps[k])
            /\ Agree(run[p], n)
            /\ Become(p, [run[p] EXCEPT !.pc = "add", !.i = 0, !.need = n])
      BY <1>11, <1>b, <2>2 DEF LoadAll
    <3>2. PICK r : r = [run[p] EXCEPT !.pc = "add", !.i = 0, !.need = n]
      OBVIOUS
    <3>3. /\ r.pc = "add" /\ r.op = run[p].op /\ r.md = run[p].md
          /\ r.creating = run[p].creating /\ r.dry = run[p].dry
          /\ r.uuid = run[p].uuid /\ r.need = n /\ r.comps = run[p].comps
      BY <1>0, <3>2 DEF RunState
    <3>4. Assembler(r)
      BY <1>0, <1>11, <3>3 DEF Assembler, LoadAll
    <3>5. Agreed(r)
      <4>1. run[p].comps \in Seq(Disks)
        BY <1>0 DEF RunState
      <4>2. n <= Len(run[p].comps) /\ 1 .. n \subseteq DOMAIN run[p].comps
        BY <4>1, LenProperties
      <4>3. \A k \in 1 .. n : Stored(run[p].comps[k]).uuid = run[p].uuid
        BY <1>a, <3>1, <4>2, LoadType, LoadStored DEF Agree
      <4> QED
        BY <3>3, <4>2, <4>3 DEF Agreed
    <3> QED
      BY <1>11, <3>1, <3>2, <3>3, <3>4, <3>5, Keep
         DEF LoadAll, SameArrays, Become, Owns
  <2> QED
    BY <2>1, <2>2
<1>12. ASSUME NEW p \in Procs, AddDisk(p) PROVE SharedInv'
  <2> DEFINE d == run[p].comps[run[p].i + 1]
  <2>1. PICK ok \in BOOLEAN :
          /\ ok => d \in present
          /\ Become(p, IF ok THEN [run[p] EXCEPT !.i = @ + 1] ELSE Failed(run[p]))
          /\ md' = IF ok /\ ~run[p].dry
                     THEN [md EXCEPT ![run[p].md].members = @ \cup {<<run[p].i, d>>}]
                     ELSE md
    BY <1>12 DEF AddDisk, Member
  <2>2. CASE ~ok
    BY <1>12, <1>b, <2>1, <2>2, KeepIdle DEF AddDisk, SameArrays
  <2>3. CASE ok /\ ~run[p].dry
    BY <1>12, <2>1, <2>3, AddStep DEF AddDisk
  <2>4. CASE ok /\ run[p].dry
    <3>1. PICK r : r = [run[p] EXCEPT !.i = @ + 1]
      OBVIOUS
    <3>2. /\ r.pc = "add" /\ r.op = run[p].op /\ r.md = run[p].md
          /\ r.creating = run[p].creating /\ r.dry = run[p].dry
          /\ r.uuid = run[p].uuid /\ r.need = run[p].need
          /\ r.comps = run[p].comps
      BY <1>0, <1>12, <3>1 DEF RunState, AddDisk
    <3>3. Assembler(r) /\ Agreed(r)
      BY SMTT(30), <1>0, <1>12, <3>2 DEF Assembler, Agreed, AddDisk
    <3> QED
      BY <1>12, <2>1, <2>4, <3>1, <3>2, <3>3, Keep DEF AddDisk, SameArrays, Become
  <2> QED
    BY <2>2, <2>3, <2>4
<1>13. ASSUME NEW p \in Procs, Added(p) PROVE SharedInv'
  <2>1. CASE Become(p, Idle)
    BY <1>13, <2>1, KeepIdle DEF Added, SameArrays
  <2>2. CASE ~Become(p, Idle)
    <3>1. PICK r : r = [run[p] EXCEPT !.pc = "run"]
      OBVIOUS
    <3>2. /\ r.pc = "run" /\ r.op = run[p].op /\ r.md = run[p].md
          /\ r.creating = run[p].creating /\ r.dry = run[p].dry
          /\ r.uuid = run[p].uuid /\ r.need = run[p].need
          /\ r.comps = run[p].comps
      BY <1>0, <3>1 DEF RunState
    <3>3. Assembler(r) /\ Agreed(r)
      BY <1>0, <1>13, <3>2 DEF Assembler, Agreed, Added
    <3>4. Become(p, r)
      BY <1>13, <1>b, <2>2, <3>1 DEF Added, GotoIf
    <3> QED
      BY <1>13, <3>2, <3>3, <3>4, Keep DEF Added, SameArrays, Become, Owns
  <2> QED
    BY <2>1, <2>2
<1>14. ASSUME NEW p \in Procs, RunArray(p) PROVE SharedInv'
  <2>1. Become(p, Idle)
    BY <1>14, <1>b DEF RunArray
  <2>2. SameArrays
    BY <1>14, <1>a, SameMd DEF RunArray
  <2> QED
    BY <1>14, <2>1, <2>2, KeepIdle DEF RunArray
<1>15. ASSUME NEW p \in Procs,
              Validate(p) \/ WriteSuper(p) \/ WriteFails(p) \/ Written(p)
       PROVE  SharedInv'
  BY <1>0, <1>15 DEF Assembler, Validate, WriteSuper, WriteFails, Written
<1>16. ASSUME NEW p \in Procs, Kill(p) PROVE SharedInv'
  BY <1>16, KeepIdle DEF Kill, SameArrays
<1>17. ASSUME NEW d \in Disks, Plug(d) \/ Unplug(d) PROVE SharedInv'
  <2>1. super' = super /\ md' = md /\ run' = run
    BY <1>17 DEF Plug, Unplug
  <2>2. ASSUME NEW m \in Arrays
        PROVE  Members(m)' \subseteq present'
    BY <1>17, <2>1 DEF Plug, Unplug, IInv, SharedInv, Members, Claimed
  <2>3. ASSUME NEW q \in Procs
        PROVE  Assembler(run[q])' /\ Agreed(run[q])'
    BY <1>0, <2>1, StoredKept DEF Assembler, Agreed
  <2>4. ASSUME NEW m \in Arrays
        PROVE  Owned(m)' /\ Shared(m)'
    <3>1. Owned(m) /\ Shared(m)
      BY DEF IInv, SharedInv
    <3> QED
      BY <2>1, <3>1, StoredKept DEF Owned, Owns, Shared, Members
  <2> QED
    BY <2>2, <2>3, <2>4 DEF SharedInv
<1>18. CASE Reboot
  <2>1. ASSUME NEW m \in Arrays
        PROVE  md'[m].members = {} /\ Members(m)' = {}
    BY <1>18 DEF Reboot, Empty, Members
  <2>2. ASSUME NEW q \in Procs
        PROVE  run'[q] = Idle
    BY <1>18 DEF Reboot
  <2>3. ASSUME NEW q \in Procs
        PROVE  Assembler(run[q])' /\ Agreed(run[q])' /\ run'[q].pc = "idle"
    BY <2>2, IdleKeeps DEF Assembler, Agreed
  <2>4. ASSUME NEW m \in Arrays
        PROVE  Owned(m)' /\ Shared(m)' /\ Members(m)' \subseteq present'
    BY <2>1, <2>3 DEF Owned, Owns, Shared
  <2> QED
    BY <2>3, <2>4 DEF SharedInv
<1>19. Stoppable = {}
  BY DEF Assembling
<1>20. ASSUME NEW p \in Procs, EnsureFails(p) PROVE SharedInv'
  <2>1. SameArrays /\ Become(p, Idle)
    BY <1>20, <1>a, <1>b, SameMd DEF EnsureFails
  <2> QED
    BY <1>20, <2>1, KeepIdle DEF EnsureFails
<1> QED
  BY <1>1, <1>3, <1>4, <1>5, <1>6, <1>7, <1>8, <1>9, <1>10, <1>11, <1>12, <1>13,
     <1>14, <1>15, <1>16, <1>17, <1>18, <1>19, <1>20 DEF Next, Step

LEMMA SharedInit == Init => SharedInv
<1> SUFFICES ASSUME Init
             PROVE  SharedInv
  OBVIOUS
<1>1. ASSUME NEW p \in Procs
      PROVE  Assembler(run[p]) /\ Agreed(run[p]) /\ run[p].pc = "idle"
  BY IdleKeeps DEF Init
<1>2. ASSUME NEW m \in Arrays
      PROVE  md[m].members = {} /\ Members(m) = {}
  BY DEF Init, Empty, Members
<1> QED
  BY <1>1, <1>2 DEF SharedInv, Owned, Owns, Shared

(* MembersShareUuid, where disks are only assembled: the UUIDs are checked *)
(* before the first disk is added, no second process gets past             *)
(* SET_ARRAY_INFO, and no disk that is a member goes away.                 *)
THEOREM AssembliesShareUuid == Assembling => (Spec => []MembersShareUuid)
<1> SUFFICES ASSUME Assembling
             PROVE  Spec => []MembersShareUuid
  OBVIOUS
<1>1. Init => IInv
  BY TypeInit, SharedInit DEF IInv
<1>2. IInv /\ [Next]_vars => IInv'
  BY TypeStep, SharedStep DEF IInv
<1>3. IInv => MembersShareUuid
  <2> SUFFICES ASSUME IInv, NEW m \in Arrays, NEW d \in Members(m) \ Unseen,
                      NEW e \in Members(m) \ Unseen
               PROVE  Load(d).uuid = Load(e).uuid
    BY DEF MembersShareUuid
  <2>1. d \in present /\ e \in present /\ Stored(d).uuid = Stored(e).uuid
    BY DEF IInv, SharedInv, Shared
  <2> QED
    BY <2>1, LoadStored
<1> QED
  BY <1>1, <1>2, <1>3, PTL DEF Spec
-----------------------------------------------------------------------------
(* One process at a time, no overlap with udev's workers: whatever else    *)
(* happens, create writes to disks that were free when it looked and still *)
(* are, because only its own assemble could claim them.  That is, but for  *)
(* the disks whose holders the look may miss.                              *)
OneProcess == \A p, q \in Procs : p = q

Unclaimed(r) ==
  /\ r.pc \in {"seed", "scan"} => ~r.creating
  /\ r.pc = "write" \/ (r.pc = "ensure" /\ r.creating)
       => Listed(r.comps) \cap Claimed \subseteq Unseen

AloneInv == \A p \in Procs : Unclaimed(run[p])

LEMMA UnclaimedReplaced ==
  ASSUME OneProcess, TypeInv, NEW p \in Procs, NEW r, Become(p, r), Unclaimed(r)'
  PROVE  AloneInv'
<1>1. run' = [run EXCEPT ![p] = r] /\ \A q \in Procs : q = p
  BY DEF Become, OneProcess
<1>2. ASSUME NEW q \in Procs
      PROVE  run'[q] = r
  BY <1>1 DEF TypeInv, TypeOK
<1> QED
  BY <1>2 DEF AloneInv, Unclaimed

(* Where commands begin, end and go on after an error.                     *)
LEMMA OffDisks ==
  /\ Idle.pc = "idle"
  /\ \A op, dry, todo :
       LET e == Enter(op, dry, todo)
       IN  /\ e.pc \in {"validate", "seed", "open"}
           /\ e.pc = "seed" => ~e.creating
  /\ \A r \in RunState : Failed(r).pc \in {"idle", "validate"}
  /\ \A r : \/ Done(r).pc \in {"idle", "validate", "open"}
            \/ Done(r).pc = "seed" /\ ~Done(r).creating
<1>1. Idle.pc = "idle"
  BY DEF Idle
<1>2. ASSUME NEW op, NEW dry, NEW todo
      PROVE  /\ Enter(op, dry, todo).pc \in {"validate", "seed", "open"}
             /\ Enter(op, dry, todo).pc = "seed" => ~Enter(op, dry, todo).creating
  BY DEF Enter, Idle
<1>3. ASSUME NEW r \in RunState
      PROVE  Failed(r).pc \in {"idle", "validate"}
  BY <1>1 DEF Failed, RunState
<1>4. ASSUME NEW r
      PROVE  \/ Done(r).pc \in {"idle", "validate", "open"}
             \/ Done(r).pc = "seed" /\ ~Done(r).creating
  BY <1>1, <1>2 DEF Done
<1> QED
  BY <1>1, <1>2, <1>3, <1>4

LEMMA AloneStep == OneProcess /\ TypeInv /\ AloneInv /\ [Next]_vars => AloneInv'
<1> SUFFICES ASSUME OneProcess, TypeInv, AloneInv, [Next]_vars
             PROVE  AloneInv'
  OBVIOUS
<1>0. ASSUME NEW p \in Procs
      PROVE  run[p] \in RunState /\ Unclaimed(run[p])
  BY DEF TypeInv, Good, AloneInv
<1>1. ASSUME NEW p \in Procs, NEW r, Become(p, r),
             \/ r.pc \notin {"seed", "scan", "ensure", "write"}
             \/ r.pc \in {"seed", "scan", "ensure"} /\ ~r.creating
      PROVE  AloneInv'
  <2>1. Unclaimed(r)'
    BY <1>1 DEF Unclaimed
  <2> QED
    BY <1>1, <2>1, UnclaimedReplaced
<1>2. ASSUME NEW p \in Procs, NEW op, NEW dry, NEW todo,
             Become(p, Enter(op, dry, todo))
      PROVE  AloneInv'
  BY <1>1, <1>2, OffDisks
<1>3. ASSUME NEW p \in Procs,
             Become(p, Idle) \/ Become(p, Failed(run[p])) \/ Become(p, Done(run[p]))
      PROVE  AloneInv'
  BY <1>0, <1>1, <1>3, OffDisks
<1>4. ASSUME UNCHANGED run, Claimed' \subseteq Claimed
      PROVE  AloneInv'
  BY <1>4 DEF AloneInv, Unclaimed
<1>5. CASE UNCHANGED vars
  BY <1>4, <1>5 DEF vars, Claimed, Members
<1>6. ASSUME NEW p \in Procs, Begin(p) \/ Hotplug(p)
      PROVE  AloneInv'
  BY <1>2, <1>6 DEF Begin, Hotplug
<1>7. ASSUME NEW p \in Procs, Validate(p)
      PROVE  AloneInv'
  <2>0. PICK missed \in SUBSET Unseen : GotoIf(p, Suitable(run[p], missed), "ensure")
    BY <1>7 DEF Validate
  <2>1. CASE Suitable(run[p], missed)
    <3>1. PICK r : r = [run[p] EXCEPT !.pc = "ensure"]
      OBVIOUS
    <3>2. Become(p, r)
      BY <2>0, <2>1, <3>1 DEF GotoIf
    <3>3. r.comps = run[p].comps /\ r.pc = "ensure"
      BY <1>0, <3>1 DEF RunState
    <3>4. Listed(r.comps) \cap Claimed \subseteq Unseen /\ Claimed' = Claimed
      BY <1>7, <2>1, <3>3 DEF Suitable, Validate, Claimed, Members
    <3> QED
      BY <3>2, <3>3, <3>4, UnclaimedReplaced DEF Unclaimed
  <2>2. CASE ~Suitable(run[p], missed)
    BY <1>3, <2>0, <2>2 DEF GotoIf
  <2> QED
    BY <2>1, <2>2
<1>8. ASSUME NEW p \in Procs, Ensure(p)
      PROVE  AloneInv'
  <2>1. CASE run[p].creating /\ ~run[p].dry
    <3>1. PICK u : Become(p, [run[p] EXCEPT !.pc = "write", !.uuid = u])
      BY <1>8, <2>1 DEF Ensure
    <3>2. PICK r : r = [run[p] EXCEPT !.pc = "write", !.uuid = u]
      OBVIOUS
    <3>3. r.comps = run[p].comps /\ r.pc = "write"
      BY <1>0, <3>2 DEF RunState
    <3>4. Claimed' = Claimed
      <4>1. \A m \in Arrays : md'[m].members = md[m].members
        BY <1>8, SameMd DEF Ensure, NewNode, TypeInv, SameArrays
      <4> QED
        BY <4>1 DEF Claimed, Members
    <3>5. Listed(r.comps) \cap Claimed' \subseteq Unseen
      BY <1>0, <1>8, <2>1, <3>3, <3>4 DEF Unclaimed, Ensure
    <3> QED
      BY <3>1, <3>2, <3>3, <3>5, UnclaimedReplaced DEF Unclaimed
  <2>2. CASE run[p].creating /\ run[p].dry
    BY <1>3, <1>8, <2>2 DEF Ensure
  <2>3. CASE ~run[p].creating
    <3>1. [run[p] EXCEPT !.pc = "open"].pc = "open"
      BY <1>0 DEF RunState
    <3>2. Become(p, [run[p] EXCEPT !.pc = "open"])
      BY <1>8, <2>3 DEF Ensure, Goto
    <3> QED
      BY <1>1, <3>1, <3>2
  <2> QED
    BY <2>1, <2>2, <2>3
<1>9. ASSUME NEW p \in Procs, WriteSuper(p)
      PROVE  AloneInv'
  <2>1. PICK r : r = [run[p] EXCEPT !.i = @ + 1]
    OBVIOUS
  <2>2. r.comps = run[p].comps /\ r.pc = "write" /\ run[p].pc = "write"
    BY <1>0, <1>9, <2>1 DEF RunState, WriteSuper
  <2>3. Listed(r.comps) \cap Claimed' \subseteq Unseen
    <3>1. Claimed' = Claimed
      BY <1>9 DEF WriteSuper, Claimed, Members
    <3>2. Listed(run[p].comps) \cap Claimed \subseteq Unseen
      BY <1>0, <2>2 DEF Unclaimed
    <3> QED
      BY <2>2, <3>1, <3>2
  <2> QED
    BY <1>9, <2>1, <2>2, <2>3, UnclaimedReplaced DEF WriteSuper, Unclaimed
<1>10. ASSUME NEW p \in Procs, Written(p)
       PROVE  AloneInv'
  <2>1. [run[p] EXCEPT !.pc = "open", !.i = 0].pc = "open"
    BY <1>0 DEF RunState
  <2> QED
    BY <1>1, <1>10, <2>1 DEF Written
<1>11. ASSUME NEW p \in Procs, LoadSeed(p)
       PROVE  AloneInv'
  <2>1. PICK r : r = [run[p] EXCEPT !.pc = "scan",
                        !.uuid = Load(run[p].seed).uuid,
                        !.need = Load(run[p].seed).disks,
                        !.comps = <<run[p].seed>>]
    OBVIOUS
  <2>2. r.pc = "scan" /\ ~r.creating
    BY <1>0, <1>11, <2>1 DEF RunState, LoadSeed, Unclaimed
  <2> QED
    BY <1>1, <1>3, <1>11, <2>1, <2>2 DEF LoadSeed
<1>12. ASSUME NEW p \in Procs, ScanDisk(p)
       PROVE  AloneInv'
  <2>1. PICK comps : Become(p, [run[p] EXCEPT !.i = @ + 1, !.comps = comps])
    BY <1>12 DEF ScanDisk
  <2>2. PICK r : r = [run[p] EXCEPT !.i = @ + 1, !.comps = comps]
    OBVIOUS
  <2>3. r.pc = "scan" /\ ~r.creating
    BY <1>0, <1>12, <2>2 DEF RunState, ScanDisk, Unclaimed
  <2> QED
    BY <1>1, <2>1, <2>2, <2>3
<1>13. ASSUME NEW p \in Procs, Scanned(p)
       PROVE  AloneInv'
  <2>0. PICK comps :
          \/ Become(p, [run[p] EXCEPT !.pc = "ensure", !.i = 0, !.comps = comps,
                                      !.md = AutoName[run[p].uuid]])
          \/ Become(p, Failed(run[p]))
    BY <1>13 DEF Scanned
  <2>1. PICK r : r = [run[p] EXCEPT !.pc = "ensure", !.i = 0, !.comps = comps,
                                    !.md = AutoName[run[p].uuid]]
    OBVIOUS
  <2>2. r.pc = "ensure" /\ ~r.creating
    BY <1>0, <1>13, <2>1 DEF RunState, Scanned, Unclaimed
  <2> QED
    BY <1>1, <1>3, <2>0, <2>1, <2>2
<1>14. ASSUME NEW p \in Procs, OpenArray(p)
       PROVE  AloneInv'
  <2>1. [run[p] EXCEPT !.pc = "setinfo",
                       !.uuid = Load(run[p].comps[1]).uuid].pc = "setinfo"
    BY <1>0 DEF RunState
  <2> QED
    BY <1>1, <1>3, <1>14, <2>1 DEF OpenArray
<1>15. ASSUME NEW p \in Procs, SetInfo(p)
       PROVE  AloneInv'
  <2>1. [run[p] EXCEPT !.pc = "loadall"].pc = "loadall"
    BY <1>0 DEF RunState
  <2> QED
    BY <1>1, <1>3, <1>15, <2>1 DEF SetInfo, GotoIf
<1>16. ASSUME NEW p \in Procs, LoadAll(p)
       PROVE  AloneInv'
  <2>1. \A n : [run[p] EXCEPT !.pc = "add", !.i = 0, !.need = n].pc = "add"
    BY <1>0 DEF RunState
  <2> QED
    BY <1>1, <1>3, <1>16, <2>1 DEF LoadAll
<1>17. ASSUME NEW p \in Procs, AddDisk(p)
       PROVE  AloneInv'
  <2>1. [run[p] EXCEPT !.i = @ + 1].pc = "add"
    BY <1>0, <1>17 DEF RunState, AddDisk
  <2>2. \/ Become(p, [run[p] EXCEPT !.i = @ + 1])
        \/ Become(p, Failed(run[p]))
    BY <1>17 DEF AddDisk
  <2> QED
    BY <1>1, <1>3, <2>1, <2>2
<1>18. ASSUME NEW p \in Procs, Added(p)
       PROVE  AloneInv'
  <2>1. [run[p] EXCEPT !.pc = "run"].pc = "run"
    BY <1>0 DEF RunState
  <2> QED
    BY <1>1, <1>3, <1>18, <2>1 DEF Added, GotoIf
<1>19. ASSUME NEW p \in Procs,
              EnsureFails(p) \/ WriteFails(p) \/ RunArray(p) \/ Kill(p)
       PROVE  AloneInv'
  BY <1>3, <1>19 DEF EnsureFails, WriteFails, RunArray, Kill
<1>20. ASSUME NEW m \in Stoppable, Stop(m)
       PROVE  AloneInv'
  <2>1. \A n \in Arrays : md'[n].members \subseteq md[n].members
    BY <1>20 DEF Stop, Empty, TypeInv, TypeOK
  <2>2. Claimed' \subseteq Claimed
    BY <2>1 DEF Claimed, Members
  <2> QED
    BY <1>4, <1>20, <2>2 DEF Stop
<1>21. ASSUME NEW d \in Disks, Plug(d) \/ Unplug(d)
       PROVE  AloneInv'
  BY <1>4, <1>21 DEF Plug, Unplug, Claimed, Members
<1>22. CASE Reboot
  BY <1>22, OffDisks DEF Reboot, AloneInv, Unclaimed
<1> QED
  BY <1>5, <1>6, <1>7, <1>8, <1>9, <1>10, <1>11, <1>12, <1>13, <1>14, <1>15,
     <1>16, <1>17, <1>18, <1>19, <1>20, <1>21, <1>22 DEF Next, Step

LEMMA AloneInit == Init => AloneInv
<1> SUFFICES ASSUME Init, NEW p \in Procs
             PROVE  Unclaimed(run[p])
  BY DEF AloneInv
<1>1. run[p] = Idle
  BY DEF Init
<1> QED
  BY <1>1, OffDisks DEF Unclaimed

(* MemberSuperKept, where one process runs at a time: through stops, kills,*)
(* unplugging, reboots and the retries of apply, no create overwrites the  *)
(* superblock of a disk that an array holds and whose holders are found,   *)
(* whatever becomes of the others.                                         *)
THEOREM MembersAreKept == OneProcess => (Spec => MemberSuperKept)
<1> SUFFICES ASSUME OneProcess
             PROVE  Spec => MemberSuperKept
  OBVIOUS
<1>1. TypeInv /\ AloneInv /\ [Next]_vars
        => [\A d \in Claimed \ Unseen : super'[d] = super[d]]_vars
  <2> SUFFICES ASSUME TypeInv, AloneInv, Next, NEW d \in Claimed \ Unseen
               PROVE  super'[d] = super[d]
    OBVIOUS
  <2>1. CASE super' = super
    BY <2>1
  <2>2. ASSUME NEW p \in Procs, WriteSuper(p)
        PROVE  super'[d] = super[d]
    <3> DEFINE e == run[p].comps[run[p].i + 1]
    <3>1. run[p] \in RunState
      BY DEF TypeInv, Good
    <3>2. run[p].i + 1 \in DOMAIN run[p].comps
      BY <2>2, <3>1 DEF RunState, WriteSuper
    <3>3. e \in Listed(run[p].comps)
      BY <3>2 DEF Listed
    <3>4. e # d
      BY <2>2, <3>3 DEF AloneInv, Unclaimed, WriteSuper
    <3>5. PICK k, s : super' = [super EXCEPT ![e][k] = s]
      BY <2>2 DEF WriteSuper
    <3>6. d \in Disks
      <4>1. PICK m \in Arrays : d \in Members(m)
        BY DEF Claimed
      <4>2. md[m].members \subseteq Nat \X Disks
        BY DEF TypeInv, TypeOK
      <4> QED
        BY <4>1, <4>2 DEF Members
    <3> QED
      BY <3>4, <3>5, <3>6 DEF TypeInv, TypeOK
  <2> QED
    BY <2>1, <2>2 DEF Next, Step, Begin, Hotplug, Kill, Stop, Plug, Unplug, Reboot,
       Validate, Ensure, EnsureFails, WriteFails, Written, LoadSeed, ScanDisk, Scanned,
       OpenArray, SetInfo, LoadAll, AddDisk, Added, RunArray
<1> QED
  BY <1>1, AloneInit, AloneStep, TypeInit, TypeStep, PTL DEF Spec, MemberSuperKept

-----------------------------------------------------------------------------
(* The members of an array, where one process runs at a time.  Arrays may  *)
(* now be stopped under it and disks created over; what it adds still      *)
(* agrees with what is there, because an array without information is      *)
(* empty and nobody else adds.  Only a disk whose holders are missed can   *)
(* get another superblock while it is a member.                            *)
Seen(m) == Members(m) \ Unseen

SeenShared(m) == \A d, e \in Seen(m) : Stored(d).uuid = Stored(e).uuid

Mine(r, m) ==
  r.pc \in {"loadall", "add", "run"} /\ ~r.dry /\ r.md = m
    => \A d \in Seen(m) : Stored(d).uuid = r.uuid

SoleInv ==
  /\ \A p \in Procs : Agreed(run[p]) /\ \A m \in Arrays : Mine(run[p], m)
  /\ \A m \in Arrays :
       /\ SeenShared(m)
       /\ Members(m) \subseteq present
       /\ ~md[m].info => md[m].members = {}

LEMMA SoleKept ==
  ASSUME OneProcess, TypeInv, SoleInv, NEW p \in Procs, NEW r, Become(p, r),
         super' = super, present' = present, SameArrays,
         Agreed(r), \A m \in Arrays : Mine(r, m)
  PROVE  SoleInv'
<1>1. ASSUME NEW q \in Procs
      PROVE  run'[q] = r
  <2>1. run' = [run EXCEPT ![p] = r] /\ q = p
    BY DEF Become, OneProcess
  <2> QED
    BY <2>1 DEF TypeInv, TypeOK
<1>2. \A m \in Arrays : Members(m)' = Members(m)
  BY DEF SameArrays, Members
<1>3. Agreed(r)' /\ \A m \in Arrays : Mine(r, m)'
  <2>1. Agreed(r)'
    BY AgreedKept
  <2>2. ASSUME NEW m \in Arrays
        PROVE  Mine(r, m)'
    BY <1>2, StoredKept DEF Mine, Seen
  <2> QED
    BY <2>1, <2>2
<1>4. ASSUME NEW q \in Procs
      PROVE  Agreed(run[q])' /\ \A m \in Arrays : Mine(run[q], m)'
  BY <1>1, <1>3 DEF Agreed, Mine, Seen
<1>5. ASSUME NEW m \in Arrays
      PROVE  /\ SeenShared(m)' /\ Members(m)' \subseteq present'
             /\ ~md'[m].info => md'[m].members = {}
  <2>1. /\ SeenShared(m) /\ Members(m) \subseteq present
        /\ ~md[m].info => md[m].members = {}
    BY DEF SoleInv
  <2>2. SeenShared(m)'
    BY <1>2, <2>1, StoredKept DEF SeenShared, Seen
  <2> QED
    BY <1>2, <2>1, <2>2 DEF SameArrays
<1> QED
  BY <1>4, <1>5 DEF SoleInv

LEMMA SoleOff ==
  ASSUME OneProcess, TypeInv, SoleInv, NEW p \in Procs, NEW r, Become(p, r),
         super' = super, present' = present, SameArrays,
         r.pc \notin {"loadall", "add", "run"}
  PROVE  SoleInv'
BY SoleKept DEF Agreed, Mine, Seen

(* The process adds its next component.                                    *)
LEMMA SoleAdds ==
  ASSUME OneProcess, TypeInv, SoleInv,
         NEW p \in Procs, NEW r, r = [run[p] EXCEPT !.i = @ + 1],
         Become(p, r), run[p].pc = "add", ~run[p].dry, run[p].i < run[p].need,
         NEW d \in present, d = run[p].comps[run[p].i + 1],
         md[run[p].md].info,
         md' = [md EXCEPT ![run[p].md].members = @ \cup {<<run[p].i, d>>}],
         super' = super, present' = present
  PROVE  SoleInv'
<1> DEFINE m == run[p].md
<1>0. /\ md \in [Arrays -> MdState] /\ run[p] \in RunState
      /\ Agreed(run[p]) /\ \A n \in Arrays : Mine(run[p], n)
  BY DEF TypeInv, TypeOK, Good, MdState, SoleInv
<1>1. Stored(d).uuid = run[p].uuid
  <2>1. run[p].i + 1 \in 1 .. run[p].need
    BY <1>0 DEF RunState
  <2> QED
    BY <1>0, <2>1 DEF Agreed
<1>2. /\ r.pc = "add" /\ r.md = m /\ r.dry = run[p].dry
      /\ r.uuid = run[p].uuid /\ r.need = run[p].need
      /\ r.comps = run[p].comps
  BY <1>0 DEF RunState
<1>3. ASSUME NEW q \in Procs
      PROVE  run'[q] = r
  <2>1. run' = [run EXCEPT ![p] = r] /\ q = p
    BY DEF Become, OneProcess
  <2> QED
    BY <2>1 DEF TypeInv, TypeOK
<1>4. ASSUME NEW n \in Arrays
      PROVE  /\ md'[n].info = md[n].info
             /\ n # m => md'[n].members = md[n].members /\ Members(n)' = Members(n)
             /\ n = m => Members(n)' = Members(n) \cup {d}
  <2>1. /\ md'[n].info = md[n].info
        /\ n # m => md'[n].members = md[n].members
        /\ n = m => md'[n].members = md[n].members \cup {<<run[p].i, d>>}
    BY <1>0 DEF MdState
  <2>2. {x[2] : x \in md[n].members \cup {<<run[p].i, d>>}}
          = {x[2] : x \in md[n].members} \cup {d}
    BY SecondOfAdded
  <2>3. n = m => {x[2] : x \in md'[n].members} = {x[2] : x \in md[n].members} \cup {d}
    BY <2>1, <2>2
  <2> QED
    BY <2>1, <2>3 DEF Members
<1>5. ASSUME NEW n \in Arrays
      PROVE  /\ SeenShared(n)' /\ Members(n)' \subseteq present'
             /\ n = m => \A e \in Seen(n)' : Stored(e)'.uuid = r.uuid
             /\ ~md'[n].info => md'[n].members = {}
  <2>1. /\ SeenShared(n) /\ Members(n) \subseteq present
        /\ ~md[n].info => md[n].members = {}
    BY DEF SoleInv
  <2>2. CASE n = m
    <3>1. \A e \in Seen(n) : Stored(e).uuid = run[p].uuid
      BY <1>0, <2>2 DEF Mine, Seen
    <3>2. \A e \in Seen(n)' : Stored(e)'.uuid = r.uuid
      BY <1>1, <1>2, <1>4, <2>2, <3>1, StoredKept DEF Seen
    <3>3. SeenShared(n)'
      BY <3>2 DEF SeenShared, Seen
    <3>4. Members(n)' \subseteq present'
      BY <1>4, <2>1, <2>2
    <3>5. md'[n].info
      BY <1>4, <2>2
    <3> QED
      BY <3>2, <3>3, <3>4, <3>5
  <2>3. CASE n # m
    <3>1. SeenShared(n)'
      BY <1>4, <2>1, <2>3, StoredKept DEF SeenShared, Seen
    <3> QED
      BY <1>4, <2>1, <2>3, <3>1
  <2> QED
    BY <2>2, <2>3
<1>6. Agreed(r)'
  <2>1. Agreed(r)
    BY <1>0, <1>2 DEF Agreed
  <2> QED
    BY <2>1, AgreedKept
<1>7. ASSUME NEW q \in Procs
      PROVE  Agreed(run[q])' /\ \A n \in Arrays : Mine(run[q], n)'
  <2>1. run'[q] = r
    BY <1>3
  <2>2. Agreed(run[q])'
    BY <1>6, <2>1 DEF Agreed
  <2>3. ASSUME NEW n \in Arrays
        PROVE  Mine(run[q], n)'
    BY <1>2, <1>5, <2>1 DEF Mine, Seen
  <2> QED
    BY <2>2, <2>3
<1> QED
  BY <1>5, <1>7 DEF SoleInv

LEMMA AgreedStays ==
  ASSUME UNCHANGED <<super, run>>, NEW p \in Procs, Agreed(run[p])
  PROVE  Agreed(run[p])'
<1>1. PICK r : r = run[p]
  OBVIOUS
<1>2. Agreed(r)'
  BY <1>1, AgreedKept
<1>3. r = run'[p]
  BY <1>1
<1> QED
  BY <1>2, <1>3 DEF Agreed

LEMMA SoleStep ==
  ASSUME OneProcess, TypeInv, AloneInv, SoleInv, [Next]_vars
  PROVE  SoleInv'
<1> DEFINE Same == super' = super /\ present' = present /\ SameArrays
<1>0. ASSUME NEW p \in Procs
      PROVE  /\ run[p] \in RunState /\ Agreed(run[p])
             /\ \A m \in Arrays : Mine(run[p], m)
  BY DEF TypeInv, Good, SoleInv
<1>a. TypeOK
  BY DEF TypeInv
<1>b. md' = md => SameArrays
  BY DEF SameArrays
<1>c. ASSUME NEW p \in Procs, Same,
             \/ Become(p, Idle)
             \/ Become(p, Failed(run[p]))
             \/ Become(p, Done(run[p]))
             \/ \E op, dry, todo : Become(p, Enter(op, dry, todo))
      PROVE  SoleInv'
  <2>1. PICK r : Become(p, r) /\ r.pc \notin {"loadall", "add", "run"}
    BY <1>0, <1>c, OffDisks
  <2> QED
    BY <1>c, <2>1, SoleOff
<1>d. ASSUME NEW p \in Procs, NEW r, Become(p, r), Same,
             run[p].pc \in {"loadall", "add"},
             r.md = run[p].md, r.uuid = run[p].uuid, r.dry = run[p].dry,
             Agreed(r)
      PROVE  SoleInv'
  <2>1. \A m \in Arrays : Mine(r, m)
    BY <1>0, <1>d DEF Mine, Seen
  <2> QED
    BY <1>d, <2>1, SoleKept
<1>1. CASE UNCHANGED vars
  BY <1>1, StoredKept DEF vars, SoleInv, Agreed, Mine, SeenShared, Seen, Members
<1>2. ASSUME NEW p \in Procs, Begin(p) \/ Hotplug(p)
      PROVE  SoleInv'
  BY <1>b, <1>c, <1>2 DEF Begin, Hotplug
<1>3. ASSUME NEW p \in Procs, Validate(p)
      PROVE  SoleInv'
  <2>1. [run[p] EXCEPT !.pc = "ensure"].pc = "ensure"
    BY <1>0 DEF RunState
  <2>2. Same
    BY <1>3, <1>b DEF Validate
  <2>3. \/ Become(p, [run[p] EXCEPT !.pc = "ensure"])
        \/ Become(p, Failed(run[p]))
    BY <1>3 DEF Validate, GotoIf
  <2> QED
    BY <1>c, <2>1, <2>2, <2>3, SoleOff
<1>4. ASSUME NEW p \in Procs, Ensure(p)
      PROVE  SoleInv'
  <2>1. Same
    BY <1>4, <1>a, SameMd DEF Ensure, NewNode
  <2>2. CASE run[p].creating /\ ~run[p].dry
    <3>1. PICK u : Become(p, [run[p] EXCEPT !.pc = "write", !.uuid = u])
      BY <1>4, <2>2 DEF Ensure
    <3>2. [run[p] EXCEPT !.pc = "write", !.uuid = u].pc = "write"
      BY <1>0 DEF RunState
    <3> QED
      BY <2>1, <3>1, <3>2, SoleOff
  <2>3. CASE run[p].creating /\ run[p].dry
    BY <1>4, <1>c, <2>1, <2>3 DEF Ensure
  <2>4. CASE ~run[p].creating
    <3>1. Become(p, [run[p] EXCEPT !.pc = "open"])
      BY <1>4, <2>4 DEF Ensure, Goto
    <3>2. [run[p] EXCEPT !.pc = "open"].pc = "open"
      BY <1>0 DEF RunState
    <3> QED
      BY <2>1, <3>1, <3>2, SoleOff
  <2> QED
    BY <2>2, <2>3, <2>4
<1>5. ASSUME NEW p \in Procs, WriteSuper(p)
      PROVE  SoleInv'
  <2> DEFINE e == run[p].comps[run[p].i + 1]
             r == [run[p] EXCEPT !.i = @ + 1]
  <2>1. run[p].i + 1 \in DOMAIN run[p].comps
    BY <1>0, <1>5 DEF RunState, WriteSuper
  <2>2. e \in Listed(run[p].comps)
    BY <2>1 DEF Listed
  <2>3. e \notin Claimed \ Unseen
    BY <1>5, <2>2 DEF AloneInv, Unclaimed, WriteSuper
  <2>4. PICK k, s : super' = [super EXCEPT ![e][k] = s]
    BY <1>5 DEF WriteSuper
  <2>5. ASSUME NEW m \in Arrays
        PROVE  /\ Members(m)' = Members(m)
               /\ \A d \in Seen(m) : Stored(d)' = Stored(d)
    <3>1. Members(m)' = Members(m)
      BY <1>5 DEF WriteSuper, Members
    <3>2. Members(m) \subseteq Disks /\ e \notin Seen(m)
      <4>1. md[m].members \subseteq Nat \X Disks
        BY <1>a DEF TypeOK
      <4> QED
        BY <2>3, <4>1 DEF Members, Claimed, Seen
    <3>3. ASSUME NEW d \in Seen(m)
          PROVE  super'[d] = super[d]
      BY <1>a, <2>4, <3>2 DEF TypeOK, Seen
    <3> QED
      BY <3>1, <3>3 DEF Stored
  <2>6. r.pc = "write"
    BY <1>0, <1>5 DEF RunState, WriteSuper
  <2>7. ASSUME NEW q \in Procs
        PROVE  Agreed(run[q])' /\ \A m \in Arrays : Mine(run[q], m)'
    <3>1. run' = [run EXCEPT ![p] = r] /\ q = p
      BY <1>5 DEF Become, OneProcess, WriteSuper
    <3>2. run'[q].pc = "write"
      BY <1>a, <2>6, <3>1 DEF TypeOK
    <3> QED
      BY <3>2 DEF Agreed, Mine, Seen
  <2>8. ASSUME NEW m \in Arrays
        PROVE  /\ SeenShared(m)' /\ Members(m)' \subseteq present'
               /\ ~md'[m].info => md'[m].members = {}
    <3>1. /\ SeenShared(m) /\ Members(m) \subseteq present
          /\ ~md[m].info => md[m].members = {}
      BY DEF SoleInv
    <3>2. SeenShared(m)'
      BY <2>5, <3>1 DEF SeenShared, Seen
    <3> QED
      BY <1>5, <2>5, <3>1, <3>2 DEF WriteSuper
  <2> QED
    BY <2>7, <2>8 DEF SoleInv
<1>6. ASSUME NEW p \in Procs, Written(p)
      PROVE  SoleInv'
  <2>1. [run[p] EXCEPT !.pc = "open", !.i = 0].pc = "open"
    BY <1>0 DEF RunState
  <2> QED
    BY <1>6, <1>b, <2>1, SoleOff DEF Written
<1>7. ASSUME NEW p \in Procs, LoadSeed(p)
      PROVE  SoleInv'
  <2>1. [run[p] EXCEPT !.pc = "scan", !.uuid = Load(run[p].seed).uuid,
                       !.need = Load(run[p].seed).disks,
                       !.comps = <<run[p].seed>>].pc = "scan"
    BY <1>0 DEF RunState
  <2> QED
    BY <1>7, <1>b, <1>c, <2>1, SoleOff DEF LoadSeed
<1>8. ASSUME NEW p \in Procs, ScanDisk(p)
      PROVE  SoleInv'
  <2>1. PICK comps : Become(p, [run[p] EXCEPT !.i = @ + 1, !.comps = comps])
    BY <1>8 DEF ScanDisk
  <2>2. [run[p] EXCEPT !.i = @ + 1, !.comps = comps].pc = "scan"
    BY <1>0, <1>8 DEF RunState, ScanDisk
  <2> QED
    BY <1>8, <1>b, <2>1, <2>2, SoleOff DEF ScanDisk
<1>9. ASSUME NEW p \in Procs, Scanned(p)
      PROVE  SoleInv'
  <2>0. PICK comps :
          \/ Become(p, [run[p] EXCEPT !.pc = "ensure", !.i = 0, !.comps = comps,
                                      !.md = AutoName[run[p].uuid]])
          \/ Become(p, Failed(run[p]))
    BY <1>9 DEF Scanned
  <2>1. [run[p] EXCEPT !.pc = "ensure", !.i = 0, !.comps = comps,
                       !.md = AutoName[run[p].uuid]].pc = "ensure"
    BY <1>0 DEF RunState
  <2>2. Same
    BY <1>9, <1>b DEF Scanned
  <2> QED
    BY <1>c, <2>0, <2>1, <2>2, SoleOff
<1>10. ASSUME NEW p \in Procs, OpenArray(p)
       PROVE  SoleInv'
  <2>1. [run[p] EXCEPT !.pc = "setinfo",
                       !.uuid = Load(run[p].comps[1]).uuid].pc = "setinfo"
    BY <1>0 DEF RunState
  <2> QED
    BY <1>10, <1>b, <1>c, <2>1, SoleOff DEF OpenArray
<1>11. ASSUME NEW p \in Procs, SetInfo(p)
       PROVE  SoleInv'
  <2> DEFINE m == run[p].md
             r == [run[p] EXCEPT !.pc = "loadall"]
  <2>1. /\ r.pc = "loadall" /\ r.md = m /\ r.dry = run[p].dry
        /\ r.uuid = run[p].uuid
    BY <1>0 DEF RunState
  <2>2. Agreed(r)
    BY <2>1 DEF Agreed
  <2>3. CASE run[p].dry
    <3>1. Become(p, r) /\ Same
      BY <1>11, <1>b, <2>3 DEF SetInfo, GotoIf
    <3>2. \A n \in Arrays : Mine(r, n)
      BY <2>1, <2>3 DEF Mine, Seen
    <3> QED
      BY <2>2, <3>1, <3>2, SoleKept
  <2>4. CASE ~run[p].dry /\ md[m].info
    <3>1. SameArrays
      <4>1. md \in [Arrays -> MdState]
        BY <1>a DEF TypeOK, MdState
      <4>2. md' = [md EXCEPT ![m].info = TRUE]
        BY <1>11, <2>4 DEF SetInfo
      <4> QED
        BY <2>4, <4>1, <4>2 DEF SameArrays, MdState
    <3> QED
      BY <1>11, <1>c, <2>4, <3>1 DEF SetInfo, GotoIf
  <2>5. CASE ~run[p].dry /\ ~md[m].info
    <3>1. md \in [Arrays -> MdState]
      BY <1>a DEF TypeOK, MdState
    <3>2. md' = [md EXCEPT ![m].info = TRUE] /\ Become(p, r)
          /\ super' = super /\ present' = present
      BY <1>11, <2>5 DEF SetInfo, GotoIf
    <3>3. ASSUME NEW n \in Arrays
          PROVE  /\ md'[n].members = md[n].members
                 /\ n # m => md'[n].info = md[n].info
                 /\ Members(n)' = Members(n)
                 /\ n = m => Members(n) = {}
      <4>1. /\ md'[n].members = md[n].members
            /\ n # m => md'[n].info = md[n].info
        BY <3>1, <3>2 DEF MdState
      <4> QED
        BY <2>5, <4>1 DEF SoleInv, Members
    <3>4. ASSUME NEW q \in Procs
          PROVE  Agreed(run[q])' /\ \A n \in Arrays : Mine(run[q], n)'
      <4>1. run' = [run EXCEPT ![p] = r] /\ q = p
        BY <3>2 DEF Become, OneProcess
      <4>2. run'[q] = r
        BY <1>a, <4>1 DEF TypeOK
      <4> QED
        BY <2>1, <3>3, <4>2 DEF Agreed, Mine, Seen
    <3>5. ASSUME NEW n \in Arrays
          PROVE  /\ SeenShared(n)' /\ Members(n)' \subseteq present'
                 /\ ~md'[n].info => md'[n].members = {}
      <4>1. /\ SeenShared(n) /\ Members(n) \subseteq present
            /\ ~md[n].info => md[n].members = {}
        BY DEF SoleInv
      <4>0. Members(n)' = Members(n) /\ super' = super
        BY <3>2, <3>3
      <4>2. SeenShared(n)'
        BY <4>0, <4>1, StoredKept DEF SeenShared, Seen
      <4>3. n = m => md[n].members = {}
        BY <2>5, <4>1
      <4> QED
        BY <3>2, <3>3, <4>1, <4>2, <4>3
    <3> QED
      BY <3>4, <3>5 DEF SoleInv
  <2> QED
    BY <2>3, <2>4, <2>5
<1>12. ASSUME NEW p \in Procs, LoadAll(p)
       PROVE  SoleInv'
  <2>0. Same
    BY <1>12, <1>b DEF LoadAll
  <2>1. CASE Become(p, Failed(run[p]))
    BY <1>c, <2>0, <2>1
  <2>2. CASE ~Become(p, Failed(run[p]))
    <3>1. PICK n \in 0 .. Len(run[p].comps) :
            /\ \A k \in DOMAIN run[p].comps : Loads(run[p].comps[k])
            /\ Agree(run[p], n)
            /\ Become(p, [run[p] EXCEPT !.pc = "add", !.i = 0, !.need = n])
      BY <1>12, <2>2 DEF LoadAll
    <3>2. PICK r : r = [run[p] EXCEPT !.pc = "add", !.i = 0, !.need = n]
      OBVIOUS
    <3>3. /\ r.pc = "add" /\ r.md = run[p].md /\ r.dry = run[p].dry
          /\ r.uuid = run[p].uuid /\ r.need = n /\ r.comps = run[p].comps
      BY <1>0, <3>2 DEF RunState
    <3>4. Agreed(r)
      <4>1. run[p].comps \in Seq(Disks)
        BY <1>0 DEF RunState
      <4>2. n <= Len(run[p].comps) /\ 1 .. n \subseteq DOMAIN run[p].comps
        BY <4>1, LenProperties
      <4>3. \A k \in 1 .. n : Stored(run[p].comps[k]).uuid = run[p].uuid
        BY <1>a, <3>1, <4>2, LoadType, LoadStored DEF Agree
      <4> QED
        BY <3>3, <4>2, <4>3 DEF Agreed
    <3> QED
      <4>1. Become(p, r) /\ run[p].pc = "loadall"
        BY <1>12, <3>1, <3>2 DEF LoadAll
      <4> QED
        BY <1>d, <2>0, <3>3, <3>4, <4>1
  <2> QED
    BY <2>1, <2>2
<1>13. ASSUME NEW p \in Procs, AddDisk(p)
       PROVE  SoleInv'
  <2> DEFINE d == run[p].comps[run[p].i + 1]
  <2>1. PICK ok \in BOOLEAN :
          /\ ok => d \in present /\ (~run[p].dry => md[run[p].md].info)
          /\ Become(p, IF ok THEN [run[p] EXCEPT !.i = @ + 1] ELSE Failed(run[p]))
          /\ md' = IF ok /\ ~run[p].dry
                     THEN [md EXCEPT ![run[p].md].members = @ \cup {<<run[p].i, d>>}]
                     ELSE md
    BY <1>13 DEF AddDisk, Member
  <2>2. CASE ~ok
    BY <1>13, <1>b, <1>c, <2>1, <2>2 DEF AddDisk
  <2>3. CASE ok /\ ~run[p].dry
    BY <1>13, <2>1, <2>3, SoleAdds DEF AddDisk
  <2>4. CASE ok /\ run[p].dry
    <3>1. PICK r : r = [run[p] EXCEPT !.i = @ + 1]
      OBVIOUS
    <3>2. /\ r.pc = "add" /\ r.md = run[p].md /\ r.dry = run[p].dry
          /\ r.uuid = run[p].uuid /\ r.need = run[p].need
          /\ r.comps = run[p].comps /\ run[p].pc = "add"
      BY <1>0, <1>13, <3>1 DEF RunState, AddDisk
    <3>3. Agreed(r)
      BY <1>0, <3>2 DEF Agreed
    <3> QED
      <4>1. Become(p, r) /\ Same
        BY <1>13, <1>b, <2>1, <2>4, <3>1 DEF AddDisk
      <4> QED
        BY <1>d, <3>2, <3>3, <4>1
  <2> QED
    BY <2>2, <2>3, <2>4
<1>14. ASSUME NEW p \in Procs, Added(p)
       PROVE  SoleInv'
  <2>1. PICK r : r = [run[p] EXCEPT !.pc = "run"]
    OBVIOUS
  <2>2. /\ r.pc = "run" /\ r.md = run[p].md /\ r.dry = run[p].dry
        /\ r.uuid = run[p].uuid /\ r.need = run[p].need
        /\ r.comps = run[p].comps /\ run[p].pc = "add"
    BY <1>0, <1>14, <2>1 DEF RunState, Added
  <2>3. Agreed(r)
    BY <1>0, <2>2 DEF Agreed
  <2>4. Same
    BY <1>14, <1>b DEF Added
  <2>5. Become(p, r) \/ Become(p, Failed(run[p]))
    BY <1>14, <2>1 DEF Added, GotoIf
  <2> QED
    BY <1>c, <1>d, <2>2, <2>3, <2>4, <2>5
<1>15. ASSUME NEW p \in Procs,
              EnsureFails(p) \/ WriteFails(p) \/ RunArray(p) \/ Kill(p)
       PROVE  SoleInv'
  <2>1. SameArrays
    BY <1>15, <1>a, SameMd DEF EnsureFails, WriteFails, RunArray, Kill
  <2> QED
    BY <1>15, <1>c, <2>1 DEF EnsureFails, WriteFails, RunArray, Kill
<1>16. ASSUME NEW m \in Stoppable, Stop(m)
       PROVE  SoleInv'
  <2>1. ASSUME NEW n \in Arrays
        PROVE  \/ md'[n] = md[n] /\ Members(n)' = Members(n)
               \/ md'[n].members = {} /\ Members(n)' = {}
    <3>1. md'[n] = md[n] \/ md'[n].members = {}
      BY <1>16, <1>a DEF Stop, Empty, TypeOK
    <3> QED
      BY <3>1 DEF Members
  <2>2. super' = super /\ present' = present /\ run' = run
    BY <1>16 DEF Stop
  <2>3. ASSUME NEW q \in Procs
        PROVE  Agreed(run[q])' /\ \A n \in Arrays : Mine(run[q], n)'
    <3>1. Agreed(run[q])'
      BY <1>0, <2>2, AgreedStays
    <3>2. ASSUME NEW n \in Arrays
          PROVE  Mine(run[q], n)'
      BY <1>0, <2>1, <2>2, StoredKept DEF Mine, Seen
    <3> QED
      BY <3>1, <3>2
  <2>4. ASSUME NEW n \in Arrays
        PROVE  /\ SeenShared(n)' /\ Members(n)' \subseteq present'
               /\ ~md'[n].info => md'[n].members = {}
    BY <2>1, <2>2, StoredKept DEF SoleInv, SeenShared, Seen
  <2> QED
    BY <2>3, <2>4 DEF SoleInv
<1>17. ASSUME NEW d \in Disks, Plug(d) \/ Unplug(d)
       PROVE  SoleInv'
  <2>1. super' = super /\ md' = md /\ run' = run
    BY <1>17 DEF Plug, Unplug
  <2>2. ASSUME NEW m \in Arrays
        PROVE  Members(m)' \subseteq present'
    BY <1>17, <2>1 DEF Plug, Unplug, SoleInv, Members, Claimed
  <2>3. ASSUME NEW q \in Procs
        PROVE  Agreed(run[q])' /\ \A m \in Arrays : Mine(run[q], m)'
    <3>1. Agreed(run[q])'
      BY <1>0, <2>1, AgreedStays
    <3>2. \A n \in Arrays : Members(n)' = Members(n)
      BY <2>1 DEF Members
    <3>3. \A n \in Arrays : Mine(run[q], n)'
      BY <1>0, <2>1, <3>2, StoredKept DEF Mine, Seen
    <3> QED
      BY <3>1, <3>3
  <2>4. ASSUME NEW m \in Arrays
        PROVE  SeenShared(m)' /\ (~md'[m].info => md'[m].members = {})
    BY <2>1, StoredKept DEF SoleInv, SeenShared, Seen, Members
  <2> QED
    BY <2>2, <2>3, <2>4 DEF SoleInv
<1>18. CASE Reboot
  <2>1. ASSUME NEW m \in Arrays
        PROVE  md'[m].members = {} /\ Members(m)' = {}
    BY <1>18 DEF Reboot, Empty, Members
  <2>2. ASSUME NEW q \in Procs
        PROVE  run'[q].pc = "idle"
    BY <1>18, OffDisks DEF Reboot
  <2> QED
    BY <2>1, <2>2 DEF SoleInv, Agreed, Mine, SeenShared, Seen
<1> QED
  BY <1>1, <1>2, <1>3, <1>4, <1>5, <1>6, <1>7, <1>8, <1>9, <1>10, <1>11, <1>12,
     <1>13, <1>14, <1>15, <1>16, <1>17, <1>18 DEF Next, Step

(* MembersShareUuid, where one process runs at a time: also with stops     *)
(* under it, and creates over disks of earlier sets, an array never mixes, *)
(* but for the disks whose holders a create misses.                        *)
THEOREM OneProcessSharesUuid == OneProcess => (Spec => []MembersShareUuid)
<1> SUFFICES ASSUME OneProcess
             PROVE  Spec => []MembersShareUuid
  OBVIOUS
<1>1. Init => SoleInv
  <2> SUFFICES ASSUME Init
               PROVE  SoleInv
    OBVIOUS
  <2>1. \A p \in Procs : run[p].pc = "idle"
    BY OffDisks DEF Init
  <2>2. \A m \in Arrays : md[m].members = {} /\ Members(m) = {}
    BY DEF Init, Empty, Members
  <2> QED
    BY <2>1, <2>2 DEF SoleInv, Agreed, Mine, SeenShared, Seen
<1>2. SoleInv => MembersShareUuid
  <2> SUFFICES ASSUME SoleInv, NEW m \in Arrays, NEW d \in Members(m) \ Unseen,
                      NEW e \in Members(m) \ Unseen
               PROVE  Load(d).uuid = Load(e).uuid
    BY DEF MembersShareUuid
  <2>1. d \in present /\ e \in present /\ Stored(d).uuid = Stored(e).uuid
    BY DEF SoleInv, SeenShared, Seen
  <2> QED
    BY <2>1, LoadStored
<1> QED
  BY <1>1, <1>2, AloneInit, AloneStep, SoleStep, TypeInit, TypeStep, PTL DEF Spec
=============================================================================
