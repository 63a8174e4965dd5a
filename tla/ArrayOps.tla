------------------------------ MODULE ArrayOps ------------------------------
(***************************************************************************)
(* src/ops/create.rs, assemble.rs, apply.rs, the stop command of manage.rs *)
(* and the udev rule that starts `rmdadm assemble --auto`: how superblocks *)
(* get onto disks and disks into arrays.                                   *)
(*                                                                         *)
(* Every command is a process of its own, and udev starts one per event.   *)
(* They share the disks and the kernel's arrays, hold no lock, and open    *)
(* the MD node without O_EXCL, so they interleave between any two system   *)
(* calls.  An error is returned where it occurs: nothing is rolled back.   *)
(*                                                                         *)
(* Abstractions: a superblock is the three fields that decide what is      *)
(* assembled; level, chunk size, layout and sizes are left out, and so are *)
(* the checks of a device alone (block device, mounted, file system, size) *)
(* which refuse a command before it has done anything.  The kernel and     *)
(* udev are external: they do what the code relies on (see Kernel).        *)
(***************************************************************************)
EXTENDS Naturals, Sequences

CONSTANTS
  Procs,      \* processes: command invocations and udev's workers
  Disks,      \* component devices
  Arrays,     \* MD devices
  UUIDs,      \* set UUIDs, those that creates may draw included
  None,       \* no UUID, no array, no disk
  Requests,   \* what administrators ask for, see Request
  Stoppable,  \* the arrays somebody may stop
  PathOrder,  \* the disks in the order of their paths
  ScanOrder,  \* those with a candidate's name, in the order /dev lists them
  Unseen,     \* the disks whose holders is_in_md_use may not find
  AutoName,   \* AutoName[u]: the array array_name_from_superblock names
  Super0,     \* the superblocks on the disks at first
  Present0,   \* the disks plugged in at first
  Nodes0,     \* the MD nodes that exist after boot
  World       \* which of udev, kill, unplug, reboot and late nodes happen

Minors == 0 .. 2
Supers == [uuid : UUIDs, number : Nat, disks : Nat]
Blank == [uuid |-> None, number |-> 0, disks |-> 0]

(* One element of the list a command works through.  minor is the 1.x      *)
(* version create writes; an automatic assembly lists only its seed.       *)
Entry == [md : Arrays \cup {None}, comps : Seq(Disks), minor : Minors]
Manual == {"create", "assemble", "apply"}
Request ==
  [op : Manual \cup {"auto"}, dry : BOOLEAN, todo : Seq(Entry) \ {<<>>}]

ASSUME ArrayAssumption ==
  /\ None \notin UUIDs
  /\ Requests \subseteq Request
  /\ \A r \in Requests :
       /\ r.op = "auto" => r.todo[1].comps # <<>>
       /\ r.op \in Manual => \A k \in DOMAIN r.todo : r.todo[k].md \in Arrays
       /\ r.op # "apply" => Len(r.todo) = 1
  /\ Stoppable \subseteq Arrays
  /\ PathOrder \in Seq(Disks)
  /\ AutoName \in [UUIDs -> Arrays]
  /\ Super0 \in [Disks -> [Minors -> Supers \cup {Blank}]]
  /\ Present0 \subseteq Disks
  /\ Nodes0 \subseteq Arrays
  /\ World \subseteq {"udev", "kill", "unplug", "reboot", "late"}

(* Every disk has a path.                                                  *)
ASSUME PathAssumption ==
  /\ \A d \in Disks : \E k \in DOMAIN PathOrder : PathOrder[k] = d
  /\ ScanOrder \in Seq(Disks)
  /\ Unseen \subseteq Disks

VARIABLES
  super,    \* super[d][k]: the superblock at the 1.k location of disk d
  present,  \* the disks that can be opened
  md,       \* md[m]: the kernel's array m, and whether its node exists
  events,   \* disks udev has an event for and no worker yet
  fresh,    \* UUIDs nobody has drawn
  run       \* run[p]: where process p is

vars == <<super, present, md, events, fresh, run>>

-----------------------------------------------------------------------------
(* Data. *)

Labels == {"idle", "validate", "ensure", "write", "seed", "scan", "open",
           "setinfo", "loadall", "add", "run"}

Idle ==
  [pc |-> "idle", op |-> "assemble", dry |-> FALSE, creating |-> FALSE,
   md |-> None, comps |-> <<>>, minor |-> 0, seed |-> None, uuid |-> None,
   need |-> 0, i |-> 0, todo |-> <<>>]

Listed(s) == {s[k] : k \in DOMAIN s}
Empty(node) ==
  [node |-> node, info |-> FALSE, active |-> FALSE, members |-> {}]

(* A member of an array is a pair of slot and disk.                        *)
Slots(m) == {x[1] : x \in md[m].members}
Members(m) == {x[2] : x \in md[m].members}
Claimed == UNION {Members(m) : m \in Arrays}

(* SuperblockV1::load: the locations of 1.2, 1.1 and 1.0 in this order.    *)
Load(d) ==
  LET there == {k \in Minors : super[d][k] # Blank}
  IN  IF d \in present /\ there # {}
        THEN super[d][CHOOSE k \in there : \A l \in there : l <= k]
        ELSE Blank

Loads(d) == Load(d) # Blank

(* The processes that hold array m's node open.                            *)
Openers(m) ==
  {q \in Procs : run[q].md = m
                   /\ run[q].pc \in {"setinfo", "loadall", "add", "run"}}

(* A disk that appears, or is closed after a write, is an event.           *)
Queue(ds) == IF "udev" \in World THEN events \cup ds ELSE events

-----------------------------------------------------------------------------
(* How a process goes on.  An assemble that fails inside apply is followed *)
(* by a create of the same entry; every other error ends the command.      *)

Enter(op, dry, todo) ==
  [Idle EXCEPT
     !.pc = CASE op = "create" -> "validate"
              [] op = "auto" -> "seed"
              [] OTHER -> "open",
     !.op = op, !.dry = dry, !.creating = (op = "create"),
     !.md = todo[1].md, !.minor = todo[1].minor, !.todo = Tail(todo),
     !.comps = IF op = "auto" THEN <<>> ELSE todo[1].comps,
     !.seed = IF op = "auto" THEN todo[1].comps[1] ELSE None]

Done(r) == IF r.todo = <<>> THEN Idle ELSE Enter(r.op, r.dry, r.todo)

Failed(r) ==
  IF r.op = "apply" /\ ~r.creating
    THEN [r EXCEPT !.pc = "validate", !.creating = TRUE, !.uuid = None,
                   !.i = 0, !.need = 0]
    ELSE Idle

Become(p, r) == run' = [run EXCEPT ![p] = r]
Goto(p, label) == Become(p, [run[p] EXCEPT !.pc = label])
GotoIf(p, ok, label) ==
  Become(p, IF ok THEN [run[p] EXCEPT !.pc = label] ELSE Failed(run[p]))

-----------------------------------------------------------------------------
Init ==
  /\ super = Super0
  /\ present = Present0
  /\ md = [m \in Arrays |-> Empty(m \in Nodes0)]
  /\ events = IF "udev" \in World THEN Present0 ELSE {}
  /\ fresh = UUIDs \ {Super0[d][k].uuid : d \in Disks, k \in Minors}
  /\ run = [p \in Procs |-> Idle]

(* An administrator's command.                                             *)
Begin(p) ==
  /\ run[p].pc = "idle"
  /\ \E r \in Requests : Become(p, Enter(r.op, r.dry, r.todo))
  /\ UNCHANGED <<super, present, md, events, fresh>>

(* udev runs `rmdadm assemble --auto` for a disk.                          *)
Hotplug(p) ==
  /\ run[p].pc = "idle"
  /\ \E d \in events :
       /\ events' = events \ {d}
       /\ Become(p, Enter("auto", FALSE,
                          <<[md |-> None, comps |-> <<d>>, minor |-> 0]>>))
  /\ UNCHANGED <<super, present, md, fresh>>

-----------------------------------------------------------------------------
(* create::run. *)

(* check_device_suitable for every component.  The holders are looked up   *)
(* by the last part of the path as it was given: of a link such as those   *)
(* in /dev/disk/by-id there are none, and a directory that is missing or   *)
(* cannot be read counts as empty.  missed are the disks this happens to.  *)
SuitableIfPresent(r, missed) == Listed(r.comps) \subseteq present   \* mutant
Suitable(r, missed) ==
  Listed(r.comps) \subseteq present \ (Claimed \ missed)

Validate(p) ==
  /\ run[p].pc = "validate"
  /\ \E missed \in SUBSET Unseen :
       GotoIf(p, Suitable(run[p], missed), "ensure")
  /\ UNCHANGED <<super, present, md, events, fresh>>

(* ensure_md_device of create.rs and of assemble.rs.                       *)
NewNodeAlways(r) == md' = [md EXCEPT ![r.md].node = TRUE]   \* mutant
NewNode(r) == md' = IF r.dry THEN md ELSE [md EXCEPT ![r.md].node = TRUE]

(* A dry create has then only its messages left to print; another one      *)
(* draws its UUID.                                                         *)
Ensure(p) ==
  /\ run[p].pc = "ensure"
  /\ NewNode(run[p])
  /\ IF run[p].creating /\ ~run[p].dry
       THEN \E u \in fresh :
              /\ fresh' = fresh \ {u}
              /\ Become(p, [run[p] EXCEPT !.pc = "write", !.uuid = u])
       ELSE /\ fresh' = fresh
            /\ IF run[p].creating
                 THEN Become(p, Done(run[p]))
                 ELSE Goto(p, "open")
  /\ UNCHANGED <<super, present, events>>

(* The kernel refuses the name, or the node is not there after 2 s, if it  *)
(* ever appears.                                                           *)
EnsureFails(p) ==
  /\ "late" \in World
  /\ run[p].pc = "ensure"
  /\ ~run[p].dry
  /\ ~md[run[p].md].node
  /\ md' \in {md, [md EXCEPT ![run[p].md].node = TRUE]}
  /\ Become(p, Failed(run[p]))
  /\ UNCHANGED <<super, present, events, fresh>>

(* The superblock of the next component, then the rest, then assemble.     *)
WriteSuper(p) ==
  LET r == run[p]
      d == r.comps[r.i + 1]
  IN  /\ r.pc = "write"
      /\ r.i < Len(r.comps)
      /\ d \in present
      /\ super' = [super EXCEPT ![d][r.minor] =
                     [uuid |-> r.uuid, number |-> r.i, disks |-> Len(r.comps)]]
      /\ events' = Queue({d})
      /\ Become(p, [r EXCEPT !.i = @ + 1])
      /\ UNCHANGED <<present, md, fresh>>

WriteFails(p) ==
  LET r == run[p]
  IN  /\ r.pc = "write"
      /\ r.i < Len(r.comps)
      /\ r.comps[r.i + 1] \notin present
      /\ Become(p, Failed(r))
      /\ UNCHANGED <<super, present, md, events, fresh>>

Written(p) ==
  /\ run[p].pc = "write"
  /\ run[p].i >= Len(run[p].comps)
  /\ Become(p, [run[p] EXCEPT !.pc = "open", !.i = 0])
  /\ UNCHANGED <<super, present, md, events, fresh>>

-----------------------------------------------------------------------------
(* assemble::auto: the seed, then every candidate under /dev in turn. *)

LoadSeed(p) ==
  LET r == run[p]
  IN  /\ r.pc = "seed"
      /\ Become(p, IF Loads(r.seed)
                     THEN [r EXCEPT !.pc = "scan", !.uuid = Load(r.seed).uuid,
                                    !.need = Load(r.seed).disks,
                                    !.comps = <<r.seed>>]
                     ELSE Failed(r))
      /\ UNCHANGED <<super, present, md, events, fresh>>

FoundAny(r, d) == d # r.seed /\ Loads(d)   \* mutant
Found(r, d) == d # r.seed /\ Load(d).uuid = r.uuid

ScanDisk(p) ==
  LET r == run[p]
      d == ScanOrder[r.i + 1]
  IN  /\ r.pc = "scan"
      /\ r.i < Len(ScanOrder)
      /\ Become(p, [r EXCEPT
                      !.i = @ + 1,
                      !.comps = IF Found(r, d) THEN Append(@, d) ELSE @])
      /\ UNCHANGED <<super, present, md, events, fresh>>

(* components.sort() and dedup().                                          *)
Before(d, e) ==
  \E j, k \in DOMAIN PathOrder : j < k /\ PathOrder[j] = d /\ PathOrder[k] = e
Unsorted(comps) == {comps}   \* mutant
Sorted(comps) ==
  LET disks == Listed(comps)
  IN  {s \in UNION {[1 .. n -> disks] : n \in 0 .. Len(comps)} :
         /\ Listed(s) = disks
         /\ \A j, k \in DOMAIN s : j < k => Before(s[j], s[k])}

EnoughButOne(comps, need) == Len(comps) + 1 >= need   \* mutant
Enough(comps, need) == Len(comps) >= need

Scanned(p) ==
  LET r == run[p]
  IN  /\ r.pc = "scan"
      /\ r.i >= Len(ScanOrder)
      /\ \E comps \in Sorted(r.comps) :
           Become(p, IF Enough(comps, r.need)
                       THEN [r EXCEPT !.pc = "ensure", !.i = 0,
                                      !.comps = comps,
                                      !.md = AutoName[r.uuid]]
                       ELSE Failed(r))
      /\ UNCHANGED <<super, present, md, events, fresh>>

-----------------------------------------------------------------------------
(* assemble::run.  Kernel: SET_ARRAY_INFO is refused by an array that is   *)
(* configured; ADD_NEW_DISK by an array that is not, or that runs, for a   *)
(* slot that is taken and for a disk some array holds; RUN_ARRAY by an     *)
(* array that runs or has no disk; STOP_ARRAY by a running array that      *)
(* somebody else has open.                                                 *)

OpenArray(p) ==
  LET r == run[p]
  IN  /\ r.pc = "open"
      /\ Become(p, IF md[r.md].node /\ r.comps # <<>> /\ Loads(r.comps[1])
                     THEN [r EXCEPT !.pc = "setinfo",
                                    !.uuid = Load(r.comps[1]).uuid]
                     ELSE Failed(r))
      /\ UNCHANGED <<super, present, md, events, fresh>>

SetInfo(p) ==
  LET m == run[p].md
  IN  /\ run[p].pc = "setinfo"
      /\ GotoIf(p, run[p].dry \/ ~md[m].info, "loadall")
      /\ md' = IF run[p].dry THEN md ELSE [md EXCEPT ![m].info = TRUE]
      /\ UNCHANGED <<super, present, events, fresh>>

(* Every component must load; need is now the number of leading components *)
(* whose UUID is the first one's.  The loop below stops at the next one.   *)
AgreeAlways(r, n) == n = Len(r.comps)   \* mutant
Agree(r, n) ==
  /\ \A k \in 1 .. n : Load(r.comps[k]).uuid = r.uuid
  /\ n < Len(r.comps) => Load(r.comps[n + 1]).uuid # r.uuid

LoadAll(p) ==
  LET r == run[p]
      all == \A k \in DOMAIN r.comps : Loads(r.comps[k])
  IN  /\ r.pc = "loadall"
      /\ IF all
           THEN \E n \in 0 .. Len(r.comps) :
                  /\ Agree(r, n)
                  /\ Become(p, [r EXCEPT !.pc = "add", !.i = 0, !.need = n])
           ELSE Become(p, Failed(r))
      /\ UNCHANGED <<super, present, md, events, fresh>>

(* disk_info: the place in the list becomes the slot, whatever number the  *)
(* superblock gives the disk.                                              *)
MemberSwapped(r, d) == <<d, r.i>>   \* mutant
Member(r, d) == <<r.i, d>>

AddDisk(p) ==
  LET r == run[p]
      d == r.comps[r.i + 1]
      taken == d \in Claimed \/ r.i \in Slots(r.md)
      ok == /\ d \in present
            /\ \/ r.dry
               \/ md[r.md].info /\ ~md[r.md].active /\ ~taken
  IN  /\ r.pc = "add"
      /\ r.i < r.need
      /\ Become(p, IF ok THEN [r EXCEPT !.i = @ + 1] ELSE Failed(r))
      /\ md' = IF ok /\ ~r.dry
                 THEN [md EXCEPT ![r.md].members = @ \cup {Member(r, d)}]
                 ELSE md
      /\ UNCHANGED <<super, present, events, fresh>>

(* The end of the list, or a UUID that is not the first one's.             *)
Added(p) ==
  /\ run[p].pc = "add"
  /\ run[p].i >= run[p].need
  /\ GotoIf(p, run[p].need = Len(run[p].comps), "run")
  /\ UNCHANGED <<super, present, md, events, fresh>>

RunArray(p) ==
  LET r == run[p]
      ok == r.dry \/ (~md[r.md].active /\ md[r.md].members # {})
  IN  /\ r.pc = "run"
      /\ Become(p, IF ok THEN Done(r) ELSE Failed(r))
      /\ md' = IF ok /\ ~r.dry THEN [md EXCEPT ![r.md].active = TRUE] ELSE md
      /\ UNCHANGED <<super, present, events, fresh>>

-----------------------------------------------------------------------------
(* manage::stop.  Its data-loss check never refuses: array_state is never  *)
(* one of the words it looks for.  The node may go with the array.         *)
Stop(m) ==
  /\ md[m].node
  /\ md[m].active => Openers(m) = {}
  /\ \E node \in BOOLEAN :
       /\ ~node => Openers(m) = {}
       /\ md' = [md EXCEPT ![m] = Empty(node)]
  /\ UNCHANGED <<super, present, events, fresh, run>>

(* A process is killed, or one of its other calls fails.                   *)
Kill(p) ==
  /\ "kill" \in World
  /\ run[p].pc # "idle"
  /\ Become(p, Idle)
  /\ UNCHANGED <<super, present, md, events, fresh>>

Plug(d) ==
  /\ d \notin present
  /\ present' = present \cup {d}
  /\ events' = Queue({d})
  /\ UNCHANGED <<super, md, fresh, run>>

(* A disk that no array holds is pulled out; what becomes of a member is   *)
(* the kernel's business.                                                  *)
Unplug(d) ==
  /\ "unplug" \in World
  /\ d \in present \ Claimed
  /\ present' = present \ {d}
  /\ events' = events \ {d}
  /\ UNCHANGED <<super, md, fresh, run>>

(* The kernel forgets its arrays; udev sees every disk again.              *)
Reboot ==
  /\ "reboot" \in World
  /\ md' = [m \in Arrays |-> Empty(m \in Nodes0)]
  /\ run' = [p \in Procs |-> Idle]
  /\ events' = Queue(present)
  /\ UNCHANGED <<super, present, fresh>>

-----------------------------------------------------------------------------
(* What a process does by itself.                                          *)
Step(p) ==
  \/ Validate(p)
  \/ Ensure(p)
  \/ EnsureFails(p)
  \/ WriteSuper(p)
  \/ WriteFails(p)
  \/ Written(p)
  \/ LoadSeed(p)
  \/ ScanDisk(p)
  \/ Scanned(p)
  \/ OpenArray(p)
  \/ SetInfo(p)
  \/ LoadAll(p)
  \/ AddDisk(p)
  \/ Added(p)
  \/ RunArray(p)

Next ==
  \/ \E p \in Procs : Begin(p) \/ Hotplug(p) \/ Step(p) \/ Kill(p)
  \/ \E m \in Stoppable : Stop(m)
  \/ \E d \in Disks : Plug(d) \/ Unplug(d)
  \/ Reboot

Spec == Init /\ [][Next]_vars

(* A process that can go on does, and udev starts a worker for every event *)
(* while it has one.  Nobody has to give a command or plug in a disk.      *)
FairSpec ==
  /\ Spec
  /\ \A p \in Procs : WF_vars(Step(p))
  /\ WF_vars(\E p \in Procs : Hotplug(p))

-----------------------------------------------------------------------------
(* Properties. *)

RunState ==
  [pc : Labels, op : Manual \cup {"auto"}, dry : BOOLEAN,
   creating : BOOLEAN, md : Arrays \cup {None}, comps : Seq(Disks),
   minor : Minors, seed : Disks \cup {None}, uuid : UUIDs \cup {None},
   need : Nat, i : Nat, todo : Seq(Entry)]

(* The values the variables take.                                          *)
TypeOK ==
  /\ super \in [Disks -> [Minors -> Supers \cup {Blank}]]
  /\ present \subseteq Disks
  /\ md \in [Arrays -> [node : BOOLEAN, info : BOOLEAN, active : BOOLEAN,
                        members : SUBSET (Nat \X Disks)]]
  /\ events \subseteq Disks
  /\ fresh \subseteq UUIDs
  /\ run \in [Procs -> RunState]

(* Members of one array carry the same set UUID, whatever the order in     *)
(* which commands and udev workers set it up, fail and die: the check of   *)
(* the UUIDs is made before the first ADD_NEW_DISK and the kernel accepts  *)
(* one configuration per array.  Between several processes, a stop of the  *)
(* array meanwhile, or a create over its disks, breaks this; so does one   *)
(* create over a member whose holders the check does not find.             *)
MembersShareUuid ==
  \A m \in Arrays :
    \A d, e \in Members(m) \ Unseen : Load(d).uuid = Load(e).uuid

(* An array that runs has a disk in every slot of its set: one process     *)
(* configures, fills and starts it, and it had the whole list.  The scan   *)
(* finds the whole set or gives up; a list given by hand has to be whole,  *)
(* since run starts what it was given, be it one disk of two.              *)
Whole(m) ==
  \A d \in Members(m) : Slots(m) = 0 .. (Load(d).disks - 1)
ActiveIsWhole == \A m \in Arrays : md[m].active => Whole(m)

(* --dry-run: no step of a dry command changes a disk or an array, whatever *)
(* the other commands have left for it to find.                            *)
DryRunInert ==
  [][\A p \in Procs :
       run[p].dry /\ Step(p) => UNCHANGED <<super, md, events, fresh>>]_vars

(* No command overwrites the superblock of a disk that an array holds and  *)
(* whose holders are found: the check of the holders precedes the first    *)
(* write.  It holds as long as one command runs at a time, and not for a   *)
(* disk that is named by a link, see Suitable.                             *)
MemberSuperKept ==
  [][\A d \in Claimed \ Unseen : super'[d] = super[d]]_vars

(* An automatic assembly gives a disk the slot its superblock names.  The  *)
(* number is never read: it holds as long as the paths still sort as the   *)
(* components were listed when the set was created.                        *)
AutoFollowsNumbers ==
  [][\A p \in Procs :
       run[p].op = "auto" /\ AddDisk(p) /\ md' # md
         => Load(run[p].comps[run[p].i + 1]).number = run[p].i]_vars

(* The disks of set u are all there, one for each number.                  *)
Complete(u) ==
  LET found == {d \in Disks : Load(d).uuid = u}
  IN  /\ found # {}
      /\ \A d \in found :
           {Load(e).number : e \in found} = 0 .. (Load(d).disks - 1)

Started(u) ==
  \E m \in Arrays :
    /\ md[m].active
    /\ \A d \in Members(m) : Load(d).uuid = u

(* The udev rule assembles arrays when their components are discovered: a  *)
(* set whose disks have come and stay is started in the end, whatever the  *)
(* order of the events and however their workers overlap, where no command *)
(* interferes, nobody is killed and every MD node appears in time.         *)
HotplugAssembles ==
  \A u \in UUIDs : <>[]Complete(u) => <>Started(u)

-----------------------------------------------------------------------------
(* What the documentation says and the code does not do. *)

(* apply.rs: "try to assemble; if it fails (no superblocks), attempt to    *)
(* create".  A create inside apply overwrites no superblock.               *)
ApplyCreatesOnlyBlank ==
  [][\A p \in Procs :
       run[p].op = "apply" /\ WriteSuper(p)
         => Load(run[p].comps[run[p].i + 1]).uuid \in {None, run[p].uuid}]_vars
=============================================================================
