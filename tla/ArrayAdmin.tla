----------------------------- MODULE ArrayAdmin -----------------------------
(***************************************************************************)
(* src/ops/manage.rs, spare.rs, bitmap.rs, reshape.rs and the scrub of     *)
(* api/handlers.rs: the commands that change a running MD array, through   *)
(* ioctls and through src/sysfs.rs.                                        *)
(*                                                                         *)
(* Every command reads something first, decides, and then makes a series   *)
(* of calls to the kernel, each of which may be refused.  It stops at the  *)
(* first error and undoes nothing; no lock keeps two commands apart, and   *)
(* the kernel goes on by itself in between: disks fail, spares take over,  *)
(* the word in array_state changes.                                        *)
(*                                                                         *)
(* Each invocation is a process that runs one command.  Abstractions: one  *)
(* array; the calls a command still has to make are a sequence, `todo`;    *)
(* of the attributes that only start something in the kernel (sync_action, *)
(* can_clear) no value is kept.                                            *)
(***************************************************************************)
EXTENDS Integers, Sequences, FiniteSets

CONSTANTS
  Procs,      \* invocations, from the command line or from a REST handler
  Disks,
  Requests,   \* what the invocations may be asked for
  Words,      \* what array_state says of a running array
  MaxDisks,   \* bound: the device count the kernel accepts
  None        \* an option that is not given

ArrayState ==
  {"clear", "inactive", "suspended", "readonly", "read-auto", "clean",
   "active", "write-pending", "active-idle"}
Attrs == {"level", "chunk_size", "layout"}
Roles == {"out", "spare", "sync", "faulty"}
Ops == {"stop", "manage", "scrub", "add_spare", "remove_spare",
        "activate_spare", "add_bitmap", "remove_bitmap", "clear_bitmap",
        "reshape"}
BitmapOps == {"add_bitmap", "remove_bitmap", "clear_bitmap"}

(* One request: the arguments that an operation does not have are empty.   *)
Request ==
  [op : Ops, dry : BOOLEAN, force : BOOLEAN,
   fail : Seq(Disks), remove : Seq(Disks), add : Seq(Disks),
   disk : Disks \cup {None}, slot : Nat \cup {None},
   loc : STRING, chunk : Nat \cup {None},
   target : [Attrs -> Nat \cup {None}], delta : Int \cup {None}]

(* A command of main.rs; a handler never asks for a dry run nor for force,  *)
(* and only a handler starts a scrub.                                      *)
ByCommand == {r \in Request : r.op # "scrub"}
ByRest ==
  {r \in Request : r.op \in {"stop", "manage", "scrub"} /\ ~r.dry /\ ~r.force}

ASSUME AdminAssumption ==
  /\ Requests \subseteq ByCommand \cup ByRest
  /\ Words \subseteq ArrayState \ {"clear"}
  /\ MaxDisks \in Nat
  /\ None \notin Nat
  /\ None \notin Int
  /\ None \notin Disks
  /\ None \notin Request

VARIABLES
  array,   \* the kernel's array
  run      \* run[p]: the command of invocation p and how far it is

vars == <<array, run>>

-----------------------------------------------------------------------------
(* Calls to the kernel. *)

Call(verb, arg) == [verb |-> verb, arg |-> arg]

(* What an ioctl of ioctl.rs makes of a disk, and of which disks.          *)
HotFrom == [fail |-> {"sync", "spare"}, remove |-> {"spare", "faulty"},
            add |-> {"out"}]
HotTo == [fail |-> "faulty", remove |-> "out", add |-> "spare"]

(* write_sysfs_value joins "md" and the name it is given, so the names of  *)
(* ops/spare.rs, which begin with md/, are of no file.                     *)
Triggers == {"sync_action", "bitmap/can_clear"}
Files == Attrs \cup Triggers \cup
         {"raid_disks", "bitmap/chunksize", "bitmap/location"}
Doubled == {"md/new_dev", "md/dev/state", "md/dev/slot"}
Verbs == {"stop"} \cup DOMAIN HotTo \cup Files \cup Doubled

Each(verb, disks) == [i \in DOMAIN disks |-> Call(verb, disks[i])]

-----------------------------------------------------------------------------
(* Places of an invocation. *)

Ends == {"ok", "err", "cancelled"}
Places == {"fresh", "open", "prompt", "calls"} \cup Ends
Fresh == [pc |-> "fresh", req |-> None, todo |-> <<>>, num |-> 0, met |-> {}]

Active(p) == run[p].pc \in {"open", "prompt", "calls"}
Opens(p, op) == run[p].pc = "open" /\ run[p].req.op = op
Running == array.state # "clear"

End(p, how) ==
  /\ run' = [run EXCEPT ![p].pc = how, ![p].todo = <<>>]
  /\ UNCHANGED array

(* mutant: a command that has nothing to call waits for its calls. *)
GoOn(p, calls) ==
  run' = [run EXCEPT ![p].pc = "calls", ![p].todo = calls, ![p].num = 0]

(* The rest of the command: it has succeeded when no call is left.         *)
Go(p, calls) ==
  run' = [run EXCEPT ![p].pc = IF calls = <<>> THEN "ok" ELSE "calls",
                     ![p].todo = calls, ![p].num = 0]

Unless(p, refused, calls) ==
  IF refused THEN End(p, "err") ELSE Go(p, calls) /\ UNCHANGED array

Init ==
  /\ array \in [state : Words, role : [Disks -> {"out", "spare", "sync"}],
                disks : 1 .. MaxDisks, attr : {[a \in Attrs |-> 0]},
                bitmap : {[loc |-> "none", chunk |-> 64]}]
  /\ Cardinality({d \in Disks : array.role[d] = "sync"}) = array.disks
  /\ run = [p \in Procs |-> Fresh]

(* main() and the handlers.  `met` remembers who was active at the same    *)
(* time; it is only observed.                                              *)
Begin(p, r) ==
  /\ run[p].pc = "fresh"
  /\ run' = [q \in Procs |->
               IF q = p
                 THEN [Fresh EXCEPT !.pc = "open", !.req = r,
                                    !.met = {o \in Procs : Active(o)}]
                 ELSE IF Active(q) THEN [run[q] EXCEPT !.met = @ \cup {p}]
                                   ELSE run[q]]
  /\ UNCHANGED array

-----------------------------------------------------------------------------
(* What each command reads and decides before its first call. *)

(* check_data_loss_risk: the words it waits for are not in ArrayState.     *)
AtRisk(word) == word \in {"degraded", "failed"}

StopOpen(p) ==
  LET r == run[p].req
  IN  /\ Opens(p, "stop")
      /\ Unless(p, ~r.force /\ AtRisk(array.state),
                IF r.dry THEN <<>> ELSE <<Call("stop", None)>>)

(* The state is read once, for all the disks that follow.                  *)
ManageCalls(r) ==
  Each("fail", r.fail) \o Each("remove", r.remove) \o Each("add", r.add)

(* mutant: the disks to add are added in a dry run too. *)
ManageOpenDry(p) ==
  LET r == run[p].req
  IN  /\ Opens(p, "manage")
      /\ Unless(p, ~r.force /\ r.fail \o r.remove # <<>> /\ AtRisk(array.state),
                IF r.dry THEN Each("add", r.add) ELSE ManageCalls(r))

ManageOpen(p) ==
  LET r == run[p].req
  IN  /\ Opens(p, "manage")
      /\ Unless(p, ~r.force /\ r.fail \o r.remove # <<>> /\ AtRisk(array.state),
                IF r.dry THEN <<>> ELSE ManageCalls(r))

ScrubOpen(p) ==
  /\ Opens(p, "scrub")
  /\ Unless(p, FALSE, <<Call("sync_action", "check")>>)

AddSpareOpen(p) ==
  LET r == run[p].req
  IN  /\ Opens(p, "add_spare")
      /\ Unless(p, FALSE, IF r.dry THEN <<>> ELSE <<Call("md/new_dev", r.disk)>>)

(* list_spares.                                                            *)
IsSpare(d) == array.role[d] = "spare"

RemoveSpareOpen(p) ==
  LET r == run[p].req
  IN  /\ Opens(p, "remove_spare")
      /\ Unless(p, ~IsSpare(r.disk),
                IF r.dry THEN <<>> ELSE <<Call("md/dev/state", "remove")>>)

(* A dry run is not asked for one here, nor in clear_bitmap.               *)
ActivateSpareOpen(p) ==
  LET r == run[p].req
  IN  /\ Opens(p, "activate_spare")
      /\ Unless(p, ~IsSpare(r.disk),
                IF r.slot # None THEN <<Call("md/dev/slot", r.slot)>>
                                 ELSE <<Call("sync_action", "recover")>>)

HasBitmap == Running /\ array.bitmap.loc # "none"

BitmapChunks == {4, 8, 16, 32, 64, 128, 256, 512, 1024, 2048}
ValidBitmap(r) ==
  /\ r.chunk \in BitmapChunks \cup {None}
  /\ r.loc # "unnamed"   \* an external bitmap needs its file

(* mutant: the bitmap is turned on before its chunk size is set. *)
AddBitmapCallsLate(r) ==
  <<Call("bitmap/location", r.loc)>> \o
  (IF r.chunk = None THEN <<>> ELSE <<Call("bitmap/chunksize", r.chunk)>>)

(* The chunk size is set first, the location last.  No command gives       *)
(* write_behind, which would come after both.                              *)
AddBitmapCalls(r) ==
  (IF r.chunk = None THEN <<>> ELSE <<Call("bitmap/chunksize", r.chunk)>>)
    \o <<Call("bitmap/location", r.loc)>>

(* mutant: the chunk size is looked at only in a dry run. *)
AddBitmapOpenTrusting(p) ==
  LET r == run[p].req
  IN  /\ Opens(p, "add_bitmap")
      /\ Unless(p, ~HasBitmap /\ r.dry /\ ~ValidBitmap(r),
                IF HasBitmap \/ r.dry THEN <<>> ELSE AddBitmapCalls(r))

AddBitmapOpen(p) ==
  LET r == run[p].req
  IN  /\ Opens(p, "add_bitmap")
      /\ Unless(p, ~HasBitmap /\ ~ValidBitmap(r),
                IF HasBitmap \/ r.dry THEN <<>> ELSE AddBitmapCalls(r))

RemoveBitmapOpen(p) ==
  LET r == run[p].req
  IN  /\ Opens(p, "remove_bitmap")
      /\ Unless(p, FALSE, IF ~HasBitmap \/ r.dry
                            THEN <<>> ELSE <<Call("bitmap/location", "none")>>)

ClearBitmapOpen(p) ==
  /\ Opens(p, "clear_bitmap")
  /\ Unless(p, ~HasBitmap, <<Call("bitmap/can_clear", 1)>>)

Levels == {0, 1, 4, 5, 6, 10}
ReshapeChunks ==
  BitmapChunks \cup {4096, 8192, 16384, 32768}
ValidReshape(r) ==
  /\ r.delta # None \/ \E a \in Attrs : r.target[a] # None
  /\ r.target["level"] \in Levels \cup {None}
  /\ r.target["chunk_size"] \in ReshapeChunks \cup {None}

(* Each part is one write, and one that starts the kernel on it.           *)
Part(r, a) ==
  IF r.target[a] = None
    THEN <<>>
    ELSE <<Call(a, r.target[a]), Call("sync_action", "reshape")>>

Resizing(r) ==
  IF r.delta \in {None, 0}
    THEN <<>>
    ELSE <<Call("raid_disks", r.delta), Call("sync_action", "reshape")>>

(* mutant: one change at a time, the others are forgotten. *)
ReshapeCallsFirst(r) ==
  IF r.target["level"] # None THEN Part(r, "level")
  ELSE IF r.target["chunk_size"] # None THEN Part(r, "chunk_size")
  ELSE Part(r, "layout") \o Resizing(r)

ReshapeCalls(r) ==
  Part(r, "level") \o Part(r, "chunk_size") \o Part(r, "layout") \o Resizing(r)

ReshapeOpen(p) ==
  LET r == run[p].req
      refused == array.state \notin {"active", "clean"} \/ ~ValidReshape(r)
  IN  /\ Opens(p, "reshape")
      /\ IF refused \/ r.dry \/ r.force
           THEN Unless(p, refused, IF r.dry THEN <<>> ELSE ReshapeCalls(r))
           ELSE End(p, "prompt")

(* The user types yes, or something else: that is a success as well.  Or   *)
(* what is typed cannot be read, or the process is killed.                 *)
Answer(p) ==
  /\ run[p].pc = "prompt"
  /\ \/ Unless(p, FALSE, ReshapeCalls(run[p].req))
     \/ \E how \in {"cancelled", "err"} : End(p, how)

Open(p) ==
  \/ StopOpen(p)
  \/ ManageOpen(p)
  \/ ScrubOpen(p)
  \/ AddSpareOpen(p)
  \/ RemoveSpareOpen(p)
  \/ ActivateSpareOpen(p)
  \/ AddBitmapOpen(p)
  \/ RemoveBitmapOpen(p)
  \/ ClearBitmapOpen(p)
  \/ ReshapeOpen(p)

-----------------------------------------------------------------------------
(* The calls.  A stopped array accepts none. *)

Verb(p) == Head(run[p].todo).verb
Arg(p) == Head(run[p].todo).arg
Calls(p, verbs) == run[p].pc = "calls" /\ Running /\ Verb(p) \in verbs
Advance(p) == Go(p, Tail(run[p].todo))

(* mutant: a disk that the kernel refuses is passed over. *)
HotDiskSkips(p) ==
  /\ Calls(p, DOMAIN HotTo)
  /\ IF array.role[Arg(p)] \in HotFrom[Verb(p)]
       THEN array' = [array EXCEPT !.role[Arg(p)] = HotTo[Verb(p)]]
       ELSE UNCHANGED array
  /\ Advance(p)

HotDisk(p) ==
  /\ Calls(p, DOMAIN HotTo)
  /\ array.role[Arg(p)] \in HotFrom[Verb(p)]
  /\ array' = [array EXCEPT !.role[Arg(p)] = HotTo[Verb(p)]]
  /\ Advance(p)

StopArray(p) ==
  /\ Calls(p, {"stop"})
  /\ array' = [array EXCEPT !.state = "clear"]
  /\ Advance(p)

WriteAttr(p) ==
  /\ Calls(p, Attrs)
  /\ array' = [array EXCEPT !.attr[Verb(p)] = Arg(p)]
  /\ Advance(p)

(* mutant: the last disk may be taken away. *)
CountToZero(p) ==
  /\ Calls(p, {"raid_disks"})
  /\ run[p].num = 0
  /\ IF array.disks + Arg(p) < 0
       THEN run' = [run EXCEPT ![p].pc = "err", ![p].todo = <<>>]
       ELSE run' = [run EXCEPT ![p].num = array.disks]
  /\ UNCHANGED array

(* grow_array and shrink_array read the device count ...                   *)
Count(p) ==
  /\ Calls(p, {"raid_disks"})
  /\ run[p].num = 0
  /\ IF array.disks + Arg(p) < 1
       THEN run' = [run EXCEPT ![p].pc = "err", ![p].todo = <<>>]
       ELSE run' = [run EXCEPT ![p].num = array.disks]
  /\ UNCHANGED array

(* ... and write another, made from the one they read.                     *)
Resize(p) ==
  /\ Calls(p, {"raid_disks"})
  /\ run[p].num # 0
  /\ run[p].num + Arg(p) <= MaxDisks
  /\ array' = [array EXCEPT !.disks = run[p].num + Arg(p)]
  /\ Advance(p)

WriteBitmap(p) ==
  /\ Calls(p, {"bitmap/chunksize", "bitmap/location"})
  /\ array' = IF Verb(p) = "bitmap/chunksize"
                THEN [array EXCEPT !.bitmap.chunk = Arg(p)]
                ELSE [array EXCEPT !.bitmap.loc = Arg(p)]
  /\ Advance(p)

Trigger(p) ==
  /\ Calls(p, Triggers)
  /\ Advance(p)
  /\ UNCHANGED array

(* mutant: a refused call is tried again. *)
FailsAgain(p) ==
  /\ run[p].pc \in {"open", "calls"}
  /\ UNCHANGED vars

(* A call is refused, its file is not there, something cannot be read or   *)
(* opened: `?` returns the error.  A killed process looks the same.        *)
Fails(p) ==
  /\ run[p].pc \in {"open", "calls"}
  /\ End(p, "err")

-----------------------------------------------------------------------------
(* The kernel by itself. *)

DiskFails(d) ==
  /\ Running /\ array.role[d] = "sync"
  /\ array' = [array EXCEPT !.role[d] = "faulty"]
  /\ UNCHANGED run

Degraded ==
  Cardinality({d \in Disks : array.role[d] = "sync"}) < array.disks

Recover(d) ==
  /\ Running /\ Degraded /\ array.role[d] = "spare"
  /\ array' = [array EXCEPT !.role[d] = "sync"]
  /\ UNCHANGED run

(* Writes, idleness, an assembly or an administrator.                      *)
Settle ==
  /\ \E w \in Words \ {array.state} : array' = [array EXCEPT !.state = w]
  /\ UNCHANGED run

-----------------------------------------------------------------------------
Step(p) ==
  \/ Open(p)
  \/ HotDisk(p)
  \/ StopArray(p)
  \/ WriteAttr(p)
  \/ Count(p)
  \/ Resize(p)
  \/ WriteBitmap(p)
  \/ Trigger(p)

Command(p) == Step(p) \/ Answer(p) \/ Fails(p)

Next ==
  \/ \E p \in Procs : Command(p) \/ \E r \in Requests : Begin(p, r)
  \/ \E d \in Disks : DiskFails(d) \/ Recover(d)
  \/ Settle

Spec == Init /\ [][Next]_vars

(* A process that is not waiting for its user is scheduled, and every      *)
(* system call returns, with or without an error.                          *)
FairSpec == Spec /\ \A p \in Procs : WF_vars(Step(p) \/ Fails(p))

-----------------------------------------------------------------------------
(* Properties. *)

(* The values the variables take; calls are left only where they are made, *)
(* and only a fresh invocation has no request.                             *)
TypeOK ==
  /\ array.state \in ArrayState
  /\ array.role \in [Disks -> Roles]
  /\ array.disks \in Int
  /\ array.attr \in [Attrs -> Nat]
  /\ array.bitmap.chunk \in Nat
  /\ \A p \in Procs :
       /\ run[p].pc \in Places
       /\ run[p].num \in Int
       /\ run[p].met \subseteq Procs \ {p}
       /\ run[p].pc = "calls" <=> run[p].todo # <<>>
       /\ run[p].pc = "fresh" <=> run[p].req = None

(* Nothing is said of a command that meets a stop: what the kernel forgets *)
(* of it then is not modelled.                                             *)
Alone(p, ops) == \A q \in run[p].met : run[q].req.op \notin ops \cup {"stop"}
Named(disks) == {disks[i] : i \in DOMAIN disks}

(* However grows and shrinks read and write the device count around each   *)
(* other, it never reaches zero: shrink_array compares before it writes,   *)
(* and what it writes comes from what it compared.                         *)
NeverEmptied == array.disks >= 1

(* The chunk size of the bitmap, which several commands may set before one *)
(* of them turns the bitmap on, is always one that add_bitmap accepts.     *)
BitmapChunkValid == array.bitmap.chunk \in BitmapChunks

(* An add of a bitmap that meets no other bitmap command leaves the bitmap *)
(* it was asked for when it succeeds.  Until then, and when a call is      *)
(* refused, it has turned none on.                                         *)
BitmapAsAsked ==
  [][\A p \in Procs :
       LET r == run[p].req
       IN  run[p].pc = "calls" /\ r.op = "add_bitmap" /\ Alone(p, BitmapOps)
             => /\ run'[p].pc = "ok"
                     => /\ array'.bitmap.loc = r.loc
                        /\ r.chunk \in {None, array'.bitmap.chunk}
                /\ run'[p].pc # "ok" =>
                     array'.bitmap.loc = array.bitmap.loc]_vars

(* A manage that succeeds, and met no other, has done all it was asked     *)
(* for, whatever the kernel did to the disks while it went through them.   *)
ManagedAsAsked ==
  [][\A p \in Procs :
       LET r == run[p].req
       IN  run[p].pc = "calls" /\ run'[p].pc = "ok"
             /\ r.op = "manage" /\ Alone(p, {"manage"})
             => /\ \A d \in Named(r.add) : array'.role[d] # "out"
                /\ \A d \in Named(r.remove) \ Named(r.add) :
                     array'.role[d] = "out"
                /\ \A d \in Named(r.fail) \ Named(r.remove \o r.add) :
                     array'.role[d] = "faulty"]_vars

(* A reshape that succeeds, and met no other, has set every attribute it   *)
(* was asked for and has changed the device count by exactly its delta.    *)
ReshapedAsAsked ==
  [][\A p \in Procs :
       LET r == run[p].req
       IN  run[p].pc = "calls" /\ r.op = "reshape" /\ Alone(p, {"reshape"})
             => /\ run'[p].pc = "ok" =>
                     \A a \in Attrs : r.target[a] \in {None, array'.attr[a]}
                /\ array'.disks # array.disks =>
                     array'.disks = array.disks + r.delta]_vars

(* A dry run makes no call.  Activating a spare and clearing a bitmap do   *)
(* not take the option.                                                    *)
DryRunCallsNothing ==
  \A p \in Procs :
    run[p].pc = "calls" /\ run[p].req.dry =>
      run[p].req.op \in {"activate_spare", "clear_bitmap"}

(* A command never hangs: only the prompt waits for somebody.              *)
CommandsReturn ==
  \A p \in Procs : run[p].pc \in {"open", "calls"}
                     ~> run[p].pc \in Ends \cup {"prompt"}

(* validation.rs "Check if operation would risk data loss": a command that *)
(* is not forced does not get to fail a disk of an array that has already  *)
(* lost one.                                                               *)
DegradedIsGuarded ==
  [][\A p \in Procs :
       LET r == run[p].req
       IN  Opens(p, "manage") /\ r.fail # <<>> /\ ~r.force /\ Degraded
             => run'[p].pc # "calls"]_vars
=============================================================================
