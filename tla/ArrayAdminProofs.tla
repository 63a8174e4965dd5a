-------------------------- MODULE ArrayAdminProofs --------------------------
(***************************************************************************)
(* Proofs about ArrayAdmin for any invocations, disks, requests and words. *)
(*                                                                         *)
(* The calls a command still has to make are decided when it opens the     *)
(* array and change it much later, so what holds of the array has to be    *)
(* carried by every call in `todo`: a chunk size that is waiting there has *)
(* been looked at, and a device count that was read leaves a disk.         *)
(***************************************************************************)
EXTENDS ArrayAdmin, SequenceTheorems, TLAPS

USE AdminAssumption

(* The text a call writes; the provers do not know that a given text is a  *)
(* string, so those of the commands are named.                             *)
Text == STRING \cup {"none", "check", "recover", "reshape", "remove"}

(* A call, with an argument of the kind its verb takes.                    *)
CallState ==
  {c \in [verb : Verbs, arg : Disks \cup Int \cup Text \cup {None}] :
     /\ c.verb \in DOMAIN HotTo => c.arg \in Disks
     /\ c.verb \in Attrs => c.arg \in Nat
     /\ c.verb = "raid_disks" => c.arg \in Int
     /\ c.verb = "bitmap/chunksize" => c.arg \in BitmapChunks
     /\ c.verb = "bitmap/location" => c.arg \in Text}

ArrayType ==
  [state : ArrayState, role : [Disks -> Roles], disks : Int,
   attr : [Attrs -> Nat], bitmap : [loc : Text, chunk : BitmapChunks]]

RunState ==
  [pc : Places, req : Requests \cup {None}, todo : Seq(CallState), num : Int,
   met : SUBSET Procs]

(* The part of an invocation's state that relates its fields.              *)
RunOK(r) ==
  /\ r.pc = "calls" <=> r.todo # <<>>
  /\ r.pc = "fresh" <=> r.req = None
  /\ r.pc = "prompt" => ~r.req.dry /\ r.req.op = "reshape"
  /\ r.pc = "calls" /\ r.req.dry => r.req.op \in {"activate_spare", "clear_bitmap"}
  /\ r.pc \in {"fresh", "open", "prompt"} => r.num = 0
  /\ r.pc = "calls" /\ r.num # 0 => r.num + Head(r.todo).arg >= 1

(* The two halves of the invariant: the invocations and the array.         *)
RunsOK ==
  /\ run \in [Procs -> RunState]
  /\ \A p \in Procs : RunOK(run[p]) /\ p \notin run[p].met

ArrayOK == array \in ArrayType /\ array.disks >= 1

IInv == RunsOK /\ ArrayOK

-----------------------------------------------------------------------------
(* The calls each command makes are of the right kind. *)

LEMMA CallIs ==
  ASSUME NEW v \in Verbs, NEW a \in Disks \cup Int \cup Text \cup {None},
         v \in DOMAIN HotTo => a \in Disks,
         v \in Attrs => a \in Nat,
         v = "raid_disks" => a \in Int,
         v = "bitmap/chunksize" => a \in BitmapChunks,
         v = "bitmap/location" => a \in Text
  PROVE  /\ Call(v, a) \in CallState
         /\ <<Call(v, a)>> \in Seq(CallState)
<1>1. Call(v, a) \in CallState
  BY DEF Call, CallState
<1> QED
  BY <1>1

LEMMA HotVerbs == DOMAIN HotTo = {"fail", "remove", "add"}
BY DEF HotTo

LEMMA RequestIs ==
  ASSUME NEW r \in Request
  PROVE  /\ r.fail \in Seq(Disks) /\ r.remove \in Seq(Disks)
         /\ r.add \in Seq(Disks)
         /\ r.target \in [Attrs -> Nat \cup {None}]
         /\ r.delta \in Int \cup {None}
         /\ r.loc \in STRING
         /\ r.slot \in Nat \cup {None}
         /\ r.disk \in Disks \cup {None}
         /\ r.dry \in BOOLEAN
BY DEF Request

LEMMA TriggerIs ==
  ASSUME NEW v \in Triggers, NEW a \in Text \cup {1}
  PROVE  Call(v, a) \in CallState
<1>1. v \in Verbs
  BY DEF Verbs, Files
<1>2. v \notin DOMAIN HotTo /\ v \notin Attrs
  BY HotVerbs DEF Triggers, Attrs
<1>3. v \notin {"raid_disks", "bitmap/chunksize", "bitmap/location"}
  BY DEF Triggers
<1>4. a \in Disks \cup Int \cup Text \cup {None}
  OBVIOUS
<1> QED
  BY <1>1, <1>2, <1>3, <1>4, CallIs

LEMMA EachIs ==
  ASSUME NEW v \in {"fail", "remove", "add"}, NEW disks \in Seq(Disks)
  PROVE  Each(v, disks) \in Seq(CallState)
<1>1. \A d \in Disks : Call(v, d) \in CallState
  BY CallIs, HotVerbs DEF Verbs, Attrs
<1>2. DOMAIN disks = 1 .. Len(disks) /\ Len(disks) \in Nat
  BY LenProperties
<1>3. \A i \in 1 .. Len(disks) : disks[i] \in Disks
  BY ElementOfSeq
<1>4. Each(v, disks) \in [1 .. Len(disks) -> CallState]
  BY <1>1, <1>2, <1>3 DEF Each
<1> QED
  BY <1>2, <1>4

LEMMA ManageCallsIs ==
  ASSUME NEW r \in Request
  PROVE  ManageCalls(r) \in Seq(CallState)
<1>1. r.fail \in Seq(Disks) /\ r.remove \in Seq(Disks) /\ r.add \in Seq(Disks)
  BY RequestIs
<1>2. /\ Each("fail", r.fail) \in Seq(CallState)
      /\ Each("remove", r.remove) \in Seq(CallState)
      /\ Each("add", r.add) \in Seq(CallState)
  BY <1>1, EachIs
<1> QED
  BY <1>2, ConcatProperties DEF ManageCalls

LEMMA PartIs ==
  ASSUME NEW r \in Request, NEW a \in Attrs
  PROVE  Part(r, a) \in Seq(CallState)
<1>1. CASE r.target[a] = None
  BY <1>1 DEF Part
<1>2. CASE r.target[a] # None
  <2>1. r.target[a] \in Nat
    BY <1>2, RequestIs
  <2>2. Call(a, r.target[a]) \in CallState
    <3>1. CASE a = "level"
      BY <2>1, <3>1, CallIs, HotVerbs DEF Verbs, Files, Attrs
    <3>2. CASE a = "chunk_size"
      BY <2>1, <3>2, CallIs, HotVerbs DEF Verbs, Files, Attrs
    <3>3. CASE a = "layout"
      BY <2>1, <3>3, CallIs, HotVerbs DEF Verbs, Files, Attrs
    <3> QED
      BY <3>1, <3>2, <3>3 DEF Attrs
  <2>3. Call("sync_action", "reshape") \in CallState
    <3>1. "reshape" \in Text
      BY DEF Text
    <3>2. "sync_action" \in Triggers
      BY DEF Triggers
    <3> QED
      BY <3>1, <3>2, TriggerIs
  <2> QED
    BY <1>2, <2>2, <2>3 DEF Part
<1> QED
  BY <1>1, <1>2

LEMMA ResizingIs ==
  ASSUME NEW r \in Request
  PROVE  Resizing(r) \in Seq(CallState)
<1>1. CASE r.delta \in {None, 0}
  BY <1>1 DEF Resizing
<1>2. CASE r.delta \notin {None, 0}
  <2>1. r.delta \in Int
    BY <1>2, RequestIs
  <2>2. Call("raid_disks", r.delta) \in CallState
    BY <2>1, CallIs, HotVerbs DEF Verbs, Files, Attrs
  <2>3. Call("sync_action", "reshape") \in CallState
    <3>1. "reshape" \in Text
      BY DEF Text
    <3>2. "sync_action" \in Triggers
      BY DEF Triggers
    <3> QED
      BY <3>1, <3>2, TriggerIs
  <2> QED
    BY <1>2, <2>2, <2>3 DEF Resizing
<1> QED
  BY <1>1, <1>2

LEMMA ReshapeCallsIs ==
  ASSUME NEW r \in Request
  PROVE  ReshapeCalls(r) \in Seq(CallState)
<1>1. /\ Part(r, "level") \in Seq(CallState)
      /\ Part(r, "chunk_size") \in Seq(CallState)
      /\ Part(r, "layout") \in Seq(CallState)
      /\ Resizing(r) \in Seq(CallState)
  BY PartIs, ResizingIs DEF Attrs
<1>2. Part(r, "level") \o Part(r, "chunk_size") \in Seq(CallState)
  BY <1>1, ConcatProperties
<1>3. (Part(r, "level") \o Part(r, "chunk_size")) \o Part(r, "layout")
        \in Seq(CallState)
  BY <1>1, <1>2, ConcatProperties
<1> QED
  BY <1>1, <1>3, ConcatProperties DEF ReshapeCalls

LEMMA AddBitmapCallsIs ==
  ASSUME NEW r \in Request, ValidBitmap(r)
  PROVE  AddBitmapCalls(r) \in Seq(CallState)
<1>1. <<Call("bitmap/location", r.loc)>> \in Seq(CallState)
  <2>1. r.loc \in Text
    BY RequestIs DEF Text
  <2> QED
    BY <2>1, CallIs, HotVerbs DEF Verbs, Files, Attrs
<1>2. CASE r.chunk = None
  BY <1>1, <1>2, ConcatProperties, EmptySeq DEF AddBitmapCalls
<1>3. CASE r.chunk # None
  <2>1. r.chunk \in BitmapChunks /\ r.chunk \in Int
    BY <1>3 DEF ValidBitmap, BitmapChunks
  <2>2. <<Call("bitmap/chunksize", r.chunk)>> \in Seq(CallState)
    BY <2>1, CallIs, HotVerbs DEF Verbs, Files, Attrs
  <2>3. AddBitmapCalls(r) =
          <<Call("bitmap/chunksize", r.chunk)>> \o <<Call("bitmap/location", r.loc)>>
    BY <1>3 DEF AddBitmapCalls
  <2> QED
    BY <1>1, <2>2, <2>3, ConcatProperties
<1> QED
  BY <1>2, <1>3

-----------------------------------------------------------------------------
(* What a step does to the state of the invocations. *)

(* An invocation takes a new state, the others keep theirs.                *)
LEMMA OneChanges ==
  ASSUME RunsOK, NEW p \in Procs, NEW r \in RunState,
         RunOK(r), p \notin r.met, run' = [run EXCEPT ![p] = r]
  PROVE  RunsOK'
<1>1. run \in [Procs -> RunState]
  BY DEF RunsOK
<1>2. run' \in [Procs -> RunState]
  BY <1>1
<1>3. \A q \in Procs : run'[q] = IF q = p THEN r ELSE run[q]
  BY <1>1
<1>4. ASSUME NEW q \in Procs
      PROVE  RunOK(run'[q]) /\ q \notin run'[q].met
  <2>1. CASE q = p
    BY <1>3, <2>1
  <2>2. CASE q # p
    BY <1>3, <2>2 DEF RunsOK
  <2> QED
    BY <2>1, <2>2
<1> QED
  BY <1>2, <1>4 DEF RunsOK

LEMMA GoKeeps ==
  ASSUME RunsOK, NEW p \in Procs, run[p].pc \in {"open", "prompt", "calls"},
         NEW calls \in Seq(CallState), Go(p, calls),
         calls # <<>> /\ run[p].req.dry
           => run[p].req.op \in {"activate_spare", "clear_bitmap"}
  PROVE  RunsOK'
<1>1. run[p] \in RunState /\ run \in [Procs -> RunState]
  BY DEF RunsOK
<1>2. RunOK(run[p]) /\ p \notin run[p].met
  BY DEF RunsOK
<1>3. PICK place \in {"ok", "calls"} : place = IF calls = <<>> THEN "ok" ELSE "calls"
  OBVIOUS
<1>4. PICK r : r = [run[p] EXCEPT !.pc = place, !.todo = calls, !.num = 0]
  OBVIOUS
<1>5. /\ r.pc = place /\ r.todo = calls /\ r.num = 0
      /\ r.req = run[p].req /\ r.met = run[p].met
      /\ r \in RunState
  <2>1. place \in Places
    BY DEF Places, Ends
  <2>2. 0 \in Int
    OBVIOUS
  <2> QED
    BY <1>1, <1>4, <2>1, <2>2 DEF RunState
<1>6. RunOK(r) /\ p \notin r.met
  <2>1. run[p].req # None
    BY <1>2 DEF RunOK
  <2> QED
    BY <1>2, <1>3, <1>5, <2>1 DEF RunOK
<1>7. run' = [run EXCEPT ![p] = r]
  BY <1>1, <1>3, <1>4 DEF Go
<1> QED
  BY <1>5, <1>6, <1>7, OneChanges

LEMMA EndKeeps ==
  ASSUME RunsOK, NEW p \in Procs, run[p].pc \in {"open", "prompt", "calls"},
         NEW how \in Ends \cup {"prompt"}, End(p, how),
         how = "prompt" => /\ run[p].pc = "open"
                           /\ ~run[p].req.dry /\ run[p].req.op = "reshape"
  PROVE  RunsOK'
<1>1. run[p] \in RunState /\ run \in [Procs -> RunState]
  BY DEF RunsOK
<1>2. RunOK(run[p]) /\ p \notin run[p].met
  BY DEF RunsOK
<1>3. PICK r : r = [run[p] EXCEPT !.pc = how, !.todo = <<>>]
  OBVIOUS
<1>4. <<>> \in Seq(CallState)
  BY EmptySeq
<1>5. /\ r.pc = how /\ r.todo = <<>> /\ r.num = run[p].num
      /\ r.req = run[p].req /\ r.met = run[p].met
      /\ r \in RunState
  <2>1. how \in Places
    BY DEF Places, Ends
  <2> QED
    BY <1>1, <1>3, <1>4, <2>1 DEF RunState
<1>6. RunOK(r) /\ p \notin r.met
  <2>1. run[p].req # None
    BY <1>2 DEF RunOK
  <2> QED
    BY <1>2, <1>5, <2>1 DEF RunOK, Ends
<1>7. run' = [run EXCEPT ![p] = r]
  BY <1>1, <1>3 DEF End
<1> QED
  BY <1>5, <1>6, <1>7, OneChanges

(* A command that opens an array fails, or has calls that a dry run of it  *)
(* does not make.                                                          *)
LEMMA UnlessKeeps ==
  ASSUME RunsOK, NEW p \in Procs, run[p].pc \in {"open", "prompt"},
         NEW refused \in BOOLEAN, NEW calls, Unless(p, refused, calls),
         ~refused => calls \in Seq(CallState),
         calls # <<>> /\ run[p].req.dry
           => run[p].req.op \in {"activate_spare", "clear_bitmap"}
  PROVE  RunsOK' /\ UNCHANGED array
<1>1. CASE refused
  <2>1. End(p, "err")
    BY <1>1 DEF Unless
  <2> QED
    BY <2>1, EndKeeps DEF End, Ends
<1>2. CASE ~refused
  BY <1>2, GoKeeps DEF Unless
<1> QED
  BY <1>1, <1>2

-----------------------------------------------------------------------------
(* The commands that open an array. *)

LEMMA BegunHasRequest ==
  ASSUME RunsOK, NEW p \in Procs, run[p].pc # "fresh"
  PROVE  /\ run[p].req \in Request /\ run[p].req.dry \in BOOLEAN
         /\ run[p].req.op = "scrub" => ~run[p].req.dry
<1>1. run[p] \in RunState /\ RunOK(run[p])
  BY DEF RunsOK
<1>2. run[p].req \in Requests
  BY <1>1 DEF RunOK, RunState
<1>3. run[p].req \in ByCommand \cup ByRest
  BY <1>2
<1>4. run[p].req \in Request /\ (run[p].req.op = "scrub" => ~run[p].req.dry)
  BY <1>3 DEF ByCommand, ByRest
<1> QED
  BY <1>4, RequestIs

LEMMA SimpleCalls ==
  /\ <<>> \in Seq(CallState)
  /\ <<Call("stop", None)>> \in Seq(CallState)
  /\ <<Call("sync_action", "check")>> \in Seq(CallState)
  /\ <<Call("sync_action", "recover")>> \in Seq(CallState)
  /\ <<Call("md/dev/state", "remove")>> \in Seq(CallState)
  /\ <<Call("bitmap/location", "none")>> \in Seq(CallState)
  /\ <<Call("bitmap/can_clear", 1)>> \in Seq(CallState)
  /\ \A d \in Disks \cup {None} : <<Call("md/new_dev", d)>> \in Seq(CallState)
  /\ \A n \in Nat : <<Call("md/dev/slot", n)>> \in Seq(CallState)
<1>1. <<>> \in Seq(CallState)
  BY EmptySeq
<1>2. <<Call("stop", None)>> \in Seq(CallState)
  BY CallIs, HotVerbs DEF Verbs, Attrs
<1>3. /\ <<Call("sync_action", "check")>> \in Seq(CallState)
      /\ <<Call("sync_action", "recover")>> \in Seq(CallState)
      /\ <<Call("bitmap/can_clear", 1)>> \in Seq(CallState)
  <2>1. "check" \in Text /\ "recover" \in Text
    BY DEF Text
  <2>2. "sync_action" \in Triggers /\ "bitmap/can_clear" \in Triggers
    BY DEF Triggers
  <2>3. /\ Call("sync_action", "check") \in CallState
        /\ Call("sync_action", "recover") \in CallState
        /\ Call("bitmap/can_clear", 1) \in CallState
    BY <2>1, <2>2, TriggerIs
  <2> QED
    BY <2>3
<1>4. <<Call("md/dev/state", "remove")>> \in Seq(CallState)
  <2>1. "remove" \in Text
    BY DEF Text
  <2> QED
    BY <2>1, CallIs, HotVerbs DEF Verbs, Doubled, Attrs
<1>5. <<Call("bitmap/location", "none")>> \in Seq(CallState)
  <2>1. "none" \in Text
    BY DEF Text
  <2> QED
    BY <2>1, CallIs, HotVerbs DEF Verbs, Files, Attrs
<1>6. \A d \in Disks \cup {None} : <<Call("md/new_dev", d)>> \in Seq(CallState)
  BY CallIs, HotVerbs DEF Verbs, Doubled, Attrs
<1>7. \A n \in Nat : <<Call("md/dev/slot", n)>> \in Seq(CallState)
  BY CallIs, HotVerbs DEF Verbs, Doubled, Attrs
<1> QED
  BY <1>1, <1>2, <1>3, <1>4, <1>5, <1>6, <1>7

LEMMA StopOpenKeeps ==
  ASSUME RunsOK, NEW p \in Procs, StopOpen(p)
  PROVE  RunsOK' /\ UNCHANGED array
<1>1. run[p].pc = "open"
  BY DEF StopOpen, Opens
<1>2. run[p].req \in Request /\ run[p].req.dry \in BOOLEAN
  BY <1>1, BegunHasRequest
<1>3. PICK refused \in BOOLEAN : refused = (~run[p].req.force /\ AtRisk(array.state))
  OBVIOUS
<1>4. PICK calls : calls = IF run[p].req.dry THEN <<>> ELSE <<Call("stop", None)>>
  OBVIOUS
<1>5. Unless(p, refused, calls)
  BY <1>3, <1>4 DEF StopOpen
<1>6. calls \in Seq(CallState)
  BY <1>4, SimpleCalls
<1>7. run[p].req.dry => calls = <<>>
  BY <1>4
<1> QED
  BY <1>1, <1>5, <1>6, <1>7, UnlessKeeps

LEMMA ManageOpenKeeps ==
  ASSUME RunsOK, NEW p \in Procs, ManageOpen(p)
  PROVE  RunsOK' /\ UNCHANGED array
<1>1. run[p].pc = "open"
  BY DEF ManageOpen, Opens
<1>2. run[p].req \in Request /\ run[p].req.dry \in BOOLEAN
  BY <1>1, BegunHasRequest
<1>3. PICK refused \in BOOLEAN :
        refused = (/\ ~run[p].req.force
                   /\ run[p].req.fail \o run[p].req.remove # <<>>
                   /\ AtRisk(array.state))
  OBVIOUS
<1>4. PICK calls : calls = IF run[p].req.dry THEN <<>> ELSE ManageCalls(run[p].req)
  OBVIOUS
<1>5. Unless(p, refused, calls)
  BY <1>3, <1>4 DEF ManageOpen
<1>6. calls \in Seq(CallState)
  BY <1>2, <1>4, SimpleCalls, ManageCallsIs
<1>7. run[p].req.dry => calls = <<>>
  BY <1>4
<1> QED
  BY <1>1, <1>5, <1>6, <1>7, UnlessKeeps

LEMMA ScrubOpenKeeps ==
  ASSUME RunsOK, NEW p \in Procs, ScrubOpen(p)
  PROVE  RunsOK' /\ UNCHANGED array
<1>0. run[p].pc = "open" /\ run[p].req.op = "scrub"
  BY DEF ScrubOpen, Opens
<1>1. run[p].pc = "open" /\ ~run[p].req.dry
  BY <1>0, BegunHasRequest
<1>2. PICK calls : calls = <<Call("sync_action", "check")>>
  OBVIOUS
<1>3. Unless(p, FALSE, calls)
  BY <1>2 DEF ScrubOpen
<1>4. calls \in Seq(CallState)
  BY <1>2, SimpleCalls
<1> QED
  BY <1>1, <1>3, <1>4, UnlessKeeps

LEMMA AddSpareOpenKeeps ==
  ASSUME RunsOK, NEW p \in Procs, AddSpareOpen(p)
  PROVE  RunsOK' /\ UNCHANGED array
<1>1. run[p].pc = "open"
  BY DEF AddSpareOpen, Opens
<1>2. /\ run[p].req \in Request /\ run[p].req.dry \in BOOLEAN
      /\ run[p].req.slot \in Nat \cup {None}
      /\ run[p].req.disk \in Disks \cup {None}
  BY <1>1, BegunHasRequest, RequestIs
<1>3. PICK refused \in BOOLEAN : refused = FALSE
  OBVIOUS
<1>4. PICK calls :
        calls = IF run[p].req.dry THEN <<>> ELSE <<Call("md/new_dev", run[p].req.disk)>>
  OBVIOUS
<1>5. Unless(p, refused, calls)
  BY <1>3, <1>4 DEF AddSpareOpen
<1>6. ~refused => calls \in Seq(CallState)
  BY <1>2, <1>4, SimpleCalls
<1>7. calls # <<>> /\ run[p].req.dry
        => run[p].req.op \in {"activate_spare", "clear_bitmap"}
  BY <1>4
<1> QED
  BY <1>1, <1>5, <1>6, <1>7, UnlessKeeps

LEMMA RemoveSpareOpenKeeps ==
  ASSUME RunsOK, NEW p \in Procs, RemoveSpareOpen(p)
  PROVE  RunsOK' /\ UNCHANGED array
<1>1. run[p].pc = "open"
  BY DEF RemoveSpareOpen, Opens
<1>2. /\ run[p].req \in Request /\ run[p].req.dry \in BOOLEAN
      /\ run[p].req.slot \in Nat \cup {None}
      /\ run[p].req.disk \in Disks \cup {None}
  BY <1>1, BegunHasRequest, RequestIs
<1>3. PICK refused \in BOOLEAN : refused = (~IsSpare(run[p].req.disk))
  OBVIOUS
<1>4. PICK calls :
        calls = IF run[p].req.dry THEN <<>> ELSE <<Call("md/dev/state", "remove")>>
  OBVIOUS
<1>5. Unless(p, refused, calls)
  BY <1>3, <1>4 DEF RemoveSpareOpen
<1>6. ~refused => calls \in Seq(CallState)
  BY <1>2, <1>4, SimpleCalls
<1>7. calls # <<>> /\ run[p].req.dry
        => run[p].req.op \in {"activate_spare", "clear_bitmap"}
  BY <1>4
<1> QED
  BY <1>1, <1>5, <1>6, <1>7, UnlessKeeps

LEMMA ActivateSpareOpenKeeps ==
  ASSUME RunsOK, NEW p \in Procs, ActivateSpareOpen(p)
  PROVE  RunsOK' /\ UNCHANGED array
<1>1. run[p].pc = "open"
  BY DEF ActivateSpareOpen, Opens
<1>2. /\ run[p].req \in Request /\ run[p].req.dry \in BOOLEAN
      /\ run[p].req.slot \in Nat \cup {None}
      /\ run[p].req.disk \in Disks \cup {None}
  BY <1>1, BegunHasRequest, RequestIs
<1>3. PICK refused \in BOOLEAN : refused = (~IsSpare(run[p].req.disk))
  OBVIOUS
<1>4. PICK calls :
        calls = IF run[p].req.slot # None THEN <<Call("md/dev/slot", run[p].req.slot)>>
                ELSE <<Call("sync_action", "recover")>>
  OBVIOUS
<1>5. Unless(p, refused, calls)
  BY <1>3, <1>4 DEF ActivateSpareOpen
<1>6. ~refused => calls \in Seq(CallState)
  BY <1>2, <1>4, SimpleCalls
<1>7. calls # <<>> /\ run[p].req.dry
        => run[p].req.op \in {"activate_spare", "clear_bitmap"}
  BY DEF ActivateSpareOpen, Opens
<1> QED
  BY <1>1, <1>5, <1>6, <1>7, UnlessKeeps

LEMMA AddBitmapOpenKeeps ==
  ASSUME RunsOK, NEW p \in Procs, AddBitmapOpen(p)
  PROVE  RunsOK' /\ UNCHANGED array
<1>1. run[p].pc = "open"
  BY DEF AddBitmapOpen, Opens
<1>2. /\ run[p].req \in Request /\ run[p].req.dry \in BOOLEAN
      /\ run[p].req.slot \in Nat \cup {None}
      /\ run[p].req.disk \in Disks \cup {None}
  BY <1>1, BegunHasRequest, RequestIs
<1>3. PICK refused \in BOOLEAN : refused = (~HasBitmap /\ ~ValidBitmap(run[p].req))
  OBVIOUS
<1>4. PICK calls :
        calls = IF HasBitmap \/ run[p].req.dry THEN <<>>
                ELSE AddBitmapCalls(run[p].req)
  OBVIOUS
<1>5. Unless(p, refused, calls)
  BY <1>3, <1>4 DEF AddBitmapOpen
<1>6. ~refused => calls \in Seq(CallState)
  BY <1>2, <1>3, <1>4, SimpleCalls, AddBitmapCallsIs
<1>7. calls # <<>> /\ run[p].req.dry
        => run[p].req.op \in {"activate_spare", "clear_bitmap"}
  BY <1>4
<1> QED
  BY <1>1, <1>5, <1>6, <1>7, UnlessKeeps

LEMMA RemoveBitmapOpenKeeps ==
  ASSUME RunsOK, NEW p \in Procs, RemoveBitmapOpen(p)
  PROVE  RunsOK' /\ UNCHANGED array
<1>1. run[p].pc = "open"
  BY DEF RemoveBitmapOpen, Opens
<1>2. /\ run[p].req \in Request /\ run[p].req.dry \in BOOLEAN
      /\ run[p].req.slot \in Nat \cup {None}
      /\ run[p].req.disk \in Disks \cup {None}
  BY <1>1, BegunHasRequest, RequestIs
<1>3. PICK refused \in BOOLEAN : refused = FALSE
  OBVIOUS
<1>4. PICK calls :
        calls = IF ~HasBitmap \/ run[p].req.dry THEN <<>>
                ELSE <<Call("bitmap/location", "none")>>
  OBVIOUS
<1>5. Unless(p, refused, calls)
  BY <1>3, <1>4 DEF RemoveBitmapOpen
<1>6. ~refused => calls \in Seq(CallState)
  BY <1>2, <1>4, SimpleCalls
<1>7. calls # <<>> /\ run[p].req.dry
        => run[p].req.op \in {"activate_spare", "clear_bitmap"}
  BY <1>4
<1> QED
  BY <1>1, <1>5, <1>6, <1>7, UnlessKeeps

LEMMA ClearBitmapOpenKeeps ==
  ASSUME RunsOK, NEW p \in Procs, ClearBitmapOpen(p)
  PROVE  RunsOK' /\ UNCHANGED array
<1>1. run[p].pc = "open"
  BY DEF ClearBitmapOpen, Opens
<1>2. /\ run[p].req \in Request /\ run[p].req.dry \in BOOLEAN
      /\ run[p].req.slot \in Nat \cup {None}
      /\ run[p].req.disk \in Disks \cup {None}
  BY <1>1, BegunHasRequest, RequestIs
<1>3. PICK refused \in BOOLEAN : refused = (~HasBitmap)
  OBVIOUS
<1>4. PICK calls :
        calls = <<Call("bitmap/can_clear", 1)>>
  OBVIOUS
<1>5. Unless(p, refused, calls)
  BY <1>3, <1>4 DEF ClearBitmapOpen
<1>6. ~refused => calls \in Seq(CallState)
  BY <1>4, SimpleCalls
<1>7. calls # <<>> /\ run[p].req.dry
        => run[p].req.op \in {"activate_spare", "clear_bitmap"}
  BY DEF ClearBitmapOpen, Opens
<1> QED
  BY <1>1, <1>5, <1>6, <1>7, UnlessKeeps

LEMMA ReshapeOpenKeeps ==
  ASSUME RunsOK, NEW p \in Procs, ReshapeOpen(p)
  PROVE  RunsOK' /\ UNCHANGED array
<1>1. run[p].pc = "open" /\ run[p].req.op = "reshape"
  BY DEF ReshapeOpen, Opens
<1>2. run[p].req \in Request /\ run[p].req.dry \in BOOLEAN
  BY <1>1, BegunHasRequest
<1>3. PICK refused \in BOOLEAN :
        refused = (array.state \notin {"active", "clean"} \/ ~ValidReshape(run[p].req))
  OBVIOUS
<1>4. CASE refused \/ run[p].req.dry \/ run[p].req.force
  <2>1. PICK calls :
          calls = IF run[p].req.dry THEN <<>> ELSE ReshapeCalls(run[p].req)
    OBVIOUS
  <2>2. Unless(p, refused, calls)
    BY <1>3, <1>4, <2>1 DEF ReshapeOpen
  <2>3. calls \in Seq(CallState)
    BY <1>2, <2>1, SimpleCalls, ReshapeCallsIs
  <2>4. run[p].req.dry => calls = <<>>
    BY <2>1
  <2> QED
    BY <1>1, <2>2, <2>3, <2>4, UnlessKeeps
<1>5. CASE ~(refused \/ run[p].req.dry \/ run[p].req.force)
  <2>1. End(p, "prompt") /\ ~run[p].req.dry
    BY <1>3, <1>5 DEF ReshapeOpen
  <2> QED
    BY <1>1, <2>1, EndKeeps DEF End
<1> QED
  BY <1>4, <1>5

LEMMA AnswerKeeps ==
  ASSUME RunsOK, NEW p \in Procs, Answer(p)
  PROVE  RunsOK' /\ UNCHANGED array
<1>1. run[p].pc = "prompt"
  BY DEF Answer
<1>2. run[p].req \in Request /\ RunOK(run[p])
  BY <1>1, BegunHasRequest DEF RunsOK
<1>3. ~run[p].req.dry
  BY <1>1, <1>2 DEF RunOK
<1>4. CASE Unless(p, FALSE, ReshapeCalls(run[p].req))
  <2>1. PICK calls : calls = ReshapeCalls(run[p].req)
    OBVIOUS
  <2>2. Unless(p, FALSE, calls) /\ calls \in Seq(CallState)
    BY <1>2, <1>4, <2>1, ReshapeCallsIs
  <2> QED
    BY <1>1, <1>3, <2>2, UnlessKeeps
<1>5. ASSUME NEW how \in {"cancelled", "err"}, End(p, how)
      PROVE  RunsOK' /\ UNCHANGED array
  <2>1. how \in Ends /\ how # "prompt"
    BY DEF Ends
  <2> QED
    BY <1>1, <1>5, <2>1, EndKeeps DEF End
<1> QED
  BY <1>4, <1>5 DEF Answer

LEMMA BeginKeeps ==
  ASSUME RunsOK, NEW p \in Procs, NEW r \in Requests, Begin(p, r)
  PROVE  RunsOK' /\ UNCHANGED array
<1>1. run \in [Procs -> RunState]
  BY DEF RunsOK
<1>2. PICK new : new = [Fresh EXCEPT !.pc = "open", !.req = r,
                                     !.met = {o \in Procs : Active(o)}]
  OBVIOUS
<1>3. p \notin {o \in Procs : Active(o)}
  BY DEF Begin, Active
<1>4. new \in RunState /\ RunOK(new) /\ p \notin new.met
  <2>1. PICK met : met = {o \in Procs : Active(o)}
    OBVIOUS
  <2>2. met \subseteq Procs /\ p \notin met
    BY <1>3, <2>1
  <2>3. new = [pc |-> "open", req |-> r, todo |-> <<>>, num |-> 0, met |-> met]
    BY <1>2, <2>1 DEF Fresh
  <2>4. <<>> \in Seq(CallState) /\ "open" \in Places
    BY EmptySeq DEF Places
  <2>6. r # None
    BY DEF ByCommand, ByRest
  <2>5. new \in RunState
    BY <2>2, <2>3, <2>4 DEF RunState
  <2> QED
    BY <2>2, <2>3, <2>4, <2>5, <2>6 DEF RunOK
<1>5. ASSUME NEW q \in Procs
      PROVE  run'[q] \in RunState /\ RunOK(run'[q]) /\ q \notin run'[q].met
  <2>1. CASE q = p
    <3>1. run'[q] = new
      BY <1>2, <2>1 DEF Begin
    <3> QED
      BY <1>4, <2>1, <3>1
  <2>2. CASE q # p /\ Active(q)
    <3>1. PICK met : met = run[q].met \cup {p}
      OBVIOUS
    <3>2. run'[q] = [run[q] EXCEPT !.met = met]
      BY <2>2, <3>1 DEF Begin
    <3>3. run[q] \in RunState /\ RunOK(run[q]) /\ q \notin run[q].met
      BY DEF RunsOK
    <3>4. met \subseteq Procs /\ q \notin met
      BY <2>2, <3>1, <3>3 DEF RunState
    <3>5. /\ run'[q] \in RunState /\ run'[q].met = met
          /\ run'[q].pc = run[q].pc /\ run'[q].req = run[q].req
          /\ run'[q].todo = run[q].todo /\ run'[q].num = run[q].num
      BY <3>2, <3>3, <3>4 DEF RunState
    <3> QED
      BY <3>3, <3>4, <3>5 DEF RunOK
  <2>3. CASE q # p /\ ~Active(q)
    <3>1. run'[q] = run[q]
      BY <2>3 DEF Begin
    <3> QED
      BY <3>1 DEF RunsOK
  <2> QED
    BY <2>1, <2>2, <2>3
<1>6. run' \in [Procs -> RunState]
  BY <1>5 DEF Begin
<1> QED
  BY <1>5, <1>6 DEF RunsOK, Begin

-----------------------------------------------------------------------------
(* The calls. *)

LEMMA CallReady ==
  ASSUME RunsOK, NEW p \in Procs, NEW verbs, Calls(p, verbs)
  PROVE  /\ run[p].pc = "calls" /\ RunOK(run[p])
         /\ Head(run[p].todo) \in CallState
         /\ Tail(run[p].todo) \in Seq(CallState)
         /\ Verb(p) \in verbs
<1>1. run[p] \in RunState /\ RunOK(run[p]) /\ run[p].pc = "calls"
  BY DEF RunsOK, Calls
<1>2. run[p].todo \in Seq(CallState) /\ run[p].todo # <<>>
  BY <1>1 DEF RunState, RunOK
<1> QED
  BY <1>1, <1>2, HeadTailProperties DEF Calls

LEMMA AdvanceKeeps ==
  ASSUME RunsOK, NEW p \in Procs, NEW verbs, Calls(p, verbs), Advance(p)
  PROVE  RunsOK'
<1>1. /\ run[p].pc = "calls" /\ RunOK(run[p])
      /\ Tail(run[p].todo) \in Seq(CallState)
  BY CallReady
<1>2. run[p].req.dry => run[p].req.op \in {"activate_spare", "clear_bitmap"}
  BY <1>1 DEF RunOK
<1>3. Go(p, Tail(run[p].todo))
  BY DEF Advance
<1> QED
  BY <1>1, <1>2, <1>3, GoKeeps

LEMMA HotDiskKeeps ==
  ASSUME RunsOK, ArrayOK, NEW p \in Procs, HotDisk(p)
  PROVE  RunsOK' /\ ArrayOK'
<1>1. Calls(p, DOMAIN HotTo) /\ Advance(p)
  BY DEF HotDisk
<1>2. RunsOK' /\ Head(run[p].todo) \in CallState
  BY <1>1, CallReady, AdvanceKeeps
<1>3. PICK d \in Disks, role \in Roles : array' = [array EXCEPT !.role[d] = role]
  <2>1. Arg(p) \in Disks
    BY <1>1, <1>2, CallReady DEF CallState, Arg, Verb
  <2>2. HotTo[Verb(p)] \in Roles
    BY <1>1, HotVerbs, CallReady DEF HotTo, Roles
  <2> QED
    BY <2>1, <2>2 DEF HotDisk
<1> QED
  BY <1>2, <1>3 DEF ArrayOK, ArrayType

LEMMA StopArrayKeeps ==
  ASSUME RunsOK, ArrayOK, NEW p \in Procs, StopArray(p)
  PROVE  RunsOK' /\ ArrayOK'
<1>1. Calls(p, {"stop"}) /\ Advance(p)
  BY DEF StopArray
<1>2. RunsOK' /\ Head(run[p].todo) \in CallState
  BY <1>1, CallReady, AdvanceKeeps
<1>3. array' = [array EXCEPT !.state = "clear"] /\ "clear" \in ArrayState
  BY DEF StopArray, ArrayState
<1> QED
  BY <1>2, <1>3 DEF ArrayOK, ArrayType

LEMMA WriteAttrKeeps ==
  ASSUME RunsOK, ArrayOK, NEW p \in Procs, WriteAttr(p)
  PROVE  RunsOK' /\ ArrayOK'
<1>1. Calls(p, Attrs) /\ Advance(p)
  BY DEF WriteAttr
<1>2. RunsOK' /\ Head(run[p].todo) \in CallState
  BY <1>1, CallReady, AdvanceKeeps
<1>3. PICK a \in Attrs, n \in Nat : array' = [array EXCEPT !.attr[a] = n]
  <2>1. Verb(p) \in Attrs
    BY <1>1, CallReady
  <2>2. Arg(p) \in Nat
    BY <1>2, <2>1 DEF CallState, Arg, Verb
  <2> QED
    BY <2>1, <2>2 DEF WriteAttr
<1> QED
  BY <1>2, <1>3 DEF ArrayOK, ArrayType

LEMMA CountKeeps ==
  ASSUME RunsOK, ArrayOK, NEW p \in Procs, Count(p)
  PROVE  RunsOK' /\ ArrayOK'
<1>1. Calls(p, {"raid_disks"}) /\ UNCHANGED array
  BY DEF Count
<1>2. /\ run[p].pc = "calls" /\ RunOK(run[p])
      /\ Head(run[p].todo) \in CallState /\ Verb(p) = "raid_disks"
  BY <1>1, CallReady
<1>3. Arg(p) \in Int /\ array.disks \in Int
  BY <1>2 DEF CallState, Arg, Verb, ArrayOK, ArrayType
<1>4. ArrayOK'
  BY <1>1 DEF ArrayOK
<1>5. CASE array.disks + Arg(p) < 1
  <2>1. End(p, "err") /\ "err" \in Ends /\ "err" # "prompt"
    BY <1>1, <1>5 DEF Count, End, Ends
  <2> QED
    BY <1>2, <1>4, <2>1, EndKeeps
<1>6. CASE ~(array.disks + Arg(p) < 1)
  <2>1. run[p] \in RunState /\ p \notin run[p].met /\ run \in [Procs -> RunState]
    BY DEF RunsOK
  <2>2. PICK n \in Int : n = array.disks
    BY <1>3
  <2>3. PICK r : r = [run[p] EXCEPT !.num = n]
    OBVIOUS
  <2>4. /\ r.pc = run[p].pc /\ r.todo = run[p].todo /\ r.num = n
        /\ r.req = run[p].req /\ r.met = run[p].met
        /\ r \in RunState
    BY <2>1, <2>3 DEF RunState
  <2>5. n + Head(run[p].todo).arg >= 1
    BY <1>3, <1>6, <2>2 DEF Arg
  <2>6. RunOK(r)
    BY <1>2, <2>4, <2>5 DEF RunOK
  <2>7. run' = [run EXCEPT ![p] = r]
    BY <1>6, <2>1, <2>2, <2>3 DEF Count
  <2> QED
    BY <1>4, <2>1, <2>4, <2>6, <2>7, OneChanges
<1> QED
  BY <1>5, <1>6

LEMMA ResizeKeeps ==
  ASSUME RunsOK, ArrayOK, NEW p \in Procs, Resize(p)
  PROVE  RunsOK' /\ ArrayOK'
<1>1. Calls(p, {"raid_disks"}) /\ Advance(p)
  BY DEF Resize
<1>2. RunsOK' /\ Head(run[p].todo) \in CallState
  BY <1>1, CallReady, AdvanceKeeps
<1>3. /\ run[p].num + Arg(p) >= 1 /\ run[p].num + Arg(p) \in Int
  <2>1. /\ run[p].pc = "calls" /\ RunOK(run[p]) /\ run[p].num # 0
        /\ Verb(p) = "raid_disks" /\ run[p] \in RunState
    BY <1>1, CallReady DEF Resize, RunsOK
  <2>2. Arg(p) \in Int /\ run[p].num \in Int
    BY <1>2, <2>1 DEF CallState, Arg, Verb, RunState
  <2> QED
    BY <2>1, <2>2 DEF RunOK, Arg
<1>4. PICK n \in Int : n >= 1 /\ array' = [array EXCEPT !.disks = n]
  BY <1>3 DEF Resize
<1> QED
  BY <1>2, <1>4 DEF ArrayOK, ArrayType

LEMMA WriteBitmapKeeps ==
  ASSUME RunsOK, ArrayOK, NEW p \in Procs, WriteBitmap(p)
  PROVE  RunsOK' /\ ArrayOK'
<1>1. Calls(p, {"bitmap/chunksize", "bitmap/location"}) /\ Advance(p)
  BY DEF WriteBitmap
<1>2. RunsOK' /\ Head(run[p].todo) \in CallState
  BY <1>1, CallReady, AdvanceKeeps
<1>3. CASE Verb(p) = "bitmap/chunksize"
  <2>1. PICK n \in BitmapChunks : array' = [array EXCEPT !.bitmap.chunk = n]
    BY <1>2, <1>3 DEF WriteBitmap, CallState, Arg, Verb
  <2> QED
    BY <1>2, <2>1 DEF ArrayOK, ArrayType
<1>4. CASE Verb(p) = "bitmap/location"
  <2>1. PICK t \in Text : array' = [array EXCEPT !.bitmap.loc = t]
    BY <1>2, <1>4 DEF WriteBitmap, CallState, Arg, Verb
  <2> QED
    BY <1>2, <2>1 DEF ArrayOK, ArrayType
<1> QED
  BY <1>1, <1>3, <1>4, CallReady

LEMMA TriggerKeeps ==
  ASSUME RunsOK, ArrayOK, NEW p \in Procs, Trigger(p)
  PROVE  RunsOK' /\ ArrayOK'
<1>1. Calls(p, Triggers) /\ Advance(p)
  BY DEF Trigger
<1>2. RunsOK' /\ Head(run[p].todo) \in CallState
  BY <1>1, CallReady, AdvanceKeeps
<1> QED
  BY <1>2 DEF Trigger, ArrayOK

-----------------------------------------------------------------------------
(* The invariant. *)

LEMMA InitIInv == Init => IInv
<1> SUFFICES ASSUME Init PROVE IInv
  OBVIOUS
<1>1. array \in ArrayType
  <2>1. "none" \in Text /\ 64 \in BitmapChunks
    BY DEF Text, BitmapChunks
  <2>2. /\ array \in [state : Words, role : [Disks -> {"out", "spare", "sync"}],
                      disks : 1 .. MaxDisks, attr : {[a \in Attrs |-> 0]},
                      bitmap : {[loc |-> "none", chunk |-> 64]}]
        /\ Words \subseteq ArrayState
        /\ {"out", "spare", "sync"} \subseteq Roles
    BY DEF Init, Roles
  <2>3. /\ array.state \in ArrayState /\ array.role \in [Disks -> Roles]
        /\ array.disks \in Int /\ array.attr \in [Attrs -> Nat]
    BY <2>2
  <2>4. array.bitmap \in [loc : Text, chunk : BitmapChunks]
    <3>1. array.bitmap = [loc |-> "none", chunk |-> 64]
      BY <2>2
    <3> QED
      BY <2>1, <3>1
  <2>5. array = [state |-> array.state, role |-> array.role, disks |-> array.disks,
                 attr |-> array.attr, bitmap |-> array.bitmap]
    BY <2>2
  <2> QED
    BY <2>3, <2>4, <2>5 DEF ArrayType
<1>2. array.disks >= 1
  <2>1. array.disks \in 1 .. MaxDisks
    BY DEF Init
  <2> QED
    BY <2>1
<1>3. Fresh \in RunState /\ RunOK(Fresh) /\ Fresh.met = {}
  BY EmptySeq DEF Fresh, RunState, RunOK, Places
<1> QED
  BY <1>1, <1>2, <1>3 DEF Init, IInv, RunsOK, ArrayOK

LEMMA OpenKeeps ==
  ASSUME RunsOK, NEW p \in Procs, Open(p)
  PROVE  RunsOK' /\ UNCHANGED array
BY StopOpenKeeps, ManageOpenKeeps, ScrubOpenKeeps, AddSpareOpenKeeps,
   RemoveSpareOpenKeeps, ActivateSpareOpenKeeps, AddBitmapOpenKeeps,
   RemoveBitmapOpenKeeps, ClearBitmapOpenKeeps, ReshapeOpenKeeps
   DEF Open

LEMMA CommandKeeps ==
  ASSUME IInv, NEW p \in Procs, Command(p)
  PROVE  IInv'
<1>1. RunsOK /\ ArrayOK
  BY DEF IInv
<1>2. CASE Open(p)
  BY <1>1, <1>2, OpenKeeps DEF IInv, ArrayOK
<1>3. CASE Answer(p)
  BY <1>1, <1>3, AnswerKeeps DEF IInv, ArrayOK
<1>4. CASE Fails(p)
  <2>1. /\ End(p, "err") /\ run[p].pc \in {"open", "prompt", "calls"}
        /\ "err" \in Ends /\ "err" # "prompt"
    BY <1>4 DEF Fails, Ends
  <2>2. RunsOK'
    BY <1>1, <2>1, EndKeeps
  <2> QED
    BY <1>1, <2>1, <2>2 DEF IInv, ArrayOK, End
<1>5. CASE HotDisk(p) \/ StopArray(p) \/ WriteAttr(p) \/ Count(p)
  BY <1>1, <1>5, HotDiskKeeps, StopArrayKeeps, WriteAttrKeeps, CountKeeps DEF IInv
<1>6. CASE Resize(p) \/ WriteBitmap(p) \/ Trigger(p)
  BY <1>1, <1>6, ResizeKeeps, WriteBitmapKeeps, TriggerKeeps DEF IInv
<1> QED
  BY <1>2, <1>3, <1>4, <1>5, <1>6 DEF Command, Step

(* What the kernel does by itself.                                         *)
LEMMA KernelKeeps ==
  ASSUME IInv,
         Settle \/ \E d \in Disks : DiskFails(d) \/ Recover(d)
  PROVE  IInv'
<1>1. RunsOK /\ array \in ArrayType /\ array.disks >= 1
  BY DEF IInv, ArrayOK
<1>2. UNCHANGED run
  BY DEF Settle, DiskFails, Recover
<1>3. RunsOK'
  BY <1>1, <1>2 DEF RunsOK
<1>4. CASE Settle
  <2>1. PICK w \in ArrayState : array' = [array EXCEPT !.state = w]
    BY <1>4 DEF Settle
  <2> QED
    BY <1>1, <1>3, <2>1 DEF IInv, ArrayOK, ArrayType
<1>5. ASSUME NEW d \in Disks, DiskFails(d) \/ Recover(d)
      PROVE  IInv'
  <2>1. PICK role \in Roles : array' = [array EXCEPT !.role[d] = role]
    BY <1>5 DEF DiskFails, Recover, Roles
  <2> QED
    BY <1>1, <1>3, <2>1 DEF IInv, ArrayOK, ArrayType
<1> QED
  BY <1>4, <1>5

LEMMA NextIInv == IInv /\ [Next]_vars => IInv'
<1> SUFFICES ASSUME IInv, [Next]_vars PROVE IInv'
  OBVIOUS
<1>1. CASE UNCHANGED vars
  BY <1>1 DEF vars, IInv, RunsOK, ArrayOK
<1>2. ASSUME NEW p \in Procs, Command(p) PROVE IInv'
  BY <1>2, CommandKeeps
<1>3. ASSUME NEW p \in Procs, NEW r \in Requests, Begin(p, r) PROVE IInv'
  BY <1>3, BeginKeeps DEF IInv, ArrayOK
<1>4. CASE Settle \/ \E d \in Disks : DiskFails(d) \/ Recover(d)
  BY <1>4, KernelKeeps
<1> QED
  BY <1>1, <1>2, <1>3, <1>4 DEF Next

(* IInv holds in every behaviour.                                          *)
THEOREM Inductive == Spec => []IInv
<1>1. Init => IInv
  BY InitIInv
<1>2. IInv /\ [Next]_vars => IInv'
  BY NextIInv
<1> QED
  BY <1>1, <1>2, PTL DEF Spec

(* Every variable keeps its range; an invocation makes calls as long as it *)
(* has some left, and has a request from its begin on.                     *)
THEOREM TypeCorrect == Spec => []TypeOK
<1>1. IInv => TypeOK
  <2> SUFFICES ASSUME IInv PROVE TypeOK
    OBVIOUS
  <2>1. array \in ArrayType
    BY DEF IInv, ArrayOK
  <2>2. /\ array.state \in ArrayState /\ array.role \in [Disks -> Roles]
        /\ array.disks \in Int /\ array.attr \in [Attrs -> Nat]
        /\ array.bitmap.chunk \in Nat
    BY <2>1 DEF ArrayType, BitmapChunks
  <2>3. ASSUME NEW p \in Procs
        PROVE  /\ run[p].pc \in Places /\ run[p].num \in Int
               /\ run[p].met \subseteq Procs \ {p}
               /\ run[p].pc = "calls" <=> run[p].todo # <<>>
               /\ run[p].pc = "fresh" <=> run[p].req = None
    <3>1. run[p] \in RunState /\ RunOK(run[p]) /\ p \notin run[p].met
      BY DEF IInv, RunsOK
    <3> QED
      BY <3>1 DEF RunState, RunOK
  <2> QED
    BY <2>2, <2>3 DEF TypeOK
<1> QED
  BY <1>1, Inductive, PTL

(* Whatever commands set it, and in whatever order, the chunk size of the  *)
(* bitmap is one that add_bitmap accepts.                                  *)
THEOREM ChunkValid == Spec => []BitmapChunkValid
<1>1. IInv => BitmapChunkValid
  BY DEF IInv, ArrayOK, ArrayType, BitmapChunkValid
<1> QED
  BY <1>1, Inductive, PTL

(* Grows and shrinks that overlap anyhow leave the array a disk.           *)
THEOREM NotEmptied == Spec => []NeverEmptied
<1>1. IInv => NeverEmptied
  BY DEF IInv, ArrayOK, NeverEmptied
<1> QED
  BY <1>1, Inductive, PTL

(* A dry run makes no call, but for the two commands that do not know the  *)
(* option.                                                                 *)
THEOREM DryRuns == Spec => []DryRunCallsNothing
<1>1. IInv => DryRunCallsNothing
  BY DEF IInv, RunsOK, RunOK, DryRunCallsNothing
<1> QED
  BY <1>1, Inductive, PTL
=============================================================================
