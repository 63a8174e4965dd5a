----------------------------- MODULE RateLimiter -----------------------------
(***************************************************************************)
(* src/api/rate_limit.rs: the table of clients behind the outermost layer  *)
(* of the API, with lazily reset fixed windows and a background task that  *)
(* throws old entries away.                                                *)
(*                                                                         *)
(* check_rate_limit and the cleanup both hold the write lock of the table  *)
(* from start to end and read the clock inside it, so each is one action.  *)
(* Instants are kept as ages in ticks; a tick is any unit of time that     *)
(* divides the window.  Modelled with the limiter enabled (a disabled one  *)
(* answers Ok and touches nothing) and with a window of at least a tick.   *)
(***************************************************************************)
EXTENDS Integers

CONSTANTS
  Keys,          \* client addresses
  MaxRequests,   \* max_requests
  Window         \* window_duration in ticks

ASSUME RateLimiterAssumption == MaxRequests \in Nat /\ Window \in Nat \ {0}

VARIABLES
  tracker,   \* tracker[k]: the entry of k, if present, with the window's age
  due,       \* ticks until the interval of the cleanup task fires
  answer,    \* answer[k]: the result of k's last request
  recent     \* recent[k][a]: requests of k admitted at most a ticks ago

vars == <<tracker, due, answer, recent>>

-----------------------------------------------------------------------------
Entry(c, a) == [present |-> TRUE, count |-> c, age |-> a]
NoEntry == [present |-> FALSE, count |-> 0, age |-> 0]

(* mutant: an expired window restarts with its old count. *)
CurrentKeepsCount(k) ==
  IF tracker[k].present /\ tracker[k].age >= Window
    THEN Entry(tracker[k].count, 0)
    ELSE IF tracker[k].present THEN tracker[k] ELSE Entry(0, 0)

(* The entry of k after or_insert_with and the reset of an expired window. *)
Current(k) ==
  IF tracker[k].present /\ tracker[k].age < Window
    THEN tracker[k]
    ELSE Entry(0, 0)

Init ==
  /\ tracker = [k \in Keys |-> NoEntry]
  /\ due = 0
  /\ answer = [k \in Keys |-> "none"]
  /\ recent = [k \in Keys |-> [a \in 0 .. Window - 1 |-> 0]]

(* A request of k is admitted now: it counts at every age.                 *)
Counted(k) ==
  recent' = [recent EXCEPT ![k] = [a \in 0 .. Window - 1 |-> @[a] + 1]]

(* mutant: the limit is not looked at. *)
AdmitAlways(k) ==
  /\ tracker' = [tracker EXCEPT
                   ![k] = Entry(Current(k).count + 1, Current(k).age)]
  /\ answer' = [answer EXCEPT ![k] = "ok"]
  /\ Counted(k)
  /\ UNCHANGED due

(* check_rate_limit answers Ok.                                            *)
Admit(k) ==
  /\ Current(k).count < MaxRequests
  /\ tracker' = [tracker EXCEPT
                   ![k] = Entry(Current(k).count + 1, Current(k).age)]
  /\ answer' = [answer EXCEPT ![k] = "ok"]
  /\ Counted(k)
  /\ UNCHANGED due

(* mutant: a refused request starts the window anew. *)
RefuseRestarts(k) ==
  /\ Current(k).count >= MaxRequests
  /\ tracker' = [tracker EXCEPT ![k] = Entry(Current(k).count, 0)]
  /\ answer' = [answer EXCEPT ![k] = "limited"]
  /\ UNCHANGED <<due, recent>>

(* It answers 429; the entry may have been inserted or reset on the way.   *)
Refuse(k) ==
  /\ Current(k).count >= MaxRequests
  /\ tracker' = [tracker EXCEPT ![k] = Current(k)]
  /\ answer' = [answer EXCEPT ![k] = "limited"]
  /\ UNCHANGED <<due, recent>>

Request(k) == Admit(k) \/ Refuse(k)

(* mutant: nothing is retained that is a tick old. *)
CleanupEager ==
  /\ due = 0
  /\ due' = 2 * Window
  /\ tracker' = [k \in Keys |->
                   IF tracker[k].age < 1 THEN tracker[k] ELSE NoEntry]
  /\ UNCHANGED <<answer, recent>>

(* mutant: everything is retained. *)
CleanupNothing ==
  /\ due = 0
  /\ due' = 2 * Window
  /\ UNCHANGED <<tracker, answer, recent>>

(* The interval fires at once, then every 2 * Window ticks.                *)
Cleanup ==
  /\ due = 0
  /\ due' = 2 * Window
  /\ tracker' = [k \in Keys |->
                   IF tracker[k].age < 2 * Window THEN tracker[k] ELSE NoEntry]
  /\ UNCHANGED <<answer, recent>>

(* Time passes.  The runtime is taken to run the cleanup before the tick   *)
(* after the one it is due at: only TrackersExpire depends on that.        *)
Tick ==
  /\ due > 0
  /\ due' = due - 1
  /\ tracker' = [k \in Keys |->
                   IF tracker[k].present
                     THEN [tracker[k] EXCEPT !.age = @ + 1]
                     ELSE NoEntry]
  /\ recent' = [k \in Keys |-> [a \in 0 .. Window - 1 |->
                                   IF a = 0 THEN 0 ELSE recent[k][a - 1]]]
  /\ UNCHANGED answer

Next == Tick \/ Cleanup \/ \E k \in Keys : Request(k)

Spec == Init /\ [][Next]_vars

(* The clock advances, the cleanup task is scheduled, and the client k     *)
(* keeps sending requests.                                                 *)
FairSpec ==
  /\ Spec
  /\ WF_vars(Tick)
  /\ WF_vars(Cleanup)
  /\ \A k \in Keys : WF_vars(Request(k))

-----------------------------------------------------------------------------
(* Properties. *)

(* Ranges of the variables; a stored count never exceeds the limit.        *)
TypeOK ==
  /\ tracker \in [Keys -> [present : BOOLEAN, count : 0 .. MaxRequests, age : Nat]]
  /\ \A k \in Keys : ~tracker[k].present => tracker[k] = NoEntry
  /\ due \in 0 .. 2 * Window
  /\ answer \in [Keys -> {"none", "ok", "limited"}]
  /\ recent \in [Keys -> [0 .. Window - 1 -> Nat]]

(* Requests of k admitted within the last window length.                   *)
Admitted(k) == recent[k][Window - 1]

(* Fixed windows let through at most twice the limit in any stretch of one *)
(* window length (the end of one window and the start of the next), also   *)
(* when the cleanup drops and a request re-creates the entry in between.   *)
BurstBound == \A k \in Keys : Admitted(k) <= 2 * MaxRequests

(* A client would be refused only if it has itself had MaxRequests         *)
(* requests admitted within the last window length: no other client, no    *)
(* stale entry and no cleanup can exhaust its budget.                      *)
RefusalEarned ==
  \A k \in Keys : Current(k).count >= MaxRequests => Admitted(k) >= MaxRequests

(* The table does not grow with clients that went away: an entry is gone   *)
(* before its window is four windows old, however the cleanup is phased.   *)
TrackersExpire ==
  \A k \in Keys : tracker[k].present => tracker[k].age + due < 4 * Window

(* The lazy reset and the cleanup are invisible: what clients see is a     *)
(* FixedWindow.  An expired entry is a window that is not open; so is one  *)
(* that a refused request created, which only a limit of 0 allows.         *)
Live(k) == tracker[k].present /\ tracker[k].age < Window /\ tracker[k].count > 0

UsedOf(k) == IF Live(k) THEN tracker[k].count ELSE 0
LeftOf(k) == IF Live(k) THEN Window - tracker[k].age ELSE 0

Windows == INSTANCE FixedWindow WITH used <- [k \in Keys |-> UsedOf(k)],
                                     left <- [k \in Keys |-> LeftOf(k)]
IsFixedWindow == Windows!Spec

(* A refused client that keeps asking is admitted again.                   *)
EventuallyAdmitted ==
  \A k \in Keys : answer[k] = "limited" ~> answer[k] = "ok"
=============================================================================
