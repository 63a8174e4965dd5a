----------------------------- MODULE FixedWindow -----------------------------
(***************************************************************************)
(* What api/rate_limit.rs promises a client: its first request opens a     *)
(* window of Window ticks; MaxRequests requests are admitted in a window, and a    *)
(* request is refused only when the open window is used up.  There is no   *)
(* table of clients here, no lazy reset and no cleanup task.               *)
(***************************************************************************)
EXTENDS Integers

CONSTANTS Keys, MaxRequests, Window

VARIABLES
  used,    \* used[k]: requests of k admitted in its open window
  left,    \* left[k]: ticks until that window closes, 0 when none is open
  answer   \* answer[k]: what k was last told

fvars == <<used, left, answer>>

Init ==
  /\ used = [k \in Keys |-> 0]
  /\ left = [k \in Keys |-> 0]
  /\ answer = [k \in Keys |-> "none"]

Admit(k) ==
  /\ used[k] < MaxRequests
  /\ used' = [used EXCEPT ![k] = @ + 1]
  /\ left' = [left EXCEPT ![k] = IF @ = 0 THEN Window ELSE @]
  /\ answer' = [answer EXCEPT ![k] = "ok"]

Refuse(k) ==
  /\ used[k] = MaxRequests
  /\ answer' = [answer EXCEPT ![k] = "limited"]
  /\ UNCHANGED <<used, left>>

Tick ==
  /\ left' = [k \in Keys |-> IF left[k] = 0 THEN 0 ELSE left[k] - 1]
  /\ used' = [k \in Keys |-> IF left[k] <= 1 THEN 0 ELSE used[k]]
  /\ UNCHANGED answer

Next == Tick \/ \E k \in Keys : Admit(k) \/ Refuse(k)

Spec == Init /\ [][Next]_fvars
=============================================================================
