------------------------------ MODULE MCGateway ------------------------------
(* A small instance of Gateway for TLC. *)
EXTENDS Gateway

CONSTANTS reader, admin, password, oldkey, newkey

(* The reader was given a token, and knows the key of the file, which the  *)
(* environment may replace; the other knows the new key and the password.  *)
Given1 ==
  [c \in Clients |-> IF c = reader THEN {oldkey} ELSE {newkey, password}]
Given2 ==
  [c \in Clients |->
     IF c = reader THEN {[role |-> "Operator", exp |-> 0]} ELSE {}]

Plain ==
  [disabled |-> FALSE, key |-> None, password |-> password, limited |-> TRUE,
   max |-> 1, window |-> 1, tls |-> FALSE, cert |-> FALSE]
Conf ==
  {[Plain EXCEPT !.key = oldkey],
   [Plain EXCEPT !.key = oldkey, !.max = 0],
   [Plain EXCEPT !.tls = TRUE]}
Unset ==
  [disabled |-> FALSE, key |-> None, password |-> None, unlimited |-> FALSE,
   max |-> None, window |-> None]
Env ==
  {[Unset EXCEPT !.key = newkey],
   [Unset EXCEPT !.disabled = TRUE, !.max = 1, !.window = 0]}
=============================================================================
