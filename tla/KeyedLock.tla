----------------------------- MODULE KeyedLock ------------------------------
(***************************************************************************)
(* What account_lock (accountLock.ts) promises: while one call holds a key *)
(* no other does.  A call may give back several keys in one step, and a    *)
(* restart gives back all of them.                                         *)
(***************************************************************************)
CONSTANTS Callers, Keys

VARIABLE holders   \* the calls that hold each key

Take(c, k) == holders[k] = {} /\ holders' = [holders EXCEPT ![k] = {c}]

Give(c) ==
  /\ DOMAIN holders' = Keys
  /\ \A k \in Keys : holders'[k] \in {holders[k], holders[k] \ {c}}

Free == [k \in Keys |-> {}]

LNext ==
  \/ \E c \in Callers : Give(c) \/ \E k \in Keys : Take(c, k)
  \/ holders' = Free

LSpec == holders = Free /\ [][LNext]_holders
=============================================================================
