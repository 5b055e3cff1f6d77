---------------------------- MODULE AccountLock -----------------------------
(***************************************************************************)
(* account_lock (accountLock.ts): a map from keys to the promise of the    *)
(* last call that queued for them.  A call queues for its keys one after   *)
(* the other, in sorted order, and awaits each promise it found; when its  *)
(* work ends, well or badly, it resolves its own ones.  Locks nest:        *)
(* me_email_send holds its account's key around code_send.                 *)
(*                                                                         *)
(* A call stands for the promises it makes: each call happens once.        *)
(***************************************************************************)
EXTENDS Naturals, Sequences, FiniteSets

CONSTANTS
  Callers,  \* calls
  Keys,     \* keys, as numbers in their sorted order
  Wants     \* the sets of keys a call locks, outermost first

Nobody == "nobody"

ASSUME LockAssumption ==
  /\ Keys \subseteq Nat /\ IsFiniteSet(Keys) /\ Nobody \notin Callers
  /\ Wants \in [Callers -> Seq(SUBSET Keys)]

(* Nested locks name other kinds of key: account: outside, code-address:   *)
(* and code-subject: inside.  A call that wanted one of its own keys again *)
(* would wait for itself.                                                  *)
ASSUME NestingAssumption ==
  \A c \in Callers : \A i, j \in DOMAIN Wants[c] :
    i # j => Wants[c][i] \cap Wants[c][j] = {}

VARIABLES
  pending,   \* per key: the call whose promise the map holds
  previous,  \* per call: the call whose promise it awaits, if any
  resolved,  \* promises resolved and still awaited, as pairs of a call and a key
  held,      \* per call: the keys it holds
  waiting,   \* calls that await a promise
  over       \* calls whose work has ended

lockvars == <<pending, previous, resolved, held, waiting, over>>

LockInit ==
  /\ pending = [k \in Keys |-> Nobody]
  /\ previous = [c \in Callers |-> Nobody]
  /\ resolved = {} /\ waiting = {} /\ over = {}
  /\ held = [c \in Callers |-> {}]

Least(S) == CHOOSE k \in S : \A j \in S : k =< j

(* The nested locks a call has not got all keys of, outermost first, and   *)
(* the keys of one by [...new Set(keys)].sort().                           *)
Missing(c) == {i \in DOMAIN Wants[c] : ~(Wants[c][i] \subseteq held[c])}
NextLock(c) == Least(Missing(c))
Rest(c) == Wants[c][NextLock(c)] \ held[c]
NextKey(c) == Least(Rest(c))

Working(c) == c \notin over /\ c \notin waiting /\ Missing(c) = {}
Innermost(c) ==
  {k \in held[c] : \E i \in DOMAIN Wants[c] :
     /\ k \in Wants[c][i]
     /\ \A j \in DOMAIN Wants[c] : j > i => Wants[c][j] \cap held[c] = {}}

(* pending.set(key, next): the call takes its place behind what it finds.  *)
Enter(c, key) ==
  /\ previous' = [previous EXCEPT ![c] = pending[key]]
  /\ pending' = [pending EXCEPT ![key] = c]
  /\ waiting' = waiting \cup {c}

(* The call of account_lock, for the first of its keys. *)
Queue(c) ==
  /\ c \notin over /\ c \notin waiting /\ Missing(c) # {}
  /\ Enter(c, NextKey(c))
  /\ UNCHANGED <<resolved, held, over>>

(* await previous; the place for the next key is taken in the same turn of *)
(* the event loop.                                                         *)
Granted(c) ==
  /\ c \in waiting
  /\ previous[c] = Nobody \/ <<previous[c], NextKey(c)>> \in resolved
  /\ held' = [held EXCEPT ![c] = @ \cup {NextKey(c)}]
  /\ IF Rest(c) # {NextKey(c)}
     THEN Enter(c, Least(Rest(c) \ {NextKey(c)}))
     ELSE /\ waiting' = waiting \ {c} /\ previous' = [previous EXCEPT ![c] = Nobody]
          /\ UNCHANGED pending
  /\ resolved' = resolved \ {<<previous[c], NextKey(c)>>}
  /\ UNCHANGED over

Awaited(c) == {<<c, NextKey(d)>> : d \in {e \in waiting : previous[e] = c}}

(* Mutant of Unlock: the map's entry goes although a later call is queued. *)
UnlockForgetting(c) ==
  /\ c \in over /\ held[c] # {}
  /\ pending' = [k \in Keys |-> IF k \in Innermost(c) THEN Nobody ELSE pending[k]]
  /\ resolved' = resolved \cup (Awaited(c) \cap ({c} \X Innermost(c)))
  /\ held' = [held EXCEPT ![c] = @ \ Innermost(c)]
  /\ UNCHANGED <<previous, waiting, over>>

(* Mutant of Unlock: the promise is resolved only with the map's entry. *)
UnlockLastOnly(c) ==
  /\ c \in over /\ held[c] # {}
  /\ pending' = [k \in Keys |-> IF k \in Innermost(c) /\ pending[k] = c THEN Nobody ELSE pending[k]]
  /\ resolved' = resolved \cup (Awaited(c) \cap ({c} \X {k \in Innermost(c) : pending[k] = c}))
  /\ held' = [held EXCEPT ![c] = @ \ Innermost(c)]
  /\ UNCHANGED <<previous, waiting, over>>

(* finally: the releases of one lock run in one turn. *)
Unlock(c) ==
  /\ c \in over /\ held[c] # {}
  /\ pending' = [k \in Keys |-> IF k \in Innermost(c) /\ pending[k] = c THEN Nobody ELSE pending[k]]
  /\ resolved' = resolved \cup (Awaited(c) \cap ({c} \X Innermost(c)))
  /\ held' = [held EXCEPT ![c] = @ \ Innermost(c)]
  /\ UNCHANGED <<previous, waiting, over>>

(* The process dies: the map is gone, and with it every call in it. *)
LockLost(begun) ==
  /\ pending' = [k \in Keys |-> Nobody]
  /\ held' = [c \in Callers |-> {}] /\ waiting' = {} /\ over' = over \cup begun
  /\ previous' = [c \in Callers |-> Nobody] /\ resolved' = {}

Abstract == INSTANCE KeyedLock WITH
  holders <- [k \in Keys |-> {c \in Callers : k \in held[c]}]

-----------------------------------------------------------------------------
(* Properties.                                                             *)

(* The promise chain is a lock: while one call holds a key no other does,  *)
(* however calls queue, nest, fail and leave.                              *)
LockImplemented == Abstract!LSpec

(* Nobody waits for ever: keys are taken in one order, and a call that     *)
(* throws gives them back as well.  Once every call has been made and      *)
(* served, nobody waits.                                                   *)
NobodyStarves == <>[](waiting = {})
=============================================================================
