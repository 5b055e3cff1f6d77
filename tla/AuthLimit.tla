------------------------------ MODULE AuthLimit ------------------------------
(***************************************************************************)
(* The attempt limiter (authlimit.ts) under its most demanding user, the   *)
(* login of accounts (accountApi.ts): one limiter by IP, one by username.  *)
(*                                                                         *)
(* A login asks both limiters, then waits for the password hash, and only  *)
(* then counts a failure in both: any number of logins may pass the check  *)
(* before the first of them fails.  A right password clears the counter    *)
(* of the username and leaves the one of the IP.                           *)
(***************************************************************************)
EXTENDS Integers, FiniteSets

CONSTANTS
  Logins,       \* login posts
  IpOf, NameOf, \* the IP of each, and the username it tries
  MaxFails,     \* [ip |-> .., user |-> ..]; the code's is three times as large
  Block,        \* block_ms: how long a block lasts, and the failure window
  MaxTracked,   \* max_tracked_ips
  MaxClock      \* bound: the clock

ASSUME LimitAssumption ==
  /\ Block \in Nat /\ Block > 0
  /\ MaxFails["ip"] \in Nat /\ MaxFails["ip"] > 0

VARIABLES
  failures,  \* the map of each limiter: [fails, lastFail, blockedUntil] by key
  login,     \* "idle", "verifying", "refused", "wrong", "right"
  clock,
  counted,   \* history: failures counted, [login, when, late]
  forgotten  \* history: keys whose entry was evicted

lvars == <<failures, login, clock, counted, forgotten>>

Limiters == {"ip", "user"}
KeyOf(l, g) == IF l = "ip" THEN IpOf[g] ELSE NameOf[g]
Except(f, ks) == [k \in DOMAIN f \ ks |-> f[k]]

LInit ==
  /\ failures = [l \in Limiters |-> <<>>]
  /\ login = [g \in Logins |-> "idle"]
  /\ clock = 1 /\ counted = {} /\ forgotten = {}

block_remaining(l, k) ==
  IF k \in DOMAIN failures[l] /\ failures[l][k].blockedUntil > clock
  THEN failures[l][k].blockedUntil - clock ELSE 0

Expired(f, k) == f[k].blockedUntil =< clock /\ f[k].lastFail + Block =< clock

sweep(f) == Except(f, {k \in DOMAIN f : Expired(f, k)})

(* The entries whose last failure is oldest; which of several goes is open. *)
evict_oldest(f) ==
  {k \in DOMAIN f : \A j \in DOMAIN f : f[k].lastFail =< f[j].lastFail}

(* The map f of limiter l after a failure of k, one v of the keys that may *)
(* have been evicted for it (none when there is room).                     *)
Evictable(f, k) ==
  IF k \notin DOMAIN f /\ Cardinality(DOMAIN f) >= MaxTracked
  THEN {{v} : v \in evict_oldest(f)} ELSE {{}}

Fail(l, f, k, v) ==
  LET kept == Except(f, v)
      old == IF k \in DOMAIN kept THEN kept[k]
             ELSE [fails |-> 0, lastFail |-> 0, blockedUntil |-> 0]
      new == IF old.fails + 1 < MaxFails[l]
             THEN [old EXCEPT !.fails = @ + 1, !.lastFail = clock]
             ELSE [fails |-> 0, lastFail |-> clock, blockedUntil |-> clock + Block]
  IN [j \in DOMAIN kept \cup {k} |-> IF j = k THEN new ELSE kept[j]]

(* The two checks come before and after the body is parsed, with nothing   *)
(* to wait for in between.                                                 *)
LoginPost(g) ==
  /\ login[g] = "idle"
  /\ login' = [login EXCEPT ![g] =
       IF \E l \in Limiters : block_remaining(l, KeyOf(l, g)) > 0 THEN "refused" ELSE "verifying"]
  /\ UNCHANGED <<failures, clock, counted, forgotten>>

LoginFails(g) ==
  LET swept(l) == sweep(failures[l])
      late(l) == block_remaining(l, KeyOf(l, g)) > 0
  IN
  /\ login[g] = "verifying"
  /\ login' = [login EXCEPT ![g] = "wrong"]
  /\ \E a \in Evictable(swept("ip"), IpOf[g]), b \in Evictable(swept("user"), NameOf[g]) :
       /\ failures' = [ip |-> Fail("ip", swept("ip"), IpOf[g], a),
                       user |-> Fail("user", swept("user"), NameOf[g], b)]
       /\ forgotten' = forgotten \cup a \cup b
  /\ counted' = counted \cup {[login |-> g, when |-> clock,
                               late |-> {l \in Limiters : late(l)}]}
  /\ UNCHANGED clock

(* Mutant of Cleared: a right password clears the IP's counter as well. *)
ClearedBoth(g) ==
  [l \in Limiters |-> Except(failures[l], {KeyOf(l, g)})]

Cleared(g) == [failures EXCEPT !["user"] = Except(@, {NameOf[g]})]

LoginSucceeds(g) ==
  /\ login[g] = "verifying"
  /\ login' = [login EXCEPT ![g] = "right"]
  /\ failures' = Cleared(g)
  /\ UNCHANGED <<clock, counted, forgotten>>

LTick ==
  /\ clock < MaxClock
  /\ clock' = clock + 1
  /\ UNCHANGED <<failures, login, counted, forgotten>>

LNext ==
  \/ \E g \in Logins : LoginPost(g) \/ LoginFails(g) \/ LoginSucceeds(g)
  \/ LTick

LSpec == LInit /\ [][LNext]_lvars

-----------------------------------------------------------------------------
(* Properties.                                                             *)

(* However wrong and right passwords, waits and blocks are interleaved, an *)
(* IP gets at most MaxFails wrong answers within any Block, those not      *)
(* counted whose login was already past the check when the block began; as *)
(* long as the limiter never ran out of room for its entry.                *)
GuessesBounded ==
  \A k \in {IpOf[g] : g \in Logins} \ forgotten : \A t \in 1..clock :
    Cardinality({c \in counted : /\ IpOf[c.login] = k
                                 /\ "ip" \notin c.late
                                 /\ c.when \in (t - Block + 1)..t}) =< MaxFails["ip"]
=============================================================================
