----------------------------- MODULE EmailCodes -----------------------------
(***************************************************************************)
(* Email verification codes (emailcodes.ts).  code_send works under the    *)
(* keys of its subject and its address (module AccountLock); code_check    *)
(* holds no key of its own, so guesses run beside each other and beside a  *)
(* new code.  Each query is one step; it may fail, with its effect or      *)
(* without, and the process may die between two of them.                   *)
(***************************************************************************)
EXTENDS AccountLock

CONSTANTS
  Sends, Checks,       \* calls of code_send and of code_check; a send names its code
  Subject, Address,    \* of each call
  MaxAttempts,         \* EMAIL_CODE_MAX_ATTEMPTS
  Ttl,                 \* EMAIL_CODE_TTL_MINUTES, in ticks
  Cooldown, Hour, Day, \* the windows, in ticks
  PerSubjectHour, PerSubjectDay, PerAddressDay,
  MaxNow,              \* bound: ticks
  MaxFaults            \* bound: failing queries and crashes

ASSUME CodesAssumption ==
  /\ Callers = Sends \cup Checks /\ Sends \cap Checks = {}
  /\ {MaxAttempts, Ttl, Cooldown, Hour, Day} \subseteq Nat \ {0}
  /\ {PerSubjectHour, PerSubjectDay, PerAddressDay, MaxNow, MaxFaults} \subseteq Nat

(* The innermost lock of a send is its own: its address's key, which sorts *)
(* before its subject's.                                                   *)
OwnKeys(c) == Wants[c][Len(Wants[c])]
AddressKey(c) == Least(OwnKeys(c))
SubjectKeys(c) == OwnKeys(c) \ {AddressKey(c)}

ASSUME OwnKeysAssumption == \A c \in Sends :
  /\ Wants[c] # <<>> /\ SubjectKeys(c) # {}
  /\ \A d \in Sends : /\ Address[c] = Address[d] => AddressKey(c) = AddressKey(d)
                      /\ Subject[c] = Subject[d] => SubjectKeys(c) = SubjectKeys(d)

VARIABLES
  codes,     \* the collection, by the call that made the code
  call,      \* per call: where it is suspended, its `now` (the time of the call, not
             \* of a query), and the code a check found
  now,       \* the clock
  faults,    \* faults left
  accepted   \* history: pairs of a check answered ok and its code

vars == <<lockvars, codes, call, now, faults, accepted>>

Called == [at |-> "called", now |-> 0, live |-> Nobody]
Returned == [Called EXCEPT !.at = "returned"]

Goto(c, place) == call' = [call EXCEPT ![c].at = place] /\ UNCHANGED lockvars
Return(c) ==
  /\ call' = [call EXCEPT ![c] = Returned] /\ over' = over \cup {c}
  /\ UNCHANGED <<pending, previous, resolved, held, waiting>>

(* A write with this effect: it is answered, or it throws.                 *)
Write(c, effect, answered) ==
  \/ effect /\ answered /\ UNCHANGED faults
  \/ /\ faults > 0 /\ faults' = faults - 1 /\ Return(c)
     /\ effect \/ UNCHANGED codes

CodesOfSubject(c) == {s \in DOMAIN codes : Subject[s] = Subject[c]}
CodesOfAddress(c) == {s \in DOMAIN codes : Address[s] = Address[c]}
Since(some, t, window) == {s \in some : codes[s].created + window > t}

Init ==
  /\ LockInit
  /\ codes = <<>> /\ accepted = {} /\ now = 0 /\ faults = MaxFaults
  /\ call = [c \in Callers |-> Called]

-----------------------------------------------------------------------------
(* The lock, as these calls use it.                                        *)

(* code_send takes its time before it queues for its own two keys, which   *)
(* are the last ones of the call.                                          *)
QueueCall(c) ==
  /\ Queue(c)
  /\ call' = IF c \in Sends /\ NextLock(c) = Len(Wants[c])
             THEN [call EXCEPT ![c].now = now] ELSE call
  /\ UNCHANGED <<codes, now, faults, accepted>>

GrantCall(c) == Granted(c) /\ UNCHANGED <<codes, call, now, faults, accepted>>
UnlockCall(c) == Unlock(c) /\ UNCHANGED <<codes, call, now, faults, accepted>>

-----------------------------------------------------------------------------
(* code_send_locked.                                                       *)

(* Mutant of SubjectPaced: the cooldown and the daily limit alone. *)
SubjectDaily(c) ==
  /\ Since(CodesOfSubject(c), call[c].now, Cooldown) = {}
  /\ Cardinality(Since(CodesOfSubject(c), call[c].now, Day)) < PerSubjectDay

SubjectPaced(c) ==
  /\ Since(CodesOfSubject(c), call[c].now, Cooldown) = {}
  /\ Cardinality(Since(CodesOfSubject(c), call[c].now, Hour)) < PerSubjectHour
  /\ Cardinality(Since(CodesOfSubject(c), call[c].now, Day)) < PerSubjectDay

ReadSubject(c) ==
  /\ c \in Sends /\ Working(c) /\ call[c].at = "called"
  /\ IF SubjectPaced(c) THEN Goto(c, "address") ELSE Return(c)
  /\ UNCHANGED <<codes, now, faults, accepted>>

ReadAddress(c) ==
  /\ call[c].at = "address"
  /\ IF Cardinality(Since(CodesOfAddress(c), call[c].now, Day)) < PerAddressDay
     THEN Goto(c, "invalidating") ELSE Return(c)
  /\ UNCHANGED <<codes, now, faults, accepted>>

(* updateMany: the earlier codes of the subject are used. *)
Invalidate(c) ==
  /\ call[c].at = "invalidating"
  /\ Write(c, codes' = [s \in DOMAIN codes |->
                 IF s \in CodesOfSubject(c) THEN [codes[s] EXCEPT !.used = TRUE] ELSE codes[s]],
           Goto(c, "inserting"))
  /\ UNCHANGED <<now, accepted>>

(* insertOne; then the mail, during which the keys are still held. *)
InsertCode(c) ==
  /\ call[c].at = "inserting"
  /\ Write(c, codes' = [s \in DOMAIN codes \cup {c} |->
                 IF s = c THEN [created |-> call[c].now, attempts |-> 0, used |-> FALSE] ELSE codes[s]],
           Return(c))
  /\ UNCHANGED <<now, accepted>>

-----------------------------------------------------------------------------
(* code_check.                                                             *)

Expired(s, t) == codes[s].created + Ttl =< t

(* The latest unused code of the subject and the address, or an answer. *)
FindLive(c) ==
  LET candidates == {s \in CodesOfSubject(c) \cap CodesOfAddress(c) : ~codes[s].used}
  IN
  /\ c \in Checks /\ Working(c) /\ call[c].at = "called"
  /\ \/ candidates = {} /\ Return(c)
     \/ \E s \in candidates :
          /\ \A other \in candidates : codes[other].created =< codes[s].created
          /\ IF Expired(s, now) \/ codes[s].attempts >= MaxAttempts THEN Return(c)
             ELSE /\ call' = [call EXCEPT ![c] = [at |-> "spending", now |-> now, live |-> s]]
                  /\ UNCHANGED lockvars
  /\ UNCHANGED <<codes, now, faults, accepted>>

(* Mutant of Spendable: the attempts are trusted as they were read. *)
SpendableAsRead(c) == ~codes[call[c].live].used /\ ~Expired(call[c].live, call[c].now)

(* The filter of findOneAndUpdate. *)
Spendable(c) ==
  /\ ~codes[call[c].live].used /\ ~Expired(call[c].live, call[c].now)
  /\ codes[call[c].live].attempts < MaxAttempts

(* An attempt is spent, then the guess is compared: it matches or not.     *)
Spend(c) ==
  /\ call[c].at = "spending"
  /\ IF Spendable(c)
     THEN Write(c, codes' = [codes EXCEPT ![call[c].live].attempts = @ + 1],
                \/ Goto(c, "claiming")
                \/ IF codes[call[c].live].attempts + 1 >= MaxAttempts
                   THEN Goto(c, "burning") ELSE Return(c))
     ELSE Return(c) /\ UNCHANGED <<codes, faults>>
  /\ UNCHANGED <<now, accepted>>

(* Mutant of Claimable: the filter names only the code. *)
ClaimableAnyway(c) == call[c].live \in DOMAIN codes

(* The filter of the update that consumes a match. *)
Claimable(c) == ~codes[call[c].live].used

Claim(c) ==
  /\ call[c].at = "claiming"
  /\ IF Claimable(c)
     THEN /\ Write(c, codes' = [codes EXCEPT ![call[c].live].used = TRUE], Return(c))
          /\ accepted' = IF faults' = faults THEN accepted \cup {<<c, call[c].live>>} ELSE accepted
     ELSE Return(c) /\ UNCHANGED <<codes, faults, accepted>>
  /\ UNCHANGED now

Burn(c) ==
  /\ call[c].at = "burning"
  /\ Write(c, codes' = [codes EXCEPT ![call[c].live].used = TRUE], Return(c))
  /\ UNCHANGED <<now, accepted>>

-----------------------------------------------------------------------------
Tick ==
  /\ now < MaxNow /\ now' = now + 1
  /\ UNCHANGED <<lockvars, codes, call, faults, accepted>>

Begun == {c \in Callers : c \in waiting \/ held[c] # {} \/ call[c].at # "called"}

Crash ==
  /\ faults > 0 /\ faults' = faults - 1
  /\ LockLost(Begun)
  /\ call' = [c \in Callers |-> IF c \in Begun THEN Returned ELSE call[c]]
  /\ UNCHANGED <<codes, now, accepted>>

CallStep(c) ==
  \/ QueueCall(c) \/ GrantCall(c) \/ UnlockCall(c)
  \/ ReadSubject(c) \/ ReadAddress(c) \/ Invalidate(c) \/ InsertCode(c)
  \/ FindLive(c) \/ Spend(c) \/ Claim(c) \/ Burn(c)

Next == (\E c \in Callers : CallStep(c)) \/ Tick \/ Crash

Spec == Init /\ [][Next]_vars

(* Queries and mails are answered or time out, and some call goes on.  The *)
(* calls are finitely many and none repeats a step, so this is enough.     *)
FairSpec == Spec /\ WF_vars(\E c \in Callers : CallStep(c))

-----------------------------------------------------------------------------
(* Properties.                                                             *)

(* "Parallel guesses cannot bypass the budget": a code is compared at most *)
(* MaxAttempts times, and a subject has at most one code that can still be *)
(* used, also when a send fails or dies between its two writes.            *)
BudgetKept ==
  /\ \A s \in DOMAIN codes : codes[s].attempts =< MaxAttempts
  /\ \A s, t \in DOMAIN codes :
       Subject[s] = Subject[t] /\ ~codes[s].used /\ ~codes[t].used => s = t

(* "or reuse a match": of the guesses that matched a code one at most is   *)
(* answered ok, and that one uses up a code that was still unused: no      *)
(* wrong guess has burned it meanwhile, and no newer code of its subject   *)
(* has replaced it.                                                        *)
SingleUse ==
  [][\A c \in Checks, s \in Sends :
       <<c, s>> \in accepted' \ accepted =>
         /\ \A d \in Checks : <<d, s>> \notin accepted
         /\ ~codes[s].used /\ codes'[s].used
         /\ \A newer \in CodesOfSubject(c) : codes[newer].created =< codes[s].created
         /\ Subject[s] = Subject[c] /\ Address[s] = Address[c]]_vars

Until(some, s, window) ==
  Cardinality({r \in Since(some, codes[s].created, window) : codes[r].created =< codes[s].created})

(* However sends overlap, from however many subjects, an address gets at   *)
(* most PerAddressDay codes in any day and a subject at most its hourly    *)
(* and daily number, no two of them within the cooldown.                   *)
SendsLimited ==
  \A s \in DOMAIN codes :
    /\ Until(CodesOfAddress(s), s, Day) =< PerAddressDay
    /\ Until(CodesOfSubject(s), s, Day) =< PerSubjectDay
    /\ Until(CodesOfSubject(s), s, Hour) =< PerSubjectHour
    /\ Until(CodesOfSubject(s), s, Cooldown) = 1
=============================================================================
