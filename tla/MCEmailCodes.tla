---------------------------- MODULE MCEmailCodes ----------------------------
(***************************************************************************)
(* Two instances of EmailCodes for TLC.  A new invite's address is asked   *)
(* for twice; beside that either a user asks for a code to the same        *)
(* address, and there is one guess, or there are three guesses.            *)
(***************************************************************************)
EXTENDS EmailCodes

VARIABLE present  \* the callers of the instance

MCSends == {"invite1", "invite2", "user1"}
MCChecks == {"guess1", "guess2", "guess3"}
OfUser == {"user1"}

MCSubject == [c \in MCSends \cup MCChecks |-> IF c \in OfUser THEN "user" ELSE "invite"]
MCAddress == [c \in MCSends \cup MCChecks |-> "k@example.org"]

(* Keys in the order of their names: account:, code-address:, then the     *)
(* subjects code-subject:invite: and code-subject:user:.                   *)
MCWants == [c \in MCSends \cup MCChecks |->
  CASE c = "user1" -> <<{1}, {2, 4}>>
    [] c \in {"invite1", "invite2"} -> <<{2, 3}>>
    [] OTHER -> <<>>]

MCInit == Init /\ present \in {MCSends \cup {"guess1"}, (MCSends \ OfUser) \cup MCChecks}

PresentStep == (\E c \in present : CallStep(c)) /\ UNCHANGED present

MCNext ==
  \/ PresentStep
  \/ (Tick \/ Crash) /\ UNCHANGED present

(* FairSpec, of the callers that are present. *)
MCSpec ==
  MCInit /\ [][MCNext]_<<vars, present>> /\ WF_<<vars, present>>(PresentStep)
=============================================================================
