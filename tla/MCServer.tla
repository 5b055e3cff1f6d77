------------------------------ MODULE MCServer ------------------------------
(***************************************************************************)
(* The components of the server that share no state, in one run: the       *)
(* initial state chooses which of them is at work.  The others are Off,    *)
(* except those that are extended, which then stay as they were at first.  *)
(***************************************************************************)
EXTENDS MCUploadTokens, MCFeed, AuthLimit, AccessRequests, NewSenders, SignIn

CONSTANT Components   \* those to check

VARIABLES
  component,
  file, lines_written, torn, log_controls, log_data, log_loads, l_steps, walk, log_mixed

Off == "off"

(* Logins: three guesses at alice from one address, one from another, two  *)
(* guesses at bob; one entry kept.                                         *)
FiveLogins == 1..5
TwoIps == [g \in FiveLogins |-> IF g = 5 THEN "ip2" ELSE "ip1"]
TwoVictims == [g \in FiveLogins |-> IF g \in {1, 2, 5} THEN "alice" ELSE "bob"]
FewFails == [ip |-> 2, user |-> 3]

(* Posts of one address and of another, two approvals of one of them.      *)
ThreePosts == {"p1", "p2", "p3"}
TwoApprovals == {"a1", "a2"}
OneRejection == {"r1"}
TwoKeys == [p \in ThreePosts |-> IF p = "p3" THEN "b" ELSE "a"]
FirstPost == [d \in TwoApprovals \cup OneRejection |-> "p1"]

(* Four lines of different lengths, half of which a window holds.          *)
Log == INSTANCE ErrorLog WITH
  Length <- <<1, 2, 3, 2>>, StatusCode <- <<404, 503, -1, 500>>,
  Window <- 6, PageSize <- 1, AtFirst <- 2, Statuses <- {"all", "5xx"},
  MaxLoads <- 2, MaxSteps <- 3
LogVars ==
  <<file, lines_written, torn, log_controls, log_data, log_loads, l_steps, walk, log_mixed>>
LogOff ==
  /\ file = Off /\ lines_written = Off /\ torn = Off /\ log_controls = Off /\ log_data = Off
  /\ log_loads = Off /\ l_steps = Off /\ walk = Off /\ log_mixed = Off

(* Two tabs of a browser in which two people sign in. *)
TwoTabs == {"t1", "t2"}
TwoUsers == {"alice", "bob"}

(* Two names, new for one day; two days, in which accounts come and go.    *)
TwoNames == {"a", "b"}

ServerInit ==
  /\ component \in Components
  /\ Init
  /\ FInit /\ LInit /\ RInit /\ NInit /\ SInit
  /\ IF component = "log" THEN Log!LInit ELSE LogOff

(* A prerequest only reads: the two uploads, and one of them beside the    *)
(* prerequest, are looked at separately.                                   *)
ServerNext ==
  /\ UNCHANGED component
  /\ CASE component = "tokens" -> Next /\ \A q \in Prerequests : pc'[q] = "idle"
       [] component = "asking" -> Next /\ \E u \in Uploads : pc'[u] = "idle"
       [] OTHER -> UNCHANGED vars
  /\ IF component = "feed" THEN FNext ELSE UNCHANGED feed_vars
  /\ IF component = "access" THEN RNext ELSE UNCHANGED rvars
  /\ IF component = "limit" THEN LNext ELSE UNCHANGED lvars
  /\ IF component = "log" THEN Log!LNext ELSE UNCHANGED LogVars
  /\ IF component = "signin" THEN SNext ELSE UNCHANGED svars
  /\ IF component = "senders" THEN NNext ELSE UNCHANGED nvars

(* Uploads of one value are alike, and views of one upload. *)
ServerSymmetry == MCSymmetry \cup Alike

serverVars ==
  <<component, vars, feed_vars, rvars, nvars, svars, lvars, LogVars>>

ServerSpec == ServerInit /\ [][ServerNext]_serverVars

-----------------------------------------------------------------------------
(* Properties: those of the components are checked as they stand, and the  *)
(* one of the log when it is at work.                                      *)

(* The admin's window into the error log, its pages and their controls.    *)
LogsTrue == component = "log" => Log!LogsTrue
=============================================================================
