------------------------------- MODULE ErrorLog -------------------------------
(***************************************************************************)
(* The error log (logger.ts), the window of it that is read, filtered and  *)
(* cut into pages (errorlog.ts), and the tab of the admin page that turns  *)
(* these pages (LogsView.svelte).                                          *)
(*                                                                         *)
(* The file only grows.  A line is written as its number, as often as it   *)
(* is long, and a newline; the machine may stop in the middle of one.  The *)
(* log goes on being written while the admin turns pages.                  *)
(***************************************************************************)
EXTENDS Integers, Sequences, SequencesExt, FiniteSets, FiniteSetsExt

CONSTANTS
  Length,      \* the length of each line, in the order they are written
  StatusCode,  \* the status code in each line, or None
  Window,      \* windowBytes
  PageSize,    \* pageSize
  AtFirst,     \* the number of lines there are when the tab is opened
  Statuses,    \* of "all", "4xx", "5xx", "none": the filters in use
  MaxLoads,    \* bound: loads under way at once
  MaxSteps     \* bound: what the admin does

VARIABLES
  file,        \* the bytes of the log
  lines_written, torn,  \* lines begun; whether the last one lacks its end
  log_controls,   \* the tab's [status, sort, page]
  log_data,    \* the answer shown: [items, page, totalPages, lines]
  log_loads,   \* loads under way
  l_steps,
  walk,        \* history: [base, seen], lines when page 1 was shown, shown since
  log_mixed    \* history: loads overlapped, and no first page was loaded alone since

lvars == <<file, lines_written, torn, log_controls, log_data, log_loads, l_steps, walk, log_mixed>>

None == -1
Newline == 0
Raw == 0       \* an entry that is no line: the text could not be parsed
Lines == DOMAIN Length
NoData == [items |-> <<>>, page |-> 0, totalPages |-> 0, lines |-> {}]

(***************************************************************************)
(* Writing.                                                                *)
(***************************************************************************)

Text(n) == [i \in 1..Length[n] |-> n]

Write ==
  LET n == lines_written + 1
  IN
  /\ n \in Lines
  /\ file' = file \o Text(n) \o <<Newline>>
  /\ lines_written' = n /\ torn' = FALSE
  /\ UNCHANGED <<log_controls, log_data, log_loads, l_steps, walk, log_mixed>>

(* The next line will be appended to what is there of this one. *)
Tear ==
  LET n == lines_written + 1
  IN
  /\ n \in Lines /\ Length[n] > 1
  /\ file' = file \o SubSeq(Text(n), 1, Length[n] - 1)
  /\ lines_written' = n /\ torn' = TRUE
  /\ UNCHANGED <<log_controls, log_data, log_loads, l_steps, walk, log_mixed>>

(***************************************************************************)
(* Reading.                                                                *)
(***************************************************************************)

(* What comes before the last newline, between two, and after the last.    *)
Split(text) ==
  LET ends == {i \in DOMAIN text : text[i] = Newline} \cup {Len(text) + 1}
      sorted == SetToSortSeq(ends, <)
  IN [i \in DOMAIN sorted |->
        SubSeq(text, IF i = 1 THEN 1 ELSE sorted[i - 1] + 1, sorted[i] - 1)]

start == Max({0, Len(file) - Window})

(* Mutant of readErrorLogTail: the window is read as it is. *)
ReadFragment == SubSeq(file, start + 1, Len(file))

(* A window that starts inside the file loses everything up to the first   *)
(* newline.                                                                *)
readErrorLogTail ==
  LET raw == SubSeq(file, start + 1, Len(file))
      newlines == {i \in DOMAIN raw : raw[i] = Newline}
  IN IF start = 0 THEN raw
     ELSE IF newlines = {} THEN <<>> ELSE SubSeq(raw, Min(newlines) + 1, Len(raw))

parseErrorLogLine(line) ==
  IF \E n \in Lines : line = Text(n) THEN line[1] ELSE Raw

statusBucket(entry) ==
  LET code == IF entry = Raw THEN None ELSE StatusCode[entry]
  IN CASE code = None -> "none" [] code >= 500 -> "5xx"
       [] code \in 400..499 -> "4xx" [] code \in 0..399 -> "other"

filterErrorLogEntries(entries, status) ==
  SelectSeq(entries, LAMBDA entry : status = "all" \/ statusBucket(entry) = status)

Entries(sort) ==
  LET texts == SelectSeq(Split(readErrorLogTail), LAMBDA line : line # <<>>)
      entries == [i \in DOMAIN texts |-> parseErrorLogLine(texts[i])]
  IN IF sort = "newest" THEN Reverse(entries) ELSE entries

buildErrorLogPage(query) ==
  LET matched == filterErrorLogEntries(Entries(query.sort), query.status)
      from == (query.page - 1) * PageSize
  IN [items |-> SubSeq(matched, from + 1, Min({from + PageSize, Len(matched)})),
      page |-> query.page,
      totalPages |-> (Len(matched) + PageSize - 1) \div PageSize,
      lines |-> Range(matched)]

(***************************************************************************)
(* The tab.                                                                *)
(***************************************************************************)

loadLogs(query) ==
  /\ log_loads' = log_loads \cup {[n |-> l_steps, query |-> query, answer |-> NoData]}
  /\ log_mixed' = (log_loads # {} \/ (log_mixed /\ query.page # 1))

LInit ==
  /\ lines_written = AtFirst /\ torn = FALSE
  /\ file = FoldLeft(LAMBDA text, n : text \o Text(n) \o <<Newline>>, <<>>,
                     [n \in 1..AtFirst |-> n])
  /\ log_controls = [status |-> "all", sort |-> "newest", page |-> 1]
  /\ log_data = NoData
  /\ log_loads = {[n |-> -1, query |-> log_controls, answer |-> NoData]}
  /\ l_steps = 0 /\ walk = [base |-> {}, seen |-> {}] /\ log_mixed = FALSE

Controls(new) ==
  /\ l_steps < MaxSteps /\ l_steps' = l_steps + 1
  /\ Cardinality(log_loads) < MaxLoads
  /\ log_controls' = new
  /\ loadLogs(new)
  /\ UNCHANGED <<file, lines_written, torn, log_data, walk>>

(* submitSearch and controlsChanged, at any time. *)
controlsChanged ==
  \E status \in Statuses, sort \in {"newest", "oldest"} :
    Controls([status |-> status, sort |-> sort, page |-> 1])

(* The buttons under a page that has entries, when no load is under way.   *)
goToPage(page) ==
  /\ log_loads = {} /\ log_data.items # <<>>
  /\ page \in 1..log_data.totalPages
  /\ Controls([log_controls EXCEPT !.page = page])

ServeLogs(k) ==
  /\ k.answer = NoData
  /\ log_loads' = (log_loads \ {k}) \cup {[k EXCEPT !.answer = buildErrorLogPage(k.query)]}
  /\ UNCHANGED <<file, lines_written, torn, log_controls, log_data, l_steps, walk, log_mixed>>

LogsAnswer(k) ==
  LET shown == Range(k.answer.items)
  IN
  /\ k.answer # NoData
  /\ log_loads' = log_loads \ {k}
  /\ log_data' = k.answer
  /\ walk' = IF k.query.page = 1 THEN [base |-> k.answer.lines, seen |-> shown]
             ELSE [walk EXCEPT !.seen = @ \cup shown]
  /\ UNCHANGED <<file, lines_written, torn, log_controls, l_steps, log_mixed>>

(* An error is shown above the page there was; the controls stay. *)
LogsFail(k) ==
  /\ log_loads' = log_loads \ {k}
  /\ log_mixed' = TRUE
  /\ UNCHANGED <<file, lines_written, torn, log_controls, log_data, l_steps, walk>>

LNext ==
  \/ Write \/ Tear \/ controlsChanged
  \/ \E page \in {log_controls.page - 1, log_controls.page + 1} : goToPage(page)
  \/ \E k \in log_loads : ServeLogs(k) \/ LogsAnswer(k) \/ LogsFail(k)

-----------------------------------------------------------------------------
(* Properties.                                                             *)

(* The window yields the newest lines, each once and whole: a fragment at  *)
(* its beginning is never taken for an entry, and of the lines that are    *)
(* wholly inside at most the oldest is left out.  Only a line torn by a    *)
(* stop, with the one appended to it, is an entry of no line.              *)
TailTrue ==
  LET entries == Entries("oldest")
      true == SelectSeq(entries, LAMBDA entry : entry # Raw)
      WholeFrom(from, n) == \E i \in from..Len(file) :
        /\ i + Length[n] =< Len(file) /\ SubSeq(file, i, i + Length[n] - 1) = Text(n)
        /\ file[i + Length[n]] = Newline /\ (i = 1 \/ file[i - 1] = Newline)
      inside == {n \in 1..lines_written : WholeFrom(start + 1, n)}
  IN /\ \A i, j \in DOMAIN true : i < j => true[i] < true[j]
     /\ Range(true) \subseteq inside \cup (IF torn THEN {lines_written} ELSE {})
     /\ \A n \in inside \ Range(true) : n = Min(inside) /\ start > 0
     /\ Raw \in Range(entries) => \E n \in 1..lines_written : ~WholeFrom(1, n)

(* Whoever turns the pages to the last one has seen every entry that was   *)
(* there at the first and still is, although lines were written meanwhile; *)
(* with the oldest first, as long as none of them has left the window.     *)
PagesCover ==
  log_loads = {} /\ ~log_mixed /\ log_data.page >= log_data.totalPages
  /\ (log_controls.sort = "newest" \/ walk.base \subseteq log_data.lines) =>
       walk.base \cap log_data.lines \subseteq walk.seen

(* What is shown is what the controls ask for, when loads do not overlap.  *)
LogsShown ==
  log_loads = {} /\ ~log_mixed =>
    /\ log_data.page = log_controls.page
    /\ \A entry \in Range(log_data.items) :
         log_controls.status \in {"all", statusBucket(entry)}

(* However lines are written, torn and paged through, the log's window,    *)
(* its pages and the controls over them agree with the file.               *)
LogsTrue == TailTrue /\ PagesCover /\ LogsShown
=============================================================================
