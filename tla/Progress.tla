------------------------------ MODULE Progress ------------------------------
(***************************************************************************)
(* The progress of rounds of coupled items as the log tells it, and the    *)
(* monitors that follow the log from processes of their own: Progressor.h, *)
(* its calls from the dispatcher, the life of the log file (Context.cpp)   *)
(* and pppMonitorProgress.py.                                              *)
(*                                                                         *)
(* A run has several coupled processors, or data sets, one after the       *)
(* other.  Each starts a monitor of its own and writes to the same log,    *)
(* which is removed when the program ends.  Of the log only the lines with *)
(* a percentage count.  Percentages are in units of the last digit that a  *)
(* line shows; Full, 100.0 percent, is 1000 of them in the program.        *)
(***************************************************************************)
EXTENDS Naturals, Sequences, FiniteSetsExt

CONSTANTS Workloads,     \* what a run may have to do: the coupled pairs of each round
          MaxRounds,     \* bound of their number
          BatchSize,     \* pairs that one call of next() hands back at most
          Full,          \* 100 percent
          MinSteps,      \* fewer are not reported (100)
          ManySteps,     \* more are reported with the higher frequency (10000)
          LowFrequency,  \* lines per round (100)
          HighFrequency  \* (1000)

ASSUME ProgressAssumption ==
  /\ MaxRounds \in Nat
  /\ Workloads \subseteq Seq(Nat \ {0})
  /\ \A totals \in Workloads : Len(totals) <= MaxRounds
  /\ {BatchSize, Full, MinSteps, LowFrequency, HighFrequency} \subseteq Nat \ {0}
  /\ ManySteps \in Nat

VARIABLES Totals,          \* one of the workloads
          round,           \* the last round that was begun
          phase,           \* "ready", "working", "removed", "caught" or "failed"
          remained,        \* remainedOperationSize()
          myRemainedSteps, \* what the progressor reported last
          log,             \* the lines with a percentage: [round, percent]
          monitor,         \* "none", "polling", "closed" at 100 percent, or "quit"
          progress,        \* what the bar of a monitor shows
          last_line_number \* the lines that a monitor has read

programVars == <<Totals, round, phase, remained, myRemainedSteps, log>>
monitorVars == <<monitor, progress, last_line_number>>
vars == <<programVars, monitorVars>>

Monitors == 1 .. MaxRounds

Lines == [round : Nat, percent : 0 .. Full]

TypeOK ==
  /\ Totals \in Workloads
  /\ round \in 0 .. Len(Totals)
  /\ phase \in {"ready", "working", "removed", "caught", "failed"}
  /\ remained \in Nat /\ myRemainedSteps \in Nat
  /\ log \in Seq(Lines)
  /\ monitor \in [Monitors -> {"none", "polling", "closed", "quit"}]
  /\ progress \in [Monitors -> 0 .. Full]
  /\ last_line_number \in [Monitors -> Nat]

-----------------------------------------------------------------------------
(* Progressor *)

myTotalSteps == Totals[round]
myReportFrequency(total) == IF total > ManySteps THEN HighFrequency ELSE LowFrequency
myReportInterval == myTotalSteps \div myReportFrequency(myTotalSteps)

\* Mutant: rounded up, so that it is complete too early.
percentUp(total, steps) == (Full * (total - steps) + total - 1) \div total

\* "%3.1f percent": rounded to the nearest.
percent(total, steps) == (2 * Full * (total - steps) + total) \div (2 * total)

\* Mutant: what was reported last is not remembered.
RememberedTotal(steps) == myTotalSteps

Remembered(steps) == steps

\* A line when more than an interval was done since the last one.
remain(steps) ==
  IF myRemainedSteps - steps > myReportInterval
    THEN /\ myRemainedSteps' = Remembered(steps)
         /\ log' = IF myTotalSteps < MinSteps THEN log
                   ELSE Append(log, [round |-> round, percent |-> percent(myTotalSteps, steps)])
    ELSE UNCHANGED <<myRemainedSteps, log>>

\* Mutant: a round too short to be reported does not report its end either.
finishReported ==
  IF myTotalSteps < MinSteps THEN log ELSE Append(log, [round |-> round, percent |-> Full])

\* The end is reported whatever the number of steps.
finish == Append(log, [round |-> round, percent |-> Full])

-----------------------------------------------------------------------------
(* The program *)

Init ==
  /\ Totals \in Workloads
  /\ round = 0 /\ phase = "ready" /\ remained = 0 /\ myRemainedSteps = 0
  /\ log = <<>>
  /\ monitor = [r \in Monitors |-> "none"]
  /\ progress = [r \in Monitors |-> 0]
  /\ last_line_number = [r \in Monitors |-> 0]

\* prepareInput() starts a monitor, which may fail safely; setCouplingMatrix() makes
\* the progressor.
StartRound ==
  /\ phase = "ready" /\ round < Len(Totals)
  /\ round' = round + 1
  /\ phase' = "working"
  /\ remained' = Totals[round + 1]
  /\ myRemainedSteps' = Totals[round + 1]
  /\ \E m \in {"none", "polling"} : monitor' = [monitor EXCEPT ![round + 1] = m]
  /\ UNCHANGED <<Totals, log, progress, last_line_number>>

\* A worker, or the main thread between two batches, hands back what was processed
\* and reports, in one critical section.
HandBack ==
  /\ phase = "working"
  /\ \E batch \in 1 .. BatchSize :
        /\ batch <= remained
        /\ remained' = remained - batch
        /\ remain(remained - batch)
  /\ UNCHANGED <<Totals, round, phase, monitorVars>>

\* The accessor is destroyed with the executor.
EndRound ==
  /\ phase = "working" /\ remained = 0
  /\ phase' = "ready"
  /\ log' = finish
  /\ UNCHANGED <<Totals, round, remained, myRemainedSteps, monitorVars>>

\* A pair throws.  Where nobody catches the exception the program ends as it stands;
\* where somebody does, as the Python module, the accessor is destroyed on the way.
\* Either way finalize() is not called and the log is left behind.
Fail ==
  /\ phase = "working"
  /\ \/ phase' = "failed" /\ UNCHANGED log
     \/ phase' = "caught" /\ log' = finish
  /\ UNCHANGED <<Totals, round, remained, myRemainedSteps, monitorVars>>

\* finalize(): the log is copied to the results and removed.
Finalize ==
  /\ phase = "ready" /\ round = Len(Totals)
  /\ phase' = "removed"
  /\ UNCHANGED <<Totals, round, remained, myRemainedSteps, log, monitorVars>>

-----------------------------------------------------------------------------
(* The monitor *)

\* The newest line that does not go back.
parse(new_lines, shown) ==
  LET forward == {i \in DOMAIN new_lines : new_lines[i].percent >= shown}
  IN  IF forward = {} THEN shown ELSE new_lines[Max(forward)].percent

\* The timer: all lines since the last time; the monitor exits at 100 percent.
Poll(m) ==
  /\ monitor[m] = "polling" /\ phase # "removed"
  /\ LET next == parse(SubSeq(log, last_line_number[m] + 1, Len(log)), progress[m])
     IN  /\ progress' = [progress EXCEPT ![m] = next]
         /\ monitor' = [monitor EXCEPT ![m] = IF next >= Full THEN "closed" ELSE @]
  /\ last_line_number' = [last_line_number EXCEPT ![m] = Len(log)]
  /\ UNCHANGED programVars

\* The file cannot be opened: the exception of a slot ends the monitor (PyQt5), or is
\* printed and the timer goes on (PySide2).
PollRemoved(m) ==
  /\ monitor[m] = "polling" /\ phase = "removed"
  /\ \E s \in {"polling", "quit"} : monitor' = [monitor EXCEPT ![m] = s]
  /\ UNCHANGED <<programVars, progress, last_line_number>>

\* The buttons and the window.
close_application(m) ==
  /\ monitor[m] = "polling"
  /\ monitor' = [monitor EXCEPT ![m] = "quit"]
  /\ UNCHANGED <<programVars, progress, last_line_number>>

Program == StartRound \/ HandBack \/ EndRound \/ Fail \/ Finalize

Next ==
  \/ Program
  \/ \E m \in Monitors : Poll(m) \/ PollRemoved(m) \/ close_application(m)
  \/ phase \in {"removed", "caught", "failed"} /\ UNCHANGED vars

\* The program goes on, and the timer of a monitor fires every two seconds.
Fairness ==
  /\ WF_vars(Program)
  /\ \A m \in Monitors : WF_vars(Poll(m))

Spec == Init /\ [][Next]_vars /\ Fairness

-----------------------------------------------------------------------------
(* Properties *)

LinesOf(r) == {i \in DOMAIN log : log[i].round = r}

\* However many calls of next() there are, a round writes no more lines than the
\* frequency says, the one of its end among them; their percentages never fall.
LinesAreFew ==
  \A r \in DOMAIN Totals :
    /\ Cardinality(LinesOf(r)) <= myReportFrequency(Totals[r])
    /\ \A i, j \in LinesOf(r) : i < j => log[i].percent <= log[j].percent

\* The first monitor closes by itself only when its round is over, or when less
\* remains than the last digit of a percentage tells.  (A later monitor may close at
\* once on the last line of the round before.)
ClosedWhenComplete ==
  MaxRounds > 0 /\ monitor[1] = "closed" =>
    \/ round > 1 \/ phase # "working"
    \/ 2 * Full * remained <= Totals[1]

\* When the run ends by an exception that is caught, every monitor still closes, whatever
\* its bar shows and however short the round was.  (A line of 100 percent is not enough
\* for that: where the first lines of the next round come before the next poll, a bar
\* below them takes the newest one and the completion is passed over.  And a run that
\* succeeds may remove the log before the last poll, so that with PySide2 the monitor
\* goes on for ever.)
CompletionSeen ==
  \A m \in Monitors : phase = "caught" /\ monitor[m] = "polling" ~> monitor[m] # "polling"
=============================================================================
