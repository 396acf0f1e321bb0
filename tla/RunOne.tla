------------------------------- MODULE RunOne -------------------------------
(***************************************************************************)
(* run_one of python/anchor_exp/experiments.py: one benchmark run, and the *)
(* status it is recorded with.  A memory run is made under the monitor; a  *)
(* time run is waited for directly.  What the benchmark said of itself,    *)
(* what the monitor said of it and the exit code are then reconciled.      *)
(*                                                                         *)
(* TimeRunLeftAlone, WrapperDecidesLimits and SaidStands are mistakes that *)
(* the properties must refute.                                             *)
(***************************************************************************)
EXTENDS MemoryMonitor

VARIABLE record     \* the status of the run record

all == <<vars, record>>

Final == {"OOM", "TO", "MEMORY-CAP-EXCEEDED", "MEMORY-MEASUREMENT-UNAVAILABLE"}

RunInit ==
  /\ Init /\ MonitorInit
  /\ record = "none"

TimeRunLeftAlone ==
  /\ ~Measured /\ at # "done" /\ ~Exited /\ late /\ forced = "none"
  /\ forced' = "TO"
  /\ UNCHANGED <<process, at, event, sampled, overCap, late, status, code>>

\* _run_time_process: the same wait for the process, without a monitor.
WaitForTimeRun ==
  /\ ~Measured /\ at # "done" /\ Exited
  /\ Finish(forced, IF forced = "TO" THEN 124 ELSE exit)

TimeRunTooLong ==
  /\ ~Measured /\ at # "done" /\ ~Exited /\ late /\ forced = "none"
  /\ Terminate /\ forced' = "TO"
  /\ UNCHANGED <<own, events, acks, at, event, sampled, overCap, late, status,
                 code>>

-----------------------------------------------------------------------------
(* Reconciliation.  Each step may replace the status of the one before.    *)

\* Exactly one JSON object, or a status for its absence.
Said ==
  CASE Len(printed) = 1  -> printed[1]
    [] Len(printed) # 1 /\ status \in Final -> status
    [] Len(printed) # 1 /\ status \notin Final /\ code \in {-9, 137} -> "OOM"
    [] OTHER -> "BENCHMARK-ERROR"

WrapperDecidesLimits(s) == IF status \in {"OOM", "TO"} THEN status ELSE s
SaidStands(s)           == s

WrapperDecides(s)  == IF status \in Final THEN status ELSE s
AlarmMeansTO(s)    == IF code \in {-14, 142} THEN "TO" ELSE s
OkNeedsExitZero(s) == IF code # 0 /\ s = "OK" THEN "BENCHMARK-ERROR" ELSE s

\* The object of a run that came to its end repeats fields of the record, which
\* it must not change; the others have only a status.
FieldsStand(s) ==
  IF ~job.agrees /\ \E v \in Verdicts : printed = <<v.status>>
    THEN "BENCHMARK-ERROR" ELSE s

\* The sampled fields that an OK memory record must have, of a pinned monitor.
Required == {"I", "B"} \cup IF job.prepared THEN {"P"} ELSE {}
Complete(s) ==
  IF Measured /\ s = "OK" /\ ~(job.pinned /\ Required \subseteq sampled)
    THEN "MEMORY-MEASUREMENT-UNAVAILABLE" ELSE s

Reconciled ==
  Complete(FieldsStand(OkNeedsExitZero(AlarmMeansTO(WrapperDecides(Said)))))

Record ==
  /\ at = "done" /\ record = "none"
  /\ record' = Reconciled
  /\ UNCHANGED vars

Harness ==
  \/ Measured /\ Monitor /\ UNCHANGED record
  \/ (WaitForTimeRun \/ TimeRunTooLong) /\ UNCHANGED record
  \/ Record

RunNext == (Run /\ UNCHANGED <<monitor, record>>) \/ Harness
           \/ (Deadline /\ UNCHANGED record)

\* The harness is scheduled, a process that was signalled or is exiting does
\* go, and one that can read its answer does.  Of the benchmark's own progress
\* nothing is assumed, nor that time passes.
RunSpec ==
  /\ RunInit /\ [][RunNext]_all
  /\ WF_all(Harness)
  /\ WF_all(Terminated /\ UNCHANGED <<monitor, record>>)
  /\ WF_all(BecomeZombie /\ UNCHANGED <<monitor, record>>)
  /\ \A e \in Event : WF_all(Resume(e) /\ UNCHANGED <<monitor, record>>)

-----------------------------------------------------------------------------
(* Properties.                                                             *)

Recorded == record # "none"

\* A run is recorded as OK only if the benchmark said so of the run that was
\* meant, exited with 0 and was, in memory mode, measured throughout within the
\* cap by a pinned monitor: no timer, signal or lost sample between its object
\* and its exit leaves an OK record.
OkIsEarned ==
  /\ OkIsMeasured
  /\ record = "OK" =>
    /\ printed = <<"OK">> /\ exit = 0 /\ job.agrees
    /\ Measured => /\ {"I", "B", "D"} \cup Required \subseteq sampled
                   /\ ~overCap /\ job.pinned

\* A memory run above its cap is a boundary of its own, in spite of whatever
\* object or exit code the dying process left.
CapIsRecorded ==
  /\ CapDecides
  /\ Recorded /\ overCap =>
    record = "MEMORY-CAP-EXCEEDED" \/ (late /\ record = "TO")

\* Every run yields a record once its deadline has passed, even if the
\* benchmark never answers, exits or times out by itself.
RunIsRecorded == <>late => <>Recorded

\* Claims of the documentation that the code does not keep in memory mode.

\* "A high-dimensional structure that exceeds the configured memory or time
\* limit is reported as OOM or TO" (IMPLEMENTATION_DECISIONS.md 17-19): the main
\* timer kills with SIGALRM.
TimeLimitIsTO ==
  Recorded /\ exit = -14 => record \in {"TO", "MEMORY-CAP-EXCEEDED"}

\* "A benchmark may reject its workload before the baseline. The harness will
\* preserve that benchmark-generated classification." (run_procfs.py 299-301)
RejectionIsPreserved ==
  Recorded /\ Measured /\ "B" \notin sampled /\ ~late
    /\ fault \in Refused /\ printed = <<fault.status>> /\ exit = fault.code =>
      record = fault.status
=============================================================================
