--------------------------- MODULE MemoryMonitor ---------------------------
(***************************************************************************)
(* scripts/run_procfs.py: the monitor of a memory run.  It polls the       *)
(* process, reads its events, samples its resident memory at each event    *)
(* and every few milliseconds after the baseline, answers the event, and   *)
(* terminates the process group when a sample exceeds the cap or its own   *)
(* deadline has passed.  The process runs on while the monitor works: every*)
(* poll, read, sample and answer here is a step of its own.                *)
(*                                                                         *)
(* A sample is an arbitrary comparison with the cap, the only thing the    *)
(* monitor does with it apart from reporting it, and the clock is the fact *)
(* whether the deadline has passed.                                        *)
(*                                                                         *)
(* AnswerBeforeSample and NoAnswerToP are mistakes that the properties     *)
(* must refute.                                                            *)
(***************************************************************************)
EXTENDS Benchmark

VARIABLES at,         \* where run() stands
          event,      \* the event it handles
          sampled,    \* the events at which memory was sampled
          overCap,    \* memory_cap_exceeded
          late,       \* the safety deadline has passed
          forced,     \* forced_status
          status,     \* report["status"], when run() returns
          code        \* the monitor's own exit code

monitor == <<at, event, sampled, overCap, late, forced, status, code>>
vars    == <<process, monitor>>

\* What only the process itself changes.
own == <<job, pc, fault, printed, pipesOpen, exit>>

MonitorInit ==
  /\ at = "loop" /\ event = "none" /\ sampled = {}
  /\ overCap = FALSE /\ late = FALSE
  /\ forced = "none" /\ status = "none" /\ code = NotExited

Goto(place) == at' = place

\* MemoryMeasurementUnavailable is raised: its handler ends the process.
Unavailable ==
  /\ Goto("abort") /\ Terminate
  /\ UNCHANGED <<own, acks, event, sampled, overCap, late, forced, status,
                 code>>

Finish(s, c) ==
  /\ Goto("done") /\ status' = s /\ code' = c
  /\ UNCHANGED <<process, event, sampled, overCap, late, forced>>

-----------------------------------------------------------------------------
(* The main loop.                                                          *)

Poll ==
  /\ at = "loop"
  /\ \/ /\ Exited
        /\ Goto("reap") /\ UNCHANGED <<forced, signal>>
     \/ /\ ~Exited /\ late
        /\ Terminate /\ forced' = "TO" /\ Goto("reap")
     \/ /\ ~Exited /\ ~late
        /\ Goto("select") /\ UNCHANGED <<forced, signal>>
  /\ UNCHANGED <<own, events, acks, event, sampled, overCap, late, status,
                 code>>

AnswerBeforeSample ==
  /\ at = "select" /\ events # <<>>
  /\ event' = Head(events) /\ events' = Tail(events) /\ acks' = acks + 1
  /\ Goto("sample")
  /\ UNCHANGED <<own, signal, sampled, overCap, late, forced, status, code>>

ReadEvent ==
  /\ at = "select" /\ events # <<>>
  /\ event' = Head(events) /\ events' = Tail(events)
  /\ Goto("sample")
  /\ UNCHANGED <<own, acks, signal, sampled, overCap, late, forced, status,
                 code>>

\* End of file: every writer has closed the pipe.
EndOfEvents ==
  /\ at = "select" /\ events = <<>> /\ ~pipesOpen
  /\ \/ ~Exited /\ Unavailable /\ UNCHANGED events
     \/ Exited /\ Goto("reap") /\ UNCHANGED <<process, event, sampled, overCap,
                                              late, forced, status, code>>

\* Nothing to read.  Samples are due only after the baseline.
SelectTimeout ==
  /\ at = "select" /\ events = <<>> /\ pipesOpen
  /\ \/ Goto("loop")
     \/ "B" \in sampled /\ Goto("tick")
  /\ UNCHANGED <<process, event, sampled, overCap, late, forced, status, code>>

\* The monitor insists on the baseline before the later events.
InOrder == event \in {"P", "D"} => "B" \in sampled

\* VmRSS is there as long as the process has its memory.
SampleTo(next, capIsActive) ==
  \/ /\ Alive
     /\ Goto(next)
     /\ UNCHANGED <<process, overCap, forced>>
  \/ /\ Alive /\ capIsActive
     /\ overCap' = TRUE /\ forced' = "MEMORY-CAP-EXCEEDED"
     /\ Terminate /\ Goto("reap")
     /\ UNCHANGED <<own, events, acks>>

SampleEvent ==
  /\ at = "sample"
  /\ \/ /\ InOrder
        /\ SampleTo("answer", event # "I")
        /\ sampled' = sampled \cup {event}
        /\ UNCHANGED <<event, late, status, code>>
     \/ ~(InOrder /\ Alive) /\ Unavailable /\ UNCHANGED events

SamplePeriodic ==
  /\ at = "tick"
  /\ \/ /\ SampleTo("loop", TRUE)
        /\ UNCHANGED <<event, sampled, late, status, code>>
     \/ ~Alive /\ Unavailable /\ UNCHANGED events

NoAnswerToP ==
  /\ at = "answer" /\ pipesOpen
  /\ acks' = IF event = "P" THEN acks ELSE acks + 1
  /\ Goto(IF event = "D" THEN "reap" ELSE "loop")
  /\ UNCHANGED <<own, events, signal, event, sampled, overCap, late, forced,
                 status, code>>

\* The answer fails when nobody holds the other end of the pipe.
Acknowledge ==
  /\ at = "answer"
  /\ \/ /\ pipesOpen
        /\ acks' = acks + 1
        /\ Goto(IF event = "D" THEN "reap" ELSE "loop")
        /\ UNCHANGED <<own, events, signal, event, sampled, overCap, late,
                       forced, status, code>>
     \/ ~pipesOpen /\ Unavailable /\ UNCHANGED events

-----------------------------------------------------------------------------
(* The end of the run.                                                     *)

\* communicate() waits for the process until the deadline.
WaitTooLong ==
  /\ at = "reap" /\ ~Exited /\ late /\ forced # "TO"
  /\ Terminate /\ forced' = "TO"
  /\ UNCHANGED <<own, events, acks, at, event, sampled, overCap, late, status,
                 code>>

\* raise SystemExit(code): the low eight bits are what the caller sees.
ExitCode(c) == c % 256

Reap ==
  /\ at = "reap" /\ Exited
  /\ \/ forced = "TO" /\ Finish("TO", ExitCode(124))
     \/ forced = "MEMORY-CAP-EXCEEDED" /\ Finish(forced, ExitCode(137))
     \/ forced = "none" /\ exit \in {-9, 137} /\ Finish("OOM", ExitCode(137))
     \/ forced = "none" /\ exit \notin {-9, 137} /\ Finish("OK", ExitCode(exit))

Abort ==
  /\ at = "abort" /\ Exited
  /\ Finish("MEMORY-MEASUREMENT-UNAVAILABLE", ExitCode(78))

Monitor ==
  \/ Poll \/ ReadEvent \/ EndOfEvents \/ SelectTimeout \/ SampleEvent
  \/ SamplePeriodic \/ Acknowledge \/ WaitTooLong \/ Reap \/ Abort

Deadline ==
  /\ ~late /\ at # "done"
  /\ late' = TRUE
  /\ UNCHANGED <<process, at, event, sampled, overCap, forced, status, code>>

-----------------------------------------------------------------------------
(* Properties.                                                             *)

TypeOK ==
  /\ TypeOKProcess
  /\ at \in {"loop", "select", "sample", "tick", "answer", "reap", "abort",
             "done"}
  /\ sampled \subseteq Event
  /\ {overCap, late} \subseteq BOOLEAN
  /\ forced \in {"none", "TO", "MEMORY-CAP-EXCEEDED"}

\* The memory that an event announces is still held while it is sampled, and
\* the process goes on only after the sample was taken (run_procfs.py 7-8: the
\* monitor "acknowledges every event so the measured allocation remains live
\* while it is sampled").
HeldWhileSampled ==
  Measured =>
  /\ at \in {"sample", "answer"} => pc \in {event, "leave", "dying", "zombie"}
  /\ pc \in {"allocate", "B", "build", "P", "query", "D", "check"} =>
       "I" \in sampled
  /\ pc \in {"build", "P", "query", "D", "check"} => "B" \in sampled
  /\ pc \in {"query", "D", "check"} /\ AnnouncesP => "P" \in sampled
  /\ pc = "check" => "D" \in sampled

\* However timers, signals and exceptions fall together, the process writes at
\* most one JSON object, which _parse_one_json relies on: the handler of the
\* setup timer cannot follow an object, nor an object the handler.
OneObject == Len(printed) <= 1

\* A sample above the cap decides the outcome, whatever the process does while
\* the signal is on its way; only the deadline may still replace it.
CapDecides ==
  at = "done" /\ overCap =>
    status = "MEMORY-CAP-EXCEEDED" \/ (late /\ status = "TO")

\* A successful run was measured at every event it announces, and the samples
\* were within the cap.
OkIsMeasured ==
  at = "done" /\ status = "OK" /\ code = 0 =>
    /\ sampled = IF AnnouncesP THEN Event ELSE Event \ {"P"}
    /\ ~overCap

\* The two never wait for each other: a process that announced an event goes
\* on or goes away although the deadline may never come.
Answered == \A e \in Event : pc = e ~> pc # e
=============================================================================
