----------------------------- MODULE Benchmark -----------------------------
(***************************************************************************)
(* One process of anchor_bench (cpp/app/benchmark_main.cpp), seen from     *)
(* outside: how far it has come, the bytes it has put in the event pipe,   *)
(* the JSON objects it has written, and how it ended.  In memory mode it   *)
(* announces four events, and blocks after each until a byte comes back.   *)
(*                                                                         *)
(* What an algorithm computes is the subject of other modules; here it may *)
(* succeed, fail with any exception the code reports, or run for ever.  A  *)
(* timer may go off whenever it is armed, and the kernel may kill the      *)
(* process for its memory at any time.  A process dies in two steps: the   *)
(* kernel first takes its memory and its descriptors, and only then may    *)
(* its parent reap it.                                                     *)
(*                                                                         *)
(* TimerNotCancelled is a mistake that MemoryMonitor must refute.          *)
(***************************************************************************)
EXTENDS Integers, Sequences

VARIABLES job,        \* the options and circumstances of the run: Job
          pc,         \* where the process stands
          fault,      \* the exception that is being reported
          printed,    \* the statuses of the JSON objects on its stdout
          events,     \* bytes in the event pipe
          acks,       \* bytes in the acknowledgement pipe
          pipesOpen,  \* whether the process holds its ends of the pipes
          exit,       \* its return code, as Popen gives it
          signal      \* whether its group was sent SIGTERM, then SIGKILL

process == <<job, pc, fault, printed, events, acks, pipesOpen, exit, signal>>

\* Only one-shot runs are measured for memory, and AS prepares nothing.  The
\* workload and options that the process is given agree with those of the run
\* record or not, and the monitor is pinned to its core and polls every 5 ms,
\* as a memory record must say, or not.
Job == {j \in [mode     : {"time", "memory"},
               task     : {"oneshot", "count-only", "prepared-query"},
               prepared : BOOLEAN, agrees : BOOLEAN, pinned : BOOLEAN] :
          /\ j.mode = "memory" => j.task = "oneshot"
          /\ j.mode = "time" => j.pinned
          /\ j.task = "prepared-query" => j.prepared}

Measured == job.mode = "memory"

\* Events: input loaded, output allocated, structure built, output filled.
\* The process waits for its answer to an event in the state of that name.
Event   == {"I", "B", "P", "D"}
Resumed == [I |-> "allocate", B |-> "build", P |-> "query", D |-> "check"]
Running == {"load", "allocate", "build", "query", "check"}

NotExited == 1000             \* no return code
NoFault   == [status |-> "none", code |-> 0]

TimerNotCancelled ==
  CASE pc \in {"load", "I", "allocate", "B", "check", "leave"} -> "setup"
    [] pc = "build" -> IF job.task = "prepared-query" THEN "setup" ELSE "main"
    [] pc \in {"P", "query"} -> "main"
    [] OTHER -> "off"

\* Which timer is armed.  Only the preparation of a prepared query is charged
\* to the setup interval; the checks after the run have one of their own.
Timer ==
  CASE pc \in {"load", "I", "allocate", "B", "check"} -> "setup"
    [] pc = "build" -> IF job.task = "prepared-query" THEN "setup" ELSE "main"
    [] pc \in {"P", "query"} -> "main"
    [] OTHER -> "off"

\* The exceptions main() reports from each state, and the exit codes.
Refused  == {[status |-> s, code |-> 2] :
               s \in {"BENCHMARK-ERROR", "NUMERIC-DEGENERACY"}}
NoMemory == {[status |-> "OOM", code |-> 137]}
Overflow == {[status |-> "INTEGER-OVERFLOW", code |-> 4]}
Failure  == [status |-> "BENCHMARK-ERROR", code |-> 2]
Faults ==
  [load  |-> Refused \cup NoMemory, allocate |-> NoMemory \cup {Failure},
   build |-> NoMemory \cup Overflow \cup {Failure},
   query |-> NoMemory \cup Overflow \cup {Failure},
   check |-> NoMemory \cup {Failure}]
Verdicts == {[status |-> "OK", code |-> 0], [status |-> "EMPTY-JOIN", code |-> 0],
             [status |-> "MEMBERSHIP-MISMATCH", code |-> 3]}

Init ==
  /\ job \in Job
  /\ pc = "load" /\ fault = NoFault /\ printed = <<>>
  /\ events = <<>> /\ acks = 0 /\ pipesOpen = TRUE
  /\ exit = NotExited /\ signal = FALSE

-----------------------------------------------------------------------------
(* The run: load, allocate, build, query, check.                           *)

\* The end of a stage: MemoryProtocol::notify writes the event and reads.
Announce(stage, e) ==
  /\ pc = stage
  /\ IF Measured THEN events' = Append(events, e) /\ pc' = e
                 ELSE pc' = Resumed[e] /\ UNCHANGED events
  /\ UNCHANGED <<job, fault, printed, acks, pipesOpen, exit, signal>>

Resume(e) ==
  /\ pc = e /\ acks > 0
  /\ acks' = acks - 1
  /\ pc' = Resumed[e]
  /\ UNCHANGED <<job, fault, printed, events, pipesOpen, exit, signal>>

\* Only a one-shot run of an algorithm with prepared state announces P.
AnnouncesP == job.task = "oneshot" /\ job.prepared

StartQuery ==
  /\ pc = "build" /\ ~AnnouncesP
  /\ pc' = "query"
  /\ UNCHANGED <<job, fault, printed, events, acks, pipesOpen, exit, signal>>

Stage ==
  \/ Announce("load", "I")
  \/ Announce("allocate", "B")
  \/ AnnouncesP /\ Announce("build", "P")
  \/ StartQuery
  \/ Announce("query", "D")
  \/ \E e \in Event : Resume(e)

\* The checks are done and their timer cancelled: one JSON object.
Report(v) ==
  /\ pc = "check"
  /\ printed' = Append(printed, v.status)
  /\ exit' = v.code
  /\ pc' = "leave"
  /\ UNCHANGED <<job, fault, events, acks, pipesOpen, signal>>

\* An exception leaves run(): its timer is disarmed and MemoryProtocol closes
\* the pipes before main() reports it.
Throw(f) ==
  /\ pc \in Running /\ f \in Faults[pc]
  /\ fault' = f /\ pipesOpen' = FALSE /\ pc' = "catch"
  /\ UNCHANGED <<job, printed, events, acks, exit, signal>>

ReportFault ==
  /\ pc = "catch"
  /\ printed' = Append(printed, fault.status)
  /\ exit' = fault.code
  /\ pc' = "leave"
  /\ UNCHANGED <<job, fault, events, acks, pipesOpen, signal>>

-----------------------------------------------------------------------------
(* Timers, signals and death.                                              *)

\* The handler of the setup timer writes the object itself, and exits.
SetupAlarm ==
  /\ Timer = "setup"
  /\ printed' = Append(printed, "TO")
  /\ exit' = 124
  /\ pc' = "leave"
  /\ UNCHANGED <<job, fault, events, acks, pipesOpen, signal>>

Leave ==
  /\ pc = "leave"
  /\ pipesOpen' = FALSE /\ pc' = "dying"
  /\ UNCHANGED <<job, fault, printed, events, acks, exit, signal>>

Alive == pc \notin {"dying", "zombie"}

Die(code) ==
  /\ Alive
  /\ exit' = code /\ pipesOpen' = FALSE /\ pc' = "dying"
  /\ UNCHANGED <<job, fault, printed, events, acks, signal>>

MainAlarm     == Timer = "main" /\ Die(-14)
KernelKill    == Die(-9)
Terminated    == signal /\ \E code \in {-15, -9} : Die(code)

BecomeZombie ==
  /\ pc = "dying" /\ pc' = "zombie"
  /\ UNCHANGED <<job, fault, printed, events, acks, pipesOpen, exit, signal>>

Exited == pc = "zombie"

Run ==
  \/ Stage \/ ReportFault \/ SetupAlarm \/ Leave \/ MainAlarm \/ KernelKill
  \/ Terminated \/ BecomeZombie
  \/ \E v \in Verdicts : Report(v)
  \/ \E s \in Running : \E f \in Faults[s] : Throw(f)

\* _terminate_group: SIGTERM, then SIGKILL to a group still there after the
\* grace period, so a process that has been signalled does die.
Terminate == signal' = (signal \/ ~Exited)

TypeOKProcess ==
  /\ job \in Job
  /\ pc \in Running \cup Event \cup {"catch", "leave", "dying", "zombie"}
  /\ events \in Seq(Event) /\ acks \in Nat
  /\ {pipesOpen, signal} \subseteq BOOLEAN
=============================================================================
