--------------------------- MODULE RunOne_proofs ---------------------------
(***************************************************************************)
(* Proofs about one run: the benchmark process, its monitor and the record *)
(* of run_one, in either mode, for every task and every way in which they  *)
(* interleave.                                                             *)
(*                                                                         *)
(* None of the properties is inductive.  That the memory of an event is    *)
(* held while it is sampled rests on where its byte and its answer are     *)
(* (PipesOK, Handled); that an OK record was measured, on what lies behind *)
(* a process that exits with 0 (ProcessOK, Sampled); that a sample above   *)
(* the cap decides, on what the monitor may still do once it has decided   *)
(* (Decided, Verdict), and on the last answer ending its samples           *)
(* (LastAnswered).  That nobody waits for the other (NobodyWaits) is what  *)
(* safety can say of liveness: whoever waits is answered or signalled.     *)
(***************************************************************************)
EXTENDS RunOne, TLAPS

Ended == {"leave", "dying", "zombie"}

\* What a JSON object may say, and how a process may exit.
Objects == {"OK", "EMPTY-JOIN", "MEMBERSHIP-MISMATCH", "TO", "OOM", "BENCHMARK-ERROR",
            "NUMERIC-DEGENERACY", "INTEGER-OVERFLOW"}
Results == {"OK", "EMPTY-JOIN", "MEMBERSHIP-MISMATCH"}
Codes   == {0, 2, 3, 4, 124, 137, -9, -14, -15}

\* The states of a process that has been resumed after an event.
Behind == [I |-> {"allocate", "B", "build", "P", "query", "D", "check"},
           B |-> {"build", "P", "query", "D", "check"},
           P |-> {"query", "D", "check"},
           D |-> {"check"}]
Announces(e) == e = "P" => AnnouncesP

\* Nothing is printed before the end, and one object at most; a process that
\* exits with 0 has said so.
ProcessOK ==
  /\ TypeOKProcess
  /\ pc = "catch" => fault.status \in Objects \ Results /\ fault.code \in Codes \ {0}
  /\ printed = <<>> \/ \E s \in Objects : printed = <<s>>
  /\ pc \notin Ended => printed = <<>> /\ exit = NotExited
  /\ pc \in Ended => exit \in Codes
  /\ exit = 0 => \E s \in {"OK", "EMPTY-JOIN"} : printed = <<s>>
  /\ pc \in Running \cup Event => pipesOpen
  /\ pc \in {"catch", "dying", "zombie"} => ~pipesOpen

\* In memory mode a byte in the pipe is that of the event the process waits
\* at, or waited at when it ended; an answer is to an event that was sampled.
PipesOK ==
  /\ events = <<>> \/ \E e \in Event : events = <<e>> /\ pc \in {e} \cup Ended
  /\ pc \in Running \cup {"catch"} => events = <<>> /\ acks = 0
  /\ pc \in Event /\ acks # 0 => acks = 1 /\ events = <<>> /\ pc \in sampled

\* The event that is handled is the one the process waits at, unanswered.
Handled ==
  /\ at \in {"sample", "answer"} =>
       /\ event \in Event /\ events = <<>> /\ pc \in {event} \cup Ended
       /\ pc = event => acks = 0
  /\ at = "answer" => event \in sampled

\* What lies behind the process was sampled, and nothing it does not announce.
Sampled ==
  /\ sampled \subseteq Event
  /\ \A e \in Event : (pc \in Behind[e] \/ exit = 0) /\ Announces(e) => e \in sampled
  /\ \/ AnnouncesP
     \/ pc # "P" /\ events # <<"P">> /\ "P" \notin sampled
          /\ (at \in {"sample", "answer"} => event # "P")

\* A monitor that has decided only waits for the end of the process.
Decided ==
  /\ at \in {"loop", "select", "sample", "tick", "answer", "reap", "abort", "done"}
  /\ forced \in {"none", "TO", "MEMORY-CAP-EXCEEDED"}
  /\ overCap \in BOOLEAN /\ late \in BOOLEAN
  /\ forced = "TO" => late
  /\ overCap => forced # "none"
  /\ Measured /\ forced # "none" => at \in {"reap", "done"}
  /\ at = "done" => pc = "zombie"

\* What it reports then.
Verdict ==
  \/ status = "TO" /\ code = 124 /\ late
  \/ status = "MEMORY-CAP-EXCEEDED" /\ code = 137
  \/ status = "OOM" /\ code = 137 /\ ~overCap
  \/ status = "OK" /\ code = exit % 256 /\ ~overCap
  \/ status = "MEMORY-MEASUREMENT-UNAVAILABLE" /\ code = 78 /\ ~overCap

MemoryRun ==
  PipesOK /\ Handled /\ Sampled /\ (at = "done" => Verdict)

\* A time run announces nothing, and is waited for without a monitor.
TimeRun ==
  /\ pc \notin Event /\ at \in {"loop", "done"} /\ ~overCap /\ sampled = {}
  /\ forced # "MEMORY-CAP-EXCEEDED"
  /\ at = "done" => status = forced /\ code = IF forced = "TO" THEN 124 ELSE exit

\* A process that waits is answered, about to be, or has been signalled; the
\* monitor waits only for a process that it has signalled or that is gone.
NobodyWaits ==
  /\ at = "abort" \/ forced # "none" => signal \/ Exited
  /\ Measured /\ at = "reap" => signal \/ pc \in {"D", "check", "catch"} \cup Ended
  /\ Measured /\ pc \in Event =>
       \/ acks > 0 \/ signal
       \/ events = <<pc>> /\ at \in {"loop", "select", "tick"}
       \/ event = pc /\ at \in {"sample", "answer"}

\* The last event has been answered, or the run has even come to its end.
LastIsAnswered ==
  pc = "check" \/ (pc = "D" /\ acks > 0) \/ \E s \in Results : printed = <<s>>
\* The monitor answers the last event only within the cap, and then samples no
\* more: no object of a run that came to its end meets one above the cap.
LastAnswered == Measured /\ LastIsAnswered => at \in {"reap", "done"} /\ ~overCap

RecordOK == record # "none" => at = "done" /\ record = Reconciled

IInv ==
  /\ ProcessOK /\ Decided /\ NobodyWaits /\ RecordOK
  /\ Measured => MemoryRun
  /\ ~Measured => TimeRun

\* What a run may be recorded as: only a memory run exceeds a cap or lacks a
\* sample.
Recordable == Objects \cup IF Measured THEN {"MEMORY-CAP-EXCEEDED",
                                             "MEMORY-MEASUREMENT-UNAVAILABLE"}
                           ELSE {}
RecordedByMode == Recorded => record \in Recordable

-----------------------------------------------------------------------------
(* The process.                                                            *)

\* Where a process goes on, and what then lies behind it.
LEMMA Places ==
  /\ Resumed["I"] = "allocate" /\ Resumed["B"] = "build"
  /\ Resumed["P"] = "query" /\ Resumed["D"] = "check"
  /\ Behind["I"] = {"allocate", "B", "build", "P", "query", "D", "check"}
  /\ Behind["B"] = {"build", "P", "query", "D", "check"}
  /\ Behind["P"] = {"query", "D", "check"}
  /\ Behind["D"] = {"check"}
BY DEF Resumed, Behind

\* An object is never empty, and one object says one thing.
LEMMA OneThing ==
  /\ \A s : <<s>> # <<>> /\ Append(<<>>, s) = <<s>> /\ Len(<<s>>) = 1 /\ <<s>>[1] = s
           /\ Head(<<s>>) = s /\ Tail(<<s>>) = <<>>
  /\ \A s, t : <<s>> = <<t>> => s = t
  /\ Len(<<>>) = 0
OBVIOUS

\* At the end nothing happens but that the run is recorded.
LEMMA Over ==
  ASSUME IInv, at = "done"
  PROVE  pc = "zombie" /\ exit \in Codes /\ printed \in {<<>>} \cup {<<s>> : s \in Objects}
BY DEF IInv, Decided, ProcessOK, Ended

\* Before it, there is no record.
LEMMA NoRecord ==
  ASSUME IInv, at # "done"
  PROVE  record = "none"
BY DEF IInv, RecordOK

\* The process announces an event, or goes on at once in a time run.
LEMMA AnnouncePreserves ==
  ASSUME IInv, NEW stage, NEW e,
         \/ stage = "load" /\ e = "I"
         \/ stage = "allocate" /\ e = "B"
         \/ stage = "build" /\ e = "P" /\ AnnouncesP
         \/ stage = "query" /\ e = "D",
         Announce(stage, e), UNCHANGED <<monitor, record>>
  PROVE  IInv'
<1>1. /\ pc = stage /\ e \in Event /\ stage \in Running /\ Announces(e)
      /\ at # "done" /\ record = "none"
  BY NoRecord DEF Announce, Event, Running, Announces, IInv, Decided
<1>2. /\ job' = job /\ fault' = fault /\ printed' = printed /\ acks' = acks
      /\ pipesOpen' = pipesOpen /\ exit' = exit /\ signal' = signal
      /\ at' = at /\ event' = event /\ sampled' = sampled /\ overCap' = overCap
      /\ late' = late /\ forced' = forced /\ status' = status /\ code' = code
      /\ record' = record /\ (Measured' <=> Measured) /\ (AnnouncesP' <=> AnnouncesP)
      /\ \A x : Announces(x)' <=> Announces(x)
  BY DEF Announce, monitor, Measured, AnnouncesP, Announces
<1>3. CASE Measured
  <2>1. pc' = e /\ events = <<>> /\ events' = <<e>> /\ acks = 0
    BY <1>1, <1>3, OneThing DEF Announce, IInv, MemoryRun, PipesOK
  <2>2. ProcessOK'
    BY <1>1, <1>2, <2>1 DEF IInv, ProcessOK, TypeOKProcess, Event, Running, Ended
  <2>3. Decided'
    BY <1>1, <1>2, <1>3, <2>1 DEF IInv, Decided
  <2>4. NobodyWaits'
    BY <1>1, <1>2, <1>3, <2>1 DEF IInv, NobodyWaits, Decided, MemoryRun, Handled, Exited, Ended, Event
  <2>5. RecordOK'
    BY <1>1, <1>2 DEF RecordOK
  <2>6. PipesOK'
    BY <1>1, <1>2, <2>1 DEF PipesOK, Event, Running
  <2>7. Handled'
    BY <1>1, <1>2, <1>3, <2>1 DEF IInv, MemoryRun, Handled, Event, Ended, Running
  <2>8. Sampled'
    BY <1>1, <1>2, <1>3, <2>1, Places, OneThing DEF IInv, MemoryRun, Sampled, Event, ProcessOK, Announces
  <2> QED BY <1>1, <1>2, <1>3, <2>2, <2>3, <2>4, <2>5, <2>6, <2>7, <2>8 DEF IInv, MemoryRun
<1>4. CASE ~Measured
  <2>1. pc' = Resumed[e] /\ events' = events
    BY <1>4 DEF Announce
  <2>2. pc' \in Running
    BY <1>1, <2>1, Places DEF Event, Running
  <2>3. ProcessOK'
    BY <1>1, <1>2, <2>1, <2>2 DEF IInv, ProcessOK, TypeOKProcess, Event, Running, Ended
  <2>4. Decided'
    BY <1>1, <1>2, <1>4, <2>1 DEF IInv, Decided
  <2>5. NobodyWaits'
    BY <1>1, <1>2, <1>4, <2>1, <2>2 DEF IInv, NobodyWaits, Exited, Running
  <2>6. RecordOK'
    BY <1>1, <1>2 DEF RecordOK
  <2>7. TimeRun'
    BY <1>1, <1>2, <1>4, <2>1, <2>2 DEF IInv, TimeRun, Running, Event
  <2> QED BY <1>2, <1>4, <2>3, <2>4, <2>5, <2>6, <2>7 DEF IInv
<1> QED BY <1>3, <1>4

\* A process that is answered goes on.
LEMMA ResumePreserves ==
  ASSUME IInv, NEW e \in Event, Resume(e), UNCHANGED <<monitor, record>>
  PROVE  IInv'
<1>1. /\ pc = e /\ acks > 0 /\ pc' = Resumed[e] /\ acks' = acks - 1
      /\ fault' = fault /\ printed' = printed /\ pipesOpen' = pipesOpen /\ exit' = exit
      /\ at # "done" /\ record = "none" /\ Measured
  BY NoRecord DEF Resume, Event, IInv, Decided, TimeRun
<1>2. /\ job' = job /\ events' = events /\ signal' = signal
      /\ at' = at /\ event' = event /\ sampled' = sampled /\ overCap' = overCap
      /\ late' = late /\ forced' = forced /\ status' = status /\ code' = code
      /\ record' = record /\ (Measured' <=> Measured) /\ (AnnouncesP' <=> AnnouncesP)
      /\ \A x : Announces(x)' <=> Announces(x)
  BY DEF Resume, monitor, Measured, AnnouncesP, Announces
<1>3. /\ acks = 1 /\ acks' = 0 /\ events = <<>> /\ e \in sampled /\ at \notin {"sample", "answer"}
      /\ pc' \in Running
  BY <1>1, Places DEF IInv, MemoryRun, PipesOK, Handled, Event, Running, Ended
<1>4. ProcessOK'
  <2>1. TypeOKProcess'
    BY <1>1, <1>2, <1>3 DEF IInv, ProcessOK, TypeOKProcess
  <2>2. pc \in Event /\ pc \notin Ended /\ pc' \notin Ended /\ pc' \notin {"catch", "dying", "zombie"}
    BY <1>1, <1>3 DEF Event, Running, Ended
  <2> QED BY <1>1, <1>2, <2>1, <2>2 DEF IInv, ProcessOK
<1>5. Decided'
  BY <1>1, <1>2, <1>3 DEF IInv, Decided
<1>6. NobodyWaits'
  BY <1>1, <1>2, <1>3, Places DEF IInv, NobodyWaits, Decided, MemoryRun, Handled, Exited, Ended, Event, Running
<1>7. RecordOK'
  BY <1>1, <1>2, <1>3 DEF RecordOK
<1>8. ASSUME Measured PROVE MemoryRun'
  <2>1. PipesOK'
    BY <1>1, <1>2, <1>3, <1>8 DEF IInv, MemoryRun, PipesOK, Handled, Event, Running, Ended
  <2>2. Handled'
    BY <1>1, <1>2, <1>3, <1>8 DEF IInv, MemoryRun, PipesOK, Handled, Event, Running, Ended
  <2>3. Sampled'
    BY <1>1, <1>2, <1>3, <1>8, Places, OneThing
       DEF IInv, MemoryRun, Sampled, Handled, PipesOK, ProcessOK, Event, Announces, Ended, Running
  <2> QED BY <1>1, <1>2, <1>3, <2>1, <2>2, <2>3 DEF MemoryRun
<1>9. ASSUME ~Measured PROVE TimeRun'
  BY <1>1, <1>2, <1>3, <1>9 DEF IInv, TimeRun, Running, Event, Ended
<1> QED BY <1>1, <1>2, <1>3, <1>4, <1>5, <1>6, <1>7, <1>8, <1>9 DEF IInv

\* A query without prepared state.
LEMMA StartQueryPreserves ==
  ASSUME IInv, StartQuery, UNCHANGED <<monitor, record>>
  PROVE  IInv'
<1>1. /\ pc = "build" /\ pc' = "query" /\ acks' = acks /\ ~AnnouncesP
      /\ fault' = fault /\ printed' = printed /\ pipesOpen' = pipesOpen /\ exit' = exit
      /\ at # "done" /\ record = "none"
  BY NoRecord DEF StartQuery, IInv, Decided
<1>2. /\ job' = job /\ events' = events /\ signal' = signal
      /\ at' = at /\ event' = event /\ sampled' = sampled /\ overCap' = overCap
      /\ late' = late /\ forced' = forced /\ status' = status /\ code' = code
      /\ record' = record /\ (Measured' <=> Measured) /\ (AnnouncesP' <=> AnnouncesP)
      /\ \A x : Announces(x)' <=> Announces(x)
  BY DEF StartQuery, monitor, Measured, AnnouncesP, Announces
<1>3. ProcessOK'
  BY <1>1, <1>2 DEF IInv, ProcessOK, TypeOKProcess, Event, Running, Ended
<1>4. Decided'
  BY <1>1, <1>2 DEF IInv, Decided
<1>5. NobodyWaits'
  BY <1>1, <1>2 DEF IInv, NobodyWaits, Decided, MemoryRun, Handled, Exited, Ended, Event, Running
<1>6. RecordOK'
  BY <1>1, <1>2 DEF RecordOK
<1>7. ASSUME Measured PROVE MemoryRun'
  <2>1. PipesOK'
    BY <1>1, <1>2, <1>7 DEF IInv, MemoryRun, PipesOK, Handled, Event, Running, Ended
  <2>2. Handled'
    BY <1>1, <1>2, <1>7 DEF IInv, MemoryRun, PipesOK, Handled, Event, Running, Ended
  <2>3. Sampled'
    BY <1>1, <1>2, <1>7, Places, OneThing
       DEF IInv, MemoryRun, Sampled, Handled, PipesOK, ProcessOK, Event, Announces, Ended, Running
  <2> QED BY <1>1, <1>2, <2>1, <2>2, <2>3 DEF MemoryRun
<1>8. ASSUME ~Measured PROVE TimeRun'
  BY <1>1, <1>2, <1>8 DEF IInv, TimeRun, Running, Event, Ended
<1> QED BY <1>1, <1>2, <1>3, <1>4, <1>5, <1>6, <1>7, <1>8 DEF IInv

\* An exception closes the pipes, and leaves the state in which it was thrown.
LEMMA ThrowPreserves ==
  ASSUME IInv, NEW f, Throw(f), UNCHANGED <<monitor, record>>
  PROVE  IInv'
<1>1. /\ pc \in Running /\ pc' = "catch" /\ acks' = acks /\ pipesOpen' = FALSE
      /\ printed' = printed /\ exit' = exit
      /\ at # "done" /\ record = "none"
  BY NoRecord DEF Throw, Running, IInv, Decided
<1>2. /\ job' = job /\ events' = events /\ signal' = signal
      /\ at' = at /\ event' = event /\ sampled' = sampled /\ overCap' = overCap
      /\ late' = late /\ forced' = forced /\ status' = status /\ code' = code
      /\ record' = record /\ (Measured' <=> Measured) /\ (AnnouncesP' <=> AnnouncesP)
      /\ \A x : Announces(x)' <=> Announces(x)
  BY DEF Throw, monitor, Measured, AnnouncesP, Announces
<1>3. fault'.status \in Objects \ Results /\ fault'.code \in Codes \ {0}
  BY DEF Throw, Running, Faults, Refused, NoMemory, Overflow, Failure, Objects, Results, Codes
<1>4. ProcessOK'
  BY <1>1, <1>2, <1>3 DEF IInv, ProcessOK, TypeOKProcess, Event, Running, Ended
<1>5. Decided'
  BY <1>1, <1>2, <1>3 DEF IInv, Decided
<1>6. NobodyWaits'
  BY <1>1, <1>2, <1>3 DEF IInv, NobodyWaits, Decided, MemoryRun, Handled, Exited, Ended, Event, Running
<1>7. RecordOK'
  BY <1>1, <1>2, <1>3 DEF RecordOK
<1>8. ASSUME Measured PROVE MemoryRun'
  <2>1. PipesOK'
    BY <1>1, <1>2, <1>3, <1>8 DEF IInv, MemoryRun, PipesOK, Handled, Event, Running, Ended
  <2>2. Handled'
    BY <1>1, <1>2, <1>3, <1>8 DEF IInv, MemoryRun, PipesOK, Handled, Event, Running, Ended
  <2>3. Sampled'
    BY <1>1, <1>2, <1>3, <1>8, Places, OneThing
       DEF IInv, MemoryRun, Sampled, Handled, PipesOK, ProcessOK, Event, Announces, Ended, Running
  <2> QED BY <1>1, <1>2, <1>3, <2>1, <2>2, <2>3 DEF MemoryRun
<1>9. ASSUME ~Measured PROVE TimeRun'
  BY <1>1, <1>2, <1>3, <1>9 DEF IInv, TimeRun, Running, Event, Ended
<1> QED BY <1>1, <1>2, <1>3, <1>4, <1>5, <1>6, <1>7, <1>8, <1>9 DEF IInv

\* The process writes its object, of success only after its checks.
LEMMA SayPreserves ==
  ASSUME IInv, NEW s \in Objects, NEW c \in Codes, pc \notin Ended,
         c = 0 => pc = "check" /\ s \in {"OK", "EMPTY-JOIN"},
         printed' = <<s>>, exit' = c, pc' = "leave",
         UNCHANGED <<job, fault, events, acks, pipesOpen, signal, monitor, record>>
  PROVE  IInv'
<1>1. /\ pc \notin Ended /\ pc' = "leave" /\ acks' = acks /\ pipesOpen' = pipesOpen
      /\ fault' = fault /\ printed' = <<s>> /\ exit' = c /\ c \in Codes /\ s \in Objects
      /\ at # "done" /\ record = "none"
      /\ c = 0 => pc = "check" /\ s \in {"OK", "EMPTY-JOIN"}
  BY NoRecord DEF Ended, IInv, Decided
<1>2. /\ job' = job /\ events' = events /\ signal' = signal
      /\ at' = at /\ event' = event /\ sampled' = sampled /\ overCap' = overCap
      /\ late' = late /\ forced' = forced /\ status' = status /\ code' = code
      /\ record' = record /\ (Measured' <=> Measured) /\ (AnnouncesP' <=> AnnouncesP)
      /\ \A x : Announces(x)' <=> Announces(x)
  BY DEF monitor, Measured, AnnouncesP, Announces
<1>3. ProcessOK'
  BY <1>1, <1>2 DEF IInv, ProcessOK, TypeOKProcess, Event, Running, Ended
<1>4. Decided'
  BY <1>1, <1>2 DEF IInv, Decided
<1>5. NobodyWaits'
  BY <1>1, <1>2 DEF IInv, NobodyWaits, Decided, MemoryRun, Handled, Exited, Ended, Event, Running
<1>6. RecordOK'
  BY <1>1, <1>2 DEF RecordOK
<1>7. ASSUME Measured PROVE MemoryRun'
  <2>1. PipesOK'
    BY <1>1, <1>2, <1>7 DEF IInv, MemoryRun, PipesOK, Handled, Event, Running, Ended
  <2>2. Handled'
    BY <1>1, <1>2, <1>7 DEF IInv, MemoryRun, PipesOK, Handled, Event, Running, Ended
  <2>3. Sampled'
    BY <1>1, <1>2, <1>7, Places, OneThing
       DEF IInv, MemoryRun, Sampled, Handled, PipesOK, ProcessOK, Event, Announces, Ended, Running
  <2> QED BY <1>1, <1>2, <2>1, <2>2, <2>3 DEF MemoryRun
<1>8. ASSUME ~Measured PROVE TimeRun'
  BY <1>1, <1>2, <1>8 DEF IInv, TimeRun, Running, Event, Ended
<1> QED BY <1>1, <1>2, <1>3, <1>4, <1>5, <1>6, <1>7, <1>8 DEF IInv

\* The process is about to be gone: its pipes are closed, and its return code
\* is 0 only if it was before.
LEMMA DyingPreserves ==
  ASSUME IInv, pc \notin {"dying", "zombie"}, exit' \in Codes, exit' = 0 => exit = 0,
         pc' = "dying", pipesOpen' = FALSE,
         UNCHANGED <<job, fault, printed, events, acks, signal, monitor, record>>
  PROVE  IInv'
<1>1. /\ pc \notin {"dying", "zombie"} /\ pc' = "dying" /\ acks' = acks /\ pipesOpen' = FALSE
      /\ fault' = fault /\ printed' = printed /\ exit' \in Codes /\ (exit' = 0 => exit = 0)
      /\ at # "done" /\ record = "none"
  BY NoRecord DEF IInv, Decided
<1>2. /\ job' = job /\ events' = events /\ signal' = signal
      /\ at' = at /\ event' = event /\ sampled' = sampled /\ overCap' = overCap
      /\ late' = late /\ forced' = forced /\ status' = status /\ code' = code
      /\ record' = record /\ (Measured' <=> Measured) /\ (AnnouncesP' <=> AnnouncesP)
      /\ \A x : Announces(x)' <=> Announces(x)
  BY DEF monitor, Measured, AnnouncesP, Announces
<1>3. ProcessOK'
  BY <1>1, <1>2 DEF IInv, ProcessOK, TypeOKProcess, Event, Running, Ended
<1>4. Decided'
  BY <1>1, <1>2 DEF IInv, Decided
<1>5. NobodyWaits'
  BY <1>1, <1>2 DEF IInv, NobodyWaits, Decided, MemoryRun, Handled, Exited, Ended, Event, Running
<1>6. RecordOK'
  BY <1>1, <1>2 DEF RecordOK
<1>7. ASSUME Measured PROVE MemoryRun'
  <2>1. PipesOK'
    BY <1>1, <1>2, <1>7 DEF IInv, MemoryRun, PipesOK, Handled, Event, Running, Ended
  <2>2. Handled'
    BY <1>1, <1>2, <1>7 DEF IInv, MemoryRun, PipesOK, Handled, Event, Running, Ended
  <2>3. Sampled'
    BY <1>1, <1>2, <1>7, Places, OneThing
       DEF IInv, MemoryRun, Sampled, Handled, PipesOK, ProcessOK, Event, Announces, Ended, Running
  <2> QED BY <1>1, <1>2, <2>1, <2>2, <2>3 DEF MemoryRun
<1>8. ASSUME ~Measured PROVE TimeRun'
  BY <1>1, <1>2, <1>8 DEF IInv, TimeRun, Running, Event, Ended
<1> QED BY <1>1, <1>2, <1>3, <1>4, <1>5, <1>6, <1>7, <1>8 DEF IInv

\* It is gone.
LEMMA ZombiePreserves ==
  ASSUME IInv, BecomeZombie, UNCHANGED <<monitor, record>>
  PROVE  IInv'
<1>1. /\ pc = "dying" /\ pc' = "zombie" /\ acks' = acks /\ pipesOpen' = pipesOpen
      /\ fault' = fault /\ printed' = printed /\ exit' = exit
      /\ at # "done" /\ record = "none"
  BY NoRecord DEF BecomeZombie, IInv, Decided
<1>2. /\ job' = job /\ events' = events /\ signal' = signal
      /\ at' = at /\ event' = event /\ sampled' = sampled /\ overCap' = overCap
      /\ late' = late /\ forced' = forced /\ status' = status /\ code' = code
      /\ record' = record /\ (Measured' <=> Measured) /\ (AnnouncesP' <=> AnnouncesP)
      /\ \A x : Announces(x)' <=> Announces(x)
  BY DEF BecomeZombie, monitor, Measured, AnnouncesP, Announces
<1>3. ProcessOK'
  BY <1>1, <1>2 DEF IInv, ProcessOK, TypeOKProcess, Event, Running, Ended
<1>4. Decided'
  BY <1>1, <1>2 DEF IInv, Decided
<1>5. NobodyWaits'
  BY <1>1, <1>2 DEF IInv, NobodyWaits, Decided, MemoryRun, Handled, Exited, Ended, Event, Running
<1>6. RecordOK'
  BY <1>1, <1>2 DEF RecordOK
<1>7. ASSUME Measured PROVE MemoryRun'
  <2>1. PipesOK'
    BY <1>1, <1>2, <1>7 DEF IInv, MemoryRun, PipesOK, Handled, Event, Running, Ended
  <2>2. Handled'
    BY <1>1, <1>2, <1>7 DEF IInv, MemoryRun, PipesOK, Handled, Event, Running, Ended
  <2>3. Sampled'
    BY <1>1, <1>2, <1>7, Places, OneThing
       DEF IInv, MemoryRun, Sampled, Handled, PipesOK, ProcessOK, Event, Announces, Ended, Running
  <2> QED BY <1>1, <1>2, <2>1, <2>2, <2>3 DEF MemoryRun
<1>8. ASSUME ~Measured PROVE TimeRun'
  BY <1>1, <1>2, <1>8 DEF IInv, TimeRun, Running, Event, Ended
<1> QED BY <1>1, <1>2, <1>3, <1>4, <1>5, <1>6, <1>7, <1>8 DEF IInv

\* Every step of the process.
LEMMA ProcessPreserves ==
  ASSUME IInv, Run, UNCHANGED <<monitor, record>>
  PROVE  IInv'
<1>1. CASE Stage
  BY <1>1, AnnouncePreserves, ResumePreserves, StartQueryPreserves DEF Stage
<1>2. CASE ReportFault
  <2>1. /\ pc = "catch" /\ printed = <<>> /\ fault.status \in Objects /\ fault.code \in Codes \ {0}
    BY <1>2 DEF ReportFault, IInv, ProcessOK, Ended
  <2>2. printed' = <<fault.status>> /\ exit' = fault.code /\ pc' = "leave"
    BY <1>2, <2>1, OneThing DEF ReportFault
  <2> QED BY <1>2, <2>1, <2>2, SayPreserves DEF ReportFault, Ended
<1>3. CASE SetupAlarm
  <2>1. pc \notin Ended \cup {"catch"} /\ printed = <<>>
    BY <1>3 DEF SetupAlarm, Timer, IInv, ProcessOK, TypeOKProcess, Ended, Running, Event
  <2>2. printed' = <<"TO">> /\ exit' = 124 /\ pc' = "leave"
    BY <1>3, <2>1, OneThing DEF SetupAlarm
  <2>3. "TO" \in Objects /\ 124 \in Codes
    BY DEF Objects, Codes
  <2> QED BY <1>3, <2>1, <2>2, <2>3, SayPreserves DEF SetupAlarm
<1>4. CASE \E v \in Verdicts : Report(v)
  <2>1. PICK v \in Verdicts : Report(v)
    BY <1>4
  <2>2. /\ v.status \in Objects /\ v.code \in Codes
        /\ v.code = 0 => v.status \in {"OK", "EMPTY-JOIN"}
    BY DEF Verdicts, Objects, Codes
  <2>3. pc = "check" /\ pc \notin Ended /\ printed = <<>>
    BY <2>1 DEF Report, IInv, ProcessOK, Ended
  <2>4. printed' = <<v.status>> /\ exit' = v.code /\ pc' = "leave"
    BY <2>1, <2>3, OneThing DEF Report
  <2> QED BY <2>1, <2>2, <2>3, <2>4, SayPreserves DEF Report
<1>5. CASE \E s \in Running : \E f \in Faults[s] : Throw(f)
  BY <1>5, ThrowPreserves
<1>6. CASE Leave
  <2>1. pc = "leave" /\ exit \in Codes /\ exit' = exit
    BY <1>6 DEF Leave, IInv, ProcessOK, Ended
  <2> QED BY <1>6, <2>1, DyingPreserves DEF Leave
<1>7. ASSUME NEW c \in {-9, -14, -15}, Die(c) PROVE IInv'
  <2>1. c \in Codes /\ c # 0
    BY DEF Codes
  <2> QED BY <1>7, <2>1, DyingPreserves DEF Die, Alive
<1>8. CASE MainAlarm \/ KernelKill \/ Terminated
  BY <1>7, <1>8 DEF MainAlarm, KernelKill, Terminated
<1>9. CASE BecomeZombie
  BY <1>9, ZombiePreserves
<1> QED BY <1>1, <1>2, <1>3, <1>4, <1>5, <1>6, <1>8, <1>9 DEF Run

-----------------------------------------------------------------------------
(* The monitor.                                                            *)

\* What the monitor does to the process is in the pipes and the signal.
LEMMA ProcessStands ==
  ASSUME IInv, UNCHANGED own, events' \in Seq(Event), acks' \in Nat, signal' \in BOOLEAN
  PROVE  ProcessOK' /\ (Measured' <=> Measured) /\ (AnnouncesP' <=> AnnouncesP)
         /\ (\A x : Announces(x)' <=> Announces(x))
<1>1. job' = job /\ pc' = pc /\ fault' = fault /\ printed' = printed
      /\ pipesOpen' = pipesOpen /\ exit' = exit
  BY DEF own
<1>2. TypeOKProcess'
  BY <1>1 DEF IInv, ProcessOK, TypeOKProcess
<1>3. ProcessOK'
  BY <1>1, <1>2 DEF IInv, ProcessOK
<1> QED BY <1>1, <1>3 DEF Measured, AnnouncesP, Announces

\* Types that the steps below rely on.
LEMMA PipeTypes ==
  ASSUME IInv
  PROVE  events \in Seq(Event) /\ acks \in Nat /\ signal \in BOOLEAN
         /\ (Terminate => signal' \in BOOLEAN /\ (signal => signal') /\ (signal' \/ Exited))
BY DEF IInv, ProcessOK, TypeOKProcess, Terminate

\* A step of the monitor that leaves events and samples alone, and goes on
\* from a place where no event is in hand to another.
LEMMA MovePreserves ==
  ASSUME IInv, Measured, at # "done", at \notin {"sample", "answer"},
         UNCHANGED <<own, events, acks, event, sampled, overCap, late, status, code, record>>,
         signal' \in BOOLEAN, signal => signal',
         at' \in {"loop", "select", "tick", "reap", "abort"},
         forced' \in {"none", "TO", "MEMORY-CAP-EXCEEDED"},
         forced' = "TO" => late, overCap => forced' # "none",
         forced' # "none" => at' = "reap",
         at' = "abort" \/ forced' # "none" => signal' \/ Exited,
         at' = "reap" => at = "reap" \/ signal' \/ Exited,
         at' \in {"loop", "select", "tick"} => at \in {"loop", "select", "tick"}
  PROVE  IInv'
<1>1. /\ pc' = pc /\ events' = events /\ acks' = acks /\ event' = event
      /\ sampled' = sampled /\ overCap' = overCap /\ late' = late /\ exit' = exit
      /\ record' = record /\ record = "none"
  BY NoRecord DEF own
<1>2. /\ ProcessOK' /\ (Measured' <=> Measured) /\ (AnnouncesP' <=> AnnouncesP)
      /\ \A x : Announces(x)' <=> Announces(x)
  BY ProcessStands, PipeTypes
<1>3. Decided'
  BY <1>1, <1>2 DEF IInv, Decided
<1>4. NobodyWaits'
  BY <1>1, <1>2 DEF IInv, NobodyWaits, Decided, Exited, Ended, Event
<1>5. PipesOK'
  BY <1>1 DEF IInv, MemoryRun, PipesOK
<1>6. Handled'
  BY <1>1 DEF Handled
<1>7. Sampled'
  BY <1>1, <1>2 DEF IInv, MemoryRun, Sampled
<1> QED BY <1>1, <1>2, <1>3, <1>4, <1>5, <1>6, <1>7 DEF IInv, MemoryRun, RecordOK

\* What the end of the process and the deadline do to the loop.
LEMMA PollPreserves ==
  ASSUME IInv, Measured, Poll, UNCHANGED record
  PROVE  IInv'
<1>1. /\ at = "loop" /\ forced = "none" /\ ~overCap
      /\ UNCHANGED <<own, events, acks, event, sampled, overCap, late, status, code, record>>
  BY DEF Poll, IInv, Decided
<1>2. CASE Exited /\ Goto("reap") /\ UNCHANGED <<forced, signal>>
  BY <1>1, <1>2, PipeTypes, MovePreserves DEF Goto
<1>3. CASE ~Exited /\ late /\ Terminate /\ forced' = "TO" /\ Goto("reap")
  BY <1>1, <1>3, PipeTypes, MovePreserves DEF Goto
<1>4. CASE ~Exited /\ ~late /\ Goto("select") /\ UNCHANGED <<forced, signal>>
  BY <1>1, <1>4, PipeTypes, MovePreserves DEF Goto
<1> QED BY <1>2, <1>3, <1>4 DEF Poll

\* The monitor gives up: it has not decided, and ends the process.
LEMMA UnavailablePreserves ==
  ASSUME IInv, Measured, at \in {"select", "sample", "tick", "answer"}, Unavailable,
         UNCHANGED <<events, record>>
  PROVE  IInv'
<1>1. /\ at' = "abort" /\ Terminate /\ UNCHANGED own /\ pc' = pc /\ exit' = exit
      /\ events' = events /\ acks' = acks /\ event' = event /\ sampled' = sampled
      /\ overCap' = overCap /\ late' = late /\ forced' = forced
      /\ record' = record /\ record = "none"
  BY NoRecord DEF Unavailable, Goto, own
<1>2. signal' \in BOOLEAN /\ (signal' \/ Exited)
  BY <1>1, PipeTypes
<1>3. /\ ProcessOK' /\ (Measured' <=> Measured) /\ (AnnouncesP' <=> AnnouncesP)
      /\ \A x : Announces(x)' <=> Announces(x)
  BY <1>1, <1>2, ProcessStands, PipeTypes
<1>4. Decided'
  BY <1>1, <1>3 DEF IInv, Decided
<1>5. NobodyWaits'
  BY <1>1, <1>2, PipeTypes DEF NobodyWaits, Exited, Event
<1>6. PipesOK'
  BY <1>1 DEF IInv, MemoryRun, PipesOK
<1>7. Handled'
  BY <1>1 DEF Handled
<1>8. Sampled'
  BY <1>1, <1>3 DEF IInv, MemoryRun, Sampled
<1> QED BY <1>1, <1>3, <1>4, <1>5, <1>6, <1>7, <1>8 DEF IInv, MemoryRun, RecordOK

\* An event is taken from its pipe, at which the process waits or waited.
LEMMA ReadPreserves ==
  ASSUME IInv, Measured, ReadEvent, UNCHANGED record
  PROVE  IInv'
<1>1. PICK e \in Event : events = <<e>> /\ pc \in {e} \cup Ended
  BY DEF ReadEvent, IInv, MemoryRun, PipesOK
<1>2. /\ at = "select" /\ at' = "sample" /\ event' = e /\ events' = <<>>
      /\ UNCHANGED own /\ pc' = pc /\ exit' = exit
      /\ acks' = acks /\ signal' = signal /\ sampled' = sampled
      /\ overCap' = overCap /\ late' = late /\ forced' = forced
      /\ record' = record /\ record = "none"
  BY <1>1, NoRecord, OneThing DEF ReadEvent, Goto, own
<1>3. /\ ProcessOK' /\ (Measured' <=> Measured) /\ (AnnouncesP' <=> AnnouncesP)
      /\ \A x : Announces(x)' <=> Announces(x)
  BY <1>2, ProcessStands, PipeTypes
<1>4. pc = e => acks = 0
  BY <1>1, PipeTypes, OneThing DEF IInv, MemoryRun, PipesOK, Event
<1>5. Decided'
  BY <1>2, <1>3 DEF IInv, Decided
<1>6. NobodyWaits'
  BY <1>1, <1>2 DEF IInv, NobodyWaits, Exited, Ended, Event
<1>7. PipesOK'
  BY <1>1, <1>2, <1>4, OneThing DEF IInv, MemoryRun, PipesOK, Event, Running, Ended
<1>8. Handled'
  BY <1>1, <1>2, <1>4 DEF Handled
<1>9. Sampled'
  BY <1>1, <1>2, <1>3, OneThing DEF IInv, MemoryRun, Sampled
<1> QED BY <1>2, <1>3, <1>5, <1>6, <1>7, <1>8, <1>9 DEF IInv, MemoryRun, RecordOK

\* Nothing can be read.
LEMMA NothingToReadPreserves ==
  ASSUME IInv, Measured, EndOfEvents \/ SelectTimeout, UNCHANGED record
  PROVE  IInv'
<1>1. CASE EndOfEvents
  <2>1. at = "select" /\ forced = "none" /\ ~overCap
    BY <1>1 DEF EndOfEvents, IInv, Decided
  <2>2. CASE ~Exited /\ Unavailable /\ UNCHANGED events
    BY <2>1, <2>2, UnavailablePreserves
  <2>3. CASE Exited /\ Goto("reap") /\ UNCHANGED <<process, event, sampled, overCap, late,
                                                    forced, status, code>>
    BY <2>1, <2>3, PipeTypes, MovePreserves DEF Goto, process, own
  <2> QED BY <1>1, <2>2, <2>3 DEF EndOfEvents
<1>2. CASE SelectTimeout
  <2>1. /\ at = "select" /\ forced = "none" /\ ~overCap /\ at' \in {"loop", "tick"}
        /\ UNCHANGED <<process, event, sampled, overCap, late, forced, status, code>>
    BY <1>2 DEF SelectTimeout, Goto, IInv, Decided
  <2> QED BY <2>1, PipeTypes, MovePreserves DEF process, own
<1> QED BY <1>1, <1>2

\* A sample at an event: within the cap, the event is answered next; above it,
\* the run is decided.
LEMMA SampleEventPreserves ==
  ASSUME IInv, Measured, SampleEvent, UNCHANGED record
  PROVE  IInv'
<1>1. CASE ~(InOrder /\ Alive) /\ Unavailable /\ UNCHANGED events
  BY <1>1, UnavailablePreserves DEF SampleEvent
<1>2. CASE /\ SampleTo("answer", event # "I") /\ sampled' = sampled \cup {event}
           /\ UNCHANGED <<event, late, status, code>>
  <2>1. /\ at = "sample" /\ event \in Event /\ events = <<>> /\ pc \in {event} \cup Ended
        /\ (pc = event => acks = 0) /\ forced = "none" /\ ~overCap /\ record = "none"
        /\ record' = record
    BY NoRecord DEF SampleEvent, IInv, MemoryRun, Handled, Decided
  <2>2. /\ UNCHANGED own /\ pc' = pc /\ exit' = exit /\ events' = events /\ acks' = acks
        /\ event' = event /\ late' = late /\ signal' \in BOOLEAN
        /\ \/ at' = "answer" /\ overCap' = overCap /\ forced' = forced /\ signal' = signal
           \/ at' = "reap" /\ overCap' = TRUE /\ forced' = "MEMORY-CAP-EXCEEDED"
                /\ (signal' \/ Exited)
    BY <1>2, PipeTypes DEF SampleTo, Goto, process, own
  <2>3. /\ ProcessOK' /\ (Measured' <=> Measured) /\ (AnnouncesP' <=> AnnouncesP)
        /\ \A x : Announces(x)' <=> Announces(x)
    BY <2>2, ProcessStands, PipeTypes
  <2>4. Decided'
    <3>1. late \in BOOLEAN /\ overCap \in BOOLEAN
      BY DEF IInv, Decided
    <3>2. /\ overCap' \in BOOLEAN /\ at' \in {"answer", "reap"}
          /\ forced' \in {"none", "MEMORY-CAP-EXCEEDED"}
          /\ (forced' # "none" => at' = "reap")
      BY <2>1, <2>2, <3>1
    <3>3. overCap' => forced' # "none"
      BY <2>1, <2>2, <3>1
    <3> QED BY <2>2, <2>3, <3>1, <3>2, <3>3 DEF Decided
  <2>5. NobodyWaits'
    BY <2>1, <2>2 DEF IInv, NobodyWaits, Exited, Ended, Event
  <2>6. PipesOK'
    BY <1>2, <2>1, <2>2 DEF IInv, MemoryRun, PipesOK
  <2>7. Handled'
    BY <1>2, <2>1, <2>2 DEF Handled
  <2>8. Sampled'
    BY <1>2, <2>1, <2>2, <2>3 DEF IInv, MemoryRun, Sampled
  <2> QED BY <2>1, <2>2, <2>3, <2>4, <2>5, <2>6, <2>7, <2>8 DEF IInv, MemoryRun, RecordOK
<1> QED BY <1>1, <1>2 DEF SampleEvent

\* A sample between the events.
LEMMA SamplePeriodicPreserves ==
  ASSUME IInv, Measured, SamplePeriodic, UNCHANGED record
  PROVE  IInv'
<1>1. at = "tick" /\ forced = "none" /\ ~overCap
  BY DEF SamplePeriodic, IInv, Decided
<1>2. CASE ~Alive /\ Unavailable /\ UNCHANGED events
  BY <1>1, <1>2, UnavailablePreserves
<1>3. CASE SampleTo("loop", TRUE) /\ UNCHANGED <<event, sampled, late, status, code>>
  <2>1. CASE Goto("loop") /\ UNCHANGED <<process, overCap, forced>>
    BY <1>1, <1>3, <2>1, PipeTypes, MovePreserves DEF Goto, process, own
  <2>2. CASE /\ overCap' = TRUE /\ forced' = "MEMORY-CAP-EXCEEDED"
             /\ Terminate /\ Goto("reap") /\ UNCHANGED <<own, events, acks>>
    <3>1. /\ UNCHANGED own /\ pc' = pc /\ exit' = exit /\ events' = events /\ acks' = acks
          /\ event' = event /\ sampled' = sampled /\ late' = late /\ at' = "reap"
          /\ signal' \in BOOLEAN /\ (signal' \/ Exited) /\ record' = record /\ record = "none"
      BY <1>1, <1>3, <2>2, PipeTypes, NoRecord DEF Goto, own
    <3>2. /\ ProcessOK' /\ (Measured' <=> Measured) /\ (AnnouncesP' <=> AnnouncesP)
          /\ \A x : Announces(x)' <=> Announces(x)
      BY <3>1, ProcessStands, PipeTypes
    <3>3. Decided'
      BY <2>2, <3>1, <3>2 DEF IInv, Decided
    <3>4. NobodyWaits'
      BY <3>1 DEF NobodyWaits, Exited, Ended, Event
    <3>5. PipesOK'
      BY <1>1, <3>1 DEF IInv, MemoryRun, PipesOK
    <3>6. Handled'
      BY <3>1 DEF Handled
    <3>7. Sampled'
      BY <3>1, <3>2 DEF IInv, MemoryRun, Sampled
    <3> QED BY <3>1, <3>2, <3>3, <3>4, <3>5, <3>6, <3>7 DEF IInv, MemoryRun, RecordOK
  <2> QED BY <1>3, <2>1, <2>2 DEF SampleTo
<1> QED BY <1>2, <1>3 DEF SamplePeriodic

\* The answer.
LEMMA AcknowledgePreserves ==
  ASSUME IInv, Measured, Acknowledge, UNCHANGED record
  PROVE  IInv'
<1>1. /\ at = "answer" /\ event \in Event /\ events = <<>> /\ pc \in {event} \cup Ended
      /\ (pc = event => acks = 0) /\ event \in sampled /\ forced = "none" /\ ~overCap
      /\ record' = record /\ record = "none"
  BY NoRecord DEF Acknowledge, IInv, MemoryRun, Handled, Decided
<1>2. CASE ~pipesOpen /\ Unavailable /\ UNCHANGED events
  BY <1>1, <1>2, UnavailablePreserves
<1>3. CASE /\ acks' = acks + 1
           /\ Goto(IF event = "D" THEN "reap" ELSE "loop")
           /\ UNCHANGED <<own, events, signal, event, sampled, overCap, late, forced, status, code>>
  <2>1. /\ UNCHANGED own /\ pc' = pc /\ exit' = exit /\ events' = <<>> /\ acks' = acks + 1
        /\ signal' = signal /\ event' = event /\ sampled' = sampled /\ overCap' = overCap
        /\ late' = late /\ forced' = forced /\ acks' \in Nat /\ acks' # 0
        /\ \/ event = "D" /\ at' = "reap"
           \/ event # "D" /\ at' = "loop"
    BY <1>1, <1>3, PipeTypes DEF Goto, own
  <2>2. /\ ProcessOK' /\ (Measured' <=> Measured) /\ (AnnouncesP' <=> AnnouncesP)
        /\ \A x : Announces(x)' <=> Announces(x)
    BY <1>1, <2>1, ProcessStands, PipeTypes
  <2>3. Decided'
    BY <1>1, <2>1, <2>2 DEF IInv, Decided
  <2>4. NobodyWaits'
    BY <1>1, <2>1 DEF IInv, NobodyWaits, Exited, Ended, Event
  <2>5. PipesOK'
    BY <1>1, <2>1 DEF IInv, MemoryRun, PipesOK, Event, Running, Ended
  <2>6. Handled'
    BY <2>1 DEF Handled
  <2>7. Sampled'
    BY <1>1, <2>1, <2>2 DEF IInv, MemoryRun, Sampled
  <2> QED BY <1>1, <2>1, <2>2, <2>3, <2>4, <2>5, <2>6, <2>7 DEF IInv, MemoryRun, RecordOK
<1> QED BY <1>2, <1>3 DEF Acknowledge

\* The wait for the end of the process.
LEMMA WaitTooLongPreserves ==
  ASSUME IInv, Measured, WaitTooLong, UNCHANGED record
  PROVE  IInv'
<1>1. /\ at = "reap" /\ at' = "reap" /\ late /\ late' = late /\ forced' = "TO" /\ overCap' = overCap
      /\ UNCHANGED <<own, events, acks, event, sampled, overCap, late, status, code, record>>
      /\ Terminate
  BY DEF WaitTooLong
<1> QED BY <1>1, PipeTypes, MovePreserves

\* What a run is when it is over, and what then never changes.
LEMMA FinishPreserves ==
  ASSUME IInv, NEW s, NEW c, Finish(s, c), at # "done", Exited, UNCHANGED record,
         Measured => Verdict',
         ~Measured => s = forced /\ c = IF forced = "TO" THEN 124 ELSE exit
  PROVE  IInv'
<1>1. /\ UNCHANGED own /\ pc' = pc /\ exit' = exit /\ events' = events /\ acks' = acks
      /\ signal' = signal /\ event' = event /\ sampled' = sampled /\ overCap' = overCap
      /\ late' = late /\ forced' = forced /\ at' = "done" /\ status' = s /\ code' = c
      /\ record' = record /\ record = "none" /\ pc = "zombie"
  BY NoRecord DEF Finish, Goto, process, own, Exited
<1>2. /\ ProcessOK' /\ (Measured' <=> Measured) /\ (AnnouncesP' <=> AnnouncesP)
      /\ \A x : Announces(x)' <=> Announces(x)
  BY <1>1, ProcessStands, PipeTypes
<1>3. Decided'
  BY <1>1, <1>2 DEF IInv, Decided
<1>4. NobodyWaits'
  BY <1>1 DEF NobodyWaits, Exited, Event
<1>5. ASSUME Measured PROVE MemoryRun'
  <2>1. PipesOK'
    BY <1>1, <1>5 DEF IInv, MemoryRun, PipesOK
  <2>2. Handled'
    BY <1>1 DEF Handled
  <2>3. Sampled'
    BY <1>1, <1>2, <1>5 DEF IInv, MemoryRun, Sampled
  <2> QED BY <1>5, <2>1, <2>2, <2>3 DEF MemoryRun
<1>6. ASSUME ~Measured PROVE TimeRun'
  BY <1>1, <1>6 DEF IInv, TimeRun, Event
<1> QED BY <1>1, <1>2, <1>3, <1>4, <1>5, <1>6 DEF IInv, RecordOK

\* The report of the monitor.
LEMMA ReportPreserves ==
  ASSUME IInv, Measured, Reap \/ Abort, UNCHANGED record
  PROVE  IInv'
<1>1. at # "done" /\ Exited /\ (at = "abort" => ~overCap) /\ (forced = "none" => ~overCap)
      /\ (forced = "TO" => late)
  BY DEF Reap, Abort, IInv, Decided
<1>2. ASSUME NEW s, NEW c, Finish(s, c)
      PROVE  status' = s /\ code' = c /\ (late => late') /\ (overCap' => overCap) /\ exit' = exit
  BY <1>2 DEF Finish, process
<1>3. 124 % 256 = 124 /\ 137 % 256 = 137 /\ 78 % 256 = 78
  OBVIOUS
<1>4. CASE forced = "TO" /\ Finish("TO", ExitCode(124))
  <2>1. Verdict'
    BY <1>1, <1>2, <1>3, <1>4 DEF Verdict, ExitCode
  <2> QED BY <1>1, <1>4, <2>1, FinishPreserves
<1>5. CASE forced = "MEMORY-CAP-EXCEEDED" /\ Finish(forced, ExitCode(137))
  <2>1. Verdict'
    BY <1>1, <1>2, <1>3, <1>5 DEF Verdict, ExitCode
  <2> QED BY <1>1, <1>5, <2>1, FinishPreserves
<1>6. CASE forced = "none" /\ Finish("OOM", ExitCode(137))
  <2>1. Verdict'
    BY <1>1, <1>2, <1>3, <1>6 DEF Verdict, ExitCode
  <2> QED BY <1>1, <1>6, <2>1, FinishPreserves
<1>7. CASE forced = "none" /\ Finish("OK", ExitCode(exit))
  <2>1. Verdict'
    BY <1>1, <1>2, <1>7 DEF Verdict, ExitCode
  <2> QED BY <1>1, <1>7, <2>1, FinishPreserves
<1>8. CASE Abort
  <2>1. Finish("MEMORY-MEASUREMENT-UNAVAILABLE", ExitCode(78)) /\ ~overCap
    BY <1>1, <1>8 DEF Abort
  <2>2. Verdict'
    BY <1>2, <1>3, <2>1 DEF Verdict, ExitCode
  <2> QED BY <1>1, <2>1, <2>2, FinishPreserves
<1> QED BY <1>4, <1>5, <1>6, <1>7, <1>8 DEF Reap

\* Every step of the monitor.
LEMMA MonitorPreserves ==
  ASSUME IInv, Measured, Monitor, UNCHANGED record
  PROVE  IInv'
BY PollPreserves, ReadPreserves, NothingToReadPreserves, SampleEventPreserves,
   SamplePeriodicPreserves, AcknowledgePreserves, WaitTooLongPreserves, ReportPreserves
   DEF Monitor

-----------------------------------------------------------------------------
(* The harness, the clock, and the whole.                                  *)

\* What a run is recorded as depends on nothing that changes once it is over.
LEMMA ReconciledStands ==
  ASSUME UNCHANGED vars
  PROVE  Reconciled' = Reconciled
<1>1. job' = job /\ printed' = printed /\ status' = status /\ code' = code /\ sampled' = sampled
  BY DEF vars, process, monitor
<1> QED BY <1>1 DEF Reconciled, Complete, Required, Measured, FieldsStand, OkNeedsExitZero,
                    AlarmMeansTO, WrapperDecides, Said

\* To stand still, or to record the run.
LEMMA StandingPreserves ==
  ASSUME IInv, UNCHANGED vars, record' = record \/ (at = "done" /\ record' = Reconciled)
  PROVE  IInv'
<1>1. /\ UNCHANGED own /\ pc' = pc /\ exit' = exit /\ events' = events /\ acks' = acks
      /\ signal' = signal /\ at' = at /\ event' = event /\ sampled' = sampled
      /\ overCap' = overCap /\ late' = late /\ forced' = forced /\ status' = status /\ code' = code
  BY DEF vars, process, monitor, own
<1>2. /\ ProcessOK' /\ (Measured' <=> Measured) /\ (AnnouncesP' <=> AnnouncesP)
      /\ \A x : Announces(x)' <=> Announces(x)
  BY <1>1, ProcessStands, PipeTypes
<1>3. Decided'
  BY <1>1, <1>2 DEF IInv, Decided
<1>4. NobodyWaits'
  BY <1>1, <1>2 DEF IInv, NobodyWaits, Exited
<1>5. RecordOK'
  BY <1>1, ReconciledStands DEF IInv, RecordOK
<1>6. ASSUME Measured PROVE MemoryRun'
  <2>1. PipesOK'
    BY <1>1, <1>6 DEF IInv, MemoryRun, PipesOK
  <2>2. Handled'
    BY <1>1, <1>6 DEF IInv, MemoryRun, Handled
  <2>3. Sampled'
    BY <1>1, <1>2, <1>6 DEF IInv, MemoryRun, Sampled
  <2>4. (at = "done" => Verdict)'
    BY <1>1, <1>6 DEF IInv, MemoryRun, Verdict
  <2> QED BY <2>1, <2>2, <2>3, <2>4 DEF MemoryRun
<1>7. ASSUME ~Measured PROVE TimeRun'
  BY <1>1, <1>7 DEF IInv, TimeRun
<1> QED BY <1>2, <1>3, <1>4, <1>5, <1>6, <1>7 DEF IInv

\* The deadline passes.
LEMMA DeadlinePreserves ==
  ASSUME IInv, Deadline, UNCHANGED record
  PROVE  IInv'
<1>1. /\ UNCHANGED own /\ pc' = pc /\ exit' = exit /\ events' = events /\ acks' = acks
      /\ signal' = signal /\ at' = at /\ event' = event /\ sampled' = sampled
      /\ overCap' = overCap /\ late' = TRUE /\ forced' = forced /\ status' = status /\ code' = code
      /\ at # "done" /\ record' = record /\ record = "none"
  BY NoRecord DEF Deadline, process, own
<1>2. /\ ProcessOK' /\ (Measured' <=> Measured) /\ (AnnouncesP' <=> AnnouncesP)
      /\ \A x : Announces(x)' <=> Announces(x)
  BY <1>1, ProcessStands, PipeTypes
<1>3. Decided'
  BY <1>1, <1>2 DEF IInv, Decided
<1>4. NobodyWaits'
  BY <1>1, <1>2 DEF IInv, NobodyWaits, Exited
<1>5. ASSUME Measured PROVE MemoryRun'
  <2>1. PipesOK'
    BY <1>1, <1>5 DEF IInv, MemoryRun, PipesOK
  <2>2. Handled'
    BY <1>1, <1>5 DEF IInv, MemoryRun, Handled
  <2>3. Sampled'
    BY <1>1, <1>2, <1>5 DEF IInv, MemoryRun, Sampled
  <2> QED BY <1>1, <2>1, <2>2, <2>3 DEF MemoryRun
<1>6. ASSUME ~Measured PROVE TimeRun'
  BY <1>1, <1>6 DEF IInv, TimeRun
<1> QED BY <1>1, <1>2, <1>3, <1>4, <1>5, <1>6 DEF IInv, RecordOK

\* A time run is waited for, and ended at its deadline.
LEMMA TimeRunPreserves ==
  ASSUME IInv, WaitForTimeRun \/ TimeRunTooLong, UNCHANGED record
  PROVE  IInv'
<1>1. CASE WaitForTimeRun
  BY <1>1, FinishPreserves DEF WaitForTimeRun
<1>2. CASE TimeRunTooLong
  <2>1. /\ UNCHANGED own /\ pc' = pc /\ exit' = exit /\ events' = events /\ acks' = acks
        /\ at' = at /\ event' = event /\ sampled' = sampled
        /\ overCap' = overCap /\ late' = late /\ forced' = "TO" /\ status' = status /\ code' = code
        /\ at # "done" /\ ~Measured /\ late /\ Terminate /\ record' = record /\ record = "none"
    BY <1>2, NoRecord DEF TimeRunTooLong, own
  <2>2. signal' \in BOOLEAN /\ (signal' \/ Exited)
    BY <2>1, PipeTypes
  <2>3. ProcessOK' /\ (Measured' <=> Measured)
    BY <2>1, <2>2, ProcessStands, PipeTypes
  <2>4. Decided'
    BY <2>1, <2>3 DEF IInv, Decided
  <2>5. NobodyWaits'
    BY <2>1, <2>2, <2>3 DEF NobodyWaits, Exited
  <2>6. TimeRun'
    BY <2>1 DEF IInv, TimeRun
  <2> QED BY <2>1, <2>3, <2>4, <2>5, <2>6 DEF IInv, RecordOK
<1> QED BY <1>1, <1>2

\* The invariant holds at the start of a run.
LEMMA InitInv == RunInit => IInv
<1> SUFFICES ASSUME RunInit PROVE IInv
  OBVIOUS
<1>1. /\ job \in Job /\ pc = "load" /\ printed = <<>> /\ events = <<>> /\ acks = 0
      /\ pipesOpen = TRUE /\ exit = NotExited /\ signal = FALSE
      /\ at = "loop" /\ sampled = {} /\ overCap = FALSE /\ late = FALSE /\ forced = "none"
      /\ record = "none"
  BY DEF RunInit, Init, MonitorInit
<1>2. ProcessOK
  <2>1. {pipesOpen, signal} \subseteq BOOLEAN
    BY <1>1
  <2>2. events \in Seq(Event)
    BY <1>1
  <2>3. TypeOKProcess
    BY <1>1, <2>1, <2>2 DEF TypeOKProcess, Running
  <2> QED BY <1>1, <2>3 DEF ProcessOK, Ended, NotExited
<1>3. Decided /\ RecordOK
  BY <1>1 DEF Decided, RecordOK
<1>4. NobodyWaits
  BY <1>1 DEF NobodyWaits, Event
<1>5. PipesOK /\ Handled
  BY <1>1 DEF PipesOK, Handled, Event
<1>6. Sampled
  BY <1>1, Places DEF Sampled, Event, NotExited
<1>7. TimeRun
  BY <1>1 DEF TimeRun, Event
<1> QED BY <1>1, <1>2, <1>3, <1>4, <1>5, <1>6, <1>7 DEF IInv, MemoryRun

\* Every step keeps it.
LEMMA Inductive == IInv /\ [RunNext]_all => IInv'
<1> SUFFICES ASSUME IInv, [RunNext]_all PROVE IInv'
  OBVIOUS
<1>1. CASE Run /\ UNCHANGED <<monitor, record>>
  BY <1>1, ProcessPreserves
<1>2. CASE Measured /\ Monitor /\ UNCHANGED record
  BY <1>2, MonitorPreserves
<1>3. CASE (WaitForTimeRun \/ TimeRunTooLong) /\ UNCHANGED record
  BY <1>3, TimeRunPreserves
<1>4. CASE Record
  BY <1>4, StandingPreserves DEF Record
<1>5. CASE Deadline /\ UNCHANGED record
  BY <1>5, DeadlinePreserves
<1>6. CASE UNCHANGED all
  BY <1>6, StandingPreserves DEF all
<1> QED BY <1>1, <1>2, <1>3, <1>4, <1>5, <1>6 DEF RunNext, Harness

LEMMA Invariance == RunSpec => []IInv
BY InitInv, Inductive, PTL DEF RunSpec

\* The verdicts are the results, and nothing else that is printed is one.
LEMMA VerdictsAreResults ==
  /\ {v.status : v \in Verdicts} = Results /\ "TO" \notin Results
  /\ \A s : <<s>> # <<>> /\ \A r : <<s>> = <<r>> => s = r
BY DEF Verdicts, Results

\* A step of the process, which the last answer lets come to its end.
LEMMA ProcessKeepsLast ==
  ASSUME IInv, LastAnswered, Run, UNCHANGED <<monitor, record>>
  PROVE  LastAnswered'
<1>1. at' = at /\ overCap' = overCap
  BY DEF monitor
<1>2. Measured' <=> Measured
  BY DEF Measured, Run, Stage, Announce, Resume, StartQuery, ReportFault, SetupAlarm, Leave,
         MainAlarm, KernelKill, Terminated, Die, BecomeZombie, Report, Throw
<1>3. SUFFICES ASSUME Measured
               PROVE  LastIsAnswered' => LastIsAnswered
  BY <1>1, <1>2 DEF LastAnswered
<1>4. /\ pc \in Running \cup {"catch"} => acks = 0
      /\ pc \notin Ended => printed = <<>>
      /\ pc = "catch" => fault.status \notin Results
  BY <1>3 DEF IInv, MemoryRun, PipesOK, ProcessOK
<1>5. ASSUME NEW stage, NEW e \in Event, stage \in Running, Announce(stage, e)
      PROVE  LastIsAnswered' => LastIsAnswered
  <2>1. pc = stage /\ pc' = e /\ acks' = acks /\ printed' = printed /\ acks = 0
    BY <1>3, <1>4, <1>5 DEF Announce
  <2> QED BY <2>1 DEF LastIsAnswered, Event
<1>6. ASSUME NEW e \in Event, Resume(e)
      PROVE  LastIsAnswered' => LastIsAnswered
  <2>1. pc = e /\ acks > 0 /\ pc' = Resumed[e] /\ printed' = printed
    BY <1>6 DEF Resume
  <2>2. e # "D" => pc' \notin {"check", "D"}
    BY <2>1, Places DEF Event
  <2> QED BY <2>1, <2>2 DEF LastIsAnswered
<1>7. CASE StartQuery
  BY <1>7 DEF StartQuery, LastIsAnswered
<1>8. CASE Stage
  <2>1. {"I", "B", "P", "D"} \subseteq Event
        /\ {"load", "allocate", "build", "query"} \subseteq Running
    BY DEF Event, Running
  <2> QED BY <1>5, <1>6, <1>7, <1>8, <2>1 DEF Stage
<1>9. CASE ReportFault
  <2>1. printed' = <<fault.status>> /\ pc' = "leave" /\ fault.status \notin Results
    BY <1>4, <1>9, OneThing DEF ReportFault, Ended
  <2> QED BY <2>1, VerdictsAreResults DEF LastIsAnswered
<1>10. CASE SetupAlarm
  <2>1. pc \notin Ended
    BY <1>10 DEF SetupAlarm, Timer, Ended
  <2>2. printed' = <<"TO">> /\ pc' = "leave"
    BY <1>4, <1>10, <2>1, OneThing DEF SetupAlarm
  <2> QED BY <2>2, VerdictsAreResults DEF LastIsAnswered
<1>11. CASE \E v \in Verdicts : Report(v)
  BY <1>11 DEF Report, LastIsAnswered
<1>12. CASE \E s \in Running : \E f \in Faults[s] : Throw(f)
  BY <1>12 DEF Throw, LastIsAnswered
<1>13. CASE Leave \/ MainAlarm \/ KernelKill \/ Terminated \/ BecomeZombie
  <2>1. pc' \in {"dying", "zombie"} /\ printed' = printed
    BY <1>13 DEF Leave, MainAlarm, KernelKill, Terminated, Die, BecomeZombie
  <2> QED BY <2>1 DEF LastIsAnswered
<1> QED BY <1>8, <1>9, <1>10, <1>11, <1>12, <1>13 DEF Run

\* A step of the monitor: it is at an end once the last event is answered.
LEMMA MonitorKeepsLast ==
  ASSUME IInv, LastAnswered, Measured, Monitor, UNCHANGED record
  PROVE  LastAnswered'
<1>1. /\ UNCHANGED own
      /\ \/ Acknowledge /\ ~(UNCHANGED acks)
         \/ /\ acks' = acks
            /\ at \in {"reap", "done"} =>
                 at' \in {"reap", "done"} /\ overCap' = overCap
  BY DEF Monitor, Poll, ReadEvent, EndOfEvents, SelectTimeout, SampleEvent, SampleTo,
         SamplePeriodic, Acknowledge, WaitTooLong, Reap, Abort, Unavailable, Finish, Goto,
         Terminate, own, process
<1>2. /\ job' = job /\ pc' = pc /\ printed' = printed
  BY <1>1 DEF own
<1>3. CASE acks' = acks /\ (at \in {"reap", "done"} =>
                              at' \in {"reap", "done"} /\ overCap' = overCap)
  BY <1>2, <1>3 DEF LastAnswered, LastIsAnswered, Measured
<1>4. CASE Acknowledge /\ ~(UNCHANGED acks)
  <2>1. /\ at = "answer" /\ overCap' = overCap /\ at' = IF event = "D" THEN "reap" ELSE "loop"
    BY <1>4 DEF Acknowledge, Unavailable, Goto
  <2>2. ~overCap /\ pc \in {event} \cup Ended
    BY <2>1 DEF IInv, Decided, MemoryRun, Handled
  <2>3. ~LastIsAnswered
    BY <2>1 DEF LastAnswered
  <2>4. event # "D" => ~LastIsAnswered'
    BY <1>2, <2>2, <2>3 DEF LastIsAnswered, Ended
  <2> QED BY <2>1, <2>2, <2>4 DEF LastAnswered
<1> QED BY <1>1, <1>3, <1>4

\* An object of a run that came to its end excludes a sample above the cap.
LEMMA LastInvariance == RunSpec => []LastAnswered
<1>1. RunInit => LastAnswered
  BY OneThing DEF RunInit, Init, LastAnswered, LastIsAnswered
<1>2. IInv /\ LastAnswered /\ [RunNext]_all => LastAnswered'
  <2> SUFFICES ASSUME IInv, LastAnswered, [RunNext]_all PROVE LastAnswered'
    OBVIOUS
  <2>1. CASE Run /\ UNCHANGED <<monitor, record>>
    BY <2>1, ProcessKeepsLast
  <2>2. CASE Measured /\ Monitor /\ UNCHANGED record
    BY <2>2, MonitorKeepsLast
  <2>3. CASE WaitForTimeRun \/ TimeRunTooLong
    <3>1. ~Measured /\ job' = job
      BY <2>3 DEF WaitForTimeRun, TimeRunTooLong, Finish, process, own
    <3> QED BY <3>1 DEF LastAnswered, Measured
  <2>4. CASE Record \/ (Deadline /\ UNCHANGED record) \/ UNCHANGED all
    <3>1. /\ job' = job /\ pc' = pc /\ acks' = acks /\ printed' = printed /\ at' = at
          /\ overCap' = overCap
      BY <2>4 DEF Record, Deadline, all, vars, process, monitor
    <3> QED BY <3>1 DEF LastAnswered, LastIsAnswered, Measured
  <2> QED BY <2>1, <2>2, <2>3, <2>4 DEF RunNext, Harness
<1> QED BY <1>1, <1>2, Invariance, PTL DEF RunSpec

-----------------------------------------------------------------------------
(* What follows.                                                           *)

\* What a run that is over has said, and what is made of that.
LEMMA SaidTells ==
  ASSUME IInv, at = "done"
  PROVE  \/ printed = <<>> /\ Said \in {"OOM", "BENCHMARK-ERROR"} \cup (Final \cap {status})
         \/ \E s \in Objects : printed = <<s>> /\ Said = s
<1>1. CASE printed = <<>>
  BY <1>1, OneThing DEF Said
<1>2. ASSUME NEW s \in Objects, printed = <<s>> PROVE Said = s
  BY <1>2, OneThing DEF Said
<1> QED BY <1>1, <1>2 DEF IInv, ProcessOK

\* An exit code is that of the process, of eight bits for the caller.
LEMMA EightBits ==
  ASSUME NEW c \in Codes, c % 256 = 0
  PROVE  c = 0
BY DEF Codes

\* A monitor that reports a success has sampled every event.
LEMMA InvOkIsMeasured == IInv => OkIsMeasured
<1> SUFFICES ASSUME IInv, at = "done", status = "OK", code = 0
             PROVE  /\ sampled = IF AnnouncesP THEN Event ELSE Event \ {"P"}
                    /\ ~overCap
  BY DEF OkIsMeasured
<1>1. Measured
  BY DEF IInv, TimeRun, Decided
<1>2. ~overCap /\ exit % 256 = 0 /\ exit \in Codes
  BY <1>1, Over DEF IInv, MemoryRun, Verdict
<1>3. exit = 0
  BY <1>2, EightBits
<1>4. /\ sampled \subseteq Event
      /\ \A e \in Event : Announces(e) => e \in sampled
      /\ AnnouncesP \/ "P" \notin sampled
  BY <1>1, <1>3 DEF IInv, MemoryRun, Sampled
<1>5. {"I", "B", "D"} \subseteq sampled /\ (AnnouncesP => "P" \in sampled)
  BY <1>4 DEF Announces, Event
<1> QED BY <1>2, <1>4, <1>5 DEF Event

\* A run is recorded as OK only after every stage of the reconciliation.
LEMMA RecordedOk ==
  ASSUME IInv, record = "OK"
  PROVE  /\ at = "done" /\ printed = <<"OK">> /\ code = 0 /\ status \notin Final
         /\ Measured => Required \subseteq sampled /\ job.pinned
         /\ job.agrees
<1>1. at = "done" /\ Reconciled = "OK"
  BY DEF IInv, RecordOK
<1>2. /\ FieldsStand(OkNeedsExitZero(AlarmMeansTO(WrapperDecides(Said)))) = "OK"
      /\ Measured => Required \subseteq sampled /\ job.pinned
  BY <1>1 DEF Reconciled, Complete
<1>3. /\ AlarmMeansTO(WrapperDecides(Said)) = "OK" /\ code = 0
      /\ ~job.agrees => ~\E v \in Verdicts : printed = <<v.status>>
  BY <1>2 DEF OkNeedsExitZero, FieldsStand
<1>4. WrapperDecides(Said) = "OK"
  BY <1>3 DEF AlarmMeansTO
<1>5. Said = "OK" /\ status \notin Final
  BY <1>4 DEF WrapperDecides, Final
<1>6. printed = <<"OK">>
  BY <1>1, <1>5, SaidTells DEF Final
<1>7. job.agrees
  <2>1. \E v \in Verdicts : v.status = "OK"
    BY DEF Verdicts
  <2>2. job.agrees \in BOOLEAN
    BY DEF IInv, ProcessOK, TypeOKProcess, Job
  <2> QED BY <1>3, <1>6, <2>1, <2>2
<1> QED BY <1>1, <1>2, <1>3, <1>5, <1>6, <1>7

\* And so what an OK record says is so.
LEMMA InvOkIsEarned == IInv => OkIsEarned
<1> SUFFICES ASSUME IInv PROVE OkIsEarned
  OBVIOUS
<1>1. OkIsMeasured
  BY InvOkIsMeasured
<1>2. ASSUME record = "OK" PROVE printed = <<"OK">> /\ exit = 0 /\ job.agrees
  <2>1. /\ at = "done" /\ printed = <<"OK">> /\ code = 0 /\ status \notin Final
        /\ job.agrees
    BY <1>2, RecordedOk
  <2>2. exit \in Codes
    BY <2>1, Over
  <2>3. CASE Measured
    <3>1. code = exit % 256
      BY <2>1, <2>3 DEF IInv, MemoryRun, Verdict, Final
    <3> QED BY <2>1, <2>2, <3>1, EightBits
  <2>4. CASE ~Measured
    BY <2>1, <2>4 DEF IInv, TimeRun, Final
  <2> QED BY <2>1, <2>3, <2>4
<1>3. ASSUME record = "OK", Measured
      PROVE  {"I", "B", "D"} \cup Required \subseteq sampled /\ ~overCap /\ job.pinned
  <2>1. /\ at = "done" /\ code = 0 /\ status \notin Final /\ Required \subseteq sampled
        /\ job.pinned
    BY <1>3, RecordedOk
  <2>2. status = "OK"
    BY <1>3, <2>1 DEF IInv, MemoryRun, Verdict, Final
  <2>3. sampled = (IF AnnouncesP THEN Event ELSE Event \ {"P"}) /\ ~overCap
    BY <1>1, <2>1, <2>2 DEF OkIsMeasured
  <2> QED BY <2>1, <2>3 DEF Event
<1> QED BY <1>1, <1>2, <1>3 DEF OkIsEarned

\* A limit that the monitor reports survives the reconciliation, of a run that
\* did not come to its end.
LEMMA LimitStands ==
  ASSUME status \in Final, code \notin {-14, 142}, ~\E s \in Results : printed = <<s>>
  PROVE  Reconciled = status
<1>1. WrapperDecides(Said) = status
  BY DEF WrapperDecides
<1>2. AlarmMeansTO(status) = status
  BY DEF AlarmMeansTO
<1>3. status # "OK"
  BY DEF Final
<1>4. OkNeedsExitZero(status) = status /\ Complete(status) = status
  BY <1>3 DEF OkNeedsExitZero, Complete
<1>5. FieldsStand(status) = status
  BY VerdictsAreResults DEF FieldsStand
<1> QED BY <1>1, <1>2, <1>4, <1>5 DEF Reconciled

\* A sample above the cap is reported, and recorded.
LEMMA InvCapIsRecorded == IInv /\ LastAnswered => CapIsRecorded
<1> SUFFICES ASSUME IInv, LastAnswered PROVE CapIsRecorded
  OBVIOUS
<1>1. ASSUME at = "done", overCap
      PROVE  /\ \/ status = "MEMORY-CAP-EXCEEDED" /\ code = 137
                \/ status = "TO" /\ code = 124 /\ late
             /\ ~\E s \in Results : printed = <<s>>
  <2>1. Measured
    BY <1>1 DEF IInv, TimeRun
  <2>2. ~\E s \in Results : printed = <<s>>
    BY <1>1, <2>1 DEF LastAnswered, LastIsAnswered
  <2> QED BY <1>1, <2>1, <2>2 DEF IInv, MemoryRun, Verdict
<1>2. CapDecides
  BY <1>1 DEF CapDecides
<1>3. ASSUME record # "none", overCap
      PROVE  record = "MEMORY-CAP-EXCEEDED" \/ (late /\ record = "TO")
  <2>1. at = "done" /\ record = Reconciled
    BY <1>3 DEF IInv, RecordOK
  <2>2. status \in Final /\ code \notin {-14, 142} /\ ~\E s \in Results : printed = <<s>>
    BY <1>1, <1>3, <2>1 DEF Final
  <2> QED BY <1>1, <1>3, <2>1, <2>2, LimitStands
<1> QED BY <1>2, <1>3 DEF CapIsRecorded, Recorded

\* What lies behind the process was sampled while it stood there.
LEMMA InvHeldWhileSampled == IInv => HeldWhileSampled
<1> SUFFICES ASSUME IInv, Measured PROVE HeldWhileSampled
  BY DEF HeldWhileSampled
<1>1. at \in {"sample", "answer"} => pc \in {event, "leave", "dying", "zombie"}
  BY DEF IInv, MemoryRun, Handled, Ended
<1>2. \A e \in Event : pc \in Behind[e] /\ Announces(e) => e \in sampled
  BY DEF IInv, MemoryRun, Sampled
<1>3. Announces("I") /\ Announces("B") /\ Announces("D") /\ (AnnouncesP => Announces("P"))
  BY DEF Announces
<1>4. {"I", "B", "P", "D"} \subseteq Event
  BY DEF Event
<1> QED BY <1>1, <1>2, <1>3, <1>4, Places DEF HeldWhileSampled

\* What the reconciliation makes of what was said and reported is a status of
\* the mode.
LEMMA InvRecordedByMode == IInv => RecordedByMode
<1> SUFFICES ASSUME IInv, record # "none" PROVE record \in Recordable
  BY DEF RecordedByMode, Recorded
<1>1. at = "done" /\ record = Reconciled
  BY DEF IInv, RecordOK
<1>2. {"OK", "TO", "OOM", "BENCHMARK-ERROR"} \subseteq Recordable
  BY DEF Recordable, Objects
<1>3. Final \cap {status} \subseteq Recordable
  BY <1>1 DEF IInv, MemoryRun, TimeRun, Verdict, Decided, Final, Recordable, Objects
<1>4. Said \in Recordable
  BY <1>1, <1>2, <1>3, SaidTells DEF Recordable
<1>5. WrapperDecides(Said) \in Recordable
  BY <1>3, <1>4 DEF WrapperDecides
<1>6. AlarmMeansTO(WrapperDecides(Said)) \in Recordable
  BY <1>2, <1>5 DEF AlarmMeansTO
<1>7. OkNeedsExitZero(AlarmMeansTO(WrapperDecides(Said))) \in Recordable
  BY <1>2, <1>6 DEF OkNeedsExitZero
<1>8. Measured => "MEMORY-MEASUREMENT-UNAVAILABLE" \in Recordable
  BY DEF Recordable
<1>9. FieldsStand(OkNeedsExitZero(AlarmMeansTO(WrapperDecides(Said)))) \in Recordable
  BY <1>2, <1>7 DEF FieldsStand
<1> QED BY <1>1, <1>8, <1>9 DEF Reconciled, Complete

\* Process and monitor stay within their states, and no byte is in a pipe but
\* that of an event (benchmark_main.cpp, run_procfs.py).
THEOREM TypeCorrect == RunSpec => []TypeOK
<1>1. IInv => TypeOK
  BY DEF IInv, ProcessOK, Decided, MemoryRun, Sampled, TimeRun, TypeOK
<1> QED BY <1>1, Invariance, PTL

\* The memory of an event is held while it is sampled, and the process goes on
\* only after the sample (run_procfs.py 7-8), however its end and the monitor's
\* steps fall together.
THEOREM AlwaysHeldWhileSampled == RunSpec => []HeldWhileSampled
BY Invariance, InvHeldWhileSampled, PTL

\* A process never writes a second JSON object, which _parse_one_json relies on:
\* neither timers nor exceptions come after an object, nor an object after them.
THEOREM NeverTwoObjects == RunSpec => []OneObject
<1>1. ASSUME IInv PROVE Len(printed) <= 1
  <2>1. ASSUME NEW s \in Objects, printed = <<s>> PROVE Len(printed) = 1
    BY <2>1
  <2>2. printed = <<>> => Len(printed) = 0
    OBVIOUS
  <2>3. printed = <<>> \/ \E s \in Objects : printed = <<s>>
    BY <1>1 DEF IInv, ProcessOK
  <2>4. Len(printed) = 0 \/ Len(printed) = 1
    BY <2>1, <2>2, <2>3, Zenon
  <2>5. \A n : n = 0 \/ n = 1 => n <= 1
    OBVIOUS
  <2> QED BY <2>4, <2>5, Zenon
<1>2. IInv => OneObject
  BY <1>1 DEF OneObject
<1> QED BY <1>2, Invariance, PTL

\* A run recorded as OK said so of the run that was meant, exited with 0 and was
\* measured at every event within the cap (run_one of experiments.py).
THEOREM OkIsAlwaysEarned == RunSpec => []OkIsEarned
BY Invariance, InvOkIsEarned, PTL

\* A memory run that was sampled above its cap is recorded as such, or as late,
\* whatever it said of itself and however it died.
THEOREM CapIsAlwaysRecorded == RunSpec => []CapIsRecorded
BY Invariance, LastInvariance, InvCapIsRecorded, PTL

\* Process and monitor never wait for each other: the monitor waits only for a
\* process that it has signalled or that has come to its end, and a process that
\* waits at an event is answered, or about to be, or signalled.
THEOREM NeverWaitForEachOther == RunSpec => []NobodyWaits
<1>1. IInv => NobodyWaits
  BY DEF IInv
<1> QED BY <1>1, Invariance, PTL

\* Only a memory run is recorded as above a cap or as lacking a sample, which is
\* what the ledger takes the statuses of the two modes to be.
THEOREM AlwaysRecordedByMode == RunSpec => []RecordedByMode
BY Invariance, InvRecordedByMode, PTL
=============================================================================
