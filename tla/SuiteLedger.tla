---------------------------- MODULE SuiteLedger ----------------------------
(***************************************************************************)
(* run_suite of python/anchor_exp/experiments.py: how the records of a     *)
(* suite come to be published.  A session appends each record to a staging *)
(* file, and when all the runs it was asked for are there it checks them   *)
(* and replaces the destination by them.  A later session resumes from the *)
(* staging file, or from a copy of the destination, and runs only what is  *)
(* missing.  A session can end between any two steps, and in the middle of *)
(* writing a line or a file.                                               *)
(*                                                                         *)
(* A run is an experiment, an algorithm and a mode, the run key of the     *)
(* code.  Of a record the model keeps the key, the identity of the machine *)
(* and build that made it, and its status.  Of a file it keeps the records *)
(* in it, whether a line of it cannot be parsed, and whether its last line *)
(* lacks its newline: append_jsonl would continue that line.               *)
(***************************************************************************)
EXTENDS Naturals, FiniteSets

CONSTANTS Experiment, Algorithm,
          Build,            \* identities of machine and build
          Outcome,          \* the statuses a run may have, for each mode
          Faults,           \* what may go wrong beside a crash between steps
          MaxCrashes        \* bound: sessions that end before their end

Mode   == {"time", "memory"}
Run    == Experiment \X Algorithm \X Mode
Status == UNION {Outcome[m] : m \in Mode}
Record == [run : Run, build : Build, status : Status]

ASSUME LedgerAssumption ==
  /\ Outcome \in [Mode -> SUBSET Status]
  /\ Faults \subseteq {"torn append", "torn copy"}
  /\ MaxCrashes \in Nat

VARIABLES destination,      \* the published file
          staging,          \* OUTPUT.partial
          at,               \* where the session stands
          build, request,   \* the session's machine and experiments
          completed,        \* the run keys it takes for done
          origin,           \* history: what the staging file goes on from
          crashes

session == <<build, request>>
vars    == <<destination, staging, at, session, completed, origin, crashes>>

-----------------------------------------------------------------------------
(* Files.                                                                  *)

NoFile == [exists |-> FALSE, records |-> {}, broken |-> FALSE,
           unended |-> {}]
File(records) == [exists |-> TRUE, records |-> records, broken |-> FALSE,
                  unended |-> {}]

\* A file of JSON lines; unended is the record whose newline is missing.
FileType == [exists : BOOLEAN, records : SUBSET Record, broken : BOOLEAN,
             unended : SUBSET Record]

\* Appending to an unended line makes one line of two objects.
Appended(f, r) ==
  IF f.unended = {}
    THEN [f EXCEPT !.exists = TRUE, !.records = @ \cup {r}]
    ELSE [f EXCEPT !.records = @ \ f.unended, !.unended = {}, !.broken = TRUE]

\* What a write of one more record leaves behind when it is cut short.
CutShort(f, r) ==
  {[f EXCEPT !.exists = TRUE, !.broken = TRUE]}
    \cup IF f.unended = {} THEN {[Appended(f, r) EXCEPT !.unended = {r}]} ELSE {}

\* What copying the records of f leaves behind when it is cut short: some of
\* them, the last perhaps without its newline, or in part.
Prefixes(f) ==
  UNION {{File(rs), [File(rs) EXCEPT !.broken = TRUE]}
           \cup {[File(rs) EXCEPT !.unended = {r}] : r \in rs} : rs \in SUBSET f.records}

Keys(records) == {r.run : r \in records}
Requested     == request \X Algorithm \X Mode

-----------------------------------------------------------------------------
(* A session.  BeginWithoutCopy, CheckForgets and CheckNothingLeft are     *)
(* wrong variants that the properties below must refute.                   *)

Init ==
  /\ destination = NoFile /\ staging = NoFile
  /\ at = "down"
  /\ build \in Build /\ request = {}
  /\ completed = {} /\ origin = "whole"
  /\ crashes = 0

BeginWithoutCopy(b, req, resume) ==
  /\ at = "down"
  /\ build' = b /\ request' = req /\ completed' = {}
  /\ \/ ~resume /\ at' = "run" /\ staging' = NoFile /\ origin' = "anew"
     \/ /\ resume /\ at' = IF staging.exists THEN "check" ELSE "run"
        /\ UNCHANGED <<staging, origin>>
  /\ UNCHANGED <<destination, crashes>>

\* --no-resume throws the staging file away.  Otherwise the session goes on
\* from the staging file or, when there is none, from the destination.
Begin(b, req, resume) ==
  /\ at = "down"
  /\ build' = b /\ request' = req
  /\ completed' = {}
  /\ \/ ~resume /\ at' = "run" /\ staging' = NoFile /\ origin' = "anew"
     \/ /\ resume
        /\ at' = IF staging.exists THEN "check" ELSE
                 IF destination.exists THEN "copy" ELSE "run"
        /\ UNCHANGED <<staging, origin>>
  /\ UNCHANGED <<destination, crashes>>

CopyDestination ==
  /\ at = "copy"
  /\ staging' = destination
  /\ at' = "check" /\ origin' = "whole"
  /\ UNCHANGED <<destination, session, completed, crashes>>

CheckForgets ==
  /\ at = "check"
  /\ at' = IF staging.broken \/ \E r \in staging.records : r.build # build
             THEN "down" ELSE "run"
  /\ UNCHANGED <<destination, staging, session, completed, origin, crashes>>

CheckNothingLeft ==
  /\ at = "check"
  /\ IF staging.broken \/ Requested \subseteq Keys(staging.records)
       THEN at' = "down" /\ UNCHANGED completed
       ELSE at' = "run" /\ completed' = Keys(staging.records)
  /\ UNCHANGED <<destination, staging, session, origin, crashes>>

\* Every line must parse and have been made by this machine and build.
Check ==
  /\ at = "check"
  /\ IF staging.broken \/ \E r \in staging.records : r.build # build
       THEN at' = "down" /\ UNCHANGED completed
       ELSE at' = "run" /\ completed' = Keys(staging.records)
  /\ UNCHANGED <<destination, staging, session, origin, crashes>>

RunNext(run, status) ==
  /\ at = "run"
  /\ run \in Requested \ completed /\ status \in Outcome[run[3]]
  /\ staging' = Appended(staging, [run |-> run, build |-> build,
                                   status |-> status])
  /\ completed' = completed \cup {run}
  /\ UNCHANGED <<destination, at, session, origin, crashes>>

-----------------------------------------------------------------------------
(* Publication: _finalize_reconciled_jsonl.                                *)

\* publication_preflight: every experiment that occurs has each of its runs
\* once, and all records have one identity.
Preflight(records) ==
  /\ records # {}
  /\ \A r, s \in records : r.build = s.build /\ (r.run = s.run => r = s)
  /\ \A r \in records : {r.run[1]} \X Algorithm \X Mode \subseteq Keys(records)

\* derive_count_consistency: the two modes of a run end alike.
ModesAgree(records) ==
  \A r, s \in records :
    r.run[1] = s.run[1] /\ r.run[2] = s.run[2] => r.status = s.status

Publishable(f) ==
  f.exists /\ ~f.broken /\ Preflight(f.records) /\ ModesAgree(f.records)

Refuse ==
  /\ at = "run" /\ Requested \subseteq completed /\ ~Publishable(staging)
  /\ at' = "down"
  /\ UNCHANGED <<destination, staging, session, completed, origin, crashes>>

\* The records are written anew, every line with its newline.
Replace ==
  /\ at = "run" /\ Requested \subseteq completed /\ Publishable(staging)
  /\ destination' = File(staging.records)
  /\ at' = "replaced" /\ origin' = "whole"
  /\ UNCHANGED <<staging, session, completed, crashes>>

RemoveStaging ==
  /\ at = "replaced"
  /\ staging' = NoFile
  /\ at' = "down"
  /\ UNCHANGED <<destination, session, completed, origin, crashes>>

-----------------------------------------------------------------------------
(* Failures.                                                               *)

Crash ==
  /\ at # "down" /\ crashes < MaxCrashes
  /\ crashes' = crashes + 1
  /\ at' = "down"
  /\ UNCHANGED <<destination, session, completed>>
  /\ \/ UNCHANGED <<staging, origin>>
     \/ /\ "torn append" \in Faults /\ at = "run" /\ UNCHANGED origin
        /\ \E run \in Requested \ completed, status \in Status :
             staging' \in CutShort(staging, [run |-> run, build |-> build,
                                             status |-> status])
     \/ /\ "torn copy" \in Faults /\ at = "copy"
        /\ staging' \in Prefixes(destination) /\ origin' = "cut"

Step ==
  \/ CopyDestination \/ Check \/ Refuse \/ Replace \/ RemoveStaging
  \/ \E run \in Run, status \in Status : RunNext(run, status)

Next ==
  \/ \E b \in Build, req \in SUBSET Experiment \ {{}}, resume \in BOOLEAN :
       Begin(b, req, resume)
  \/ Step \/ Crash

Spec == Init /\ [][Next]_vars

\* The user repeats one command, "run_suite" for all experiments, until it
\* succeeds, and a session that is not stopped goes on.
Again(b) == Begin(b, Experiment, TRUE)
RepeatSpec ==
  /\ Init
  /\ [][(\E b \in Build : Again(b)) \/ Step \/ Crash]_vars
  /\ \A b \in Build : WF_vars(Again(b))
  /\ WF_vars(Step)

-----------------------------------------------------------------------------
(* Properties.                                                             *)

TypeOK ==
  /\ destination \in FileType /\ staging \in FileType
  /\ at \in {"down", "copy", "check", "run", "replaced"}
  /\ build \in Build /\ request \subseteq Experiment
  /\ completed \subseteq Run
  /\ origin \in {"whole", "anew", "cut"}
  /\ crashes \in Nat

\* A run has one record, through any number of crashes and resumed sessions:
\* a readable staging file never holds two for the same run key, of the same
\* or of different machines, nor two machines' records (run_suite 1374-1405).
OneRecordPerRun ==
  ~staging.broken =>
    \A r, s \in staging.records : r.build = s.build /\ (r.run = s.run => r = s)

\* What a session takes for done is what its staging file holds: no run is
\* skipped that has no record.
DoneIsRecorded ==
  at = "run" /\ ~staging.broken => completed = Keys(staging.records)

\* A published record stays published, whatever is resumed, repeated or cut
\* short afterwards, unless the session was told to start anew (--no-resume) or
\* goes on from a copy of the destination that was cut short (1369-1373,
\* 1353-1354).  Even then all runs of the experiments that the session was asked
\* for stay published, and of the others all or none.
NothingLost ==
  [][/\ origin = "whole" => destination.records \subseteq destination'.records
     /\ LET kept == Keys(destination'.records)
        IN \A run \in Keys(destination.records) \ kept :
             run[1] \notin request \cup {k[1] : k \in kept}]_vars

\* What one would like to say, but for the cut copy.
ResumeLosesNothing ==
  [][origin # "anew" => destination.records \subseteq destination'.records]_vars

\* The suite is resumable: repeated often enough, the command publishes every
\* run (run_all_lite.sh 124; README.md 224-227).
EventuallyPublished == <>(Keys(destination.records) = Run)

\* Only two things can keep a repeated command from that: a line that cannot be
\* read any more, and two modes of a run that ended differently.
Irreconcilable == staging.broken \/ ~ModesAgree(staging.records)
PublishedUnlessIrreconcilable == <>(Keys(destination.records) = Run \/ Irreconcilable)
=============================================================================
