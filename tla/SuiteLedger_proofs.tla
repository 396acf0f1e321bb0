------------------------- MODULE SuiteLedger_proofs -------------------------
(***************************************************************************)
(* Proofs about SuiteLedger, for any experiments, algorithms, machines and *)
(* statuses, and any number of sessions and crashes.  What a session knows *)
(* of its staging file (Informed), and what the staging file knows of the  *)
(* destination (Carried), strengthen the invariants into inductive ones.   *)
(***************************************************************************)
EXTENDS SuiteLedger, TLAPS

\* An absent file is empty, only staging can be damaged, and a line without
\* its newline is a line of the file.
FilesOK ==
  /\ ~destination.exists => destination = NoFile
  /\ ~staging.exists => staging = NoFile
  /\ staging.unended \subseteq staging.records

\* A running session has checked the records it goes on from.
Informed ==
  at = "run" /\ ~staging.broken =>
    /\ completed = Keys(staging.records)
    /\ \A r \in staging.records : r.build = build

\* The published file is whole: every line ended and readable, each of its
\* experiments complete, both modes of a run alike, one machine and build.
PublishedIsWhole ==
  destination.exists =>
    Publishable(destination) /\ destination.unended = {}

\* Nothing published is missing from the staging file that will replace it.
Carried ==
  origin = "whole" =>
    /\ staging.exists /\ ~staging.broken =>
         destination.records \subseteq staging.records
    /\ at \in {"check", "run"} /\ ~staging.exists => destination.records = {}

IInv ==
  /\ TypeOK /\ FilesOK /\ OneRecordPerRun /\ Informed /\ PublishedIsWhole
  /\ Carried

-----------------------------------------------------------------------------
(* Files.                                                                  *)

\* The shape of the files that sessions write.
LEMMA FileShape ==
  /\ NoFile \in FileType
  /\ \A rs \in SUBSET Record : File(rs) \in FileType
BY DEF NoFile, File, FileType

\* A record of the session is a record.
LEMMA SessionRecord ==
  ASSUME TypeOK, NEW run \in Run, NEW status \in Status
  PROVE  [run |-> run, build |-> build, status |-> status] \in Record
BY DEF TypeOK, Record

\* What appending does to the parts of a file.
LEMMA AppendedShape ==
  ASSUME NEW f \in FileType, NEW r \in Record, f.unended \subseteq f.records
  PROVE  /\ Appended(f, r) \in FileType
         /\ Appended(f, r).unended = {}
         /\ Appended(f, r).unended \subseteq Appended(f, r).records
         /\ f.unended = {} =>
              /\ Appended(f, r).exists = TRUE
              /\ Appended(f, r).records = f.records \cup {r}
              /\ Appended(f, r).broken = f.broken
         /\ f.unended # {} => Appended(f, r).broken = TRUE
BY DEF FileType, Appended

\* A line cut short either breaks the file or ends as a record would, without
\* its newline.
LEMMA CutShortShape ==
  ASSUME NEW f \in FileType, NEW r \in Record, f.unended \subseteq f.records,
         NEW g \in CutShort(f, r)
  PROVE  /\ g \in FileType
         /\ g.exists
         /\ g.unended \subseteq g.records
         /\ ~g.broken => g.records = f.records \cup {r} /\ ~f.broken
<1>1. CASE g = [f EXCEPT !.exists = TRUE, !.broken = TRUE]
  BY <1>1 DEF FileType
<1>2. CASE f.unended = {} /\ g = [Appended(f, r) EXCEPT !.unended = {r}]
  BY <1>2 DEF Appended, FileType
<1> QED  BY <1>1, <1>2 DEF CutShort

\* A copy cut short holds some of the records of the original.
LEMMA PrefixShape ==
  ASSUME NEW f \in FileType, NEW g \in Prefixes(f)
  PROVE  /\ g \in FileType
         /\ g.exists /\ g.unended \subseteq g.records
         /\ g.records \subseteq f.records
<1>1. PICK rs \in SUBSET f.records :
        \/ g = File(rs) \/ g = [File(rs) EXCEPT !.broken = TRUE]
        \/ \E r \in rs : g = [File(rs) EXCEPT !.unended = {r}]
  BY DEF Prefixes
<1>2. File(rs) \in FileType
  BY DEF File, FileType
<1>3. CASE g = File(rs)
  BY <1>2, <1>3 DEF File
<1>4. CASE g = [File(rs) EXCEPT !.broken = TRUE]
  BY <1>4 DEF File, FileType
<1>5. ASSUME NEW r \in rs, g = [File(rs) EXCEPT !.unended = {r}]
      PROVE  /\ g \in FileType /\ g.exists
             /\ g.unended \subseteq g.records /\ g.records \subseteq f.records
  BY <1>5 DEF File, FileType
<1> QED  BY <1>1, <1>3, <1>4, <1>5

-----------------------------------------------------------------------------
(* The steps.                                                              *)

\* Nothing is wrong with files that do not exist.
LEMMA InitInv == Init => IInv
<1> SUFFICES ASSUME Init PROVE IInv
  OBVIOUS
<1>1. destination = NoFile /\ staging = NoFile /\ at = "down"
  BY DEF Init
<1>2. TypeOK
  BY FileShape, LedgerAssumption DEF Init, TypeOK, LedgerAssumption
<1> QED
  BY <1>1, <1>2 DEF IInv, FilesOK, OneRecordPerRun, Informed, PublishedIsWhole,
                    Carried, NoFile

\* A session that begins trusts nothing yet.
LEMMA BeginInv ==
  ASSUME IInv, NEW b \in Build, NEW req \in SUBSET Experiment,
         NEW resume \in BOOLEAN, Begin(b, req, resume)
  PROVE  IInv'
<1> USE DEF Begin, IInv, session
<1>1. TypeOK'
  BY FileShape DEF TypeOK
<1>2. FilesOK'
  BY DEF FilesOK, NoFile
<1>3. OneRecordPerRun'
  BY DEF OneRecordPerRun, NoFile
<1>4. Informed'
  <2>1. CASE staging' = NoFile
    BY <2>1 DEF Informed, NoFile, Keys
  <2>2. CASE staging.exists /\ staging' = staging
    BY <2>2 DEF Informed, NoFile
  <2>3. CASE ~staging.exists /\ staging' = staging
    BY <2>1, <2>3 DEF FilesOK
  <2> QED  BY <2>1, <2>2, <2>3
<1>5. PublishedIsWhole'
  BY DEF PublishedIsWhole
<1>6. Carried'
  <2>1. CASE ~resume
    BY <2>1 DEF Carried
  <2>2. CASE resume
    <3>1. staging.exists => at' = "check"
      BY <2>2 DEF NoFile
    <3>2. ~staging.exists /\ at' # "copy" => destination.records = {}
      BY <2>2 DEF FilesOK, NoFile
    <3>3. at' # "copy" => at' \in {"check", "run"}
      BY <2>2
    <3> QED  BY <2>2, <3>1, <3>2, <3>3 DEF Carried
  <2> QED  BY <2>1, <2>2
<1> QED  BY <1>1, <1>2, <1>3, <1>4, <1>5, <1>6

\* The copy holds what was published, which is whole.
LEMMA CopyInv ==
  ASSUME IInv, CopyDestination
  PROVE  IInv'
<1> USE DEF CopyDestination, IInv, session
<1>1. TypeOK'
  BY DEF TypeOK
<1>2. FilesOK'
  BY DEF FilesOK, PublishedIsWhole, NoFile
<1>3. OneRecordPerRun'
  BY DEF OneRecordPerRun, PublishedIsWhole, Publishable, Preflight, FilesOK,
         NoFile
<1>4. Informed' /\ PublishedIsWhole'
  BY DEF Informed, PublishedIsWhole
<1>5. Carried'
  <2>1. destination' = destination /\ staging' = destination
    OBVIOUS
  <2>2. ~destination.exists => destination.records = {}
    BY DEF FilesOK, NoFile
  <2> QED  BY <2>1, <2>2 DEF Carried
<1> QED  BY <1>1, <1>2, <1>3, <1>4, <1>5

\* The check is what a session learns its records by.
LEMMA CheckInv ==
  ASSUME IInv, Check
  PROVE  IInv'
<1> USE DEF Check, IInv, session
<1>1. TypeOK'
  BY DEF TypeOK, Keys, FileType, Record
<1>2. FilesOK' /\ OneRecordPerRun' /\ PublishedIsWhole'
  BY DEF FilesOK, OneRecordPerRun, PublishedIsWhole
<1>3. Informed'
  BY DEF Informed
<1>4. Carried'
  BY DEF Carried
<1> QED  BY <1>1, <1>2, <1>3, <1>4

\* A run that has no record gets one.
LEMMA RunNextInv ==
  ASSUME IInv, NEW run \in Run, NEW status \in Status, RunNext(run, status)
  PROVE  IInv'
<1> DEFINE r == [run |-> run, build |-> build, status |-> status]
<1>1. r \in Record /\ r.run = run /\ r.build = build
  BY SessionRecord DEF IInv
<1> HIDE DEF r
<1>2. staging' = Appended(staging, r) /\ staging \in FileType
      /\ staging.unended \subseteq staging.records
  BY DEF RunNext, r, IInv, TypeOK, FilesOK
<1>3. /\ staging' \in FileType /\ staging'.unended \subseteq staging'.records
      /\ staging.unended = {} => /\ staging'.exists
                                 /\ staging'.records = staging.records \cup {r}
                                 /\ staging'.broken = staging.broken
      /\ staging.unended # {} => staging'.broken
  BY <1>1, <1>2, AppendedShape
<1>4. staging'.exists
  BY <1>1, <1>2 DEF Appended, FilesOK, IInv, NoFile, FileType
<1>5. TypeOK'
  BY <1>3 DEF IInv, TypeOK, RunNext, session
<1>6. FilesOK'
  BY <1>3, <1>4 DEF IInv, FilesOK, RunNext
<1>7. ASSUME ~staging'.broken
      PROVE  /\ staging'.records = staging.records \cup {r}
             /\ completed = Keys(staging.records) /\ ~staging.broken
             /\ \A s \in staging.records : s.build = build /\ s.run # run
  BY <1>3, <1>7 DEF IInv, Informed, RunNext, Keys
<1>8. OneRecordPerRun'
  BY <1>1, <1>7 DEF IInv, OneRecordPerRun
<1>9. Informed'
  BY <1>1, <1>7 DEF Informed, RunNext, Keys, session
<1>10. PublishedIsWhole'
  BY DEF IInv, PublishedIsWhole, RunNext
<1>11. Carried'
  <2> SUFFICES ASSUME origin' = "whole", ~staging'.broken
               PROVE  destination.records \subseteq staging'.records
    BY <1>4 DEF Carried, RunNext
  <2>1. destination.records \subseteq staging.records
    BY <1>7 DEF IInv, Carried, RunNext
  <2> QED  BY <1>7, <2>1
<1> QED  BY <1>5, <1>6, <1>8, <1>9, <1>10, <1>11 DEF IInv

\* The three ways a session ends on its own.
LEMMA EndInv ==
  ASSUME IInv, Refuse \/ Replace \/ RemoveStaging
  PROVE  IInv'
<1>1. CASE Refuse
  BY <1>1 DEF Refuse, session, IInv, TypeOK, FilesOK, OneRecordPerRun, Informed,
              PublishedIsWhole, Carried
<1>2. CASE Replace
  <2> USE <1>2 DEF Replace
  <2>1. destination' = File(staging.records) /\ Publishable(staging)
    OBVIOUS
  <2>2. TypeOK'
    BY FileShape DEF IInv, TypeOK, FileType, session
  <2>3. PublishedIsWhole'
    BY <2>1 DEF PublishedIsWhole, Publishable, File
  <2>4. FilesOK'
    <3>1. UNCHANGED staging
      OBVIOUS
    <3>2. destination'.exists
      BY <2>1 DEF File
    <3> QED  BY <3>1, <3>2 DEF IInv, FilesOK
  <2>5. OneRecordPerRun'
    BY DEF IInv, OneRecordPerRun
  <2>6. Informed'
    BY DEF Informed
  <2>7. Carried'
    <3>1. destination'.records = staging.records
      BY <2>1 DEF File
    <3>2. staging' = staging /\ at' = "replaced"
      OBVIOUS
    <3> QED  BY <3>1, <3>2 DEF Carried
  <2> QED  BY <2>2, <2>3, <2>4, <2>5, <2>6, <2>7 DEF IInv
<1>3. CASE RemoveStaging
  <2> USE <1>3 DEF RemoveStaging
  <2>1. TypeOK'
    BY FileShape DEF IInv, TypeOK, session
  <2>2. FilesOK' /\ OneRecordPerRun' /\ Informed' /\ PublishedIsWhole' /\ Carried'
    BY DEF IInv, FilesOK, OneRecordPerRun, Informed, PublishedIsWhole, Carried,
           NoFile
  <2> QED  BY <2>1, <2>2 DEF IInv
<1> QED  BY <1>1, <1>2, <1>3

\* A crash leaves the staging file as it was, or cuts what was being written.
LEMMA CrashInv ==
  ASSUME IInv, Crash
  PROVE  IInv'
<1>1. /\ at' = "down" /\ UNCHANGED <<destination, session, completed>>
      /\ crashes' \in Nat
  <2>1. at' = "down" /\ UNCHANGED <<destination, session, completed>>
    BY Zenon DEF Crash
  <2>2. crashes' = crashes + 1
    BY Zenon DEF Crash
  <2>3. crashes' \in Nat
    BY <2>2 DEF IInv, TypeOK
  <2> QED  BY <2>1, <2>3
<1>2. PublishedIsWhole' /\ Informed'
  BY <1>1 DEF IInv, PublishedIsWhole, Informed
<1>3. CASE UNCHANGED <<staging, origin>>
  BY <1>1, <1>2, <1>3 DEF IInv, TypeOK, FilesOK, OneRecordPerRun, Carried,
                          session
<1>4. ASSUME at = "run", NEW run \in Requested \ completed,
             NEW status \in Status, UNCHANGED origin,
             staging' \in CutShort(staging, [run |-> run, build |-> build,
                                             status |-> status])
      PROVE  IInv'
  <2> DEFINE r == [run |-> run, build |-> build, status |-> status]
  <2>1. run \in Run
    BY DEF Requested, Run, IInv, TypeOK
  <2>2. r \in Record /\ r.run = run /\ r.build = build
    BY <2>1, SessionRecord DEF IInv
  <2> HIDE DEF r
  <2>3. /\ staging' \in FileType /\ staging'.exists
        /\ staging'.unended \subseteq staging'.records
        /\ ~staging'.broken => staging'.records = staging.records \cup {r}
                               /\ ~staging.broken
    BY <1>4, <2>2, CutShortShape DEF IInv, TypeOK, FilesOK, r
  <2>4. TypeOK' /\ FilesOK'
    BY <1>1, <1>4, <2>3 DEF IInv, TypeOK, FilesOK, session
  <2>5. OneRecordPerRun'
    BY <1>4, <2>2, <2>3 DEF IInv, OneRecordPerRun, Informed, Keys
  <2>6. Carried'
    <3> SUFFICES ASSUME origin' = "whole", ~staging'.broken
                 PROVE  destination.records \subseteq staging'.records
      BY <1>1, <2>3 DEF Carried
    <3>1. destination.records \subseteq staging.records
      BY <1>4, <2>3 DEF IInv, Carried
    <3> QED  BY <2>3, <3>1
  <2> QED  BY <1>2, <2>4, <2>5, <2>6 DEF IInv
<1>5. ASSUME staging' \in Prefixes(destination), origin' = "cut"
      PROVE  IInv'
  <2>1. /\ staging' \in FileType /\ staging'.exists
        /\ staging'.unended \subseteq staging'.records
        /\ staging'.records \subseteq destination.records
    BY <1>5, PrefixShape DEF IInv, TypeOK
  <2>2. TypeOK' /\ FilesOK' /\ Carried'
    BY <1>1, <1>5, <2>1 DEF IInv, TypeOK, FilesOK, Carried, session
  <2>3. OneRecordPerRun'
    BY <2>1 DEF IInv, OneRecordPerRun, PublishedIsWhole, Publishable, Preflight,
                FilesOK, NoFile
  <2> QED  BY <1>2, <2>2, <2>3 DEF IInv
<1> QED  BY <1>3, <1>4, <1>5 DEF Crash

\* The strengthened invariant holds in every step of every session.
LEMMA Inductive == IInv /\ [Next]_vars => IInv'
<1> SUFFICES ASSUME IInv, [Next]_vars PROVE IInv'
  OBVIOUS
<1>1. CASE UNCHANGED vars
  BY <1>1 DEF vars, session, IInv, TypeOK, FilesOK, OneRecordPerRun, Informed,
              PublishedIsWhole, Carried
<1>2. CASE Next
  BY <1>2, BeginInv, CopyInv, CheckInv, RunNextInv, EndInv, CrashInv
     DEF Next, Step
<1> QED  BY <1>1, <1>2

\* It holds throughout.
LEMMA Invariance == Spec => []IInv
BY InitInv, Inductive, PTL DEF Spec

-----------------------------------------------------------------------------
(* The theorems.                                                           *)

\* Sessions and files keep their types.
THEOREM TypeCorrect == Spec => []TypeOK
<1>1. IInv => TypeOK
  BY DEF IInv
<1> QED  BY Invariance, <1>1, PTL

\* No run is recorded twice, nor are two machines mixed, however sessions are
\* resumed, repeated and cut short, the copy of the destination included.
THEOREM AlwaysOneRecordPerRun == Spec => []OneRecordPerRun
<1>1. IInv => OneRecordPerRun
  BY DEF IInv
<1> QED  BY Invariance, <1>1, PTL

\* A session skips only runs that have a record.
THEOREM AlwaysDoneIsRecorded == Spec => []DoneIsRecorded
<1>1. IInv => DoneIsRecorded
  BY DEF IInv, Informed, DoneIsRecorded
<1> QED  BY Invariance, <1>1, PTL

\* What is published is whole and consistent.
THEOREM PublishedIsAlwaysWhole == Spec => []PublishedIsWhole
<1>1. IInv => PublishedIsWhole
  BY DEF IInv
<1> QED  BY Invariance, <1>1, PTL

\* No session loses a published record but one that was told to start anew or
\* goes on from a copy that was cut short; and these lose only experiments that
\* they were not asked for, each of them whole.  Whatever may be cut short, the
\* copy of the destination included (run_suite 1369-1405).
THEOREM NothingIsLost == Spec => NothingLost
<1> DEFINE kept == Keys(destination'.records)
<1>1. ASSUME IInv, Replace
      PROVE  /\ origin = "whole" => destination.records \subseteq destination'.records
             /\ \A run \in Keys(destination.records) \ kept :
                  run[1] \notin request \cup {k[1] : k \in kept}
  <2>1. /\ at = "run" /\ Requested \subseteq completed /\ Publishable(staging)
        /\ destination'.records = staging.records
    BY <1>1 DEF Replace, File
  <2>2. origin = "whole" => destination.records \subseteq destination'.records
    BY <1>1, <2>1 DEF IInv, Carried, Publishable
  <2>3. Requested \subseteq kept
    BY <1>1, <2>1 DEF IInv, Informed, Publishable
  <2>4. ASSUME NEW run \in Keys(destination.records) \ kept
        PROVE  run[1] \notin request \cup {k[1] : k \in kept}
    <3>1. /\ run \in Experiment \X Algorithm \X Mode
          /\ run = <<run[1], run[2], run[3]>> /\ run[2] \in Algorithm /\ run[3] \in Mode
      BY <1>1, <2>4 DEF IInv, TypeOK, FileType, Keys, Record, Run
    <3>2. run[1] \notin request
      BY <2>3, <2>4, <3>1 DEF Requested
    <3>3. ASSUME NEW k \in kept, k[1] = run[1] PROVE FALSE
      <4>1. PICK r \in staging.records : r.run = k
        BY <2>1, <3>3 DEF Keys
      <4>2. {r.run[1]} \X Algorithm \X Mode \subseteq kept
        BY <2>1, <4>1 DEF Publishable, Preflight
      <4> QED  BY <2>4, <3>1, <3>3, <4>1, <4>2
    <3> QED  BY <3>2, <3>3
  <2> QED  BY <2>2, <2>4
<1>2. ASSUME [Next]_vars, ~Replace
      PROVE  UNCHANGED destination
  BY <1>2 DEF Next, Step, vars, Begin, CopyDestination, Check, RunNext, Refuse,
              RemoveStaging, Crash
<1>3. IInv /\ [Next]_vars =>
        [/\ origin = "whole" => destination.records \subseteq destination'.records
         /\ \A run \in Keys(destination.records) \ kept :
              run[1] \notin request \cup {k[1] : k \in kept}]_vars
  <2>1. ASSUME UNCHANGED destination
        PROVE  /\ destination.records \subseteq destination'.records
               /\ Keys(destination.records) \ kept = {}
    BY <2>1
  <2> QED  BY <1>1, <1>2, <2>1
<1> QED  BY Invariance, <1>3, PTL DEF Spec, NothingLost
=============================================================================
