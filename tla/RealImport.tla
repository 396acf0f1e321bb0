------------------------------ MODULE RealImport ------------------------------
(***************************************************************************)
(* prepare_real_datasets() of hf_real.py, run again and again on one data  *)
(* root, as run_all_lite.sh does: each session looks at what earlier ones  *)
(* left, downloads the sources of a dataset, builds its collections in     *)
(* staging directories, and publishes them by renaming.  A session may be  *)
(* killed at any step; the files it leaves are the state the next one      *)
(* starts from.  Sessions do not overlap.                                  *)
(***************************************************************************)
EXTENDS HubDownload

CONSTANTS Sources,       \* the datasets of a session, in the order it takes them
          AssetOrder,    \* by dataset, its assets in the order of the lock
          Targets,       \* by dataset, the collections it publishes, in order
          Sharded,       \* datasets read over HTTP ranges
          Collections,
          MaxFaults,     \* bound: failures and kills in a behaviour
          Versions       \* bound: 1..Versions number the locks and the configurations

ASSUME LayoutAssumption ==
  /\ Sources \in Seq(STRING)
  /\ \A i \in DOMAIN Sources :
        /\ AssetOrder[Sources[i]] \in Seq(Assets)
        /\ Targets[Sources[i]] \in Seq(Collections)
        /\ Targets[Sources[i]] # << >>
        /\ \A j, k \in DOMAIN Targets[Sources[i]] :
              Targets[Sources[i]][j] = Targets[Sources[i]][k] => j = k
  /\ \A i, j \in DOMAIN Sources :
        i # j => \A k \in DOMAIN Targets[Sources[i]], l \in DOMAIN Targets[Sources[j]] :
                    Targets[Sources[i]][k] # Targets[Sources[j]][l]

ASSUME BoundsAssumption == MaxFaults \in Nat /\ Versions \in Nat \ {0}

VARIABLES coll,      \* by collection, what stands at its target
          stage,     \* by collection, what stands in the staging directory
          lock,      \* the source lock in force
          config,    \* the preprocessing configuration in force
          pc,        \* what the session does next
          nth,       \* the number of the current dataset in Sources
          done,      \* assets downloaded, or collections renamed, of the current dataset
          attempt,   \* requests already made for the current range
          faults

sessionVars == <<coll, stage, lock, config, pc, nth, done, attempt, faults>>
vars == <<hubVars, sessionVars>>

(***************************************************************************)
(* A collection is a directory.  It is whole when every file that its      *)
(* manifest and its checksums name is there as it was written.             *)
(***************************************************************************)
Directories == [is : {"absent", "torn", "whole"}, lock : 0..Versions, config : 0..Versions]
Absent == [is |-> "absent", lock |-> 0, config |-> 0]
ExistsTorn(dir) == dir.is = "torn"
Exists(dir) == dir.is # "absent"

\* verify_collection(): checksums, coverage, provenance and contents.  The lock
\* must be the one in force; the configuration only has to be named.
VerifiedByChecksums(dir) == dir.is = "whole"
Verified(dir) == dir.is = "whole" /\ dir.lock = lock

TargetsOf(d) == {Targets[d][i] : i \in DOMAIN Targets[d]}
AssetsOf(d) == {AssetOrder[d][i] : i \in DOMAIN AssetOrder[d]}
Ended == pc \in {"idle", "ok", "failed"}
Dataset == Sources[nth]

\* The finally blocks: a session that ends by itself removes its staging directories.
Fail == /\ pc' = "failed"
        /\ stage' = [c \in Collections |-> Absent]
        /\ nth' = 0 /\ done' = 0 /\ attempt' = 0
        /\ digest' = NoFile

Fault == faults < MaxFaults /\ faults' = faults + 1

(***************************************************************************)
(* The session: check_prerequisites(), then each dataset in turn.          *)
(***************************************************************************)
Begin == /\ Ended
         /\ pc' = "admit"
         /\ nth' = 1
         /\ active' = ""
         /\ UNCHANGED <<file, part, digest, coll, stage, lock, config, done, attempt, faults>>

\* prepare_*(): nothing to do if the collections are there and verify; a target
\* that exists and does not verify is never touched.
Admit ==
  /\ pc = "admit"
  /\ UNCHANGED <<file, part, active, coll, lock, config, faults>>
  /\ \/ /\ nth <= Len(Sources)
        /\ \A c \in TargetsOf(Dataset) : Verified(coll[c])
        /\ nth' = nth + 1
        /\ UNCHANGED <<pc, stage, done, attempt, digest>>
     \/ /\ nth <= Len(Sources)
        /\ \E c \in TargetsOf(Dataset) : ~ Verified(coll[c])
        /\ \E c \in TargetsOf(Dataset) : Exists(coll[c])
        /\ Fail
     \/ /\ nth <= Len(Sources)
        /\ \A c \in TargetsOf(Dataset) : ~ Exists(coll[c])
        /\ pc' = "fetch"
        /\ UNCHANGED <<nth, stage, done, attempt, digest>>
     \/ /\ nth > Len(Sources)
        /\ pc' = "verify"
        /\ UNCHANGED <<nth, stage, done, attempt, digest>>

(***************************************************************************)
(* download_static_source(): the assets of the dataset, one by one.        *)
(***************************************************************************)
Asset == AssetOrder[Dataset][done + 1]
AllButOneFetched == done + 1 >= Len(AssetOrder[Dataset])
AllFetched == done = Len(AssetOrder[Dataset])

Fetch ==
  /\ pc = "fetch"
  /\ UNCHANGED <<file, part, active, coll, lock, config, faults>>
  /\ \/ /\ AllFetched
        /\ pc' = IF Dataset \in Sharded THEN "range" ELSE "build"
        /\ done' = 0
        /\ UNCHANGED <<stage, nth, attempt, digest>>
     \/ /\ ~ AllFetched
        /\ file[Asset] = Locked
        /\ done' = done + 1
        /\ UNCHANGED <<pc, stage, nth, attempt, digest>>
     \/ /\ ~ AllFetched
        /\ file[Asset] \notin {NoFile, Locked}
        /\ Fail
     \/ /\ ~ AllFetched
        /\ file[Asset] = NoFile
        /\ pc' = "resolve"
        /\ UNCHANGED <<stage, nth, done, attempt, digest>>

ResolveAsset(answer) ==
  /\ pc = "resolve"
  /\ Resolve(answer)
  /\ pc' = "partial"
  /\ UNCHANGED <<coll, stage, lock, config, nth, done, attempt, faults>>

\* No endpoint answers as pinned.
CannotResolve(answer) ==
  /\ pc = "resolve"
  /\ Unresolved(answer)
  /\ Fault /\ Fail
  /\ UNCHANGED <<file, part, active, coll, lock, config>>

KeepPartial ==
  /\ pc = "partial"
  /\ UNCHANGED <<coll, stage, lock, config, nth, attempt, faults>>
  /\ \/ Promote(Asset) /\ pc' = "fetch" /\ done' = done + 1
     \/ Discard(Asset) /\ pc' = "get" /\ UNCHANGED done
     \/ /\ Len(part[Asset]) < Size
        /\ pc' = "get"
        /\ UNCHANGED <<hubVars, done>>

Get(status) ==
  /\ pc = "get"
  /\ Open(Asset, status)
  /\ pc' = "receive"
  /\ UNCHANGED <<coll, stage, lock, config, nth, done, attempt, faults>>

ReceiveBlock ==
  /\ pc = "receive"
  /\ Len(part[Asset]) < Size
  /\ Receive(Asset, TRUE)
  /\ UNCHANGED <<sessionVars>>

\* A block that is wrong, or comes after the last.
ReceiveWrong(block) ==
  /\ pc = "receive"
  /\ block => Len(part[Asset]) = Size
  /\ Receive(Asset, block)
  /\ Fault
  /\ UNCHANGED <<coll, stage, lock, config, pc, nth, done, attempt>>

\* The body has ended, and the file is compared with the lock.
EndOfBody ==
  /\ pc = "receive"
  /\ Len(part[Asset]) >= Size
  /\ UNCHANGED <<coll, lock, config, faults>>
  /\ \/ /\ Install(Asset)
        /\ pc' = "fetch"
        /\ done' = done + 1
        /\ UNCHANGED <<stage, nth, attempt>>
     \/ /\ ~ PassesLock(Asset)
        /\ Fail
        /\ UNCHANGED <<file, part, active>>

\* The request fails, or the body breaks off or ends early: what came is kept.
BreakConnection ==
  /\ pc \in {"get", "receive"}
  /\ Fault /\ Fail
  /\ UNCHANGED <<file, part, active, coll, lock, config>>

(***************************************************************************)
(* HubRangeReader.readinto(): at most three requests for a range.  After a *)
(* refused one the URL is resolved again; a resolution that fails is       *)
(* tried once more when the request was refused for its credentials, and   *)
(* ends the session otherwise.                                             *)
(***************************************************************************)
ReadRange ==
  /\ pc = "range"
  /\ pc' = "build"
  /\ attempt' = 0
  /\ active' \in IF active = "" \/ attempt = 0 THEN Hosts ELSE {active}
  /\ UNCHANGED <<file, part, digest, coll, stage, lock, config, nth, done, faults>>

\* The request is refused, and the URL is resolved again, so another one is made.
RetryRange ==
  /\ pc = "range"
  /\ attempt < 2
  /\ Fault
  /\ attempt' = attempt + 1
  /\ active' \in Hosts
  /\ UNCHANGED <<file, part, digest, coll, stage, lock, config, pc, nth, done>>

GiveUpRange ==
  /\ pc = "range"
  /\ Fault /\ Fail
  /\ UNCHANGED <<file, part, active, coll, lock, config>>

(***************************************************************************)
(* Building: the staging directories of all the dataset's collections are  *)
(* made, written and verified before the first of them is renamed.         *)
(***************************************************************************)
MakeStages ==
  /\ pc = "build"
  /\ \A c \in TargetsOf(Dataset) : ~ Exists(coll[c])
  /\ pc' = "write"
  /\ stage' = [c \in Collections |->
                 IF c \in TargetsOf(Dataset)
                 THEN [is |-> "torn", lock |-> lock, config |-> config]
                 ELSE stage[c]]
  /\ UNCHANGED <<hubVars, coll, lock, config, nth, done, attempt, faults>>

WriteStages ==
  /\ pc = "write"
  /\ pc' = "publish"
  /\ stage' = [c \in Collections |->
                 IF c \in TargetsOf(Dataset) THEN [stage[c] EXCEPT !.is = "whole"] ELSE stage[c]]
  /\ UNCHANGED <<hubVars, coll, lock, config, nth, done, attempt, faults>>

\* A source or an output fails a check, or a write fails.
BuildFails ==
  /\ pc \in {"build", "write"}
  /\ Fault /\ Fail
  /\ UNCHANGED <<file, part, active, coll, lock, config>>

(***************************************************************************)
(* Publishing: one rename after the other.                                 *)
(***************************************************************************)
Publish ==
  /\ pc = "publish"
  /\ UNCHANGED <<hubVars, lock, config, attempt, faults>>
  /\ LET c == Targets[Dataset][done + 1] IN
       /\ coll' = [coll EXCEPT ![c] = stage[c]]
       /\ stage' = [stage EXCEPT ![c] = Absent]
  /\ IF done + 1 = Len(Targets[Dataset])
     THEN pc' = "admit" /\ nth' = nth + 1 /\ done' = 0
     ELSE UNCHANGED <<pc, nth>> /\ done' = done + 1

\* A rename fails: the collections renamed before it are removed again, which
\* is not done in one step.
PublishFails ==
  /\ pc = "publish"
  /\ Fault
  /\ UNCHANGED <<file, part, active, lock, config>>
  /\ \/ /\ done = 0
        /\ Fail
        /\ UNCHANGED coll
     \/ /\ done > 0
        /\ pc' = "rollback"
        /\ coll' = [coll EXCEPT ![Targets[Dataset][1]].is = "torn"]
        /\ UNCHANGED <<digest, stage, nth, done, attempt>>

RollBack ==
  /\ pc = "rollback"
  /\ coll' = [coll EXCEPT ![Targets[Dataset][1]] = Absent]
  /\ Fail
  /\ UNCHANGED <<file, part, active, lock, config, faults>>

(***************************************************************************)
(* verify_real_collections(): all of them again, and the GeoLife pair      *)
(* shares its points and its configuration.                                *)
(***************************************************************************)
Paired(d) == \A b, c \in TargetsOf(d) : coll[b].config = coll[c].config

AllVerified == \A i \in DOMAIN Sources :
                  /\ Paired(Sources[i])
                  /\ \A c \in TargetsOf(Sources[i]) : Verified(coll[c])

Verify ==
  /\ pc = "verify"
  /\ UNCHANGED <<file, part, active, coll, lock, config, faults>>
  /\ \/ /\ AllVerified
        /\ pc' = "ok"
        /\ nth' = 0
        /\ UNCHANGED <<digest, stage, done, attempt>>
     \/ /\ ~ AllVerified
        /\ Fail

(***************************************************************************)
(* The world: a kill leaves the files and the staging directories, of      *)
(* which the next session, having another process number, knows nothing.   *)
(* Between sessions the repository may move to another lock, whose         *)
(* revision has a source directory of its own, or to another               *)
(* configuration.                                                          *)
(***************************************************************************)
Kill ==
  /\ ~ Ended
  /\ Fault
  /\ pc' = "idle"
  /\ stage' = [c \in Collections |-> Absent]
  /\ nth' = 0 /\ done' = 0 /\ attempt' = 0
  /\ digest' = NoFile
  /\ UNCHANGED <<file, part, active, coll, lock, config>>

ChangeLock ==
  /\ Ended
  /\ lock < Versions
  /\ lock' = lock + 1
  /\ file' = [a \in Assets |-> NoFile]
  /\ part' = [a \in Assets |-> NoFile]
  /\ pc' = "idle"
  /\ UNCHANGED <<active, digest, coll, stage, config, nth, done, attempt, faults>>

ChangeConfig ==
  /\ Ended
  /\ config < Versions
  /\ config' = config + 1
  /\ pc' = "idle"
  /\ UNCHANGED <<hubVars, coll, stage, lock, nth, done, attempt, faults>>

Init == /\ HubInit
        /\ coll = [c \in Collections |-> Absent]
        /\ stage = [c \in Collections |-> Absent]
        /\ lock = 1 /\ config = 1
        /\ pc = "idle"
        /\ nth = 0 /\ done = 0 /\ attempt = 0
        /\ faults = 0

\* Answers of all endpoints to one resolution.
Replies == [Hosts -> Answers]

Resolving == \E answer \in Replies : ResolveAsset(answer)

Progress == \/ Begin \/ Admit \/ Fetch \/ KeepPartial
            \/ Resolving
            \/ \E status \in {200, 206} : Get(status)
            \/ ReceiveBlock \/ EndOfBody
            \/ ReadRange \/ MakeStages \/ WriteStages \/ Publish \/ RollBack \/ Verify

Mishap == \/ \E answer \in Replies : CannotResolve(answer)
          \/ \E block \in BOOLEAN : ReceiveWrong(block)
          \/ BreakConnection \/ RetryRange \/ GiveUpRange
          \/ BuildFails \/ PublishFails \/ Kill
          \/ ChangeLock \/ ChangeConfig

Next == Progress \/ Mishap

\* A command that has been started goes on, and one that has ended is repeated.
Spec == Init /\ [][Next]_vars /\ WF_vars(Progress)

------------------------------------------------------------------------------
TypeOK == /\ HubTypeOK
          /\ coll \in [Collections -> Directories]
          /\ stage \in [Collections -> Directories]
          /\ lock \in 1..Versions /\ config \in 1..Versions
          /\ pc \in {"idle", "admit", "fetch", "resolve", "partial", "get", "receive", "range",
                     "build", "write", "publish", "rollback", "verify", "ok", "failed"}
          /\ nth \in 0..(Len(Sources) + 1) /\ done \in Nat
          /\ attempt \in 0..2
          /\ faults \in 0..MaxFaults

\* A file at its final name is the pinned one, whatever partial files of earlier
\* sessions it was resumed from and whatever the endpoints sent.
SourceIsLocked == \A a \in Assets : file[a] \in {NoFile, Locked}

\* A collection appears at its target whole, and was built from verified sources
\* under the lock and the configuration in force.
AppearsWhole ==
  \A i \in DOMAIN Sources : \A c \in TargetsOf(Sources[i]) :
     ~ Exists(coll[c]) /\ Exists(coll'[c]) =>
        /\ coll'[c] = [is |-> "whole", lock |-> lock, config |-> config]
        /\ \A a \in AssetsOf(Sources[i]) : file[a] = Locked

\* Once all collections of a dataset are there nothing changes them.
StaysWhole ==
  \A i \in DOMAIN Sources :
     (\A c \in TargetsOf(Sources[i]) : coll[c].is = "whole") =>
        \A c \in TargetsOf(Sources[i]) : coll'[c] = coll[c]

\* Publication is atomic for a reader of the data root (IMPLEMENTATION_DECISIONS.md, 14):
\* what appears is whole, and no later session, nor the roll-back of another
\* dataset, touches a dataset of which everything is there.
PublishedIsWhole == [][AppearsWhole /\ StaysWhole]_vars

\* The collections of a dataset that are there come from one session: the two
\* GeoLife collections share their points whatever was killed in between.
PairIsOneImport ==
  \A i \in DOMAIN Sources : \A b, c \in TargetsOf(Sources[i]) :
     coll[b].is = "whole" /\ coll[c].is = "whole" => coll[b] = coll[c]

\* A session that reports success leaves every collection whole and of the lock.
OkIsVerified ==
  pc = "ok" => \A i \in DOMAIN Sources : \A c \in TargetsOf(Sources[i]) :
                  coll[c].is = "whole" /\ coll[c].lock = lock

\* What no session repairs: a dataset of which something is there that does not verify.
Blocked(d) == /\ \E c \in TargetsOf(d) : Exists(coll[c])
              /\ \E c \in TargetsOf(d) : ~ Verified(coll[c])

\* Repeating the command ends in success unless a dataset is blocked: no partial
\* file, however wrong or long, stops the import for good.
EventuallyImported ==
  []<>(pc = "ok") \/ <>[](\E i \in DOMAIN Sources : Blocked(Sources[i]))

\* README.md:147: the commands fail "rather than substituting a toy, approximate,
\* stale, or partially downloaded artifact".
OkIsNotStale ==
  pc = "ok" => \A i \in DOMAIN Sources : \A c \in TargetsOf(Sources[i]) :
                  coll[c].config = config
==============================================================================
