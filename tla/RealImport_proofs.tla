-------------------------- MODULE RealImport_proofs --------------------------
(***************************************************************************)
(* What stands at its final name after any sessions, for any datasets,     *)
(* assets, mirrors and sizes, and any number of failures and kills.  The   *)
(* properties speak of finished files; the invariant says what a session   *)
(* knows before they are: which assets it has (Fetched), that the hash is  *)
(* of the bytes on disk (Hashed), and what waits in the staging            *)
(* directories while half of a pair is already published (Staged).         *)
(***************************************************************************)
EXTENDS RealImport, RealSelection, NaturalsInduction, WellFoundedInduction,
        FunctionTheorems, FiniteSetTheorems, SequenceTheorems, TLAPS

Fetching == {"fetch", "resolve", "partial", "get", "receive"}
Building == {"range", "build", "write", "publish", "rollback"}
Resting  == {"idle", "ok", "failed", "admit", "verify"}

FilesOK ==
  /\ file \in [Assets -> {NoFile, Locked}] /\ part \in [Assets -> Seq(BOOLEAN)]
  /\ coll \in [Collections -> Directories] /\ stage \in [Collections -> Directories]
  /\ lock \in 1..Versions /\ config \in 1..Versions

Place ==
  /\ pc \in Fetching \union Building \union Resting
  /\ nth \in Nat /\ done \in Nat
  /\ pc \in Fetching \union Building => nth \in DOMAIN Sources
  /\ pc = "admit" => nth >= 1
  /\ pc \in Fetching => done <= Len(AssetOrder[Dataset])
  /\ pc \in Fetching \ {"fetch"} => done < Len(AssetOrder[Dataset])
  /\ pc \in Resting \union {"range", "build", "write"} => done = 0

Fetched ==
  /\ pc \in Fetching => \A i \in 1..done : file[AssetOrder[Dataset][i]] = Locked
  /\ pc \in Building => \A a \in AssetsOf(Dataset) : file[a] = Locked

Hashed == pc = "receive" => digest = part[Asset]

Whole == [is |-> "whole", lock |-> lock, config |-> config]
Torn  == [is |-> "torn", lock |-> lock, config |-> config]

Staged ==
  /\ pc = "write" =>
       \A c \in TargetsOf(Dataset) : ~ Exists(coll[c]) /\ stage[c] = Torn
  /\ pc = "publish" =>
       /\ done < Len(Targets[Dataset])
       /\ \A i \in DOMAIN Targets[Dataset] :
            IF i <= done THEN coll[Targets[Dataset][i]] = Whole
            ELSE /\ ~ Exists(coll[Targets[Dataset][i]])
                 /\ stage[Targets[Dataset][i]] = Whole
  /\ pc = "rollback" => coll[Targets[Dataset][1]].is = "torn"

IInv == FilesOK /\ Place /\ Fetched /\ Hashed /\ Staged /\ PairIsOneImport /\ OkIsVerified

-----------------------------------------------------------------------------
(* The layout of the datasets.                                             *)

\* What the assumptions say of the dataset in hand.
LEMMA DatasetFacts ==
  ASSUME nth \in DOMAIN Sources
  PROVE  /\ AssetOrder[Dataset] \in Seq(Assets)
         /\ Len(AssetOrder[Dataset]) \in Nat
         /\ AssetsOf(Dataset) \subseteq Assets
         /\ Targets[Dataset] \in Seq(Collections)
         /\ DOMAIN Targets[Dataset] = 1 .. Len(Targets[Dataset])
         /\ Len(Targets[Dataset]) \in Nat \ {0}
         /\ TargetsOf(Dataset) \subseteq Collections
         /\ \A j, k \in DOMAIN Targets[Dataset] :
              Targets[Dataset][j] = Targets[Dataset][k] => j = k
<1>1. /\ AssetOrder[Dataset] \in Seq(Assets)
      /\ Targets[Dataset] \in Seq(Collections) /\ Targets[Dataset] # << >>
      /\ \A j, k \in DOMAIN Targets[Dataset] :
           Targets[Dataset][j] = Targets[Dataset][k] => j = k
  BY LayoutAssumption DEF Dataset
<1>2. AssetsOf(Dataset) \subseteq Assets
  BY <1>1 DEF AssetsOf
<1>3. TargetsOf(Dataset) \subseteq Collections
  BY <1>1 DEF TargetsOf
<1>4. Len(Targets[Dataset]) \in Nat \ {0} /\ Len(AssetOrder[Dataset]) \in Nat
  BY <1>1
<1>5. DOMAIN Targets[Dataset] = 1 .. Len(Targets[Dataset])
  BY <1>1
<1>6. QED
  BY <1>1, <1>2, <1>3, <1>4, <1>5

\* A target of the dataset in hand belongs to no other dataset.
LEMMA TargetsDiffer ==
  ASSUME nth \in DOMAIN Sources, NEW i \in DOMAIN Sources,
         NEW c \in TargetsOf(Dataset), c \in TargetsOf(Sources[i])
  PROVE  i = nth
BY LayoutAssumption DEF TargetsOf, Dataset

\* The asset in hand.
LEMMA AssetFacts ==
  ASSUME IInv, pc \in Fetching \ {"fetch"}
  PROVE  /\ Asset \in Assets /\ done \in Nat /\ done < Len(AssetOrder[Dataset])
         /\ Len(AssetOrder[Dataset]) \in Nat
<1>1. /\ nth \in DOMAIN Sources /\ done \in Nat
      /\ done < Len(AssetOrder[Dataset])
  BY DEF IInv, Place
<1>2. QED
  BY <1>1, DatasetFacts DEF Asset

-----------------------------------------------------------------------------
(* What the lemmas on actions share.                                       *)

LEMMA EmptyFacts ==
  NoFile \in Seq(BOOLEAN) /\ Absent \in Directories /\ 0 \in Nat
<1>1. 0 \in 0..Versions
  BY BoundsAssumption
<1>2. QED
  BY <1>1 DEF NoFile, Absent, Directories

\* Outside a dataset nothing has to be known but the files.
LEMMA RestInv ==
  ASSUME IInv, FilesOK', pc' \in Resting \ {"ok"}, nth' \in Nat, done' = 0,
         pc' = "admit" => nth' >= 1, UNCHANGED coll
  PROVE  IInv'
<1>1. (Place /\ Fetched /\ Hashed /\ Staged)'
  BY DEF Place, Fetched, Hashed, Staged, Fetching, Building, Resting
<1>2. (PairIsOneImport /\ OkIsVerified)'
  BY DEF IInv, PairIsOneImport, OkIsVerified, Resting
<1>3. QED
  BY <1>1, <1>2 DEF IInv

\* The staging directories of a session that ends are removed.
LEMMA EndInv ==
  ASSUME IInv, pc' \in {"idle", "failed"}, nth' = 0, done' = 0,
         stage' = [c \in Collections |-> Absent],
         part' \in [Assets -> Seq(BOOLEAN)], UNCHANGED <<file, coll, lock, config>>
  PROVE  IInv'
<1>1. stage' \in [Collections -> Directories]
  BY EmptyFacts
<1>2. FilesOK'
  BY <1>1 DEF IInv, FilesOK
<1>3. QED
  BY <1>2, RestInv DEF Resting

LEMMA FailInv ==
  ASSUME IInv, Fail, part' \in [Assets -> Seq(BOOLEAN)],
         UNCHANGED <<file, coll, lock, config>>
  PROVE  IInv'
BY EndInv DEF Fail

\* A session that goes on with its downloads.
LEMMA FetchInv ==
  ASSUME IInv, pc \in Fetching, pc' \in Fetching,
         file' \in [Assets -> {NoFile, Locked}], part' \in [Assets -> Seq(BOOLEAN)],
         UNCHANGED <<coll, stage, lock, config, nth>>,
         done' \in Nat, done' <= Len(AssetOrder[Dataset]),
         pc' # "fetch" => done' < Len(AssetOrder[Dataset]),
         \A i \in 1..done' : file'[AssetOrder[Dataset][i]] = Locked,
         Hashed'
  PROVE  IInv'
<1>1. FilesOK'
  BY DEF IInv, FilesOK
<1>2. nth \in DOMAIN Sources /\ nth \in Nat
  BY DEF IInv, Place
<1>3. Dataset' = Dataset
  BY DEF Dataset
<1>4. Place'
  BY <1>2, <1>3 DEF Place, Fetching, Building, Resting
<1>5. Fetched'
  BY <1>3 DEF Fetched, Fetching, Building
<1>6. (Staged /\ PairIsOneImport /\ OkIsVerified)'
  BY DEF Staged, IInv, PairIsOneImport, OkIsVerified, Fetching
<1>7. QED
  BY <1>1, <1>4, <1>5, <1>6 DEF IInv

\* Before the first session there is nothing.
LEMMA InitInv == Init => IInv
<1> SUFFICES ASSUME Init PROVE IInv
  OBVIOUS
<1>1. FilesOK
  <2>1. 1 \in 1..Versions
    BY BoundsAssumption
  <2>2. QED
    BY <2>1, EmptyFacts DEF Init, HubInit, FilesOK
<1>2. Place /\ Fetched /\ Hashed /\ Staged
  BY DEF Init, Place, Fetched, Hashed, Staged, Fetching, Building, Resting
<1>3. PairIsOneImport
  <2>1. \A i \in DOMAIN Sources : TargetsOf(Sources[i]) \subseteq Collections
    BY LayoutAssumption DEF TargetsOf
  <2>2. QED
    BY <2>1 DEF Init, PairIsOneImport, Absent
<1>4. OkIsVerified
  BY DEF Init, OkIsVerified
<1>5. QED
  BY <1>1, <1>2, <1>3, <1>4 DEF IInv

-----------------------------------------------------------------------------
(* The steps of a session up to the last asset.                            *)

LEMMA BeginInv == IInv /\ Begin => IInv'
<1> SUFFICES ASSUME IInv, Begin PROVE IInv'
  OBVIOUS
<1>1. FilesOK'
  BY DEF IInv, FilesOK, Begin
<1>2. done = 0
  BY DEF IInv, Place, Begin, Ended, Resting
<1>3. pc' = "admit" /\ nth' = 1 /\ done' = done /\ UNCHANGED coll
  BY DEF Begin
<1>4. pc' \in Resting \ {"ok"}
  BY <1>3 DEF Resting
<1>5. nth' \in Nat /\ nth' >= 1 /\ done' = 0
  BY <1>2, <1>3
<1>6. QED
  BY <1>1, <1>3, <1>4, <1>5, RestInv

LEMMA AdmitInv == IInv /\ Admit => IInv'
<1> SUFFICES ASSUME IInv, Admit PROVE IInv'
  OBVIOUS
<1>1. pc = "admit" /\ done = 0 /\ nth \in Nat /\ nth >= 1
  BY DEF Admit, IInv, Place, Resting
<1>2. part \in [Assets -> Seq(BOOLEAN)] /\ part' = part
  BY DEF Admit, IInv, FilesOK
<1>3. CASE Fail
  BY <1>2, <1>3, FailInv DEF Admit
<1>4. CASE nth' = nth + 1 /\ UNCHANGED <<pc, stage, done>>
  <2>1. FilesOK'
    BY <1>4 DEF Admit, IInv, FilesOK
  <2>2. QED
    BY <1>1, <1>4, <2>1, RestInv DEF Admit, Resting
<1>5. CASE pc' = "verify" /\ UNCHANGED <<nth, stage, done>>
  <2>1. FilesOK'
    BY <1>5 DEF Admit, IInv, FilesOK
  <2>2. QED
    BY <1>1, <1>5, <2>1, RestInv DEF Admit, Resting
<1>6. CASE nth <= Len(Sources) /\ pc' = "fetch" /\ UNCHANGED <<nth, stage, done>>
  <2>1. nth \in DOMAIN Sources
    BY <1>1, <1>6, LayoutAssumption
  <2>2. FilesOK'
    BY <1>6 DEF Admit, IInv, FilesOK
  <2>3. Dataset' = Dataset
    BY <1>6 DEF Dataset
  <2>4. Place'
    BY <1>1, <1>6, <2>1, <2>3, DatasetFacts DEF Place, Fetching, Building, Resting
  <2>5. (Fetched /\ Hashed /\ Staged)'
    BY <1>1, <1>6 DEF Fetched, Hashed, Staged, Fetching, Building
  <2>6. (PairIsOneImport /\ OkIsVerified)'
    BY <1>6 DEF Admit, IInv, PairIsOneImport, OkIsVerified
  <2>7. QED
    BY <2>2, <2>4, <2>5, <2>6 DEF IInv
<1>7. QED
  BY <1>3, <1>4, <1>5, <1>6 DEF Admit

\* Counting an asset as downloaded: its file is there and is the locked one.
LEMMA OneMoreInv ==
  ASSUME IInv, pc \in Fetching, pc' = "fetch", done < Len(AssetOrder[Dataset]), done' = done + 1,
         file' \in [Assets -> {NoFile, Locked}], part' \in [Assets -> Seq(BOOLEAN)],
         UNCHANGED <<coll, stage, lock, config, nth>>,
         file'[Asset] = Locked,
         \A a \in Assets : file[a] = Locked => file'[a] = Locked
  PROVE  IInv'
<1>1. nth \in DOMAIN Sources /\ done \in Nat
  BY DEF IInv, Place
<1>2. Len(AssetOrder[Dataset]) \in Nat /\ AssetOrder[Dataset] \in Seq(Assets)
  BY <1>1, DatasetFacts
<1>3. done' \in Nat /\ done' <= Len(AssetOrder[Dataset])
  BY <1>1, <1>2
<1>4. \A i \in 1..done' : file'[AssetOrder[Dataset][i]] = Locked
  <2> SUFFICES ASSUME NEW i \in 1..done' PROVE file'[AssetOrder[Dataset][i]] = Locked
    OBVIOUS
  <2>1. CASE i = done + 1
    BY <2>1 DEF Asset
  <2>2. CASE i # done + 1
    <3>1. i \in 1..done
      BY <1>1, <2>2
    <3>2. file[AssetOrder[Dataset][i]] = Locked
      BY <3>1 DEF IInv, Fetched
    <3>3. AssetOrder[Dataset][i] \in Assets
      BY <1>1, <1>2, <3>1
    <3>4. QED
      BY <3>2, <3>3
  <2>3. QED
    BY <2>1, <2>2
<1>5. Hashed'
  BY DEF Hashed
<1>6. QED
  BY <1>3, <1>4, <1>5, FetchInv DEF Fetching

LEMMA FetchStepInv == IInv /\ Fetch => IInv'
<1> SUFFICES ASSUME IInv, Fetch PROVE IInv'
  OBVIOUS
<1>1. /\ pc = "fetch" /\ nth \in DOMAIN Sources /\ nth \in Nat /\ done \in Nat
      /\ done <= Len(AssetOrder[Dataset])
      /\ \A i \in 1..done : file[AssetOrder[Dataset][i]] = Locked
  BY DEF Fetch, IInv, Place, Fetched, Fetching, Building
<1>2. /\ Len(AssetOrder[Dataset]) \in Nat /\ AssetOrder[Dataset] \in Seq(Assets)
  BY <1>1, DatasetFacts
<1>3. /\ part \in [Assets -> Seq(BOOLEAN)] /\ file \in [Assets -> {NoFile, Locked}]
      /\ UNCHANGED <<file, part, coll, lock, config>>
  BY DEF Fetch, IInv, FilesOK
<1>4. CASE Fail
  BY <1>3, <1>4, FailInv
<1>5. CASE ~ AllFetched /\ file[Asset] = Locked /\ done' = done + 1 /\ UNCHANGED <<pc, stage, nth>>
  <2>1. done < Len(AssetOrder[Dataset])
    BY <1>1, <1>2, <1>5 DEF AllFetched
  <2>2. QED
    BY <1>1, <1>3, <1>5, <2>1, OneMoreInv DEF Fetching
<1>6. CASE ~ AllFetched /\ pc' = "resolve" /\ UNCHANGED <<stage, nth, done>>
  <2>1. done < Len(AssetOrder[Dataset])
    BY <1>1, <1>2, <1>6 DEF AllFetched
  <2>2. Hashed'
    BY <1>6 DEF Hashed
  <2>3. QED
    BY <1>1, <1>3, <1>6, <2>1, <2>2, FetchInv DEF Fetching
<1>7. CASE AllFetched /\ pc' \in {"range", "build"} /\ done' = 0 /\ UNCHANGED <<stage, nth>>
  <2>1. FilesOK'
    BY <1>3, <1>7 DEF IInv, FilesOK
  <2>2. Dataset' = Dataset /\ AssetsOf(Dataset)' = AssetsOf(Dataset)
    BY <1>7 DEF Dataset, AssetsOf
  <2>3. Place'
    BY <1>1, <1>7, <2>2 DEF Place, Fetching, Building, Resting
  <2>4. \A a \in AssetsOf(Dataset) : file[a] = Locked
    BY <1>1, <1>2, <1>7 DEF AllFetched, AssetsOf
  <2>5. Fetched'
    BY <1>3, <1>7, <2>2, <2>4 DEF Fetched, Fetching, Building
  <2>6. (Hashed /\ Staged)'
    BY <1>7 DEF Hashed, Staged
  <2>7. (PairIsOneImport /\ OkIsVerified)'
    BY <1>3, <1>7 DEF IInv, PairIsOneImport, OkIsVerified
  <2>8. QED
    BY <2>1, <2>3, <2>5, <2>6, <2>7 DEF IInv
<1>8. QED
  BY <1>4, <1>5, <1>6, <1>7 DEF Fetch

\* A step within the download of the asset in hand that installs nothing.
LEMMA DownloadInv ==
  ASSUME IInv, pc \in Fetching \ {"fetch"}, pc' \in Fetching \ {"fetch"},
         part' \in [Assets -> Seq(BOOLEAN)], Hashed',
         UNCHANGED <<file, coll, stage, lock, config, nth, done>>
  PROVE  IInv'
<1>1. /\ pc \in Fetching /\ pc' \in Fetching
      /\ done \in Nat /\ done < Len(AssetOrder[Dataset]) /\ Len(AssetOrder[Dataset]) \in Nat
  BY AssetFacts DEF Fetching
<1>2. /\ \A i \in 1..done : file[AssetOrder[Dataset][i]] = Locked
      /\ file \in [Assets -> {NoFile, Locked}]
  BY <1>1 DEF IInv, Fetched, FilesOK
<1>3. done' \in Nat /\ done' <= Len(AssetOrder[Dataset]) /\ done' < Len(AssetOrder[Dataset])
  BY <1>1
<1>4. \A i \in 1..done' : file'[AssetOrder[Dataset][i]] = Locked
  BY <1>2
<1>5. QED
  BY <1>1, <1>2, <1>3, <1>4, FetchInv

LEMMA ResolveAssetInv == \A answer : IInv /\ ResolveAsset(answer) => IInv'
<1> SUFFICES ASSUME NEW answer, IInv, ResolveAsset(answer) PROVE IInv'
  OBVIOUS
<1>1. /\ pc = "resolve" /\ pc' = "partial" /\ UNCHANGED <<file, part>>
      /\ UNCHANGED <<coll, stage, lock, config, nth, done>>
  BY DEF ResolveAsset, Resolve
<1>2. part' \in [Assets -> Seq(BOOLEAN)] /\ Hashed'
  BY <1>1 DEF IInv, FilesOK, Hashed
<1>3. QED
  BY <1>1, <1>2, DownloadInv DEF Fetching

LEMMA KeepPartialInv == IInv /\ KeepPartial => IInv'
<1> SUFFICES ASSUME IInv, KeepPartial PROVE IInv'
  OBVIOUS
<1>1. /\ pc = "partial" /\ pc \in Fetching \ {"fetch"}
      /\ UNCHANGED <<coll, stage, lock, config, nth>>
  BY DEF KeepPartial, Fetching
<1>2. Asset \in Assets /\ done < Len(AssetOrder[Dataset])
  BY <1>1, AssetFacts
<1>3. /\ file \in [Assets -> {NoFile, Locked}] /\ part \in [Assets -> Seq(BOOLEAN)]
  BY DEF IInv, FilesOK
<1>4. CASE Promote(Asset) /\ pc' = "fetch" /\ done' = done + 1
  <2>1. file'[Asset] = Locked /\ \A a \in Assets : file[a] = Locked => file'[a] = Locked
    BY <1>2, <1>3, <1>4 DEF Promote, Complete
  <2>2. file' \in [Assets -> {NoFile, Locked}] /\ part' \in [Assets -> Seq(BOOLEAN)]
    BY <1>2, <1>3, <1>4, EmptyFacts DEF Promote, Complete
  <2>3. QED
    BY <1>1, <1>2, <1>4, <2>1, <2>2, OneMoreInv
<1>5. CASE Discard(Asset) /\ pc' = "get" /\ UNCHANGED done
  <2>1. part' \in [Assets -> Seq(BOOLEAN)] /\ UNCHANGED file
    BY <1>2, <1>3, <1>5, EmptyFacts DEF Discard
  <2>2. Hashed'
    BY <1>5 DEF Hashed
  <2>3. QED
    BY <1>1, <1>5, <2>1, <2>2, DownloadInv DEF Fetching
<1>6. CASE pc' = "get" /\ UNCHANGED <<hubVars, done>>
  <2>1. part' \in [Assets -> Seq(BOOLEAN)] /\ UNCHANGED file
    BY <1>3, <1>6 DEF hubVars
  <2>2. Hashed'
    BY <1>6 DEF Hashed
  <2>3. QED
    BY <1>1, <1>6, <2>1, <2>2, DownloadInv DEF Fetching
<1>7. QED
  BY <1>4, <1>5, <1>6 DEF KeepPartial

LEMMA GetInv == \A status : IInv /\ Get(status) => IInv'
<1> SUFFICES ASSUME NEW status, IInv, Get(status) PROVE IInv'
  OBVIOUS
<1>1. /\ pc = "get" /\ pc' = "receive" /\ UNCHANGED file
      /\ UNCHANGED <<coll, stage, lock, config, nth, done>>
  BY DEF Get, Open
<1>2. Asset \in Assets /\ part \in [Assets -> Seq(BOOLEAN)]
  BY <1>1, AssetFacts DEF Fetching, IInv, FilesOK
<1>3. PICK kept \in {part[Asset], NoFile} :
         part' = [part EXCEPT ![Asset] = kept] /\ digest' = kept
  BY DEF Get, Open
<1>4. kept \in Seq(BOOLEAN)
  BY <1>2, <1>3, EmptyFacts
<1>5. part' \in [Assets -> Seq(BOOLEAN)]
  BY <1>2, <1>3, <1>4
<1>6. Asset' = Asset
  BY <1>1 DEF Asset, Dataset
<1>7. Hashed'
  BY <1>2, <1>3, <1>6 DEF Hashed
<1>8. QED
  BY <1>1, <1>5, <1>7, DownloadInv DEF Fetching

\* A block, right or wrong, goes to the file and to the hash.
LEMMA ReceiveInv ==
  ASSUME IInv, NEW block \in BOOLEAN, pc = "receive", Receive(Asset, block),
         UNCHANGED <<coll, stage, lock, config, pc, nth, done>>
  PROVE  IInv'
<1>1. Asset \in Assets /\ part \in [Assets -> Seq(BOOLEAN)] /\ digest = part[Asset]
  BY AssetFacts DEF Fetching, IInv, FilesOK, Hashed
<1>2. part[Asset] \in Seq(BOOLEAN)
  BY <1>1
<1>3. Append(part[Asset], block) \in Seq(BOOLEAN)
  BY <1>2
<1>4. /\ part' = [part EXCEPT ![Asset] = Append(part[Asset], block)]
      /\ digest' = Append(digest, block) /\ UNCHANGED file
  BY <1>1 DEF Receive
<1>5. part' \in [Assets -> Seq(BOOLEAN)]
  BY <1>1, <1>3, <1>4
<1>6. Asset' = Asset
  BY DEF Asset, Dataset
<1>7. Hashed'
  BY <1>1, <1>4, <1>6 DEF Hashed
<1>8. QED
  BY <1>4, <1>5, <1>7, DownloadInv DEF Fetching

LEMMA EndOfBodyInv == IInv /\ EndOfBody => IInv'
<1> SUFFICES ASSUME IInv, EndOfBody PROVE IInv'
  OBVIOUS
<1>1. pc = "receive" /\ pc \in Fetching \ {"fetch"} /\ UNCHANGED <<coll, lock, config>>
  BY DEF EndOfBody, Fetching
<1>2. Asset \in Assets /\ done < Len(AssetOrder[Dataset])
  BY <1>1, AssetFacts
<1>3. /\ file \in [Assets -> {NoFile, Locked}] /\ part \in [Assets -> Seq(BOOLEAN)]
      /\ digest = part[Asset]
  BY <1>1 DEF IInv, FilesOK, Hashed
<1>4. CASE Install(Asset) /\ pc' = "fetch" /\ done' = done + 1 /\ UNCHANGED <<stage, nth>>
  <2>1. /\ file' = [file EXCEPT ![Asset] = Locked]
        /\ part' = [part EXCEPT ![Asset] = NoFile]
    BY <1>3, <1>4 DEF Install, PassesLock
  <2>2. file'[Asset] = Locked /\ \A a \in Assets : file[a] = Locked => file'[a] = Locked
    BY <1>2, <1>3, <2>1
  <2>3. file' \in [Assets -> {NoFile, Locked}] /\ part' \in [Assets -> Seq(BOOLEAN)]
    BY <1>2, <1>3, <2>1, EmptyFacts
  <2>4. QED
    BY <1>1, <1>2, <1>4, <2>2, <2>3, OneMoreInv
<1>5. CASE Fail /\ UNCHANGED <<file, part>>
  BY <1>1, <1>3, <1>5, FailInv
<1>6. QED
  BY <1>4, <1>5 DEF EndOfBody

-----------------------------------------------------------------------------
(* Ranges, staging, publishing and rolling back.                           *)

\* What a session that builds knows.
LEMMA BuildingFacts ==
  ASSUME IInv, pc \in Building
  PROVE  /\ nth \in DOMAIN Sources /\ nth \in Nat /\ done \in Nat
         /\ TargetsOf(Dataset) \subseteq Collections
         /\ \A a \in AssetsOf(Dataset) : file[a] = Locked
         /\ file \in [Assets -> {NoFile, Locked}] /\ part \in [Assets -> Seq(BOOLEAN)]
         /\ coll \in [Collections -> Directories] /\ stage \in [Collections -> Directories]
         /\ lock \in 1..Versions /\ config \in 1..Versions
<1>1. nth \in DOMAIN Sources /\ nth \in Nat /\ done \in Nat
  BY DEF IInv, Place
<1>2. QED
  BY <1>1, DatasetFacts DEF IInv, FilesOK, Fetched

\* A step after the downloads and before the first rename.
LEMMA BuildInv ==
  ASSUME IInv, pc \in {"range", "build", "write"}, pc' \in {"range", "build", "write", "publish"},
         stage' \in [Collections -> Directories], Staged',
         UNCHANGED <<file, part, coll, lock, config, nth, done>>
  PROVE  IInv'
<1>1. pc \in Building /\ done = 0
  BY DEF Building, IInv, Place
<1>2. FilesOK'
  BY DEF IInv, FilesOK
<1>3. Dataset' = Dataset /\ AssetsOf(Dataset)' = AssetsOf(Dataset)
  BY DEF Dataset, AssetsOf
<1>4. Place'
  BY <1>1, BuildingFacts DEF Place, Fetching, Building, Resting
<1>5. (Fetched /\ Hashed)'
  BY <1>1, <1>3, BuildingFacts DEF Fetched, Hashed, Fetching, Building
<1>6. (PairIsOneImport /\ OkIsVerified)'
  BY DEF IInv, PairIsOneImport, OkIsVerified
<1>7. QED
  BY <1>2, <1>4, <1>5, <1>6 DEF IInv

LEMMA RangeInv ==
  ASSUME IInv, pc = "range", pc' \in {"range", "build"},
         UNCHANGED <<file, part, coll, stage, lock, config, nth, done>>
  PROVE  IInv'
<1>1. Staged'
  BY DEF Staged
<1>2. stage' \in [Collections -> Directories]
  BY DEF IInv, FilesOK
<1>3. QED
  BY <1>1, <1>2, BuildInv

LEMMA MakeStagesInv == IInv /\ MakeStages => IInv'
<1> SUFFICES ASSUME IInv, MakeStages PROVE IInv'
  OBVIOUS
<1>1. /\ pc = "build" /\ pc' = "write" /\ UNCHANGED <<file, part, coll, lock, config, nth, done>>
      /\ \A c \in TargetsOf(Dataset) : ~ Exists(coll[c])
      /\ stage' = [c \in Collections |-> IF c \in TargetsOf(Dataset) THEN Torn ELSE stage[c]]
  BY DEF MakeStages, hubVars, Torn
<1>2. Torn \in Directories /\ stage \in [Collections -> Directories]
  BY DEF Torn, Directories, IInv, FilesOK
<1>3. TargetsOf(Dataset) \subseteq Collections
  BY <1>1, BuildingFacts DEF Building
<1>4. stage' \in [Collections -> Directories]
  BY <1>1, <1>2
<1>5. /\ TargetsOf(Dataset)' = TargetsOf(Dataset) /\ Torn' = Torn
      /\ \A c : Exists(coll[c])' = Exists(coll[c])
  BY <1>1 DEF TargetsOf, Dataset, Torn, Exists
<1>6. Staged'
  BY <1>1, <1>3, <1>5 DEF Staged
<1>7. QED
  BY <1>1, <1>4, <1>6, BuildInv

LEMMA WriteStagesInv == IInv /\ WriteStages => IInv'
<1> SUFFICES ASSUME IInv, WriteStages PROVE IInv'
  OBVIOUS
<1>1. /\ pc = "write" /\ pc' = "publish" /\ UNCHANGED <<file, part, coll, lock, config, nth, done>>
      /\ stage' = [c \in Collections |->
                     IF c \in TargetsOf(Dataset) THEN [stage[c] EXCEPT !.is = "whole"] ELSE stage[c]]
  BY DEF WriteStages, hubVars
<1>2. \A c \in TargetsOf(Dataset) : ~ Exists(coll[c]) /\ stage[c] = Torn
  BY <1>1 DEF IInv, Staged
<1>3. /\ TargetsOf(Dataset) \subseteq Collections /\ nth \in DOMAIN Sources /\ done = 0
      /\ stage \in [Collections -> Directories] /\ lock \in 1..Versions /\ config \in 1..Versions
  BY <1>1, BuildingFacts DEF Building, IInv, Place
<1>4. Whole \in Directories /\ [Torn EXCEPT !.is = "whole"] = Whole
  BY <1>3 DEF Whole, Torn, Directories
<1>5. stage' = [c \in Collections |-> IF c \in TargetsOf(Dataset) THEN Whole ELSE stage[c]]
  BY <1>1, <1>2, <1>4
<1>6. stage' \in [Collections -> Directories]
  BY <1>3, <1>4, <1>5
<1>7. /\ DOMAIN Targets[Dataset] = 1 .. Len(Targets[Dataset])
      /\ Len(Targets[Dataset]) \in Nat \ {0}
  BY <1>3, DatasetFacts
<1>8. Dataset' = Dataset /\ Whole' = Whole
  BY <1>1 DEF Dataset, Whole
<1>9. \A i \in DOMAIN Targets[Dataset] :
        /\ Targets[Dataset][i] \in TargetsOf(Dataset)
        /\ ~ Exists(coll[Targets[Dataset][i]])
        /\ stage'[Targets[Dataset][i]] = Whole
  BY <1>2, <1>3, <1>5 DEF TargetsOf
<1>10. Staged'
  <2>1. \A i \in DOMAIN Targets[Dataset] :
          /\ ~ (i <= done)
          /\ ~ Exists(coll[Targets[Dataset][i]])'
          /\ stage'[Targets[Dataset][i]] = Whole'
    BY <1>1, <1>3, <1>7, <1>8, <1>9 DEF Exists
  <2>2. done < Len(Targets[Dataset])
    BY <1>3, <1>7
  <2>3. done' < Len(Targets[Dataset]')
    BY <1>1, <1>8, <2>2
  <2>4. QED
    BY <1>1, <1>8, <2>1, <2>3 DEF Staged
<1>11. QED
  BY <1>1, <1>6, <1>10, BuildInv

\* What is known at a rename.
LEMMA PublishFacts ==
  ASSUME IInv, pc = "publish"
  PROVE  /\ done + 1 \in DOMAIN Targets[Dataset]
         /\ done < Len(Targets[Dataset]) /\ Len(Targets[Dataset]) \in Nat
         /\ Targets[Dataset][done + 1] \in TargetsOf(Dataset)
         /\ ~ Exists(coll[Targets[Dataset][done + 1]])
         /\ stage[Targets[Dataset][done + 1]] = Whole
         /\ \A i \in DOMAIN Targets[Dataset] : i <= done => coll[Targets[Dataset][i]] = Whole
         /\ \A i \in DOMAIN Targets[Dataset] : i > done =>
               /\ ~ Exists(coll[Targets[Dataset][i]])
               /\ stage[Targets[Dataset][i]] = Whole
<1>1. /\ nth \in DOMAIN Sources /\ done \in Nat
      /\ done < Len(Targets[Dataset])
      /\ \A i \in DOMAIN Targets[Dataset] :
            IF i <= done THEN coll[Targets[Dataset][i]] = Whole
            ELSE /\ ~ Exists(coll[Targets[Dataset][i]])
                 /\ stage[Targets[Dataset][i]] = Whole
  BY DEF IInv, Place, Staged, Fetching, Building
<1>2. /\ DOMAIN Targets[Dataset] = 1 .. Len(Targets[Dataset])
      /\ Len(Targets[Dataset]) \in Nat
  BY <1>1, DatasetFacts
<1>3. done + 1 \in DOMAIN Targets[Dataset] /\ ~ (done + 1 <= done)
  BY <1>1, <1>2
<1>4. \A i \in DOMAIN Targets[Dataset] : i > done <=> ~ (i <= done)
  BY <1>1, <1>2
<1>5. QED
  BY <1>1, <1>2, <1>3, <1>4 DEF TargetsOf

LEMMA PublishInv == IInv /\ Publish => IInv'
<1> SUFFICES ASSUME IInv, Publish PROVE IInv'
  OBVIOUS
<1> DEFINE T == Targets[Dataset]
           c == T[done + 1]
<1>1. /\ pc = "publish" /\ UNCHANGED <<file, part, lock, config>>
      /\ coll' = [coll EXCEPT ![c] = stage[c]]
      /\ stage' = [stage EXCEPT ![c] = Absent]
      /\ \/ done + 1 = Len(T) /\ pc' = "admit" /\ nth' = nth + 1 /\ done' = 0
         \/ done + 1 # Len(T) /\ UNCHANGED <<pc, nth>> /\ done' = done + 1
  BY DEF Publish, hubVars
<1>2. /\ nth \in DOMAIN Sources /\ nth \in Nat /\ done \in Nat
      /\ TargetsOf(Dataset) \subseteq Collections
      /\ coll \in [Collections -> Directories] /\ stage \in [Collections -> Directories]
      /\ \A a \in AssetsOf(Dataset) : file[a] = Locked
      /\ lock \in 1..Versions /\ config \in 1..Versions
  BY <1>1, BuildingFacts DEF Building
<1>3. /\ done + 1 \in DOMAIN T /\ done < Len(T) /\ Len(T) \in Nat
      /\ c \in TargetsOf(Dataset) /\ c \in Collections
      /\ ~ Exists(coll[c]) /\ stage[c] = Whole
      /\ \A i \in DOMAIN T : i <= done => coll[T[i]] = Whole
      /\ \A i \in DOMAIN T : i > done => ~ Exists(coll[T[i]]) /\ stage[T[i]] = Whole
  BY <1>1, <1>2, PublishFacts
<1>4. /\ DOMAIN T = 1 .. Len(T)
      /\ \A j, k \in DOMAIN T : T[j] = T[k] => j = k
      /\ \A i \in DOMAIN T : T[i] \in TargetsOf(Dataset) /\ T[i] \in Collections
  BY <1>2, DatasetFacts DEF TargetsOf
<1>5. /\ coll'[c] = Whole
      /\ \A b \in Collections : b # c => coll'[b] = coll[b] /\ stage'[b] = stage[b]
  BY <1>1, <1>2, <1>3
<1> HIDE DEF c
<1>6. FilesOK'
  <2>1. Whole \in Directories
    BY <1>2 DEF Whole, Directories
  <2>2. coll' \in [Collections -> Directories] /\ stage' \in [Collections -> Directories]
    BY <1>1, <1>2, <1>3, <2>1, EmptyFacts
  <2>3. QED
    BY <1>1, <2>2 DEF IInv, FilesOK
<1>7. \A i \in DOMAIN T : i <= done + 1 => coll'[T[i]] = Whole
  <2> SUFFICES ASSUME NEW i \in DOMAIN T, i <= done + 1 PROVE coll'[T[i]] = Whole
    OBVIOUS
  <2>1. CASE i = done + 1
    BY <1>5, <2>1 DEF c
  <2>2. CASE i # done + 1
    <3>1. i <= done /\ T[i] # c
      BY <1>2, <1>3, <1>4, <2>2 DEF c
    <3>2. QED
      BY <1>3, <1>4, <1>5, <3>1
  <2>3. QED
    BY <2>1, <2>2
<1>8. \A i \in DOMAIN T : i > done + 1 => coll'[T[i]] = coll[T[i]] /\ stage'[T[i]] = Whole
  <2> SUFFICES ASSUME NEW i \in DOMAIN T, i > done + 1
               PROVE  coll'[T[i]] = coll[T[i]] /\ stage'[T[i]] = Whole
    OBVIOUS
  <2>1. i > done /\ i # done + 1
    BY <1>2, <1>4
  <2>2. T[i] # c
    BY <1>3, <1>4, <2>1 DEF c
  <2>3. QED
    BY <1>3, <1>4, <1>5, <2>1, <2>2
<1>9. PairIsOneImport'
  <2> SUFFICES ASSUME NEW i \in DOMAIN Sources,
                      NEW a \in TargetsOf(Sources[i]), NEW b \in TargetsOf(Sources[i]),
                      coll'[a].is = "whole", coll'[b].is = "whole"
               PROVE  coll'[a] = coll'[b]
    BY DEF PairIsOneImport, TargetsOf
  <2>1. CASE i = nth
    <3>1. \A k \in TargetsOf(Dataset) : coll'[k].is = "whole" => coll'[k] = Whole
      <4> SUFFICES ASSUME NEW j \in DOMAIN T, coll'[T[j]].is = "whole" PROVE coll'[T[j]] = Whole
        BY DEF TargetsOf
      <4>1. CASE j <= done + 1
        BY <1>7, <4>1
      <4>2. CASE j > done + 1
        <5>1. j > done
          BY <1>2, <1>4, <4>2
        <5>2. ~ Exists(coll[T[j]]) /\ coll'[T[j]] = coll[T[j]]
          BY <1>3, <1>8, <4>2, <5>1
        <5>3. QED
          BY <5>2 DEF Exists
      <4>3. QED
        BY <1>2, <1>4, <4>1, <4>2
    <3>2. QED
      BY <2>1, <3>1 DEF Dataset
  <2>2. CASE i # nth
    <3>1. a # c /\ b # c
      BY <1>2, <1>3, <2>2, TargetsDiffer
    <3>2. a \in Collections /\ b \in Collections
      BY LayoutAssumption DEF TargetsOf
    <3>3. coll'[a] = coll[a] /\ coll'[b] = coll[b]
      BY <1>5, <3>1, <3>2
    <3>4. QED
      BY <3>3 DEF IInv, PairIsOneImport
  <2>3. QED
    BY <2>1, <2>2
<1>10. OkIsVerified'
  BY <1>1 DEF OkIsVerified
<1>11. CASE pc' = "admit" /\ nth' = nth + 1 /\ done' = 0
  <2>1. (Place /\ Fetched /\ Hashed /\ Staged)'
    BY <1>2, <1>11 DEF Place, Fetched, Hashed, Staged, Fetching, Building, Resting
  <2>2. QED
    BY <1>6, <1>9, <1>10, <2>1 DEF IInv
<1>12. CASE done + 1 # Len(T) /\ UNCHANGED <<pc, nth>> /\ done' = done + 1
  <2>1. Dataset' = Dataset /\ AssetsOf(Dataset)' = AssetsOf(Dataset)
    BY <1>12 DEF Dataset, AssetsOf
  <2>2. Place'
    BY <1>1, <1>2, <1>12 DEF Place, Fetching, Building, Resting
  <2>3. (Fetched /\ Hashed)'
    BY <1>1, <1>2, <1>12, <2>1 DEF Fetched, Hashed, Fetching, Building
  <2>4. done' < Len(T)
    BY <1>2, <1>3, <1>12
  <2>5. \A i \in DOMAIN T :
           IF i <= done' THEN coll'[T[i]] = Whole
           ELSE ~ Exists(coll'[T[i]]) /\ stage'[T[i]] = Whole
    <3> SUFFICES ASSUME NEW i \in DOMAIN T
                 PROVE  IF i <= done' THEN coll'[T[i]] = Whole
                        ELSE ~ Exists(coll'[T[i]]) /\ stage'[T[i]] = Whole
      OBVIOUS
    <3>1. CASE i <= done'
      BY <1>7, <1>12, <3>1
    <3>2. CASE ~ (i <= done')
      <4>1. i > done + 1 /\ i > done
        BY <1>2, <1>4, <1>12, <3>2
      <4>2. coll'[T[i]] = coll[T[i]] /\ stage'[T[i]] = Whole
        BY <1>8, <4>1
      <4>3. ~ Exists(coll[T[i]])
        BY <1>3, <4>1
      <4>4. QED
        BY <3>2, <4>2, <4>3
    <3>3. QED
      BY <3>1, <3>2
  <2>6. Whole' = Whole
    BY <1>1 DEF Whole
  <2>7. Staged'
    BY <1>1, <1>12, <2>1, <2>4, <2>5, <2>6 DEF Staged, Exists
  <2>8. QED
    BY <1>6, <1>9, <1>10, <2>2, <2>3, <2>7 DEF IInv
<1>13. QED
  BY <1>1, <1>11, <1>12

LEMMA PublishFailsInv == IInv /\ PublishFails => IInv'
<1> SUFFICES ASSUME IInv, PublishFails PROVE IInv'
  OBVIOUS
<1> DEFINE c == Targets[Dataset][1]
<1>1. pc = "publish" /\ UNCHANGED <<file, part, lock, config>>
  BY DEF PublishFails
<1>2. /\ nth \in DOMAIN Sources /\ nth \in Nat /\ done \in Nat
      /\ TargetsOf(Dataset) \subseteq Collections
      /\ coll \in [Collections -> Directories] /\ part \in [Assets -> Seq(BOOLEAN)]
      /\ \A a \in AssetsOf(Dataset) : file[a] = Locked
  BY <1>1, BuildingFacts DEF Building
<1>3. CASE Fail /\ UNCHANGED coll
  BY <1>1, <1>2, <1>3, FailInv
<1>4. CASE /\ pc' = "rollback" /\ coll' = [coll EXCEPT ![c].is = "torn"]
           /\ UNCHANGED <<stage, nth, done>>
  <2>1. c \in TargetsOf(Dataset) /\ c \in Collections
    <3>1. 1 \in DOMAIN Targets[Dataset]
      BY <1>2, DatasetFacts
    <3>2. QED
      BY <1>2, <3>1 DEF TargetsOf
  <2>2. coll[c] \in Directories
    BY <1>2, <2>1
  <2>3. [coll[c] EXCEPT !.is = "torn"] \in Directories
        /\ [coll[c] EXCEPT !.is = "torn"].is = "torn"
    BY <2>2 DEF Directories
  <2> HIDE DEF c
  <2>4. /\ coll' \in [Collections -> Directories] /\ coll'[c].is = "torn"
        /\ \A b \in Collections : b # c => coll'[b] = coll[b]
    BY <1>2, <1>4, <2>1, <2>3
  <2>5. FilesOK'
    BY <1>1, <1>4, <2>4 DEF IInv, FilesOK
  <2>6. Dataset' = Dataset /\ AssetsOf(Dataset)' = AssetsOf(Dataset)
    BY <1>4 DEF Dataset, AssetsOf
  <2>7. Place'
    BY <1>2, <1>4 DEF Place, Fetching, Building, Resting
  <2>8. (Fetched /\ Hashed)'
    BY <1>1, <1>2, <1>4, <2>6 DEF Fetched, Hashed, Fetching, Building
  <2>9. Staged'
    BY <1>4, <2>4, <2>6 DEF Staged, c
  <2>10. PairIsOneImport'
    <3> SUFFICES ASSUME NEW i \in DOMAIN Sources,
                        NEW a \in TargetsOf(Sources[i]), NEW b \in TargetsOf(Sources[i]),
                        coll'[a].is = "whole", coll'[b].is = "whole"
                 PROVE  coll'[a] = coll'[b]
      BY DEF PairIsOneImport, TargetsOf
    <3>1. a # c /\ b # c
      BY <2>4
    <3>2. a \in Collections /\ b \in Collections
      BY LayoutAssumption DEF TargetsOf
    <3>3. coll'[a] = coll[a] /\ coll'[b] = coll[b]
      BY <2>4, <3>1, <3>2
    <3>4. QED
      BY <3>3 DEF IInv, PairIsOneImport
  <2>11. OkIsVerified'
    BY <1>4 DEF OkIsVerified
  <2>12. QED
    BY <2>5, <2>7, <2>8, <2>9, <2>10, <2>11 DEF IInv
<1>5. QED
  BY <1>3, <1>4 DEF PublishFails

LEMMA RollBackInv == IInv /\ RollBack => IInv'
<1> SUFFICES ASSUME IInv, RollBack PROVE IInv'
  OBVIOUS
<1> DEFINE c == Targets[Dataset][1]
<1>1. /\ pc = "rollback" /\ UNCHANGED <<file, part, lock, config>>
      /\ coll' = [coll EXCEPT ![c] = Absent]
      /\ pc' = "failed" /\ nth' = 0 /\ done' = 0
      /\ stage' = [x \in Collections |-> Absent]
  BY DEF RollBack, Fail
<1>2. coll \in [Collections -> Directories]
  BY DEF IInv, FilesOK
<1> HIDE DEF c
<1>3. /\ coll' \in [Collections -> Directories] /\ stage' \in [Collections -> Directories]
      /\ \A b \in Collections : coll'[b].is = "whole" => coll'[b] = coll[b]
  BY <1>1, <1>2, EmptyFacts DEF Absent
<1>4. FilesOK'
  BY <1>1, <1>3 DEF IInv, FilesOK
<1>5. (Place /\ Fetched /\ Hashed /\ Staged)'
  BY <1>1 DEF Place, Fetched, Hashed, Staged, Fetching, Building, Resting
<1>6. PairIsOneImport'
  <2> SUFFICES ASSUME NEW i \in DOMAIN Sources,
                      NEW a \in TargetsOf(Sources[i]), NEW b \in TargetsOf(Sources[i]),
                      coll'[a].is = "whole", coll'[b].is = "whole"
               PROVE  coll'[a] = coll'[b]
    BY DEF PairIsOneImport, TargetsOf
  <2>1. a \in Collections /\ b \in Collections
    BY LayoutAssumption DEF TargetsOf
  <2>2. coll'[a] = coll[a] /\ coll'[b] = coll[b]
    BY <1>3, <2>1
  <2>3. QED
    BY <2>2 DEF IInv, PairIsOneImport
<1>7. OkIsVerified'
  BY <1>1 DEF OkIsVerified
<1>8. QED
  BY <1>4, <1>5, <1>6, <1>7 DEF IInv

-----------------------------------------------------------------------------
(* The end of a session, and what happens between sessions.                *)

\* Success is reported after a look at every collection.
LEMMA VerifyInv == IInv /\ Verify => IInv'
<1> SUFFICES ASSUME IInv, Verify PROVE IInv'
  OBVIOUS
<1>1. /\ pc = "verify" /\ UNCHANGED <<file, part, coll, lock, config>>
      /\ part \in [Assets -> Seq(BOOLEAN)] /\ done = 0
  BY DEF Verify, IInv, FilesOK, Place, Resting
<1>2. CASE Fail
  BY <1>1, <1>2, FailInv
<1>3. CASE AllVerified /\ pc' = "ok" /\ nth' = 0 /\ UNCHANGED <<stage, done>>
  <2>1. FilesOK'
    BY <1>1, <1>3 DEF IInv, FilesOK
  <2>2. (Place /\ Fetched /\ Hashed /\ Staged)'
    BY <1>1, <1>3 DEF Place, Fetched, Hashed, Staged, Fetching, Building, Resting
  <2>3. PairIsOneImport'
    BY <1>1 DEF IInv, PairIsOneImport, TargetsOf
  <2>4. OkIsVerified'
    BY <1>1, <1>3 DEF OkIsVerified, AllVerified, Verified, TargetsOf
  <2>5. QED
    BY <2>1, <2>2, <2>3, <2>4 DEF IInv
<1>4. QED
  BY <1>2, <1>3 DEF Verify

LEMMA ChangeLockInv == IInv /\ ChangeLock => IInv'
<1> SUFFICES ASSUME IInv, ChangeLock PROVE IInv'
  OBVIOUS
<1>1. lock' \in 1..Versions
  BY BoundsAssumption DEF ChangeLock, IInv, FilesOK
<1>2. FilesOK'
  BY <1>1, EmptyFacts DEF ChangeLock, IInv, FilesOK
<1>3. done' = 0 /\ nth' \in Nat /\ pc' = "idle" /\ UNCHANGED coll
  BY DEF ChangeLock, IInv, Place, Ended, Resting
<1>4. QED
  BY <1>2, <1>3, RestInv DEF Resting

LEMMA ChangeConfigInv == IInv /\ ChangeConfig => IInv'
<1> SUFFICES ASSUME IInv, ChangeConfig PROVE IInv'
  OBVIOUS
<1>1. config' \in 1..Versions
  BY BoundsAssumption DEF ChangeConfig, IInv, FilesOK
<1>2. FilesOK'
  BY <1>1 DEF ChangeConfig, hubVars, IInv, FilesOK
<1>3. done' = 0 /\ nth' \in Nat /\ pc' = "idle" /\ UNCHANGED coll
  BY DEF ChangeConfig, IInv, Place, Ended, Resting
<1>4. QED
  BY <1>2, <1>3, RestInv DEF Resting

\* What may go wrong.
LEMMA MishapInv == IInv /\ Mishap => IInv'
<1> SUFFICES ASSUME IInv, Mishap PROVE IInv'
  OBVIOUS
<1>1. part \in [Assets -> Seq(BOOLEAN)]
  BY DEF IInv, FilesOK
<1>2. CASE \E answer \in Replies : CannotResolve(answer)
  BY <1>1, <1>2, FailInv DEF CannotResolve
<1>3. CASE \E block \in BOOLEAN : ReceiveWrong(block)
  BY <1>3, ReceiveInv DEF ReceiveWrong
<1>4. CASE BreakConnection
  BY <1>1, <1>4, FailInv DEF BreakConnection
<1>5. CASE RetryRange
  BY <1>5, RangeInv DEF RetryRange
<1>6. CASE GiveUpRange
  BY <1>1, <1>6, FailInv DEF GiveUpRange
<1>7. CASE BuildFails
  BY <1>1, <1>7, FailInv DEF BuildFails
<1>8. CASE Kill
  BY <1>1, <1>8, EndInv DEF Kill
<1>9. QED
  BY <1>2, <1>3, <1>4, <1>5, <1>6, <1>7, <1>8,
     PublishFailsInv, ChangeLockInv, ChangeConfigInv DEF Mishap

LEMMA ProgressInv == IInv /\ Progress => IInv'
<1> SUFFICES ASSUME IInv, Progress PROVE IInv'
  OBVIOUS
<1>1. CASE Resolving
  BY <1>1, ResolveAssetInv DEF Resolving
<1>2. CASE \E status \in {200, 206} : Get(status)
  BY <1>2, GetInv
<1>3. CASE ReceiveBlock
  BY <1>3, ReceiveInv DEF ReceiveBlock, sessionVars
<1>4. CASE ReadRange
  BY <1>4, RangeInv DEF ReadRange
<1>5. QED
  BY <1>1, <1>2, <1>3, <1>4, BeginInv, AdmitInv, FetchStepInv, KeepPartialInv, EndOfBodyInv,
     MakeStagesInv, WriteStagesInv, PublishInv, RollBackInv, VerifyInv DEF Progress

LEMMA StutterInv == IInv /\ UNCHANGED vars => IInv'
<1> SUFFICES ASSUME IInv, UNCHANGED vars PROVE IInv'
  OBVIOUS
<1>1. /\ UNCHANGED <<file, part, digest, coll, stage, lock, config, pc, nth, done>>
  BY DEF vars, hubVars, sessionVars
<1>2. (FilesOK /\ OkIsVerified)'
  BY <1>1 DEF IInv, FilesOK, OkIsVerified, TargetsOf
<1>3. (Place /\ Fetched /\ Hashed)'
  BY <1>1 DEF IInv, Place, Fetched, Hashed, Asset, AssetsOf, Dataset
<1>4. (Staged /\ PairIsOneImport)'
  BY <1>1 DEF IInv, Staged, PairIsOneImport, Dataset, TargetsOf, Exists, Whole, Torn
<1>5. QED
  BY <1>2, <1>3, <1>4 DEF IInv

\* An import keeps the invariant, whatever fails or is retried.
THEOREM Invariance == Spec => []IInv
<1>1. IInv /\ [Next]_vars => IInv'
  BY ProgressInv, MishapInv, StutterInv DEF Next
<1>2. QED
  BY <1>1, InitInv, PTL DEF Spec

-----------------------------------------------------------------------------
(* What readers of the data root rely on.                                  *)

\* A source at its final name is the pinned one, in whatever pieces it came.
THEOREM SourcesAreLocked == Spec => []SourceIsLocked
<1>1. IInv => SourceIsLocked
  BY DEF IInv, FilesOK, SourceIsLocked
<1>2. QED
  BY <1>1, Invariance, PTL

\* The collections of a dataset come from one session.
THEOREM PairsAreOneImport == Spec => []PairIsOneImport
<1>1. IInv => PairIsOneImport
  BY DEF IInv
<1>2. QED
  BY <1>1, Invariance, PTL

\* Success means that every collection is whole and of the lock in force.
THEOREM OkAlwaysVerified == Spec => []OkIsVerified
<1>1. IInv => OkIsVerified
  BY DEF IInv
<1>2. QED
  BY <1>1, Invariance, PTL

LEMMA PublishIsWhole == IInv /\ Publish => AppearsWhole /\ StaysWhole
<1> SUFFICES ASSUME IInv, Publish PROVE AppearsWhole /\ StaysWhole
  OBVIOUS
<1> DEFINE c == Targets[Dataset][done + 1]
<1>1. pc = "publish" /\ coll' = [coll EXCEPT ![c] = stage[c]]
  BY DEF Publish
<1>2. /\ nth \in DOMAIN Sources /\ coll \in [Collections -> Directories]
      /\ \A a \in AssetsOf(Dataset) : file[a] = Locked
  BY <1>1, BuildingFacts DEF Building
<1>3. c \in TargetsOf(Dataset) /\ ~ Exists(coll[c]) /\ stage[c] = Whole
  BY <1>1, PublishFacts
<1> HIDE DEF c
<1>4. \A i \in DOMAIN Sources : TargetsOf(Sources[i]) \subseteq Collections
  BY LayoutAssumption DEF TargetsOf
<1>5. \A b \in Collections : coll'[b] = IF b = c THEN Whole ELSE coll[b]
  BY <1>1, <1>2, <1>3
<1>6. \A i \in DOMAIN Sources : c \in TargetsOf(Sources[i]) => Sources[i] = Dataset
  BY <1>2, <1>3, TargetsDiffer DEF Dataset
<1>7. AppearsWhole
  <2> SUFFICES ASSUME NEW i \in DOMAIN Sources, NEW b \in TargetsOf(Sources[i]),
                      ~ Exists(coll[b]), Exists(coll'[b])
               PROVE  coll'[b] = Whole /\ \A a \in AssetsOf(Sources[i]) : file[a] = Locked
    BY DEF AppearsWhole, Whole
  <2>1. b = c
    BY <1>4, <1>5
  <2>2. QED
    BY <1>2, <1>4, <1>5, <1>6, <2>1
<1>8. StaysWhole
  <2> SUFFICES ASSUME NEW i \in DOMAIN Sources,
                      \A b \in TargetsOf(Sources[i]) : coll[b].is = "whole",
                      NEW b \in TargetsOf(Sources[i])
               PROVE  coll'[b] = coll[b]
    BY DEF StaysWhole
  <2>1. b # c
    BY <1>3 DEF Exists
  <2>2. QED
    BY <1>4, <1>5, <2>1
<1>9. QED
  BY <1>7, <1>8

\* A step that does not rename touches no collection, or one of a dataset that is not whole.
LEMMA RemovalIsNotPublication ==
  ASSUME IInv, nth \in DOMAIN Sources, NEW c \in TargetsOf(Dataset), NEW v,
         coll' = [coll EXCEPT ![c] = v],
         Exists(v) => Exists(coll[c]),
         \E b \in TargetsOf(Dataset) : coll[b].is # "whole"
  PROVE  AppearsWhole /\ StaysWhole
<1>1. \A i \in DOMAIN Sources : TargetsOf(Sources[i]) \subseteq Collections
  BY LayoutAssumption DEF TargetsOf
<1>2. \A b \in Collections : coll'[b] = IF b = c THEN v ELSE coll[b]
  BY DEF IInv, FilesOK
<1>3. AppearsWhole
  BY <1>1, <1>2 DEF AppearsWhole
<1>4. StaysWhole
  <2> SUFFICES ASSUME NEW i \in DOMAIN Sources,
                      \A b \in TargetsOf(Sources[i]) : coll[b].is = "whole",
                      NEW b \in TargetsOf(Sources[i])
               PROVE  coll'[b] = coll[b]
    BY DEF StaysWhole
  <2>1. b # c
    BY TargetsDiffer DEF Dataset
  <2>2. QED
    BY <1>1, <1>2, <2>1
<1>5. QED
  BY <1>3, <1>4

LEMMA PublishFailsIsWhole == IInv /\ PublishFails => AppearsWhole /\ StaysWhole
<1> SUFFICES ASSUME IInv, PublishFails PROVE AppearsWhole /\ StaysWhole
  OBVIOUS
<1> DEFINE c == Targets[Dataset][1]
<1>1. pc = "publish" /\ nth \in DOMAIN Sources /\ done \in Nat
  BY BuildingFacts DEF PublishFails, Building
<1>2. CASE UNCHANGED coll
  BY <1>2 DEF AppearsWhole, StaysWhole
<1>3. CASE done > 0 /\ coll' = [coll EXCEPT ![c].is = "torn"]
  <2>1. 1 \in DOMAIN Targets[Dataset] /\ c \in TargetsOf(Dataset)
    BY <1>1, DatasetFacts DEF TargetsOf
  <2>2. 1 <= done
    BY <1>1, <1>3
  <2>3. coll[c] = Whole
    BY <1>1, <2>1, <2>2, PublishFacts
  <2>4. Exists(coll[c])
    BY <2>3 DEF Whole, Exists
  <2>5. \E b \in TargetsOf(Dataset) : coll[b].is # "whole"
    BY <1>1, PublishFacts DEF Exists
  <2>6. QED
    BY <1>1, <1>3, <2>1, <2>4, <2>5, RemovalIsNotPublication
<1>4. QED
  BY <1>2, <1>3 DEF PublishFails

LEMMA RollBackIsWhole == IInv /\ RollBack => AppearsWhole /\ StaysWhole
<1> SUFFICES ASSUME IInv, RollBack PROVE AppearsWhole /\ StaysWhole
  OBVIOUS
<1> DEFINE c == Targets[Dataset][1]
<1>1. /\ pc = "rollback" /\ nth \in DOMAIN Sources /\ coll[c].is = "torn"
      /\ coll' = [coll EXCEPT ![c] = Absent]
  BY BuildingFacts DEF RollBack, Building, IInv, Staged
<1>2. c \in TargetsOf(Dataset)
  BY <1>1, DatasetFacts DEF TargetsOf
<1>3. ~ Exists(Absent)
  BY DEF Absent, Exists
<1>4. QED
  BY <1>1, <1>2, <1>3, RemovalIsNotPublication

\* Publication is atomic, and final.
THEOREM PublicationIsWhole == Spec => PublishedIsWhole
<1>1. IInv /\ [Next]_vars => [AppearsWhole /\ StaysWhole]_vars
  <2> SUFFICES ASSUME IInv, [Next]_vars, vars' # vars PROVE AppearsWhole /\ StaysWhole
    OBVIOUS
  <2>1. CASE UNCHANGED coll
    BY <2>1 DEF AppearsWhole, StaysWhole
  <2>2. Next => UNCHANGED coll \/ Publish \/ PublishFails \/ RollBack
    BY DEF Next, Progress, Mishap, Begin, Admit, Fetch, KeepPartial, Resolving, ResolveAsset,
           Get, ReceiveBlock, sessionVars, EndOfBody, ReadRange, MakeStages, WriteStages, Verify,
           CannotResolve, ReceiveWrong, BreakConnection, RetryRange, GiveUpRange, BuildFails,
           Kill, ChangeLock, ChangeConfig
  <2>3. QED
    BY <2>1, <2>2, PublishIsWhole, PublishFailsIsWhole, RollBackIsWhole
<1>2. QED
  BY <1>1, Invariance, PTL DEF Spec, PublishedIsWhole

-----------------------------------------------------------------------------
(* Rows in the order of their keys.                                        *)

\* A set of numbers has a least one.
LEMMA LeastNumber ==
  ASSUME NEW T \in SUBSET Nat, T # {}
  PROVE  \E x \in T : \A y \in T : x <= y
<1> DEFINE less == OpToRel(<, Nat)
<1>1. IsWellFoundedOn(less, Nat)
  BY NatLessThanWellFounded
<1>2. PICK x \in T : \A y \in T : <<y, x>> \notin less
  BY <1>1, WFMin
<1>3. \A y \in T : ~(y < x)
  BY <1>2 DEF OpToRel
<1>4. \A y \in T : x <= y
  BY <1>3
<1> QED BY <1>4

\* A part of a finite set is finite, and smaller unless it is the whole.
LEMMA Fewer ==
  ASSUME NEW X, IsFiniteSet(X), NEW Y \in SUBSET X
  PROVE  /\ IsFiniteSet(Y) /\ Cardinality(Y) \in Nat /\ Cardinality(X) \in Nat
         /\ Cardinality(Y) <= Cardinality(X)
         /\ Y # X => Cardinality(Y) < Cardinality(X)
<1>1. /\ IsFiniteSet(Y) /\ Cardinality(Y) <= Cardinality(X)
      /\ Cardinality(X) = Cardinality(Y) => X = Y
  BY FS_Subset
<1>2. Cardinality(Y) \in Nat /\ Cardinality(X) \in Nat
  BY <1>1, FS_CardinalityType
<1> QED BY <1>1, <1>2

\* What a function with distinct values makes of a finite set is as large.
LEMMA SameNumber ==
  ASSUME NEW X, IsFiniteSet(X), NEW Y, NEW f \in [X -> Y],
         \A x, y \in X : f[x] = f[y] => x = y, \A y \in Y : \E x \in X : f[x] = y
  PROVE  IsFiniteSet(Y) /\ Cardinality(Y) = Cardinality(X)
<1>1. f \in Surjection(X, Y)
  BY DEF Surjection
<1>2. f \in Injection(X, Y)
  BY DEF Injection, IsInjective
<1> QED BY <1>1, <1>2, FS_Surjection

\* Before puts all tuples of n numbers in a strict order.
LEMMA BeforeIsOrder ==
  ASSUME NEW n \in Nat, NEW a \in [1 .. n -> Int], NEW b \in [1 .. n -> Int],
         NEW c \in [1 .. n -> Int]
  PROVE  /\ ~Before(a, a)
         /\ Before(a, b) /\ Before(b, c) => Before(a, c)
         /\ a # b => Before(a, b) \/ Before(b, a)
<1>1. ~Before(a, a)
  BY DEF Before
<1>2. ASSUME Before(a, b), Before(b, c)
      PROVE  Before(a, c)
  <2>1. PICK i \in 1 .. n : a[i] < b[i] /\ \A j \in 1 .. i - 1 : a[j] = b[j]
    BY <1>2 DEF Before
  <2>2. PICK k \in 1 .. n : b[k] < c[k] /\ \A j \in 1 .. k - 1 : b[j] = c[j]
    BY <1>2 DEF Before
  <2>3. CASE i <= k
    <3>1. a[i] < c[i]
      <4>1. CASE i = k
        BY <2>1, <2>2, <4>1
      <4>2. CASE i # k
        <5>1. i \in 1 .. k - 1
          BY <2>3, <4>2
        <5> QED BY <2>1, <2>2, <5>1
      <4> QED BY <4>1, <4>2
    <3>2. \A j \in 1 .. i - 1 : a[j] = c[j]
      <4>1. \A j \in 1 .. i - 1 : j \in 1 .. k - 1
        BY <2>3
      <4> QED BY <2>1, <2>2, <4>1
    <3> QED BY <3>1, <3>2 DEF Before
  <2>4. CASE k < i
    <3>1. k \in 1 .. i - 1 /\ \A j \in 1 .. k - 1 : j \in 1 .. i - 1
      BY <2>4
    <3>2. a[k] < c[k] /\ \A j \in 1 .. k - 1 : a[j] = c[j]
      BY <2>1, <2>2, <3>1
    <3> QED BY <3>2 DEF Before
  <2> QED BY <2>3, <2>4
<1>3. ASSUME a # b
      PROVE  Before(a, b) \/ Before(b, a)
  <2> DEFINE Apart == {i \in 1 .. n : a[i] # b[i]}
  <2>1. Apart \in SUBSET Nat /\ Apart # {}
    <3>1. (\A i \in 1 .. n : a[i] = b[i]) => a = b
      OBVIOUS
    <3>2. \E i \in 1 .. n : a[i] # b[i]
      BY <1>3, <3>1
    <3>3. Apart # {}
      BY <3>2
    <3>4. Apart \in SUBSET Nat
      OBVIOUS
    <3> QED BY <3>3, <3>4
  <2>2. PICK i \in Apart : \A j \in Apart : i <= j
    <3> HIDE DEF Apart
    <3> QED BY <2>1, LeastNumber
  <2>3. i \in 1 .. n /\ \A j \in 1 .. i - 1 : a[j] = b[j]
    <3>1. \A j \in 1 .. i - 1 : j \in 1 .. n /\ ~(i <= j)
      OBVIOUS
    <3> QED BY <2>2, <3>1
  <2>4. a[i] < b[i] \/ b[i] < a[i]
    OBVIOUS
  <2> QED BY <2>3, <2>4 DEF Before
<1> QED BY <1>1, <1>2, <1>3

\* The keys of a finite set are comparable, and none comes twice.
Ordered(X, key) ==
  /\ IsFiniteSet(X)
  /\ \A x \in X : ~Before(key[x], key[x])
  /\ \A x, y, z \in X :
       Before(key[x], key[y]) /\ Before(key[y], key[z]) => Before(key[x], key[z])
  /\ \A x, y \in X : x # y => Before(key[x], key[y]) \/ Before(key[y], key[x])

LEMMA KeysAreOrdered ==
  ASSUME NEW X, IsFiniteSet(X), NEW n \in Nat, NEW key,
         \A x \in X : key[x] \in [1 .. n -> Int],
         \A x, y \in X : key[x] = key[y] => x = y
  PROVE  Ordered(X, key)
<1>1. \A x \in X : ~Before(key[x], key[x])
  BY BeforeIsOrder
<1>2. \A x, y, z \in X :
        Before(key[x], key[y]) /\ Before(key[y], key[z]) => Before(key[x], key[z])
  BY BeforeIsOrder
<1>3. \A x, y \in X : x # y => Before(key[x], key[y]) \/ Before(key[y], key[x])
  <2>1. \A x, y \in X : x # y => key[x] # key[y]
    OBVIOUS
  <2> QED BY <2>1, BeforeIsOrder
<1> QED BY <1>1, <1>2, <1>3 DEF Ordered

LEMMA OrderedPart ==
  ASSUME NEW X, NEW key, Ordered(X, key), NEW Y \in SUBSET X
  PROVE  Ordered(Y, key)
BY Fewer DEF Ordered

\* The ranks are the numbers below the size of the set, in the same order.
LEMMA RanksAreOrdered ==
  ASSUME NEW X, NEW key, Ordered(X, key)
  PROVE  /\ \A x \in X : Rank(x, X, key) \in 0 .. Cardinality(X) - 1
         /\ \A x, y \in X : Before(key[x], key[y]) => Rank(x, X, key) < Rank(y, X, key)
         /\ \A x, y \in X : Rank(x, X, key) = Rank(y, X, key) => x = y
<1> DEFINE Early(x) == {y \in X : Before(key[y], key[x])}
<1>1. \A x \in X : Rank(x, X, key) = Cardinality(Early(x))
  BY DEF Rank
<1>2. \A x \in X : Early(x) \in SUBSET X /\ x \notin Early(x)
  BY DEF Ordered
<1>3. IsFiniteSet(X) /\ Cardinality(X) \in Nat
  BY FS_CardinalityType DEF Ordered
<1>4. ASSUME NEW x \in X
      PROVE  Rank(x, X, key) \in 0 .. Cardinality(X) - 1
  <2>1. Early(x) \in SUBSET X /\ Early(x) # X
    BY <1>2
  <2>2. Cardinality(Early(x)) \in Nat /\ Cardinality(Early(x)) < Cardinality(X)
    <3> HIDE DEF Early
    <3> QED BY <1>3, <2>1, Fewer
  <2> QED BY <1>1, <1>3, <2>2
<1>5. ASSUME NEW x \in X, NEW y \in X, Before(key[x], key[y])
      PROVE  Rank(x, X, key) < Rank(y, X, key)
  <2>1. \A z \in X : Before(key[z], key[x]) => Before(key[z], key[y])
    BY <1>5 DEF Ordered
  <2>2. Early(x) \in SUBSET Early(y) /\ x \in Early(y)
    BY <1>5, <2>1
  <2>3. Early(x) # Early(y) /\ Early(y) \in SUBSET X
    BY <1>2, <2>2
  <2>4. Cardinality(Early(x)) < Cardinality(Early(y))
    <3> HIDE DEF Early
    <3> QED BY <1>3, <2>2, <2>3, Fewer
  <2> QED BY <1>1, <2>4
<1>6. ASSUME NEW x \in X, NEW y \in X, Rank(x, X, key) = Rank(y, X, key), x # y
      PROVE  FALSE
  <2>1. Rank(x, X, key) < Rank(y, X, key) \/ Rank(y, X, key) < Rank(x, X, key)
    BY <1>5, <1>6 DEF Ordered
  <2>2. Rank(x, X, key) \in Int /\ Rank(y, X, key) \in Int
    BY <1>3, <1>4
  <2> QED BY <1>6, <2>1, <2>2
<1> QED BY <1>4, <1>5, <1>6

\* Some row has each rank.
LEMMA EveryRank ==
  ASSUME NEW X, NEW key, Ordered(X, key), NEW r \in 0 .. Cardinality(X) - 1
  PROVE  \E x \in X : Rank(x, X, key) = r
<1> DEFINE n    == Cardinality(X)
           T    == 0 .. n - 1
           rank == [x \in X |-> Rank(x, X, key)]
<1>1. n \in Nat
  BY FS_CardinalityType DEF Ordered
<1>2. IsFiniteSet(T) /\ Cardinality(T) = n
  BY <1>1, FS_Interval
<1>3. rank \in [X -> T] /\ \A x, y \in X : rank[x] = rank[y] => x = y
  BY RanksAreOrdered
<1>4. \A s \in T : \E x \in X : rank[x] = s
  <2> HIDE DEF rank, T
  <2>1. rank \in Injection(X, T)
    BY <1>3 DEF Injection, IsInjective
  <2>2. rank \in Surjection(X, T)
    BY <1>1, <1>2, <2>1, FS_Injection
  <2> QED BY <2>2 DEF Surjection
<1> QED BY <1>4

\* As many rows are taken as are asked for, if there are so many.
LEMMA TakenInOrder ==
  ASSUME NEW X, NEW key, Ordered(X, key), NEW a \in Nat, NEW n \in Nat,
         a + n <= Cardinality(X)
  PROVE  LET Y == {x \in X : Rank(x, X, key) \in a .. a + n - 1}
         IN IsFiniteSet(Y) /\ Cardinality(Y) = n
<1> DEFINE T    == a .. a + n - 1
           Y    == {x \in X : Rank(x, X, key) \in T}
           rank == [x \in Y |-> Rank(x, X, key)]
<1>1. IsFiniteSet(T) /\ Cardinality(T) = n
  BY FS_Interval
<1>2. IsFiniteSet(Y)
  <2>1. Y \in SUBSET X
    OBVIOUS
  <2> HIDE DEF Y
  <2> QED BY <2>1, Fewer DEF Ordered
<1>3. rank \in [Y -> T] /\ \A x, y \in Y : rank[x] = rank[y] => x = y
  BY RanksAreOrdered
<1>4. \A r \in T : \E x \in Y : rank[x] = r
  <2>1. ASSUME NEW r \in T
        PROVE  \E x \in Y : rank[x] = r
    <3>1. Cardinality(X) \in Nat
      BY FS_CardinalityType DEF Ordered
    <3>2. r \in 0 .. Cardinality(X) - 1
      BY <3>1
    <3>3. PICK x \in X : Rank(x, X, key) = r
      BY <3>2, EveryRank
    <3> QED BY <3>3
  <2> QED BY <2>1
<1>5. Cardinality(T) = Cardinality(Y)
  <2> HIDE DEF rank, Y, T
  <2> QED BY <1>2, <1>3, <1>4, SameNumber
<1> QED BY <1>1, <1>2, <1>5

LEMMA SmallestTakes ==
  ASSUME NEW X, NEW key, Ordered(X, key), NEW n \in 0 .. Cardinality(X)
  PROVE  /\ Smallest(n, X, key) \in SUBSET X /\ IsFiniteSet(Smallest(n, X, key))
         /\ Cardinality(Smallest(n, X, key)) = n
<1> DEFINE Y == {x \in X : Rank(x, X, key) \in 0 .. 0 + n - 1}
<1>1. Cardinality(X) \in Nat
  BY FS_CardinalityType DEF Ordered
<1>2. 0 \in Nat /\ n \in Nat /\ 0 + n <= Cardinality(X)
  BY <1>1
<1>3. IsFiniteSet(Y) /\ Cardinality(Y) = n
  BY <1>2, TakenInOrder
<1>4. \A x \in X : Rank(x, X, key) < n <=> Rank(x, X, key) \in 0 .. 0 + n - 1
  <2>1. \A x \in X : Rank(x, X, key) \in Nat
    BY <1>1, RanksAreOrdered
  <2> QED BY <1>2, <2>1
<1>5. Smallest(n, X, key) = Y
  BY <1>4 DEF Smallest
<1> HIDE DEF Y
<1> QED BY <1>3, <1>5 DEF Smallest

-----------------------------------------------------------------------------
(* Sums over finite sets.                                                  *)

\* What is in any of the parts.
Together(F, X) == UNION {F[x] : x \in X}

LEMMA TogetherIsFinite ==
  ASSUME NEW X, IsFiniteSet(X), NEW F, \A x \in X : IsFiniteSet(F[x])
  PROVE  IsFiniteSet(Together(F, X))
<1> DEFINE Parts == {F[x] : x \in X}
           piece  == [x \in X |-> F[x]]
<1>1. piece \in Surjection(X, Parts)
  BY DEF Surjection
<1>2. IsFiniteSet(Parts)
  <2> HIDE DEF Parts, piece
  <2> QED BY <1>1, FS_Surjection
<1>3. \A Y \in Parts : IsFiniteSet(Y)
  OBVIOUS
<1>4. IsFiniteSet(UNION Parts)
  <2> HIDE DEF Parts
  <2> QED BY <1>2, <1>3, FS_UNION
<1> QED BY <1>4 DEF Together

\* The sum of the sizes of parts that are apart is the size of the whole.
LEMMA SumCounts ==
  ASSUME NEW X, IsFiniteSet(X), NEW f, NEW F,
         \A x \in X : IsFiniteSet(F[x]) /\ f[x] = Cardinality(F[x]),
         \A x, y \in X : x # y => F[x] \cap F[y] = {}
  PROVE  IsFiniteSet(Together(F, X)) /\ Sum(f, X) = Cardinality(Together(F, X))
<1> DEFINE Picked(t)  == CHOOSE x \in t : TRUE
           Turn(g, t) == IF t = {} THEN 0 ELSE f[Picked(t)] + g[t \ {Picked(t)}]
           sum == CHOOSE g : g = [t \in SUBSET X |-> Turn(g, t)]
           all == [t \in SUBSET X |-> Cardinality(Together(F, t))]
<1>1. Sum(f, X) = sum[X]
  BY DEF Sum, MapThenSumSet, MapThenFoldSet
<1>2. \A t \in SUBSET X : IsFiniteSet(t) /\ IsFiniteSet(Together(F, t))
  BY Fewer, TogetherIsFinite
<1>3. ASSUME NEW t \in SUBSET X, NEW x \in t
      PROVE  /\ Cardinality(Together(F, t)) = f[x] + Cardinality(Together(F, t \ {x}))
             /\ t \ {x} \in SUBSET X
  <2> DEFINE Y == F[x]
             Z == Together(F, t \ {x})
  <2>1. t \ {x} \in SUBSET X /\ x \in X
    OBVIOUS
  <2>2. IsFiniteSet(Y) /\ IsFiniteSet(Z) /\ Cardinality(Y) = f[x]
    BY <1>2, <2>1
  <2>3. Y \cap Z = {}
    BY <2>1 DEF Together
  <2>4. Together(F, t) = Y \cup Z
    BY DEF Together
  <2> HIDE DEF Y, Z
  <2>5. Cardinality(Y \cup Z) = Cardinality(Y) + Cardinality(Z) - Cardinality(Y \cap Z)
    BY <2>2, FS_Union
  <2>6. Cardinality(Y \cap Z) = 0
    BY <2>3, FS_EmptySet
  <2>7. Cardinality(Y) \in Nat /\ Cardinality(Z) \in Nat
    BY <2>2, FS_CardinalityType
  <2>8. Cardinality(Together(F, t)) = f[x] + Cardinality(Z)
    BY <2>2, <2>4, <2>5, <2>6, <2>7
  <2> QED BY <2>1, <2>8 DEF Z
<1>4. ASSUME NEW t \in SUBSET X
      PROVE  Turn(all, t) = Cardinality(Together(F, t))
  <2>1. CASE t = {}
    <3>1. Together(F, t) = {}
      BY <2>1 DEF Together
    <3> QED BY <2>1, <3>1, FS_EmptySet
  <2>2. CASE t # {}
    <3>1. Picked(t) \in t
      BY <2>2
    <3> HIDE DEF Picked
    <3>2. all[t \ {Picked(t)}] = Cardinality(Together(F, t \ {Picked(t)}))
      OBVIOUS
    <3> HIDE DEF all
    <3> QED BY <1>3, <2>2, <3>1, <3>2
  <2> QED BY <2>1, <2>2
<1>5. all = [t \in SUBSET X |-> Turn(all, t)]
  <2>1. \A t \in SUBSET X : all[t] = Cardinality(Together(F, t))
    OBVIOUS
  <2> DEFINE other == [t \in SUBSET X |-> Turn(all, t)]
  <2>2. \A t \in SUBSET X : other[t] = Turn(all, t)
    OBVIOUS
  <2>3. \A t \in SUBSET X : all[t] = other[t]
    <3> HIDE DEF all, other, Turn
    <3> QED BY <1>4, <2>1, <2>2
  <2>4. all \in [SUBSET X -> {Cardinality(Together(F, t)) : t \in SUBSET X}]
    OBVIOUS
  <2>5. all = [t \in SUBSET X |-> all[t]]
    OBVIOUS
  <2> HIDE DEF all, Turn
  <2> QED BY <2>2, <2>3, <2>5
<1>6. sum = [t \in SUBSET X |-> Turn(sum, t)]
  <2> HIDE DEF all, Turn
  <2>1. \E g : g = [t \in SUBSET X |-> Turn(g, t)]
    BY <1>5
  <2> QED BY <2>1, Zenon
<1> HIDE DEF sum, all
<1>7. \A t \in SUBSET X : sum[t] = Turn(sum, t)
  BY <1>6
<1>8. \A t \in SUBSET X : sum[t] = Cardinality(Together(F, t))
  <2> DEFINE Bad == {t \in SUBSET X : sum[t] # Cardinality(Together(F, t))}
             M   == {Cardinality(t) : t \in Bad}
  <2>1. ASSUME Bad # {}
        PROVE  FALSE
    <3>1. \A t \in Bad : Cardinality(t) \in Nat
      BY <1>2, FS_CardinalityType
    <3>2. M \in SUBSET Nat /\ M # {}
      BY <2>1, <3>1
    <3>3. PICK n \in M : \A m \in M : n <= m
      <4> HIDE DEF M
      <4> QED BY <3>2, LeastNumber
    <3>4. PICK t \in Bad : n = Cardinality(t)
      OBVIOUS
    <3>5. t \in SUBSET X /\ sum[t] # Cardinality(Together(F, t))
      OBVIOUS
    <3>6. CASE t = {}
      <4>1. Together(F, t) = {}
        BY <3>6 DEF Together
      <4>2. sum[t] = 0
        BY <1>7, <3>5, <3>6
      <4> QED BY <3>5, <4>1, <4>2, FS_EmptySet
    <3>7. CASE t # {}
      <4> DEFINE x == Picked(t)
      <4>1. x \in t
        BY <3>7
      <4>2. sum[t] = f[x] + sum[t \ {x}]
        BY <1>7, <3>5, <3>7
      <4> HIDE DEF x
      <4>3. t \ {x} \in SUBSET X
        BY <3>5
      <4>4. Cardinality(t \ {x}) < Cardinality(t)
        <5>1. IsFiniteSet(t) /\ t \ {x} \in SUBSET t /\ t \ {x} # t
          BY <1>2, <3>5, <4>1
        <5> QED BY <5>1, Fewer
      <4>5. t \ {x} \notin Bad
        <5>1. ASSUME t \ {x} \in Bad
              PROVE  FALSE
          <6>1. Cardinality(t \ {x}) \in M
            BY <5>1
          <6>2. n <= Cardinality(t \ {x}) /\ Cardinality(t \ {x}) \in Nat /\ n \in Nat
            <7> HIDE DEF M
            <7> QED BY <3>1, <3>2, <3>3, <5>1, <6>1
          <6> QED BY <3>4, <4>4, <6>2
        <5> QED BY <5>1
      <4>6. sum[t \ {x}] = Cardinality(Together(F, t \ {x}))
        BY <4>3, <4>5
      <4> HIDE DEF Bad
      <4> QED BY <1>3, <3>5, <4>1, <4>2, <4>6
    <3> QED BY <3>6, <3>7
  <2> QED BY <2>1
<1> QED BY <1>1, <1>2, <1>8

-----------------------------------------------------------------------------
\* What holds of nothing, and of one element more than it holds of, holds of
\* the whole set.
LEMMA SubsetInduction ==
  ASSUME NEW X, IsFiniteSet(X), NEW G, {} \in G,
         \A t \in SUBSET X : \A x \in X : t \in G /\ x \notin t => t \cup {x} \in G
  PROVE  X \in G
<1> DEFINE Bad == {t \in SUBSET X : t \notin G}
           M   == {Cardinality(t) : t \in Bad}
<1>1. \A t \in SUBSET X : IsFiniteSet(t) /\ Cardinality(t) \in Nat
  BY Fewer
<1>2. ASSUME Bad # {}
      PROVE  FALSE
  <2>1. M \in SUBSET Nat /\ M # {}
    BY <1>1, <1>2
  <2>2. PICK n \in M : \A m \in M : n <= m
    <3> HIDE DEF M
    <3> QED BY <2>1, LeastNumber
  <2>3. PICK t \in Bad : n = Cardinality(t)
    OBVIOUS
  <2>4. PICK x \in t : TRUE
    <3>1. t # {}
      BY <2>3
    <3> QED BY <3>1
  <2> DEFINE s == t \ {x}
  <2>5. s \in SUBSET X /\ x \in X /\ x \notin s /\ s \cup {x} = t /\ t \in SUBSET X
    BY <2>3, <2>4
  <2>6. Cardinality(s) < Cardinality(t)
    <3>1. s \in SUBSET t /\ s # t
      BY <2>4
    <3> HIDE DEF s
    <3> QED BY <1>1, <2>5, <3>1, Fewer
  <2> HIDE DEF s
  <2>7. s \notin G
    BY <2>3, <2>5
  <2>8. Cardinality(s) \in M
    BY <2>5, <2>7
  <2>9. n <= Cardinality(s) /\ n \in Nat /\ Cardinality(s) \in Nat
    <3> HIDE DEF M
    <3> QED BY <2>1, <2>2, <2>8
  <2> QED BY <2>3, <2>6, <2>9
<1> QED BY <1>2

LEMMA UpTo == \A n \in Nat : IsFiniteSet(1 .. n) /\ Cardinality(1 .. n) = n
BY FS_Interval

\* Nothing adds up to nothing, and an element adds its number.
LEMMA SumOfNone == \A f : Sum(f, {}) = 0
<1> SUFFICES ASSUME NEW f
             PROVE  Sum(f, {}) = 0
  OBVIOUS
<1> DEFINE F == [x \in {} |-> {}]
<1>1. Sum(f, {}) = Cardinality(Together(F, {}))
  BY FS_EmptySet, SumCounts
<1>2. Together(F, {}) = {}
  BY DEF Together
<1> QED BY <1>1, <1>2, FS_EmptySet

LEMMA SumMore ==
  ASSUME NEW X, IsFiniteSet(X), NEW x, x \notin X, NEW f,
         \A y \in X \cup {x} : f[y] \in Nat
  PROVE  Sum(f, X) \in Nat /\ Sum(f, X \cup {x}) = Sum(f, X) + f[x]
<1> DEFINE Y == X \cup {x}
           F == [y \in Y |-> {y} \X (1 .. f[y])]
<1>1. IsFiniteSet(Y)
  BY FS_AddElement
<1>2. \A y \in Y : IsFiniteSet(F[y]) /\ f[y] = Cardinality(F[y])
  <2>1. ASSUME NEW y \in Y
        PROVE  IsFiniteSet(F[y]) /\ f[y] = Cardinality(F[y])
    <3>1. IsFiniteSet(1 .. f[y]) /\ Cardinality(1 .. f[y]) = f[y] /\ f[y] \in Nat
      BY UpTo
    <3>2. IsFiniteSet({y}) /\ Cardinality({y}) = 1
      BY FS_Singleton
    <3> DEFINE Z == 1 .. f[y]
               W == {y}
    <3>3. F[y] = W \X Z
      OBVIOUS
    <3> HIDE DEF Z, W, F, Y
    <3>4. IsFiniteSet(W \X Z) /\ Cardinality(W \X Z) = Cardinality(W) * Cardinality(Z)
      BY <3>1, <3>2, FS_Product DEF Z, W
    <3>5. Cardinality(W) * Cardinality(Z) = f[y]
      BY <3>1, <3>2 DEF Z, W
    <3> QED BY <3>3, <3>4, <3>5
  <2> QED BY <2>1
<1>3. \A y, z \in Y : y # z => F[y] \cap F[z] = {}
  OBVIOUS
<1>4. X \in SUBSET Y /\ x \in Y /\ \A y \in X : y # x
  OBVIOUS
<1>5. Together(F, Y) = Together(F, X) \cup F[x]
  BY DEF Together
<1>6. Together(F, X) \cap F[x] = {}
  BY <1>3, <1>4 DEF Together
<1> HIDE DEF F
<1>7. IsFiniteSet(Together(F, X)) /\ Sum(f, X) = Cardinality(Together(F, X))
  BY <1>2, <1>3, SumCounts
<1>8. Sum(f, Y) = Cardinality(Together(F, Y))
  <2> HIDE DEF Y
  <2> QED BY <1>1, <1>2, <1>3, SumCounts
<1> DEFINE U == Together(F, X)
           V == F[x]
<1>9. IsFiniteSet(U) /\ IsFiniteSet(V) /\ U \cap V = {} /\ f[x] = Cardinality(V)
  BY <1>2, <1>4, <1>6, <1>7
<1>10. Together(F, Y) = U \cup V /\ Sum(f, X) = Cardinality(U)
  BY <1>5, <1>7
<1> HIDE DEF U, V
<1>11. /\ Cardinality(U \cup V) = Cardinality(U) + Cardinality(V) - Cardinality(U \cap V)
       /\ Cardinality(U) \in Nat /\ Cardinality(V) \in Nat /\ Cardinality(U \cap V) = 0
  BY <1>9, FS_Union, FS_EmptySet, FS_CardinalityType
<1> HIDE DEF Y
<1>12. Sum(f, X) \in Nat /\ Sum(f, Y) = Sum(f, X) + f[x]
  BY <1>8, <1>9, <1>10, <1>11
<1> QED BY <1>12 DEF Y

\* A sum over two.
LEMMA SumOfTwo ==
  ASSUME NEW x, NEW y, x # y, NEW f, f[x] \in Nat, f[y] \in Nat
  PROVE  Sum(f, {x, y}) = f[x] + f[y]
<1>1. IsFiniteSet({}) /\ IsFiniteSet({x}) /\ {} \cup {x} = {x} /\ {x} \cup {y} = {x, y}
  BY FS_EmptySet, FS_Singleton
<1>2. Sum(f, {}) = 0 /\ Sum(f, {} \cup {x}) = Sum(f, {}) + f[x]
  <2>1. x \notin {} /\ \A z \in {} \cup {x} : f[z] \in Nat
    OBVIOUS
  <2> QED BY <1>1, <2>1, SumMore, SumOfNone
<1>3. Sum(f, {x} \cup {y}) = Sum(f, {x}) + f[y]
  <2>1. y \notin {x} /\ \A z \in {x} \cup {y} : f[z] \in Nat
    OBVIOUS
  <2> QED BY <1>1, <2>1, SumMore
<1>4. Sum(f, {x}) = 0 + f[x]
  BY <1>1, <1>2
<1>5. Sum(f, {x, y}) = Sum(f, {x}) + f[y]
  BY <1>1, <1>3
<1> QED BY <1>4, <1>5

\* Sums are natural numbers, and add up element by element.
LEMMA SumAdds ==
  ASSUME NEW X, IsFiniteSet(X), NEW f, NEW g, NEW h,
         \A x \in X : f[x] \in Nat /\ g[x] \in Nat /\ h[x] \in Nat,
         \A x \in X : h[x] = f[x] + g[x]
  PROVE  /\ Sum(f, X) \in Nat /\ Sum(g, X) \in Nat /\ Sum(h, X) \in Nat
         /\ Sum(h, X) = Sum(f, X) + Sum(g, X)
<1> DEFINE Good(t) == /\ Sum(f, t) \in Nat /\ Sum(g, t) \in Nat /\ Sum(h, t) \in Nat
                      /\ Sum(h, t) = Sum(f, t) + Sum(g, t)
           G == {t \in SUBSET X : Good(t)}
<1>1. {} \in G
  <2>1. Sum(f, {}) = 0 /\ Sum(g, {}) = 0 /\ Sum(h, {}) = 0
    BY SumOfNone
  <2>2. \A a, b \in Nat : a = 0 /\ b = 0 => a + b = 0
    OBVIOUS
  <2> QED BY <2>1, <2>2
<1>2. ASSUME NEW t \in SUBSET X, NEW x \in X, t \in G, x \notin t
      PROVE  t \cup {x} \in G
  <2>1. IsFiniteSet(t) /\ t \cup {x} \in SUBSET X /\ Good(t)
    BY <1>2, Fewer
  <2>2. /\ \A y \in t \cup {x} : f[y] \in Nat
        /\ \A y \in t \cup {x} : g[y] \in Nat
        /\ \A y \in t \cup {x} : h[y] \in Nat
    BY <2>1
  <2>3. Sum(f, t \cup {x}) = Sum(f, t) + f[x]
    BY <1>2, <2>1, <2>2, SumMore
  <2>4. Sum(g, t \cup {x}) = Sum(g, t) + g[x]
    BY <1>2, <2>1, <2>2, SumMore
  <2>5. Sum(h, t \cup {x}) = Sum(h, t) + h[x]
    BY <1>2, <2>1, <2>2, SumMore
  <2>6. \A a, b, d, e \in Nat :
          (a + b) + (d + e) = (a + d) + (b + e)
    OBVIOUS
  <2>7. Good(t \cup {x})
    <3>1. f[x] \in Nat /\ g[x] \in Nat /\ h[x] = f[x] + g[x] /\ h[x] \in Nat
      OBVIOUS
    <3>2. Sum(h, t) + h[x] = (Sum(f, t) + f[x]) + (Sum(g, t) + g[x])
      BY <2>1, <2>6, <3>1
    <3>3. Sum(f, t) + f[x] \in Nat /\ Sum(g, t) + g[x] \in Nat /\ Sum(h, t) + h[x] \in Nat
      BY <2>1, <3>1
    <3> QED BY <2>3, <2>4, <2>5, <3>2, <3>3
  <2> HIDE DEF Good
  <2> QED BY <2>1, <2>7
<1>3. X \in G
  <2> HIDE DEF G
  <2> QED BY <1>1, <1>2, SubsetInduction
<1> QED BY <1>3

\* A sum of multiples is a multiple.
LEMMA SumScales ==
  ASSUME NEW X, IsFiniteSet(X), NEW f, NEW h, NEW c \in Nat,
         \A x \in X : f[x] \in Nat /\ h[x] \in Nat,
         \A x \in X : h[x] = c * f[x]
  PROVE  /\ Sum(f, X) \in Nat /\ Sum(h, X) \in Nat
         /\ Sum(h, X) = c * Sum(f, X)
<1> DEFINE Good(t) == /\ Sum(f, t) \in Nat /\ Sum(h, t) \in Nat
                      /\ Sum(h, t) = c * Sum(f, t)
           G == {t \in SUBSET X : Good(t)}
<1>1. {} \in G
  <2>1. Sum(f, {}) = 0 /\ Sum(h, {}) = 0
    BY SumOfNone
  <2>2. \A a \in Nat : a = 0 => c * a = 0
    OBVIOUS
  <2> QED BY <2>1, <2>2
<1>2. ASSUME NEW t \in SUBSET X, NEW x \in X, t \in G, x \notin t
      PROVE  t \cup {x} \in G
  <2>1. IsFiniteSet(t) /\ t \cup {x} \in SUBSET X /\ Good(t)
    BY <1>2, Fewer
  <2>2. /\ \A y \in t \cup {x} : f[y] \in Nat
        /\ \A y \in t \cup {x} : h[y] \in Nat
    BY <2>1
  <2>3. Sum(f, t \cup {x}) = Sum(f, t) + f[x]
    BY <1>2, <2>1, <2>2, SumMore
  <2>4. Sum(h, t \cup {x}) = Sum(h, t) + h[x]
    BY <1>2, <2>1, <2>2, SumMore
  <2>5. \A a, d \in Nat : c * a + c * d = c * (a + d)
    OBVIOUS
  <2>6. Good(t \cup {x})
    <3>1. f[x] \in Nat /\ h[x] = c * f[x] /\ h[x] \in Nat
      OBVIOUS
    <3>2. Sum(h, t) + h[x] = c * (Sum(f, t) + f[x])
      BY <2>1, <2>5, <3>1
    <3>3. Sum(f, t) + f[x] \in Nat /\ Sum(h, t) + h[x] \in Nat
      BY <2>1, <3>1
    <3> QED BY <2>3, <2>4, <3>2, <3>3
  <2> HIDE DEF Good
  <2> QED BY <2>1, <2>6
<1>3. X \in G
  <2> HIDE DEF G
  <2> QED BY <1>1, <1>2, SubsetInduction
<1> QED BY <1>3

LEMMA SumAtMost ==
  ASSUME NEW X, IsFiniteSet(X), NEW f, NEW h, NEW c \in Nat,
         \A x \in X : f[x] \in Nat /\ h[x] \in Nat /\ h[x] <= c * f[x]
  PROVE  Sum(f, X) \in Nat /\ Sum(h, X) \in Nat /\ Sum(h, X) <= c * Sum(f, X)
<1> DEFINE Good(t) == /\ Sum(f, t) \in Nat /\ Sum(h, t) \in Nat
                      /\ Sum(h, t) <= c * Sum(f, t)
           G == {t \in SUBSET X : Good(t)}
<1>1. {} \in G
  <2>1. 0 \in Nat /\ 0 <= c * 0
    OBVIOUS
  <2> QED BY <2>1, SumOfNone
<1>2. ASSUME NEW t \in SUBSET X, NEW x \in X, t \in G, x \notin t
      PROVE  t \cup {x} \in G
  <2>1. IsFiniteSet(t) /\ t \cup {x} \in SUBSET X /\ Good(t)
    BY <1>2, Fewer
  <2>2. /\ \A y \in t \cup {x} : f[y] \in Nat
        /\ \A y \in t \cup {x} : h[y] \in Nat
    BY <2>1
  <2>3. Sum(f, t \cup {x}) = Sum(f, t) + f[x]
    BY <1>2, <2>1, <2>2, SumMore
  <2>4. Sum(h, t \cup {x}) = Sum(h, t) + h[x]
    BY <1>2, <2>1, <2>2, SumMore
  <2>5. \A a, b \in Nat : c * a + c * b = c * (a + b) /\ c * a \in Nat /\ c * b \in Nat
    OBVIOUS
  <2>6. Good(t \cup {x})
    <3>1. f[x] \in Nat /\ h[x] \in Nat /\ h[x] <= c * f[x]
      OBVIOUS
    <3>2. Sum(h, t) + h[x] <= c * (Sum(f, t) + f[x])
      BY <2>1, <2>5, <3>1
    <3>3. Sum(f, t) + f[x] \in Nat /\ Sum(h, t) + h[x] \in Nat
      BY <2>1, <3>1
    <3> QED BY <2>3, <2>4, <3>2, <3>3
  <2> HIDE DEF Good
  <2> QED BY <2>1, <2>6
<1>3. X \in G
  <2> HIDE DEF G
  <2> QED BY <1>1, <1>2, SubsetInduction
<1> QED BY <1>3

\* To count a part is to add its marks.
LEMMA SumOfMarks ==
  ASSUME NEW X, IsFiniteSet(X), NEW Y \in SUBSET X, NEW f,
         \A x \in X : f[x] = IF x \in Y THEN 1 ELSE 0
  PROVE  Sum(f, X) = Cardinality(Y)
<1> DEFINE F == [x \in X |-> IF x \in Y THEN {x} ELSE {}]
<1>1. \A x \in X : IsFiniteSet(F[x]) /\ f[x] = Cardinality(F[x])
  BY FS_EmptySet, FS_Singleton
<1>2. \A x, y \in X : x # y => F[x] \cap F[y] = {}
  OBVIOUS
<1>3. Together(F, X) = Y
  BY DEF Together
<1> HIDE DEF F
<1> QED BY <1>1, <1>2, <1>3, SumCounts

-----------------------------------------------------------------------------
(* What a published row holds, and its bounds in int64.                    *)

\* The relation keeps its shape.
RelationOK ==
  /\ rows \in Seq({rows[i] : i \in Rows})
  /\ \A i \in Rows : IsRow(dataset, rows[i])
  /\ target \in Nat /\ salt \in Nat

LEMMA RowsAreNumbered ==
  ASSUME RelationOK
  PROVE  /\ Len(rows) \in Nat /\ Rows = 1 .. Len(rows)
         /\ IsFiniteSet(Rows) /\ Cardinality(Rows) = Len(rows)
<1>1. Len(rows) \in Nat /\ Rows = 1 .. Len(rows)
  BY DEF RelationOK, Rows
<1>2. IsFiniteSet(1 .. Len(rows)) /\ Cardinality(1 .. Len(rows)) = Len(rows)
  BY <1>1, UpTo
<1> QED BY <1>1, <1>2

\* A row before an exchange, by its place after it.
Swap(i) == [j \in 1 .. Len(rows) |-> IF j = i THEN i + 1 ELSE IF j = i + 1 THEN i ELSE j]

LEMMA Exchanged ==
  ASSUME RelationOK, NEW i \in 1 .. Len(rows) - 1, Exchange(i)
  PROVE  /\ Len(rows') = Len(rows) /\ DOMAIN rows' = 1 .. Len(rows)
         /\ rows' = [j \in 1 .. Len(rows) |-> rows[Swap(i)[j]]]
         /\ \A j \in 1 .. Len(rows) : rows'[j] = rows[Swap(i)[j]]
<1>1. Len(rows) \in Nat /\ DOMAIN rows = 1 .. Len(rows) /\ rows \in Seq({rows[j] : j \in Rows})
  BY RowsAreNumbered DEF Rows, RelationOK
<1>2. rows' = [rows EXCEPT ![i] = rows[i + 1], ![i + 1] = rows[i]]
  BY DEF Exchange
<1>3. rows' = [j \in 1 .. Len(rows) |-> rows[Swap(i)[j]]]
  BY <1>1, <1>2 DEF Swap
<1>4. DOMAIN rows' = 1 .. Len(rows) /\ Len(rows') = Len(rows)
  <2>1. rows' \in Seq({rows[j] : j \in Rows})
    BY <1>1, <1>2 DEF Rows
  <2> QED BY <1>1, <1>2, <2>1
<1> QED BY <1>3, <1>4

LEMMA RelationInit == SelectInit => RelationOK
<1> SUFFICES ASSUME SelectInit
             PROVE  RelationOK
  OBVIOUS
<1>1. PICK input \in Inputs : /\ dataset = input.dataset /\ rows = input.rows
                              /\ target = input.target /\ salt = input.salt
  BY DEF SelectInit
<1>2. /\ input.rows \in Seq({input.rows[i] : i \in DOMAIN input.rows})
      /\ \A i \in DOMAIN input.rows : IsRow(input.dataset, input.rows[i])
      /\ input.target \in Nat /\ input.salt \in Nat
  BY InputsAssumption
<1> QED BY <1>1, <1>2 DEF RelationOK, Rows

LEMMA RelationStep == RelationOK /\ [SelectNext]_selectVars => RelationOK'
<1> SUFFICES ASSUME RelationOK, [SelectNext]_selectVars
             PROVE  RelationOK'
  OBVIOUS
<1>1. CASE UNCHANGED <<dataset, rows, target, salt>>
  BY <1>1 DEF RelationOK, Rows
<1>2. ASSUME NEW i \in 1 .. Len(rows) - 1, Exchange(i)
      PROVE  RelationOK'
  <2>1. /\ Len(rows') = Len(rows) /\ DOMAIN rows' = 1 .. Len(rows)
        /\ rows' = [j \in 1 .. Len(rows) |-> rows[Swap(i)[j]]]
        /\ \A j \in 1 .. Len(rows) : rows'[j] = rows[Swap(i)[j]]
    BY <1>2, Exchanged
  <2>2. Len(rows) \in Nat /\ Rows = 1 .. Len(rows)
    BY RowsAreNumbered
  <2>3. \A j \in 1 .. Len(rows) : Swap(i)[j] \in Rows
    BY <2>2 DEF Swap
  <2>4. rows' \in Seq({rows'[j] : j \in Rows'})
    <3> DEFINE T == {rows'[j] : j \in 1 .. Len(rows)}
    <3>1. rows' \in [1 .. Len(rows) -> T]
      BY <2>1
    <3>2. rows' \in Seq(T)
      <4> HIDE DEF T
      <4> QED BY <2>2, <3>1
    <3> QED BY <2>1, <3>2 DEF Rows
  <2>5. dataset' = dataset /\ target' = target /\ salt' = salt
    BY <1>2 DEF Exchange
  <2>6. \A j \in Rows' : IsRow(dataset', rows'[j])
    <3>1. ASSUME NEW j \in 1 .. Len(rows)
          PROVE  IsRow(dataset, rows'[j])
      <4>1. IsRow(dataset, rows[Swap(i)[j]])
        BY <2>3 DEF RelationOK
      <4> QED BY <2>1, <4>1
    <3> QED BY <2>1, <2>5, <3>1 DEF Rows
  <2> QED BY <2>4, <2>5, <2>6 DEF RelationOK
<1>3. CASE Import
  BY <1>1, <1>3 DEF Import
<1>4. CASE UNCHANGED selectVars
  BY <1>1, <1>4 DEF selectVars
<1> QED BY <1>2, <1>3, <1>4 DEF SelectNext

\* A relation keeps its shape in whatever order its rows are published.
THEOREM RelationIsTyped == SelectSpec => []RelationOK
BY RelationInit, RelationStep, PTL DEF SelectSpec

\* A number that fits is not changed, and one that does not is moved by the range.
LEMMA WrapFacts ==
  /\ \A n \in -Limit .. Limit - 1 : Wrap(n) = n
  /\ \A n \in Limit .. 2 * Limit - 1 : Wrap(n) = n - 2 * Limit
  /\ \A n \in -2 * Limit + 1 .. -Limit - 1 : Wrap(n) = n + 2 * Limit
<1> DEFINE b == 2 * Limit
<1>1. Limit \in Nat /\ Limit > 0 /\ b \in Nat \ {0} /\ b = 2 * Limit
  BY NumbersAssumption
<1> HIDE DEF b
<1>2. \A a \in Int : a < b /\ 0 <= a => a % b = a
  BY <1>1
<1>3. ASSUME NEW n \in -Limit .. Limit - 1
      PROVE  Wrap(n) = n
  <2>1. n + Limit \in Int /\ 0 <= n + Limit /\ n + Limit < b
    BY <1>1
  <2>2. (n + Limit) % b = n + Limit
    BY <1>2, <2>1
  <2> QED BY <1>1, <2>2 DEF Wrap
<1>4. ASSUME NEW n \in Limit .. 2 * Limit - 1
      PROVE  Wrap(n) = n - 2 * Limit
  <2> DEFINE a == n + Limit
  <2>1. a \in Nat /\ b <= a /\ a < b + b
    BY <1>1
  <2>2. a % b = a - b
    <3> HIDE DEF a
    <3>1. a % b \in 0 .. b - 1 /\ a = b * (a \div b) + (a % b) /\ a \div b \in Int
      BY <1>1, <2>1
    <3>2. a \div b = 1
      BY <1>1, <2>1, <3>1
    <3> QED BY <1>1, <2>1, <3>1, <3>2
  <2> QED BY <1>1, <2>2 DEF Wrap
<1>5. ASSUME NEW n \in -2 * Limit + 1 .. -Limit - 1
      PROVE  Wrap(n) = n + 2 * Limit
  <2> DEFINE a == n + Limit
  <2>1. a \in Int /\ -b <= a /\ a < 0
    BY <1>1
  <2>2. a % b = a + b
    <3> HIDE DEF a
    <3>1. a % b \in 0 .. b - 1 /\ a = b * (a \div b) + (a % b) /\ a \div b \in Int
      BY <1>1, <2>1
    <3>2. a \div b = -1
      BY <1>1, <2>1, <3>1
    <3> QED BY <1>1, <2>1, <3>1, <3>2
  <2> QED BY <1>1, <2>2 DEF Wrap
<1> QED BY <1>3, <1>4, <1>5

\* The difference is even if the wrapped one is, and passes in these two cases.
LEMMA WhoHasACentre ==
  ASSUME NEW lo \in -Limit .. Limit - 1, NEW hi \in -Limit .. Limit - 1
  PROVE  /\ HasCentre(lo, hi) <=>
              /\ (hi - lo) % 2 = 0
              /\ lo - hi > Limit \/ (lo <= hi /\ hi - lo < Limit)
         /\ HasCentre(lo, hi) =>
              Delta(lo, hi) = hi - lo + (IF lo <= hi THEN 0 ELSE 2 * Limit)
<1> DEFINE gap == hi - lo
<1>1. Limit \in Nat /\ Limit > 0 /\ gap \in -2 * Limit + 1 .. 2 * Limit - 1
      /\ lo \in Int /\ hi \in Int
  BY NumbersAssumption
<1>2. HasCentre(lo, hi) <=> Wrap(gap) >= 0 /\ Wrap(gap) % 2 = 0
  BY DEF HasCentre, Delta
<1>3. lo <= hi <=> gap >= 0
  BY <1>1
<1>4. lo - hi > Limit <=> gap < -Limit
  BY <1>1
<1>5. Delta(lo, hi) = Wrap(gap) /\ hi - lo = gap
  BY DEF Delta
<1> HIDE DEF gap
<1>6. CASE gap < -Limit
  <2>1. Wrap(gap) = gap + 2 * Limit /\ gap + 2 * Limit >= 0
    BY <1>1, <1>6, WrapFacts
  <2>2. (gap + 2 * Limit) % 2 = gap % 2
    BY <1>1
  <2> QED BY <1>1, <1>2, <1>3, <1>4, <1>5, <1>6, <2>1, <2>2
<1>7. CASE gap \in -Limit .. Limit - 1
  <2>1. Wrap(gap) = gap
    BY <1>7, WrapFacts
  <2> QED BY <1>1, <1>2, <1>3, <1>4, <1>5, <1>7, <2>1
<1>8. CASE gap >= Limit
  <2>1. Wrap(gap) = gap - 2 * Limit /\ gap - 2 * Limit < 0
    BY <1>1, <1>8, WrapFacts
  <2> QED BY <1>1, <1>2, <1>3, <1>4, <1>5, <1>8, <2>1
<1> QED BY <1>1, <1>6, <1>7, <1>8

\* Bounds that pass have a centre, and this is where it is.
LEMMA CentreIsExact ==
  ASSUME NEW lo \in -Limit .. Limit - 1, NEW hi \in -Limit .. Limit - 1,
         HasCentre(lo, hi)
  PROVE  /\ Centre(lo, hi) \in -Limit .. Limit - 1
         /\ 2 * Centre(lo, hi) - (lo + hi) \in
              IF lo <= hi THEN {0} ELSE {-2 * Limit, 2 * Limit}
<1> DEFINE gap  == Delta(lo, hi)
           half == gap \div 2
<1>1. Limit \in Nat /\ Limit > 0 /\ lo \in Int /\ hi \in Int
  BY NumbersAssumption
<1>2. /\ gap = hi - lo + (IF lo <= hi THEN 0 ELSE 2 * Limit)
      /\ lo - hi > Limit \/ (lo <= hi /\ hi - lo < Limit)
  BY WhoHasACentre
<1>3. gap \in 0 .. Limit - 1 /\ gap % 2 = 0
  <2>1. gap \in 0 .. Limit - 1
    BY <1>1, <1>2
  <2> QED BY <2>1 DEF HasCentre
<1>4. Centre(lo, hi) = Wrap(lo + half)
  BY DEF Centre
<1> HIDE DEF gap
<1>5. half \in Nat /\ 2 * half = gap
  BY <1>1, <1>3
<1> HIDE DEF half
<1>6. CASE lo + half < Limit
  <2>1. lo + half \in -Limit .. Limit - 1
    BY <1>1, <1>5, <1>6
  <2>2. Centre(lo, hi) = lo + half
    BY <1>4, <2>1, WrapFacts
  <2>3. lo <= hi => 2 * (lo + half) - (lo + hi) = 0
    BY <1>1, <1>2, <1>5
  <2>4. ~(lo <= hi) => 2 * (lo + half) - (lo + hi) = 2 * Limit
    BY <1>1, <1>2, <1>5
  <2> QED BY <2>1, <2>2, <2>3, <2>4
<1>7. CASE lo + half >= Limit
  <2>1. ~(lo <= hi) /\ lo + half \in Limit .. 2 * Limit - 1
    BY <1>1, <1>2, <1>3, <1>5, <1>7
  <2>2. Centre(lo, hi) = lo + half - 2 * Limit
    BY <1>1, <1>4, <1>5, <2>1, WrapFacts
  <2>3. 2 * (lo + half - 2 * Limit) - (lo + hi) = -2 * Limit
    BY <1>1, <1>2, <1>5, <2>1
  <2>4. lo + half - 2 * Limit \in -Limit .. Limit - 1
    BY <1>1, <1>5, <2>1
  <2> QED BY <2>1, <2>2, <2>3, <2>4
<1> QED BY <1>1, <1>5, <1>6, <1>7

\* A centre that passes leaves room for its box.
LEMMA BoxIsExact ==
  ASSUME NEW c \in -Limit .. Limit - 1, BoxFits(c)
  PROVE  BoxOf(c) = [lower |-> c - Radius, upper |-> c + Radius + 1]
<1>1. Limit \in Nat /\ Radius \in Nat /\ Radius <= Limit - 1 /\ c \in Int
  BY NumbersAssumption
<1>2. Wrap(-Limit + Radius) = -Limit + Radius
  <2>1. -Limit + Radius \in -Limit .. Limit - 1
    BY <1>1
  <2> QED BY <2>1, WrapFacts
<1>3. Wrap(Limit - 1 - Radius) = Limit - 1 - Radius
  <2>1. Limit - 1 - Radius \in -Limit .. Limit - 1
    BY <1>1
  <2> QED BY <2>1, WrapFacts
<1>4. Wrap(Limit - 1 - Radius - 1) = Limit - 1 - Radius - 1
  <2>1. Limit - 1 - Radius - 1 \in -Limit .. Limit - 1
    BY <1>1
  <2> QED BY <2>1, WrapFacts
<1>5. c >= -Limit + Radius /\ c <= Limit - 1 - Radius - 1
  BY <1>2, <1>3, <1>4 DEF BoxFits
<1>6. Wrap(c - Radius) = c - Radius
  <2>1. c - Radius \in -Limit .. Limit - 1
    BY <1>1, <1>5
  <2> QED BY <2>1, WrapFacts
<1>7. Wrap(c + Radius) = c + Radius
  <2>1. c + Radius \in -Limit .. Limit - 1
    BY <1>1, <1>5
  <2> QED BY <2>1, WrapFacts
<1>8. Wrap(c + Radius + 1) = c + Radius + 1
  <2>1. c + Radius + 1 \in -Limit .. Limit - 1
    BY <1>1, <1>5
  <2> QED BY <2>1, WrapFacts
<1> QED BY <1>6, <1>7, <1>8 DEF BoxOf

\* Whatever bounds are published, these are the ones that pass, with their true
\* centre or, if reversed, one half the range away; and the box of a centre is as
\* wide as asked for, although every int64 wraps.
THEOREM BoxesAreAlwaysExact == SelectSpec => []BoxesAreExact
<1>1. RelationOK => BoxesAreExact
  <2> SUFFICES ASSUME RelationOK, dataset = "bounds", NEW i \in Rows
               PROVE  LET lo == rows[i].lo
                          hi == rows[i].hi
                          c  == Centre(lo, hi)
                      IN /\ HasCentre(lo, hi) <=>
                              /\ (hi - lo) % 2 = 0
                              /\ lo - hi > Limit \/ (lo <= hi /\ hi - lo < Limit)
                         /\ HasCentre(lo, hi) =>
                              /\ 2 * c - (lo + hi) \in
                                   IF lo <= hi THEN {0} ELSE {-2 * Limit, 2 * Limit}
                              /\ BoxFits(c) =>
                                   BoxOf(c) = [lower |-> c - Radius, upper |-> c + Radius + 1]
    BY DEF BoxesAreExact
  <2>1. IsRow("bounds", rows[i])
    BY DEF RelationOK
  <2>2. rows[i].lo \in -Limit .. Limit - 1 /\ rows[i].hi \in -Limit .. Limit - 1
    BY <2>1 DEF IsRow
  <2> QED BY <2>2, WhoHasACentre, CentreIsExact, BoxIsExact
<1> QED BY <1>1, RelationIsTyped, PTL

-----------------------------------------------------------------------------
(* Proposals and their row groups.                                         *)

\* A stable hash is a number, whatever it is of.
HashIsANumber == \A s \in Nat, key \in Seq(Int) : key # <<>> => Hash(s, key) \in Int
\* Canonical JSON is a number here, and tuples that differ are written differently.
EncodingIsExact ==
  \A k, l \in Seq(Int) : Canonical(k) \in Int /\ (Canonical(k) = Canonical(l) => k = l)

\* Finitely many numbers lie between the least and the greatest of them.
LEMMA MinMaxFacts ==
  ASSUME NEW X \in SUBSET Int, IsFiniteSet(X), NEW x \in X
  PROVE  Min(X) <= x /\ x <= Max(X) /\ Min(X) \in X /\ Max(X) \in X
<1> DEFINE key == [y \in X |-> [j \in 1 .. 1 |-> y]]
           n   == Cardinality(X)
<1>1. \A y, z \in X : Before(key[y], key[z]) <=> y < z
  BY DEF Before
<1>2. Ordered(X, key)
  <2>1. \A y \in X : key[y] \in [1 .. 1 -> Int]
    OBVIOUS
  <2>2. \A y, z \in X : key[y] = key[z] => y = z
    <3>1. \A y \in X : key[y][1] = y
      OBVIOUS
    <3> HIDE DEF key
    <3> QED BY <3>1
  <2> HIDE DEF key
  <2> QED BY <2>1, <2>2, KeysAreOrdered
<1>3. n \in Nat /\ n > 0
  <2>1. n # 0
    BY FS_EmptySet
  <2> QED BY <2>1, FS_CardinalityType
<1> HIDE DEF key
<1>4. \A y \in X : Rank(y, X, key) \in 0 .. n - 1
  BY <1>2, RanksAreOrdered
<1>5. \A y, z \in X : y < z => Rank(y, X, key) < Rank(z, X, key)
  BY <1>1, <1>2, RanksAreOrdered
<1>6. PICK least \in X, most \in X : Rank(least, X, key) = 0 /\ Rank(most, X, key) = n - 1
  <2>1. \A r \in 0 .. n - 1 : \E y \in X : Rank(y, X, key) = r
    <3>1. ASSUME NEW r \in 0 .. Cardinality(X) - 1
          PROVE  \E y \in X : Rank(y, X, key) = r
      BY <1>2, EveryRank, Zenon
    <3> QED BY <3>1
  <2> HIDE DEF n
  <2>2. 0 \in 0 .. n - 1 /\ n - 1 \in 0 .. n - 1
    BY <1>3
  <2> QED BY <2>1, <2>2, Zenon
<1>7. Rank(least, X, key) = 0 /\ Rank(most, X, key) = n - 1
  BY <1>6
<1>8. \A y \in X : least <= y
  <2>1. ASSUME NEW y \in X, y < least
        PROVE  FALSE
    <3>1. Rank(y, X, key) < 0 /\ Rank(y, X, key) \in 0 .. n - 1
      BY <1>4, <1>5, <1>6, <2>1
    <3> QED BY <3>1
  <2> QED BY <2>1
<1>9. \A y \in X : most >= y
  <2>1. ASSUME NEW y \in X, most < y
        PROVE  FALSE
    <3>1. n - 1 < Rank(y, X, key) /\ Rank(y, X, key) \in 0 .. n - 1
      BY <1>4, <1>5, <1>7, <2>1
    <3> QED BY <1>3, <3>1
  <2> QED BY <2>1
<1>10. Min(X) \in X /\ \A y \in X : Min(X) <= y
  BY <1>8 DEF Min
<1>11. Max(X) \in X /\ \A y \in X : Max(X) >= y
  BY <1>9 DEF Max
<1> QED BY <1>10, <1>11

\* The row group of a wanted proposal is read.
LEMMA GroupIsRead ==
  ASSUME RelationOK, dataset = "COCO", NEW m \in Selected, NEW i \in Rows,
         rows[i].shard \in ShardsOf(m.z), rows[i].z = m.z
  PROVE  Group(i) \in RowGroupsForZ(rows[i].shard, ImagesIn(rows[i].shard))
<1> DEFINE s  == rows[i].shard
           g  == Group(i)
           zs == {rows[j].z : j \in RowGroup(s, g)}
           value == [j \in RowGroup(s, g) |-> rows[j].z]
<1>1. \A j \in Rows : rows[j].z \in Int
  <2>1. \A j \in Rows : IsRow("COCO", rows[j])
    BY DEF RelationOK
  <2> QED BY <2>1 DEF IsRow
<1>2. i \in InShard(s) /\ i \in RowGroup(s, g) /\ InShard(s) \in SUBSET Rows
      /\ RowGroup(s, g) \in SUBSET Rows
  BY DEF RowGroup, InShard
<1>3. zs \in SUBSET Int /\ m.z \in zs
  BY <1>1, <1>2
<1>4. IsFiniteSet(zs)
  <2>1. IsFiniteSet(RowGroup(s, g))
    BY <1>2, RowsAreNumbered, Fewer
  <2>2. value \in Surjection(RowGroup(s, g), zs)
    BY DEF Surjection
  <2> HIDE DEF value, zs
  <2> QED BY <2>1, <2>2, FS_Surjection
<1>5. Min(zs) <= m.z /\ m.z <= Max(zs)
  <2> HIDE DEF zs
  <2> QED BY <1>3, <1>4, MinMaxFacts
<1>6. m.z \in ImagesIn(s)
  BY DEF ImagesIn
<1> QED BY <1>2, <1>5, <1>6 DEF RowGroupsForZ

LEMMA ProposalsAreAll ==
  ASSUME RelationOK, dataset = "COCO", NEW m \in Selected
  PROVE  Proposals(m) = {i \in Rows : /\ rows[i].shard \in ShardsOf(m.z)
                                      /\ rows[i].type = Proposal /\ rows[i].z = m.z}
BY GroupIsRead DEF Proposals

\* Of the proposals of an image, which have distinct rectangles, half go to R.
LEMMA ProposalsAreHalved ==
  ASSUME HashIsANumber, RelationOK, dataset = "COCO", ~CocoFails, NEW m \in Selected
  PROVE  2 * Cardinality(CocoR(m)) = Cardinality(Proposals(m))
<1>1. Proposals(m) \in SUBSET Rows /\ IsFiniteSet(Proposals(m))
  <2>1. Proposals(m) \in SUBSET Rows
    BY DEF Proposals
  <2> QED BY <2>1, RowsAreNumbered, Fewer
<1>2. Cardinality(Proposals(m)) = 2
  BY DEF CocoFails, PerImage
<1>3. \A i, j \in Proposals(m) : rows[i].rect = rows[j].rect => i = j
  BY DEF CocoFails
<1>4. \A i \in Rows : rows[i].rank \in Int /\ rows[i].rect \in Int
  <2>1. \A j \in Rows : IsRow("COCO", rows[j])
    BY DEF RelationOK
  <2> QED BY <2>1 DEF IsRow
<1>5. m.split \in Int /\ m.id \in Int
  BY ImagesAssumption DEF Selected, Smallest
<1>6. ASSUME NEW i \in Rows
      PROVE  CocoKey(m)[i] \in [1 .. 3 -> Int] /\ CocoKey(m)[i][3] = rows[i].rect
  <2> DEFINE h == Hash(salt, <<m.split, m.id, rows[i].rank, rows[i].rect>>)
  <2>1. h \in Int
    <3>1. <<m.split, m.id, rows[i].rank, rows[i].rect>> \in Seq(Int)
      BY <1>4, <1>5
    <3>2. <<m.split, m.id, rows[i].rank, rows[i].rect>> # <<>>
      OBVIOUS
    <3> QED BY <3>1, <3>2 DEF HashIsANumber, RelationOK
  <2>2. CocoKey(m)[i] = <<h, rows[i].rank, rows[i].rect>>
    BY DEF CocoKey
  <2>3. rows[i].rank \in Int /\ rows[i].rect \in Int
    BY <1>4
  <2> HIDE DEF h
  <2> QED BY <2>1, <2>2, <2>3
<1>7. Ordered(Proposals(m), CocoKey(m))
  <2>1. \A i \in Proposals(m) : CocoKey(m)[i] \in [1 .. 3 -> Int]
    BY <1>1, <1>6
  <2>2. \A i, j \in Proposals(m) : CocoKey(m)[i] = CocoKey(m)[j] => i = j
    BY <1>1, <1>3, <1>6
  <2> QED BY <1>1, <2>1, <2>2, KeysAreOrdered
<1>8. PerImage \div 2 = 1 /\ 1 \in 0 .. 2
  BY DEF PerImage
<1>9. Cardinality(Smallest(1, Proposals(m), CocoKey(m))) = 1
  BY <1>2, <1>7, <1>8, SmallestTakes
<1> QED BY <1>2, <1>8, <1>9 DEF CocoR

\* Reading by statistics loses no proposal of a selected image, whatever the
\* shards, the row groups and the hashes are.
THEOREM EveryProposalIsRead ==
  ASSUME HashIsANumber
  PROVE  SelectSpec => []ReadsEveryProposal
<1>1. RelationOK => ReadsEveryProposal
  BY ProposalsAreAll, ProposalsAreHalved DEF ReadsEveryProposal
<1> QED BY <1>1, RelationIsTyped, PTL

-----------------------------------------------------------------------------
(* Boxes that touch.                                                       *)

\* The boxes are not empty, and each is on one side.
BoxesOK ==
  /\ IsFiniteSet(TouchR) /\ IsFiniteSet(TouchS)
  /\ \A i \in TouchR \cup TouchS : \A axis \in 1 .. 2 :
       /\ rows[i].lower[axis] \in Int /\ rows[i].upper[axis] \in Int
       /\ rows[i].lower[axis] < rows[i].upper[axis]

Overlap(p, axis) ==
  /\ rows[p[1]].lower[axis] <= rows[p[2]].upper[axis]
  /\ rows[p[2]].lower[axis] <= rows[p[1]].upper[axis]

\* The pairs whose given end meets the opposite one on an axis.
Meeting(axis, end) ==
  {p \in TouchR \X TouchS :
     End(p[1], axis, end) = End(p[2], axis, Opposite(end)) /\ Overlap(p, 3 - axis)}

LEMMA BoxesAreBoxes == RelationOK /\ dataset = "boxes" => BoxesOK
<1> SUFFICES ASSUME RelationOK, dataset = "boxes"
             PROVE  BoxesOK
  OBVIOUS
<1>1. TouchR \in SUBSET Rows /\ TouchS \in SUBSET Rows
  BY DEF TouchR, TouchS
<1>2. IsFiniteSet(TouchR) /\ IsFiniteSet(TouchS)
  BY <1>1, RowsAreNumbered, Fewer
<1>3. \A i \in Rows : \A axis \in 1 .. 2 :
        /\ rows[i].lower[axis] \in Int /\ rows[i].upper[axis] \in Int
        /\ rows[i].lower[axis] < rows[i].upper[axis]
  <2>1. \A i \in Rows : IsRow("boxes", rows[i])
    BY DEF RelationOK
  <2> QED BY <2>1 DEF IsRow
<1> QED BY <1>1, <1>2, <1>3 DEF BoxesOK

\* A box does not lie on both sides of another, so what is taken away is apart.
LEMMA OverlapsAreCounted ==
  ASSUME BoxesOK, NEW A \in SUBSET TouchR, NEW B \in SUBSET TouchS, NEW axis \in 1 .. 2
  PROVE  /\ IsFiniteSet({p \in A \X B : Overlap(p, axis)})
         /\ ClosedOverlapCount(A, B, axis) = Cardinality({p \in A \X B : Overlap(p, axis)})
<1> DEFINE All   == A \X B
           Left  == {p \in All : rows[p[2]].upper[axis] < rows[p[1]].lower[axis]}
           Right == {p \in All : rows[p[2]].lower[axis] > rows[p[1]].upper[axis]}
           Mid   == {p \in All : Overlap(p, axis)}
<1>1. IsFiniteSet(All) /\ Cardinality(All) = Cardinality(A) * Cardinality(B)
  <2>1. IsFiniteSet(A) /\ IsFiniteSet(B)
    BY Fewer DEF BoxesOK
  <2> QED BY <2>1, FS_Product
<1>2. \A p \in All :
        /\ p \in Mid <=> ~(p \in Left) /\ ~(p \in Right)
        /\ ~(p \in Left /\ p \in Right)
  <2>1. ASSUME NEW p \in All
        PROVE  /\ rows[p[1]].lower[axis] \in Int /\ rows[p[1]].upper[axis] \in Int
               /\ rows[p[2]].lower[axis] \in Int /\ rows[p[2]].upper[axis] \in Int
               /\ rows[p[1]].lower[axis] < rows[p[1]].upper[axis]
               /\ rows[p[2]].lower[axis] < rows[p[2]].upper[axis]
    BY DEF BoxesOK
  <2> QED BY <2>1 DEF Overlap
<1>3. Left \in SUBSET All /\ Right \in SUBSET All /\ Mid \in SUBSET All
  OBVIOUS
<1>4. ClosedOverlapCount(A, B, axis) = Cardinality(All) - Cardinality(Left) - Cardinality(Right)
  BY <1>1 DEF ClosedOverlapCount
<1> HIDE DEF All, Left, Right, Mid
<1>5. Left \cap Right = {} /\ Mid = All \ (Left \cup Right)
  BY <1>2, <1>3
<1>6. IsFiniteSet(Left) /\ IsFiniteSet(Right) /\ IsFiniteSet(Left \cup Right)
      /\ IsFiniteSet(Mid)
  BY <1>1, <1>3, Fewer, FS_Union
<1>7. Cardinality(Left \cup Right) = Cardinality(Left) + Cardinality(Right) - 0
  BY <1>5, <1>6, FS_Union, FS_EmptySet
<1>8. Cardinality(Mid) = Cardinality(All) - Cardinality(Left \cup Right)
  <2>1. All \cap (Left \cup Right) = Left \cup Right
    BY <1>3
  <2>2. Cardinality(All \ (Left \cup Right))
          = Cardinality(All) - Cardinality(All \cap (Left \cup Right))
    BY <1>1, FS_Difference
  <2> QED BY <1>5, <2>1, <2>2
<1>9. Cardinality(All) \in Nat /\ Cardinality(Left) \in Nat /\ Cardinality(Right) \in Nat
  BY <1>1, <1>6, FS_CardinalityType
<1>10. ClosedOverlapCount(A, B, axis) = Cardinality(Mid)
  BY <1>4, <1>7, <1>8, <1>9
<1> QED BY <1>6, <1>10 DEF Mid, All

\* Group by group, every pair that meets is counted once.
LEMMA MeetingsAreCounted ==
  ASSUME BoxesOK, NEW axis \in 1 .. 2, NEW end \in {"upper", "lower"}
  PROVE  /\ IsFiniteSet(Meeting(axis, end))
         /\ TouchCount(axis, end) = Cardinality(Meeting(axis, end))
<1> DEFINE A(v) == {i \in TouchR : End(i, axis, end) = v}
           B(v) == {j \in TouchS : End(j, axis, Opposite(end)) = v}
           places == {End(i, axis, end) : i \in TouchR}
           f == [v \in places |-> ClosedOverlapCount(A(v), B(v), 3 - axis)]
           F == [v \in places |-> {p \in A(v) \X B(v) : Overlap(p, 3 - axis)}]
           place == [i \in TouchR |-> End(i, axis, end)]
<1>1. 3 - axis \in 1 .. 2
  OBVIOUS
<1>2. IsFiniteSet(places)
  <2>1. place \in Surjection(TouchR, places)
    BY DEF Surjection
  <2> HIDE DEF place, places
  <2> QED BY <2>1, FS_Surjection DEF BoxesOK
<1>3. \A v : A(v) \in SUBSET TouchR /\ B(v) \in SUBSET TouchS
  OBVIOUS
<1>4. \A v \in places : IsFiniteSet(F[v]) /\ f[v] = Cardinality(F[v])
  <2>1. \A v \in places :
          /\ F[v] = {p \in A(v) \X B(v) : Overlap(p, 3 - axis)}
          /\ f[v] = ClosedOverlapCount(A(v), B(v), 3 - axis)
    OBVIOUS
  <2> HIDE DEF F, f, A, B, places
  <2>2. ASSUME NEW v \in places
        PROVE  IsFiniteSet(F[v]) /\ f[v] = Cardinality(F[v])
    <3>1. A(v) \in SUBSET TouchR /\ B(v) \in SUBSET TouchS
      BY <1>3
    <3> DEFINE k == 3 - axis
               I == A(v)
               J == B(v)
               W == {p \in I \X J : Overlap(p, k)}
    <3>2. k \in 1 .. 2 /\ I \in SUBSET TouchR /\ J \in SUBSET TouchS
      BY <1>1, <3>1
    <3>3. F[v] = W /\ f[v] = ClosedOverlapCount(I, J, k)
      BY <2>1
    <3> HIDE DEF k, I, J
    <3>4. IsFiniteSet(W) /\ ClosedOverlapCount(I, J, k) = Cardinality(W)
      BY <3>2, OverlapsAreCounted, Zenon
    <3> HIDE DEF W
    <3> QED BY <3>3, <3>4
  <2> QED BY <2>2
<1>5. \A v, w \in places : v # w => F[v] \cap F[w] = {}
  OBVIOUS
<1>6. Together(F, places) = Meeting(axis, end)
  <2>1. \A v \in places : F[v] = {p \in TouchR \X TouchS :
                                    /\ End(p[1], axis, end) = v
                                    /\ End(p[2], axis, Opposite(end)) = v
                                    /\ Overlap(p, 3 - axis)}
    OBVIOUS
  <2>2. \A p \in TouchR \X TouchS : End(p[1], axis, end) \in places
    OBVIOUS
  <2> HIDE DEF F, places
  <2> QED BY <2>1, <2>2 DEF Together, Meeting
<1>7. TouchCount(axis, end) = Sum(f, places)
  BY DEF TouchCount
<1> HIDE DEF F, f, places
<1> QED BY <1>2, <1>4, <1>5, <1>6, <1>7, SumCounts

\* A corner is a meeting on both axes.
LEMMA CornersMeetTwice ==
  ASSUME BoxesOK, NEW e1 \in {"upper", "lower"}, NEW e2 \in {"upper", "lower"}
  PROVE  CornerCount(e1, e2) = Cardinality(Meeting(1, e1) \cap Meeting(2, e2))
<1>1. ASSUME NEW p \in TouchR \X TouchS, NEW axis \in 1 .. 2, NEW e \in {"upper", "lower"},
             End(p[1], axis, e) = End(p[2], axis, Opposite(e))
      PROVE  Overlap(p, axis)
  <2>1. /\ rows[p[1]].lower[axis] \in Int /\ rows[p[1]].upper[axis] \in Int
        /\ rows[p[2]].lower[axis] \in Int /\ rows[p[2]].upper[axis] \in Int
        /\ rows[p[1]].lower[axis] < rows[p[1]].upper[axis]
        /\ rows[p[2]].lower[axis] < rows[p[2]].upper[axis]
    BY DEF BoxesOK
  <2> QED BY <1>1, <2>1 DEF Overlap, End, Opposite
<1>2. Meeting(1, e1) \cap Meeting(2, e2) =
        {p \in TouchR \X TouchS :
           /\ End(p[1], 1, e1) = End(p[2], 1, Opposite(e1))
           /\ End(p[1], 2, e2) = End(p[2], 2, Opposite(e2))}
  <2>1. 3 - 1 = 2 /\ 3 - 2 = 1 /\ 1 \in 1 .. 2 /\ 2 \in 1 .. 2
    OBVIOUS
  <2> QED BY <1>1, <2>1 DEF Meeting
<1> QED BY <1>2 DEF CornerCount

\* Inclusion and exclusion of two pairs of sets that are apart.
LEMMA FourSets ==
  ASSUME NEW A, NEW B, NEW C, NEW D,
         IsFiniteSet(A), IsFiniteSet(B), IsFiniteSet(C), IsFiniteSet(D),
         A \cap B = {}, C \cap D = {}
  PROVE  Cardinality((A \cup B) \cup (C \cup D)) =
           ((Cardinality(A) + Cardinality(C)) + (Cardinality(B) + Cardinality(D)))
             - (Cardinality(A \cap C) + Cardinality(A \cap D)
                  + Cardinality(B \cap C) + Cardinality(B \cap D))
<1>1. ASSUME NEW X, NEW Y, IsFiniteSet(X), IsFiniteSet(Y)
      PROVE  /\ IsFiniteSet(X \cup Y) /\ IsFiniteSet(X \cap Y)
             /\ Cardinality(X) \in Nat /\ Cardinality(Y) \in Nat
             /\ Cardinality(X \cap Y) \in Nat
             /\ Cardinality(X \cup Y) = Cardinality(X) + Cardinality(Y) - Cardinality(X \cap Y)
  BY <1>1, FS_Union, FS_Intersection, FS_CardinalityType
<1>2. ASSUME NEW X, NEW Y, IsFiniteSet(X), IsFiniteSet(Y), X \cap Y = {}
      PROVE  Cardinality(X \cup Y) = Cardinality(X) + Cardinality(Y)
  <2>1. Cardinality(X \cap Y) = 0
    BY <1>2, FS_EmptySet
  <2>2. /\ Cardinality(X) \in Nat /\ Cardinality(Y) \in Nat
        /\ Cardinality(X \cup Y) = Cardinality(X) + Cardinality(Y) - Cardinality(X \cap Y)
    BY <1>2, FS_Union, FS_CardinalityType
  <2> QED BY <2>1, <2>2
<1> DEFINE P == A \cup B
           Q == C \cup D
<1>3. IsFiniteSet(P) /\ IsFiniteSet(Q) /\ Cardinality(P) = Cardinality(A) + Cardinality(B)
      /\ Cardinality(Q) = Cardinality(C) + Cardinality(D)
  BY <1>1, <1>2
<1>4. P \cap Q = ((A \cap C) \cup (A \cap D)) \cup ((B \cap C) \cup (B \cap D))
  OBVIOUS
<1> DEFINE X1 == A \cap C
           X2 == A \cap D
           X3 == B \cap C
           X4 == B \cap D
<1>5. IsFiniteSet(X1) /\ IsFiniteSet(X2) /\ IsFiniteSet(X3) /\ IsFiniteSet(X4)
  BY <1>1
<1>6. X1 \cap X2 = {} /\ X3 \cap X4 = {} /\ (X1 \cup X2) \cap (X3 \cup X4) = {}
  OBVIOUS
<1>7. P \cap Q = (X1 \cup X2) \cup (X3 \cup X4)
  BY <1>4
<1> HIDE DEF P, Q, X1, X2, X3, X4
<1>8. IsFiniteSet(X1 \cup X2) /\ IsFiniteSet(X3 \cup X4)
  BY <1>1, <1>5
<1>9. /\ Cardinality(X1 \cup X2) = Cardinality(X1) + Cardinality(X2)
      /\ Cardinality(X3 \cup X4) = Cardinality(X3) + Cardinality(X4)
      /\ Cardinality((X1 \cup X2) \cup (X3 \cup X4))
           = Cardinality(X1 \cup X2) + Cardinality(X3 \cup X4)
  BY <1>2, <1>5, <1>6, <1>8
<1>10. Cardinality(P \cup Q) = Cardinality(P) + Cardinality(Q) - Cardinality(P \cap Q)
  BY <1>1, <1>3
<1>11. /\ Cardinality(A) \in Nat /\ Cardinality(B) \in Nat
       /\ Cardinality(C) \in Nat /\ Cardinality(D) \in Nat
       /\ Cardinality(X1) \in Nat /\ Cardinality(X2) \in Nat
       /\ Cardinality(X3) \in Nat /\ Cardinality(X4) \in Nat
  BY <1>5, FS_CardinalityType
<1>12. Cardinality(P \cup Q) =
         ((Cardinality(A) + Cardinality(C)) + (Cardinality(B) + Cardinality(D)))
           - (Cardinality(X1) + Cardinality(X2) + Cardinality(X3) + Cardinality(X4))
  <2>1. Cardinality(P \cap Q) = Cardinality((X1 \cup X2) \cup (X3 \cup X4))
    BY <1>7
  <2> QED BY <1>3, <1>9, <1>10, <1>11, <2>1
<1> QED BY <1>12 DEF P, Q, X1, X2, X3, X4

\* The pairs that touch are those that meet in some way.
LEMMA TouchingIsMeeting ==
  ASSUME BoxesOK
  PROVE  {p \in TouchR \X TouchS : Touches(rows[p[1]], rows[p[2]])} =
           (Meeting(1, "upper") \cup Meeting(1, "lower"))
             \cup (Meeting(2, "upper") \cup Meeting(2, "lower"))
<1>1. ASSUME NEW p \in TouchR \X TouchS
      PROVE  Touches(rows[p[1]], rows[p[2]]) <=>
               \/ p \in Meeting(1, "upper") \/ p \in Meeting(1, "lower")
               \/ p \in Meeting(2, "upper") \/ p \in Meeting(2, "lower")
  <2> DEFINE r == rows[p[1]]
             s == rows[p[2]]
  <2>1. \A axis \in 1 .. 2 :
          /\ r.lower[axis] \in Int /\ r.upper[axis] \in Int /\ r.lower[axis] < r.upper[axis]
          /\ s.lower[axis] \in Int /\ s.upper[axis] \in Int /\ s.lower[axis] < s.upper[axis]
    BY DEF BoxesOK
  <2>2. /\ p \in Meeting(1, "upper") <=> r.upper[1] = s.lower[1] /\ Overlap(p, 2)
        /\ p \in Meeting(1, "lower") <=> r.lower[1] = s.upper[1] /\ Overlap(p, 2)
        /\ p \in Meeting(2, "upper") <=> r.upper[2] = s.lower[2] /\ Overlap(p, 1)
        /\ p \in Meeting(2, "lower") <=> r.lower[2] = s.upper[2] /\ Overlap(p, 1)
    BY DEF Meeting, End, Opposite
  <2>3. \A axis \in 1 .. 2 : Overlap(p, axis) <=>
          r.lower[axis] <= s.upper[axis] /\ s.lower[axis] <= r.upper[axis]
    BY DEF Overlap
  <2>4. Touches(r, s) <=>
          /\ Overlap(p, 1) /\ Overlap(p, 2)
          /\ \/ r.lower[1] = s.upper[1] \/ s.lower[1] = r.upper[1]
             \/ r.lower[2] = s.upper[2] \/ s.lower[2] = r.upper[2]
    <3>1. \A axis : axis \in 1 .. 2 <=> axis = 1 \/ axis = 2
      OBVIOUS
    <3> HIDE DEF r, s
    <3> QED BY <2>3, <3>1 DEF Touches
  <2> HIDE DEF r, s
  <2>5. /\ r.upper[1] = s.lower[1] \/ r.lower[1] = s.upper[1] => Overlap(p, 1)
        /\ r.upper[2] = s.lower[2] \/ r.lower[2] = s.upper[2] => Overlap(p, 2)
    BY <2>1, <2>3
  <2>6. Touches(r, s) <=>
          \/ p \in Meeting(1, "upper") \/ p \in Meeting(1, "lower")
          \/ p \in Meeting(2, "upper") \/ p \in Meeting(2, "lower")
    BY <2>2, <2>4, <2>5
  <2> QED BY <2>6 DEF r, s
<1>2. \A axis \in 1 .. 2 : \A e \in {"upper", "lower"} :
        Meeting(axis, e) \in SUBSET (TouchR \X TouchS)
  BY DEF Meeting
<1>3. 1 \in 1 .. 2 /\ 2 \in 1 .. 2
  OBVIOUS
<1> QED BY <1>1, <1>2, <1>3

\* A box cannot meet another by both ends of an axis.
LEMMA EndsAreApart ==
  ASSUME BoxesOK, NEW axis \in 1 .. 2
  PROVE  Meeting(axis, "upper") \cap Meeting(axis, "lower") = {}
<1>1. ASSUME NEW p \in TouchR \X TouchS,
             p \in Meeting(axis, "upper"), p \in Meeting(axis, "lower")
      PROVE  FALSE
  <2>1. /\ rows[p[1]].lower[axis] \in Int /\ rows[p[1]].upper[axis] \in Int
        /\ rows[p[2]].lower[axis] \in Int /\ rows[p[2]].upper[axis] \in Int
        /\ rows[p[1]].lower[axis] < rows[p[1]].upper[axis]
        /\ rows[p[2]].lower[axis] < rows[p[2]].upper[axis]
    BY DEF BoxesOK
  <2> QED BY <1>1, <2>1 DEF Meeting, End, Opposite
<1> QED BY <1>1 DEF Meeting

LEMMA SumOfFour ==
  ASSUME NEW f, NEW a, NEW b, a # b,
         \A x, y \in {a, b} : f[<<x, y>>] \in Nat
  PROVE  Sum(f, {a, b} \X {a, b}) =
           f[<<a, a>>] + f[<<a, b>>] + f[<<b, a>>] + f[<<b, b>>]
<1> DEFINE X2 == {<<a, a>>, <<a, b>>}
           X3 == X2 \cup {<<b, a>>}
           X4 == X3 \cup {<<b, b>>}
<1>1. {a, b} \X {a, b} = X4
  OBVIOUS
<1>2. <<a, a>> # <<a, b>> /\ <<b, a>> \notin X2 /\ <<b, b>> \notin X3
  OBVIOUS
<1>3. \A x \in X4 : f[x] \in Nat
  OBVIOUS
<1>4. Sum(f, X2) = f[<<a, a>>] + f[<<a, b>>]
  BY <1>2, SumOfTwo
<1>5. IsFiniteSet(X2) /\ IsFiniteSet(X3)
  <2>1. IsFiniteSet({<<a, a>>} \cup {<<a, b>>})
    BY FS_Singleton, FS_AddElement
  <2>2. X2 = {<<a, a>>} \cup {<<a, b>>}
    OBVIOUS
  <2>3. IsFiniteSet(X2)
    BY <2>1, <2>2
  <2> HIDE DEF X2
  <2> QED BY <2>3, FS_AddElement
<1> HIDE DEF X2
<1>6. Sum(f, X3) = Sum(f, X2) + f[<<b, a>>]
  BY <1>2, <1>3, <1>5, SumMore
<1> HIDE DEF X3
<1>7. Sum(f, X4) = Sum(f, X3) + f[<<b, b>>]
  BY <1>2, <1>3, <1>5, SumMore
<1> QED BY <1>1, <1>4, <1>6, <1>7

LEMMA TouchingPairsAreTouching ==
  ASSUME BoxesOK
  PROVE  TouchingPairs = Cardinality({p \in TouchR \X TouchS : Touches(rows[p[1]], rows[p[2]])})
<1> DEFINE u == "upper"
           l == "lower"
           ends == {u, l}
           f == [e \in ends |-> TouchCount(1, e) + TouchCount(2, e)]
           g == [e \in ends \X ends |-> CornerCount(e[1], e[2])]
           A == Meeting(1, u)
           B == Meeting(1, l)
           C == Meeting(2, u)
           D == Meeting(2, l)
<1>1. TouchingPairs = Sum(f, ends) - Sum(g, ends \X ends)
  BY DEF TouchingPairs
<1>2. u # l /\ u \in ends /\ l \in ends /\ 1 \in 1 .. 2 /\ 2 \in 1 .. 2
  OBVIOUS
<1>3. IsFiniteSet(A) /\ IsFiniteSet(B) /\ IsFiniteSet(C) /\ IsFiniteSet(D)
  BY <1>2, MeetingsAreCounted
<1>4. /\ TouchCount(1, u) = Cardinality(A) /\ TouchCount(1, l) = Cardinality(B)
      /\ TouchCount(2, u) = Cardinality(C) /\ TouchCount(2, l) = Cardinality(D)
  BY <1>2, MeetingsAreCounted
<1>5. /\ CornerCount(u, u) = Cardinality(A \cap C)
      /\ CornerCount(u, l) = Cardinality(A \cap D)
      /\ CornerCount(l, u) = Cardinality(B \cap C)
      /\ CornerCount(l, l) = Cardinality(B \cap D)
  BY <1>2, CornersMeetTwice
<1>6. /\ f[u] = TouchCount(1, u) + TouchCount(2, u)
      /\ f[l] = TouchCount(1, l) + TouchCount(2, l)
      /\ g[<<u, u>>] = CornerCount(u, u) /\ g[<<u, l>>] = CornerCount(u, l)
      /\ g[<<l, u>>] = CornerCount(l, u) /\ g[<<l, l>>] = CornerCount(l, l)
  OBVIOUS
<1>7. A \cap B = {} /\ C \cap D = {}
  BY <1>2, EndsAreApart
<1>8. {p \in TouchR \X TouchS : Touches(rows[p[1]], rows[p[2]])} = (A \cup B) \cup (C \cup D)
  BY TouchingIsMeeting
<1> HIDE DEF f, g, A, B, C, D, u, l
<1>9. /\ IsFiniteSet(A \cap C) /\ IsFiniteSet(A \cap D)
      /\ IsFiniteSet(B \cap C) /\ IsFiniteSet(B \cap D)
  BY <1>3, FS_Intersection
<1>10. /\ Cardinality(A) \in Nat /\ Cardinality(B) \in Nat
       /\ Cardinality(C) \in Nat /\ Cardinality(D) \in Nat
       /\ Cardinality(A \cap C) \in Nat /\ Cardinality(A \cap D) \in Nat
       /\ Cardinality(B \cap C) \in Nat /\ Cardinality(B \cap D) \in Nat
  BY <1>3, <1>9, FS_CardinalityType
<1>11. Sum(f, ends) = f[u] + f[l]
  <2>1. f[u] \in Nat /\ f[l] \in Nat
    BY <1>4, <1>6, <1>10
  <2> QED BY <1>2, <2>1, SumOfTwo
<1>12. Sum(g, ends \X ends) = g[<<u, u>>] + g[<<u, l>>] + g[<<l, u>>] + g[<<l, l>>]
  <2>1. \A x, y \in {u, l} : g[<<x, y>>] \in Nat
    BY <1>5, <1>6, <1>10
  <2> QED BY <1>2, <2>1, SumOfFour
<1>13. Cardinality((A \cup B) \cup (C \cup D)) =
         ((Cardinality(A) + Cardinality(C)) + (Cardinality(B) + Cardinality(D)))
           - (Cardinality(A \cap C) + Cardinality(A \cap D)
                + Cardinality(B \cap C) + Cardinality(B \cap D))
  BY <1>3, <1>7, FourSets
<1> QED BY <1>1, <1>4, <1>5, <1>6, <1>8, <1>10, <1>11, <1>12, <1>13

\* For any boxes, the inclusion and exclusion over axes and ends counts each
\* pair that only touches once.
THEOREM TouchingIsAlwaysExact == SelectSpec => []TouchingIsExact
<1>1. RelationOK => TouchingIsExact
  BY BoxesAreBoxes, TouchingPairsAreTouching DEF TouchingIsExact
<1> QED BY <1>1, RelationIsTyped, PTL

-----------------------------------------------------------------------------
(* Halves of the strata of CMAB.                                           *)

\* One tuple after the other is a longer key.
LEMMA Joined ==
  ASSUME NEW p \in Nat, NEW q \in Nat, NEW a \in [1 .. p -> Int], NEW b \in [1 .. q -> Int]
  PROVE  /\ a \o b \in [1 .. p + q -> Int]
         /\ \A j \in 1 .. p : (a \o b)[j] = a[j]
         /\ \A j \in 1 .. q : (a \o b)[p + j] = b[j]
<1>1. a \in Seq(Int) /\ Len(a) = p /\ b \in Seq(Int) /\ Len(b) = q
  OBVIOUS
<1>2. /\ a \o b \in Seq(Int) /\ Len(a \o b) = p + q
      /\ \A j \in 1 .. p + q : (a \o b)[j] = IF j <= p THEN a[j] ELSE b[j - p]
  BY <1>1, ConcatProperties
<1>3. a \o b \in [1 .. p + q -> Int]
  BY <1>2, LenProperties
<1>4. \A j \in 1 .. p : j \in 1 .. p + q /\ j <= p
  OBVIOUS
<1>5. \A j \in 1 .. q : p + j \in 1 .. p + q /\ ~(p + j <= p) /\ p + j - p = j
  OBVIOUS
<1>6. \A j \in 1 .. p : (a \o b)[j] = a[j]
  BY <1>2, <1>4
<1>7. \A j \in 1 .. q : (a \o b)[p + j] = b[j]
  BY <1>2, <1>5
<1> QED BY <1>3, <1>6, <1>7

LEMMA SameTuple ==
  ASSUME NEW D, NEW a \in [D -> Int], NEW b \in [D -> Int], \A j \in D : a[j] = b[j]
  PROVE  a = b
<1>1. a = [j \in D |-> a[j]] /\ b = [j \in D |-> b[j]]
  OBVIOUS
<1>2. [j \in D |-> a[j]] = [j \in D |-> b[j]]
  OBVIOUS
<1> QED BY <1>1, <1>2

\* Strata are triples of numbers.
LEMMA StratumIsKey ==
  ASSUME NEW a \in Int, NEW b \in Int, NEW c \in Int
  PROVE  <<a, b, c>> \in [1 .. 3 -> Int] /\ <<a, b, c>> \in Seq(Int) /\ <<a, b, c>> # <<>>
OBVIOUS

\* Strata that differ differ in one of their numbers.
LEMMA StrataDiffer ==
  ASSUME NEW k \in [1 .. 3 -> Int], NEW m \in [1 .. 3 -> Int],
         k[1] = m[1], k[2] = m[2], k[3] = m[3]
  PROVE  k = m
<1>1. \A j \in 1 .. 3 : j = 1 \/ j = 2 \/ j = 3
  OBVIOUS
<1>2. \A j \in 1 .. 3 : k[j] = m[j]
  BY <1>1
<1> QED BY <1>2, SameTuple

\* Buildings are identified, and sorted by hash and identity.
LEMMA CmabKeysAreOrdered ==
  ASSUME HashIsANumber, RelationOK, dataset = "CMAB", ~CmabIdentityFails
  PROVE  Ordered(Rows, CmabKey)
<1>1. \A i \in Rows : rows[i].file \in Int /\ rows[i].fid \in Int
  <2>1. \A i \in Rows : IsRow("CMAB", rows[i])
    BY DEF RelationOK
  <2> QED BY <2>1 DEF IsRow
<1>2. IsFiniteSet(Rows)
  BY RowsAreNumbered
<1>3. Ordered(Rows, SourceKey)
  <2>1. \A i \in Rows : SourceKey[i] \in [1 .. 2 -> Int]
    BY <1>1 DEF SourceKey
  <2>2. \A i, j \in Rows : SourceKey[i] = SourceKey[j] => i = j
    BY DEF CmabIdentityFails
  <2> QED BY <1>2, <2>1, <2>2, KeysAreOrdered
<1>4. \A i \in Rows : CmabId[i] = Rank(i, Rows, SourceKey)
  BY DEF CmabId
<1>5. \A i \in Rows : CmabId[i] \in Int
  BY <1>3, <1>4, RowsAreNumbered, RanksAreOrdered
<1>6. \A i, j \in Rows : CmabId[i] = CmabId[j] => i = j
  BY <1>3, <1>4, RanksAreOrdered
<1>7. ASSUME NEW i \in Rows
      PROVE  CmabKey[i] \in [1 .. 2 -> Int] /\ CmabKey[i][2] = CmabId[i]
  <2> DEFINE h == Hash(salt, <<CmabId[i]>>)
  <2>1. h \in Int
    <3>1. <<CmabId[i]>> \in Seq(Int) /\ <<CmabId[i]>> # <<>>
      BY <1>5
    <3> QED BY <3>1 DEF HashIsANumber, RelationOK
  <2>2. CmabKey[i] = <<h, CmabId[i]>>
    BY DEF CmabKey
  <2> HIDE DEF h
  <2> QED BY <1>5, <2>1, <2>2
<1>8. \A i, j \in Rows : CmabKey[i] = CmabKey[j] => i = j
  BY <1>6, <1>7
<1> QED BY <1>2, <1>7, <1>8, KeysAreOrdered

\* The sizes of the strata.
LEMMA CmabStrataFacts ==
  ASSUME RelationOK, dataset = "CMAB"
  PROVE  /\ IsFiniteSet(CmabStrata)
         /\ \A k \in CmabStrata :
              /\ k \in [1 .. 3 -> Int] /\ k \in Seq(Int) /\ k # <<>>
              /\ CmabMembers(k) \in SUBSET Rows /\ IsFiniteSet(CmabMembers(k))
              /\ Cardinality(CmabMembers(k)) \in Nat
         /\ \A k, m \in CmabStrata : k # m => CmabMembers(k) \cap CmabMembers(m) = {}
<1> DEFINE value == [i \in Rows |-> CmabStratum(i)]
           F == [k \in CmabStrata |-> CmabMembers(k)]
<1>1. CmabStrata = {value[i] : i \in Rows}
  BY DEF CmabStrata
<1>2. \A k \in CmabStrata : F[k] = {i \in Rows : value[i] = k} /\ F[k] = CmabMembers(k)
  BY DEF CmabMembers
<1>3. \A i \in Rows : CmabStratum(i) \in [1 .. 3 -> Int] /\ CmabStratum(i) \in Seq(Int)
                      /\ CmabStratum(i) # <<>>
  <2>1. ASSUME NEW i \in Rows
        PROVE  /\ rows[i].func \in Int /\ rows[i].cx \div Tile \in Int
               /\ rows[i].cy \div Tile \in Int
    <3>1. IsRow("CMAB", rows[i])
      BY DEF RelationOK
    <3>2. rows[i].func \in Int /\ rows[i].cx \in Int /\ rows[i].cy \in Int
      BY <3>1 DEF IsRow
    <3>3. Tile \in Nat \ {0}
      BY NumbersAssumption
    <3>4. \A a \in Int : \A b \in Nat \ {0} : a \div b \in Int
      OBVIOUS
    <3> QED BY <3>2, <3>3, <3>4
  <2> QED BY <2>1, StratumIsKey DEF CmabStratum
<1>4. \A k \in CmabStrata : k \in [1 .. 3 -> Int] /\ k \in Seq(Int) /\ k # <<>>
  BY <1>3 DEF CmabStrata
<1>5. IsFiniteSet(Rows)
  BY RowsAreNumbered
<1>6. \A k \in CmabStrata : CmabMembers(k) \in SUBSET Rows
  BY DEF CmabMembers
<1> HIDE DEF value, F
<1>7. IsFiniteSet(CmabStrata)
  <2>1. value \in Surjection(Rows, CmabStrata)
    BY <1>1 DEF value, Surjection
  <2> QED BY <1>5, <2>1, FS_Surjection
<1>8. \A k \in CmabStrata : IsFiniteSet(F[k]) /\ Cardinality(F[k]) \in Nat
  BY <1>2, <1>5, <1>6, Fewer
<1>9. \A k, m \in CmabStrata : k # m => F[k] \cap F[m] = {}
  BY <1>2
<1> QED BY <1>2, <1>4, <1>6, <1>7, <1>8, <1>9

\* Odd strata that come first give one more.
LEMMA RoundedIsMissing ==
  ASSUME HashIsANumber, EncodingIsExact, RelationOK, dataset = "CMAB", ~CmabFails
  PROVE  /\ Rounded \in SUBSET Odd /\ Cardinality(Rounded) = Missing
         /\ Odd \in SUBSET CmabStrata /\ IsFiniteSet(Odd)
         /\ Missing \in Int
<1> DEFINE half == [k \in CmabStrata |-> Cardinality(CmabMembers(k)) \div 2]
           key == [k \in Odd |-> <<Hash(salt, k), Canonical(k)>>]
<1>1. Odd \in SUBSET CmabStrata /\ IsFiniteSet(Odd) /\ Cardinality(Odd) \in Nat
  <2>1. Odd \in SUBSET CmabStrata
    BY DEF Odd
  <2> QED BY <2>1, CmabStrataFacts, Fewer
<1>2. Missing \in Int
  <2>1. \A k \in CmabStrata : half[k] \in Nat /\ half[k] <= 1 * half[k]
    <3>1. \A a \in Nat : a \div 2 \in Nat /\ a \div 2 <= 1 * (a \div 2)
      OBVIOUS
    <3> QED BY <3>1, CmabStrataFacts
  <2> HIDE DEF half
  <2>2. Sum(half, CmabStrata) \in Nat
    BY <2>1, 1 \in Nat, CmabStrataFacts, SumAtMost
  <2>3. Missing = target - Sum(half, CmabStrata)
    BY DEF Missing, half
  <2> QED BY <2>2, <2>3 DEF RelationOK
<1>3. Missing \in 0 .. Cardinality(Odd)
  BY <1>1, <1>2 DEF CmabFails
<1>4. Ordered(Odd, key)
  <2>1. \A k \in Odd : k \in Seq(Int) /\ Hash(salt, k) \in Int /\ Canonical(k) \in Int
    BY <1>1, CmabStrataFacts DEF HashIsANumber, EncodingIsExact, RelationOK
  <2>2. \A k \in Odd : key[k] = <<Hash(salt, k), Canonical(k)>>
    OBVIOUS
  <2> HIDE DEF key
  <2>3. ASSUME NEW k \in Odd
        PROVE  key[k] \in [1 .. 2 -> Int] /\ key[k][2] = Canonical(k)
    <3> DEFINE h == Hash(salt, k)
               e == Canonical(k)
    <3>1. h \in Int /\ e \in Int /\ key[k] = <<h, e>>
      BY <2>1, <2>2
    <3> HIDE DEF h, e
    <3>2. <<h, e>> \in [1 .. 2 -> Int] /\ <<h, e>>[2] = e
      BY <3>1
    <3> QED BY <3>1, <3>2 DEF e
  <2>4. \A x, y \in Odd : key[x] = key[y] => x = y
    BY <2>1, <2>3 DEF EncodingIsExact
  <2> QED BY <1>1, <2>3, <2>4, KeysAreOrdered
<1>5. Rounded = Smallest(Missing, Odd, key)
  BY DEF Rounded
<1> HIDE DEF key
<1> QED BY <1>1, <1>2, <1>3, <1>4, <1>5, SmallestTakes

\* Every stratum gives its quota, out of its own buildings.
LEMMA CmabTaken ==
  ASSUME HashIsANumber, EncodingIsExact, RelationOK, dataset = "CMAB", ~CmabFails, NEW k \in CmabStrata
  PROVE  LET taken == Smallest(CmabQuota(k), CmabMembers(k), CmabKey)
             size  == Cardinality(CmabMembers(k))
         IN /\ taken \in SUBSET CmabMembers(k) /\ IsFiniteSet(taken)
            /\ Cardinality(taken) = CmabQuota(k) /\ CmabQuota(k) \in Nat
            /\ CmabQuota(k) = size \div 2 + (IF k \in Rounded THEN 1 ELSE 0)
            /\ 2 * CmabQuota(k) - size \in -1 .. 1
<1> DEFINE size == Cardinality(CmabMembers(k))
           quota == CmabQuota(k)
<1>1. size \in Nat /\ CmabMembers(k) \in SUBSET Rows
  BY CmabStrataFacts
<1>2. quota = size \div 2 + (IF k \in Rounded THEN 1 ELSE 0)
  BY DEF CmabQuota
<1>3. k \in Rounded => size % 2 = 1
  BY RoundedIsMissing DEF Odd
<1> HIDE DEF size, quota
<1>4. quota \in 0 .. size /\ 2 * quota - size \in -1 .. 1
  BY <1>1, <1>2, <1>3
<1>5. Ordered(CmabMembers(k), CmabKey)
  BY <1>1, CmabKeysAreOrdered, OrderedPart DEF CmabFails
<1> QED BY <1>1, <1>2, <1>4, <1>5, SmallestTakes DEF size, quota

\* The halves add up to the target.
LEMMA CmabIsFair ==
  ASSUME HashIsANumber, EncodingIsExact, RelationOK, dataset = "CMAB", ~CmabFails
  PROVE  /\ Cardinality(CmabR) = target
         /\ \A k \in CmabStrata :
              2 * Cardinality(CmabMembers(k) \intersect CmabR)
                - Cardinality(CmabMembers(k)) \in -1 .. 1
<1> DEFINE Taken(k) == Smallest(CmabQuota(k), CmabMembers(k), CmabKey)
           F     == [k \in CmabStrata |-> Taken(k)]
           half  == [k \in CmabStrata |-> Cardinality(CmabMembers(k)) \div 2]
           mark  == [k \in CmabStrata |-> IF k \in Rounded THEN 1 ELSE 0]
           quota == [k \in CmabStrata |-> CmabQuota(k)]
<1>1. \A k \in CmabStrata :
        /\ Taken(k) \in SUBSET CmabMembers(k) /\ IsFiniteSet(Taken(k))
        /\ Cardinality(Taken(k)) = CmabQuota(k) /\ CmabQuota(k) \in Nat
        /\ CmabQuota(k) = half[k] + mark[k]
        /\ 2 * CmabQuota(k) - Cardinality(CmabMembers(k)) \in -1 .. 1
  BY CmabTaken
<1>2. /\ \A k \in CmabStrata : F[k] = Taken(k) /\ quota[k] = CmabQuota(k)
      /\ \A k \in CmabStrata : mark[k] = (IF k \in Rounded THEN 1 ELSE 0)
      /\ \A k \in CmabStrata : half[k] = Cardinality(CmabMembers(k)) \div 2
  OBVIOUS
<1>3. CmabR = Together(F, CmabStrata)
  BY <1>2 DEF CmabR, Together
<1>4. IsFiniteSet(CmabStrata)
      /\ \A k, m \in CmabStrata : k # m => CmabMembers(k) \cap CmabMembers(m) = {}
  BY CmabStrataFacts
<1>5. Missing = target - Sum(half, CmabStrata)
  BY DEF Missing
<1> HIDE DEF Taken, F, half, mark, quota
<1>6. Sum(quota, CmabStrata) = Cardinality(CmabR)
  <2>1. \A k \in CmabStrata : IsFiniteSet(F[k]) /\ quota[k] = Cardinality(F[k])
    BY <1>1, <1>2
  <2>2. \A k, m \in CmabStrata : k # m => F[k] \cap F[m] = {}
    <3>1. \A k \in CmabStrata : F[k] \in SUBSET CmabMembers(k)
      BY <1>1, <1>2
    <3> QED BY <1>4, <3>1
  <2> QED BY <1>3, <1>4, <2>1, <2>2, SumCounts
<1>7. Sum(mark, CmabStrata) = Missing
  <2>1. Rounded \in SUBSET CmabStrata /\ Cardinality(Rounded) = Missing
    BY RoundedIsMissing
  <2> QED BY <1>2, <1>4, <2>1, SumOfMarks
<1>8. /\ Sum(half, CmabStrata) \in Nat /\ Sum(mark, CmabStrata) \in Nat
      /\ Sum(quota, CmabStrata) = Sum(half, CmabStrata) + Sum(mark, CmabStrata)
  <2>1. \A k \in CmabStrata : half[k] \in Nat /\ mark[k] \in Nat /\ quota[k] \in Nat
    <3>1. \A a \in Nat : a \div 2 \in Nat
      OBVIOUS
    <3>2. \A k \in CmabStrata : Cardinality(CmabMembers(k)) \in Nat
      BY CmabStrataFacts
    <3> QED BY <1>1, <1>2, <3>1, <3>2
  <2>2. \A k \in CmabStrata : quota[k] = half[k] + mark[k]
    BY <1>1, <1>2, <2>1
  <2> QED BY <1>4, <2>1, <2>2, SumAdds
<1>9. Cardinality(CmabR) = target
  BY <1>5, <1>6, <1>7, <1>8 DEF RelationOK
<1>10. ASSUME NEW k \in CmabStrata
       PROVE  CmabMembers(k) \cap CmabR = Taken(k)
  <2>1. \A m \in CmabStrata : F[m] \in SUBSET CmabMembers(m)
    BY <1>1, <1>2
  <2> QED BY <1>1, <1>2, <1>3, <1>4, <2>1 DEF Together
<1>11. \A k \in CmabStrata :
         2 * Cardinality(CmabMembers(k) \intersect CmabR)
           - Cardinality(CmabMembers(k)) \in -1 .. 1
  BY <1>1, <1>10
<1> QED BY <1>9, <1>11

-----------------------------------------------------------------------------
(* Quotas and slices of GeoLife.                                           *)

\* What a row of GeoLife says, in numbers.
LEMMA GeoRowFacts ==
  ASSUME HashIsANumber, RelationOK, dataset = "GeoLife", NEW i \in Rows
  PROVE  /\ GeoStratum(i) \in [1 .. 3 -> Int] /\ GeoStratum(i) \in Seq(Int)
         /\ GeoStratum(i) # <<>>
         /\ PointKey(i) \in [1 .. 2 -> Int] /\ Priority(i) \in Int
<1>1. IsRow("GeoLife", rows[i])
  BY DEF RelationOK
<1>2. /\ rows[i].traj \in Int /\ rows[i].point \in Int
      /\ rows[i].time \in Int /\ rows[i].x \in Int /\ rows[i].y \in Int
  BY <1>1 DEF IsRow
<1>3. \A a \in Int : \A b \in Nat \ {0} : a \div b \in Int /\ a % b \in Int
  OBVIOUS
<1>4. Tile \in Nat \ {0}
  BY NumbersAssumption
<1>5. (rows[i].time % 12) + 1 \in Int
  BY <1>2
<1>6. /\ GeoStratum(i) \in [1 .. 3 -> Int] /\ GeoStratum(i) \in Seq(Int)
      /\ GeoStratum(i) # <<>>
  BY <1>2, <1>3, <1>4, <1>5, StratumIsKey DEF GeoStratum
<1>7. PointKey(i) \in [1 .. 2 -> Int] /\ PointKey(i) \in Seq(Int) /\ PointKey(i) # <<>>
  BY <1>2 DEF PointKey
<1>8. Priority(i) \in Int
  BY <1>7 DEF Priority, HashIsANumber, RelationOK
<1> QED BY <1>6, <1>7, <1>8

\* An element of a longer key is that of its part.
LEMMA JoinedFirst ==
  ASSUME NEW a \in Seq(Int), NEW b \in Seq(Int), NEW j \in 1 .. Len(a)
  PROVE  (a \o b)[j] = a[j]
BY ConcatProperties

LEMMA JoinedLast ==
  ASSUME NEW a \in Seq(Int), NEW b \in Seq(Int), NEW m \in 1 .. Len(b)
  PROVE  (a \o b)[Len(a) + m] = b[m]
<1> DEFINE n == Len(a) + m
<1>1. Len(a) \in Nat /\ Len(b) \in Nat
  OBVIOUS
<1>2. n \in 1 .. Len(a) + Len(b) /\ ~(n <= Len(a)) /\ n - Len(a) = m
  BY <1>1
<1>3. \A i \in 1 .. Len(a) + Len(b) :
        (a \o b)[i] = IF i <= Len(a) THEN a[i] ELSE b[i - Len(a)]
  BY ConcatProperties
<1> QED BY <1>2, <1>3, Zenon

LEMMA KeyIsSeq ==
  ASSUME NEW p \in Nat, NEW a \in [1 .. p -> Int]
  PROVE  a \in Seq(Int) /\ Len(a) = p
OBVIOUS

\* Four keys one after the other: a triple, a number, a pair and a number.
IsLongKey(k, s, h, q, i) ==
  /\ k \in [1 .. 7 -> Int]
  /\ \A j \in 1 .. 6 : k[j] = ((s \o <<h>>) \o q)[j]
  /\ \A j \in 1 .. 3 : k[j] = s[j]
  /\ k[5] = q[1] /\ k[6] = q[2] /\ k[7] = i

LEMMA LongKey ==
  ASSUME NEW s \in [1 .. 3 -> Int], NEW h \in Int, NEW q \in [1 .. 2 -> Int], NEW i \in Int
  PROVE  IsLongKey(((s \o <<h>>) \o q) \o <<i>>, s, h, q, i)
<1>1. s \in [1 .. 3 -> Int] /\ <<h>> \in [1 .. 1 -> Int] /\ q \in [1 .. 2 -> Int]
      /\ <<i>> \in [1 .. 1 -> Int] /\ <<i>>[1] = i
  OBVIOUS
<1>2. PICK one \in Nat, two \in Nat, three \in Nat, four \in Nat, six \in Nat :
        one = 1 /\ two = 2 /\ three = 3 /\ four = 4 /\ six = 6
  OBVIOUS
<1>3. /\ s \in [1 .. three -> Int] /\ <<h>> \in [1 .. one -> Int]
      /\ q \in [1 .. two -> Int] /\ <<i>> \in [1 .. one -> Int]
      /\ three + one = four /\ four + two = six /\ six + one = 7
      /\ 1 .. 3 = 1 .. three
      /\ \A j \in 1 .. three : j \in 1 .. four /\ j \in 1 .. six
      /\ 1 \in 1 .. one
  BY <1>1, <1>2
<1>4. s \o <<h>> \in [1 .. three + one -> Int]
  BY <1>3, Joined, Zenon
<1>5. s \o <<h>> \in [1 .. four -> Int]
  BY <1>3, <1>4, Zenon
<1>6. (s \o <<h>>) \o q \in [1 .. four + two -> Int]
  BY <1>3, <1>5, Joined, Zenon
<1>7. (s \o <<h>>) \o q \in [1 .. six -> Int]
  BY <1>3, <1>6, Zenon
<1>8. ((s \o <<h>>) \o q) \o <<i>> \in [1 .. six + one -> Int]
  BY <1>3, <1>7, Joined, Zenon
<1>9. ((s \o <<h>>) \o q) \o <<i>> \in [1 .. 7 -> Int]
  BY <1>3, <1>8, Zenon
<1>10. /\ s \in Seq(Int) /\ Len(s) = 3 /\ <<h>> \in Seq(Int) /\ <<i>> \in Seq(Int)
       /\ Len(<<i>>) = 1 /\ q \in Seq(Int) /\ Len(q) = 2
  BY <1>2, <1>3, KeyIsSeq
<1>11. /\ s \o <<h>> \in Seq(Int) /\ Len(s \o <<h>>) = 4
  BY <1>2, <1>5, KeyIsSeq
<1>12. /\ (s \o <<h>>) \o q \in Seq(Int) /\ Len((s \o <<h>>) \o q) = 6
  BY <1>2, <1>7, KeyIsSeq
<1>13. ASSUME NEW j \in 1 .. 6
       PROVE  (((s \o <<h>>) \o q) \o <<i>>)[j] = ((s \o <<h>>) \o q)[j]
  <2>1. j \in 1 .. Len((s \o <<h>>) \o q)
    BY <1>12
  <2> QED BY <1>10, <1>12, <2>1, JoinedFirst, Zenon
<1>14. ASSUME NEW j \in 1 .. 3
       PROVE  (((s \o <<h>>) \o q) \o <<i>>)[j] = s[j]
  <2>1. j \in 1 .. Len(s) /\ j \in 1 .. Len(s \o <<h>>) /\ j \in 1 .. 6
    BY <1>10, <1>11
  <2>2. (s \o <<h>>)[j] = s[j]
    BY <1>10, <2>1, JoinedFirst, Zenon
  <2>3. ((s \o <<h>>) \o q)[j] = (s \o <<h>>)[j]
    BY <1>10, <1>11, <2>1, JoinedFirst, Zenon
  <2> QED BY <1>13, <2>1, <2>2, <2>3, Zenon
<1>15. ASSUME NEW j \in 1 .. 2
       PROVE  ((s \o <<h>>) \o q)[4 + j] = q[j]
  <2>1. 4 + j = Len(s \o <<h>>) + j /\ j \in 1 .. Len(q)
    BY <1>10, <1>11
  <2>2. ((s \o <<h>>) \o q)[Len(s \o <<h>>) + j] = q[j]
    BY <1>10, <1>11, <2>1, JoinedLast, Zenon
  <2> QED BY <2>1, <2>2, Zenon
<1>16. /\ (((s \o <<h>>) \o q) \o <<i>>)[5] = q[1]
       /\ (((s \o <<h>>) \o q) \o <<i>>)[6] = q[2]
  <2>1. 5 = 4 + 1 /\ 6 = 4 + 2 /\ 5 \in 1 .. 6 /\ 6 \in 1 .. 6 /\ 1 \in 1 .. 2 /\ 2 \in 1 .. 2
    OBVIOUS
  <2>2. ((s \o <<h>>) \o q)[5] = q[1] /\ ((s \o <<h>>) \o q)[6] = q[2]
    BY <1>15, <2>1
  <2> QED BY <1>13, <2>1, <2>2
<1>17. (((s \o <<h>>) \o q) \o <<i>>)[7] = i
  <2>1. 7 = Len((s \o <<h>>) \o q) + 1 /\ 1 \in 1 .. Len(<<i>>)
    BY <1>10, <1>12
  <2>2. (((s \o <<h>>) \o q) \o <<i>>)[Len((s \o <<h>>) \o q) + 1] = <<i>>[1]
    BY <1>10, <1>12, <2>1, JoinedLast, Zenon
  <2> QED BY <1>1, <2>1, <2>2, Zenon
<1> QED BY <1>9, <1>13, <1>14, <1>16, <1>17 DEF IsLongKey

\* A row is sorted by its stratum first, and by its place in the file last.
LEMMA GeoKeyFacts ==
  ASSUME HashIsANumber, RelationOK, dataset = "GeoLife", NEW i \in Rows
  PROVE  /\ GeoKey[i] \in [1 .. 7 -> Int] /\ GeoKey[i][7] = i
         /\ \A j \in 1 .. 6 :
              GeoKey[i][j] = ((GeoStratum(i) \o <<Priority(i)>>) \o PointKey(i))[j]
         /\ \A j \in 1 .. 3 : GeoKey[i][j] = GeoStratum(i)[j]
         /\ GeoKey[i][5] = PointKey(i)[1] /\ GeoKey[i][6] = PointKey(i)[2]
<1> DEFINE s == GeoStratum(i)
           h == Priority(i)
           q == PointKey(i)
<1>1. s \in [1 .. 3 -> Int] /\ h \in Int /\ q \in [1 .. 2 -> Int] /\ i \in Int
  BY GeoRowFacts, RowsAreNumbered
<1>2. GeoKey[i] = ((s \o <<h>>) \o q) \o <<i>>
  BY DEF GeoKey
<1> HIDE DEF s, h, q
<1>3. IsLongKey(GeoKey[i], s, h, q, i)
  BY <1>1, <1>2, LongKey
<1> QED BY <1>3 DEF IsLongKey, s, h, q

LEMMA GeoKeysAreOrdered ==
  ASSUME HashIsANumber, RelationOK, dataset = "GeoLife"
  PROVE  Ordered(Rows, GeoKey)
<1>1. IsFiniteSet(Rows)
  BY RowsAreNumbered
<1>2. \A i \in Rows : GeoKey[i] \in [1 .. 7 -> Int] /\ GeoKey[i][7] = i
  BY GeoKeyFacts
<1>3. \A i, j \in Rows : GeoKey[i] = GeoKey[j] => i = j
  BY <1>2
<1>4. PICK seven \in Nat : seven = 7
  OBVIOUS
<1>5. seven \in Nat /\ \A i \in Rows : GeoKey[i] \in [1 .. seven -> Int]
  BY <1>2, <1>4
<1> QED BY <1>1, <1>3, <1>5, KeysAreOrdered, Zenon

\* What stands between two keys that begin alike begins like them.
LEMMA Between ==
  ASSUME NEW a \in [1 .. 7 -> Int], NEW b \in [1 .. 7 -> Int], NEW c \in [1 .. 7 -> Int],
         Before(a, b), Before(b, c), \A j \in 1 .. 3 : a[j] = c[j], NEW j \in 1 .. 3
  PROVE  b[j] = a[j]
<1>1. PICK m \in 1 .. 7 : a[m] < b[m] /\ \A l \in 1 .. m - 1 : a[l] = b[l]
  BY DEF Before
<1>2. PICK n \in 1 .. 7 : b[n] < c[n] /\ \A l \in 1 .. n - 1 : b[l] = c[l]
  BY DEF Before
<1>3. \A l \in 1 .. 7 : a[l] \in Int /\ b[l] \in Int /\ c[l] \in Int
  OBVIOUS
<1>4. CASE m > 3
  BY <1>1, <1>4
<1>5. CASE m <= 3 /\ m < n
  BY <1>1, <1>2, <1>3, <1>5
<1>6. CASE m <= 3 /\ m = n
  BY <1>1, <1>2, <1>3, <1>6
<1>7. CASE m <= 3 /\ n < m
  BY <1>1, <1>2, <1>3, <1>7
<1> QED BY <1>4, <1>5, <1>6, <1>7

\* A stratum takes a slice of the sorted pool: the first of its own rows, since
\* they stand together and the slice is no longer than they are.
LEMMA SliceIsFirstRows ==
  ASSUME HashIsANumber, RelationOK, dataset = "GeoLife", NEW pool \in SUBSET Rows,
         NEW k \in Groups(pool), NEW M, M = {i \in pool : GeoStratum(i) = k},
         NEW quota \in 0 .. Cardinality(M)
  PROVE  Slice(pool, k, quota) = Smallest(quota, M, GeoKey)
<1> DEFINE T == {Rank(i, pool, GeoKey) : i \in M}
           start == Min(T)
           Rk(i) == Rank(i, pool, GeoKey)
           Bef(i) == {y \in pool : Before(GeoKey[y], GeoKey[i])}
           Own(i) == {y \in M : Before(GeoKey[y], GeoKey[i])}
<1>1. M \in SUBSET pool /\ M # {}
  BY DEF Groups
<1>2. Ordered(pool, GeoKey) /\ Ordered(M, GeoKey)
  BY <1>1, GeoKeysAreOrdered, OrderedPart
<1>3. \A i \in pool : Rk(i) \in Nat /\ Rk(i) = Cardinality(Bef(i))
  BY <1>2, RanksAreOrdered DEF Rank
<1>4. \A i \in M : Rank(i, M, GeoKey) = Cardinality(Own(i))
  BY DEF Rank
<1>5. start \in T /\ \A t \in T : start <= t
  <2>1. T \in SUBSET Nat /\ T # {}
    BY <1>1, <1>3
  <2>2. \E x \in T : \A y \in T : x <= y
    <3> HIDE DEF T
    <3> QED BY <2>1, LeastNumber
  <2>3. start = CHOOSE x \in T : \A y \in T : x <= y
    BY DEF Min
  <2> HIDE DEF T, start
  <2> QED BY <2>2, <2>3
<1>6. PICK first \in M : Rk(first) = start
  BY <1>5
<1>7. \A i \in M : start <= Rk(i)
  BY <1>5
<1>8. Slice(pool, k, quota) = {i \in pool : Rk(i) \in start .. start + quota - 1}
  BY DEF Slice
<1>9. \A x, y \in pool : Before(GeoKey[x], GeoKey[y]) => Rk(x) < Rk(y)
  BY <1>2, RanksAreOrdered
<1>10. \A x, y \in pool : Rk(x) = Rk(y) => x = y
  BY <1>2, RanksAreOrdered
<1>11. /\ \A x, y \in pool : x # y => Before(GeoKey[x], GeoKey[y]) \/ Before(GeoKey[y], GeoKey[x])
       /\ \A x, y, z \in pool : Before(GeoKey[x], GeoKey[y]) /\ Before(GeoKey[y], GeoKey[z])
            => Before(GeoKey[x], GeoKey[z])
       /\ IsFiniteSet(pool)
  BY <1>2 DEF Ordered
<1> HIDE DEF T, start, Rk
<1>12. ASSUME NEW i \in M
       PROVE  Rk(i) = start + Rank(i, M, GeoKey)
  <2>1. Bef(i) = Bef(first) \cup Own(i)
    <3>1. ASSUME NEW y \in Bef(i), y \notin Bef(first)
          PROVE  y \in Own(i)
      <4>1. CASE y = first
        BY <3>1, <4>1
      <4>2. CASE y # first
        <5>1. Before(GeoKey[first], GeoKey[y]) /\ Before(GeoKey[y], GeoKey[i]) /\ y \in pool
          BY <1>1, <1>11, <3>1, <4>2
        <5>2. y \in Rows /\ first \in Rows /\ i \in Rows
          BY <1>1, <5>1
        <5>3. \A l \in Rows : GeoKey[l] \in [1 .. 7 -> Int]
          BY GeoKeyFacts
        <5>4. \A l \in Rows : \A j \in 1 .. 3 : GeoKey[l][j] = GeoStratum(l)[j]
          BY GeoKeyFacts
        <5>5. GeoStratum(first) = k /\ GeoStratum(i) = k
          OBVIOUS
        <5>6. \A j \in 1 .. 3 : GeoKey[first][j] = GeoKey[i][j]
          BY <5>2, <5>4, <5>5
        <5>7. \A j \in 1 .. 3 : GeoKey[y][j] = GeoKey[first][j]
          BY <5>1, <5>2, <5>3, <5>6, Between
        <5>8. \A j \in 1 .. 3 : GeoStratum(y)[j] = GeoStratum(first)[j]
          BY <5>2, <5>4, <5>7
        <5>9. GeoStratum(y) \in [1 .. 3 -> Int] /\ GeoStratum(first) \in [1 .. 3 -> Int]
          BY <5>2, GeoRowFacts
        <5>10. GeoStratum(y) = k
          BY <5>5, <5>8, <5>9, SameTuple
        <5> QED BY <5>1, <5>10
      <4> QED BY <4>1, <4>2
    <3>2. Bef(first) \in SUBSET Bef(i)
      <4>1. i \in pool /\ first \in pool
        BY <1>1
      <4>2. ~Before(GeoKey[i], GeoKey[first])
        <5>1. Rk(i) \in Nat /\ Rk(first) \in Nat /\ start <= Rk(i)
          BY <1>3, <1>7, <4>1
        <5>2. ~(Rk(i) < Rk(first))
          BY <1>6, <5>1
        <5> QED BY <1>9, <4>1, <5>2
      <4>3. i = first \/ Before(GeoKey[first], GeoKey[i])
        BY <1>11, <4>1, <4>2
      <4> QED BY <1>11, <4>1, <4>3
    <3>3. Own(i) \in SUBSET Bef(i)
      BY <1>1
    <3> QED BY <3>1, <3>2, <3>3
  <2>2. Bef(first) \cap Own(i) = {}
    <3>1. ASSUME NEW y \in Own(i), y \in Bef(first)
          PROVE  FALSE
      <4>1. y \in M /\ y \in pool /\ first \in pool /\ Before(GeoKey[y], GeoKey[first])
        BY <1>1, <3>1
      <4>2. Rk(y) < Rk(first) /\ start <= Rk(y)
        BY <1>7, <1>9, <4>1
      <4>3. Rk(y) \in Nat /\ Rk(first) \in Nat
        BY <1>3, <4>1
      <4> QED BY <1>6, <4>2, <4>3
    <3> QED BY <3>1
  <2>3. /\ IsFiniteSet(Bef(first)) /\ Cardinality(Bef(first)) \in Nat
        /\ IsFiniteSet(Own(i)) /\ Cardinality(Own(i)) \in Nat
    <3>1. Bef(first) \in SUBSET pool /\ Own(i) \in SUBSET pool
      BY <1>1
    <3> HIDE DEF Bef, Own
    <3> QED BY <1>11, <3>1, Fewer
  <2>4. Rk(i) = Cardinality(Bef(i)) /\ start = Cardinality(Bef(first))
    BY <1>1, <1>3, <1>6
  <2>5. Rank(i, M, GeoKey) = Cardinality(Own(i))
    BY <1>4
  <2> HIDE DEF Bef, Own
  <2> QED BY <2>1, <2>2, <2>3, <2>4, <2>5, FS_Union, FS_EmptySet
<1>13. start \in Nat
  BY <1>1, <1>3, <1>6
<1>14. \A r \in 0 .. Cardinality(M) - 1 : \E x \in M : Rank(x, M, GeoKey) = r
  BY <1>2, EveryRank
<1>15. Cardinality(M) \in Nat /\ \A i \in M : Rank(i, M, GeoKey) \in Nat
  <2>1. Cardinality(M) \in Nat
    BY <1>1, <1>11, Fewer
  <2>2. \A i \in M : Rank(i, M, GeoKey) \in 0 .. Cardinality(M) - 1
    BY <1>2, RanksAreOrdered
  <2> QED BY <2>1, <2>2
<1>16. ASSUME NEW i \in pool, Rk(i) \in start .. start + quota - 1
       PROVE  i \in M
  <2>1. Rk(i) \in Nat /\ quota \in Nat /\ quota <= Cardinality(M)
    <3>1. Rk(i) \in Nat
      BY <1>3, <1>16
    <3> QED BY <1>15, <3>1
  <2>2. Rk(i) - start \in 0 .. Cardinality(M) - 1
    BY <1>13, <1>15, <1>16, <2>1
  <2>3. PICK x \in M : Rank(x, M, GeoKey) = Rk(i) - start
    BY <1>14, <2>2
  <2>4. Rk(x) = Rk(i) /\ x \in pool
    BY <1>1, <1>12, <1>13, <2>1, <2>3
  <2> QED BY <1>10, <2>4
<1>17. \A i \in M : Rk(i) \in start .. start + quota - 1 <=> Rank(i, M, GeoKey) < quota
  <2>1. \A a, b, q \in Nat : a + b \in a .. a + q - 1 <=> b < q
    OBVIOUS
  <2>2. quota \in Nat
    BY <1>15
  <2> QED BY <1>12, <1>13, <1>15, <2>1, <2>2
<1>18. Smallest(quota, M, GeoKey) = {i \in M : Rank(i, M, GeoKey) < quota}
  BY DEF Smallest
<1> QED BY <1>1, <1>8, <1>16, <1>17, <1>18

\* The strata of a pool and their sizes.
LEMMA PoolParts ==
  ASSUME HashIsANumber, RelationOK, dataset = "GeoLife", NEW pool \in SUBSET Rows
  PROVE  /\ IsFiniteSet(pool) /\ Cardinality(pool) \in Nat
         /\ IsFiniteSet(Groups(pool))
         /\ \A k \in Groups(pool) :
              /\ k \in [1 .. 3 -> Int] /\ Hash(salt, k) \in Int
              /\ PoolSizes(pool)[k] = Cardinality({i \in pool : GeoStratum(i) = k})
              /\ PoolSizes(pool)[k] \in Nat
         /\ Sum(PoolSizes(pool), Groups(pool)) = Cardinality(pool)
<1> DEFINE K == Groups(pool)
           value == [i \in pool |-> GeoStratum(i)]
           F == [k \in K |-> {i \in pool : GeoStratum(i) = k}]
           size == PoolSizes(pool)
<1>1. IsFiniteSet(pool) /\ Cardinality(pool) \in Nat
  BY RowsAreNumbered, Fewer
<1>2. \A k \in K : F[k] = {i \in pool : GeoStratum(i) = k} /\ size[k] = Cardinality(F[k])
  BY DEF PoolSizes
<1>3. IsFiniteSet(K)
  <2>1. value \in Surjection(pool, K)
    BY DEF Groups, Surjection
  <2> HIDE DEF value, K
  <2> QED BY <1>1, <2>1, FS_Surjection
<1>4. \A k \in K : \E i \in pool : k = GeoStratum(i)
  BY DEF Groups
<1>5. \A i \in pool : GeoStratum(i) \in K
  BY DEF Groups
<1> HIDE DEF K, F, size
<1>6. ASSUME NEW k \in K
      PROVE  k \in [1 .. 3 -> Int] /\ Hash(salt, k) \in Int
  <2>1. PICK i \in pool : k = GeoStratum(i)
    BY <1>4
  <2>2. k \in [1 .. 3 -> Int] /\ k \in Seq(Int) /\ k # <<>>
    BY <2>1, GeoRowFacts
  <2> QED BY <2>2 DEF HashIsANumber, RelationOK
<1>7. \A k \in K : IsFiniteSet(F[k]) /\ Cardinality(F[k]) \in Nat
  <2>1. \A k \in K : F[k] \in SUBSET pool
    BY <1>2
  <2> QED BY <1>1, <2>1, Fewer
<1>8. \A k, m \in K : k # m => F[k] \cap F[m] = {}
  BY <1>2
<1>9. Together(F, K) = pool
  <2>1. \A i \in pool : i \in F[GeoStratum(i)]
    BY <1>2, <1>5
  <2>2. \A k \in K : F[k] \in SUBSET pool
    BY <1>2
  <2> QED BY <1>5, <2>1, <2>2 DEF Together
<1>10. Sum(size, K) = Cardinality(pool)
  BY <1>2, <1>3, <1>7, <1>8, <1>9, SumCounts
<1>11. \A k \in K : size[k] \in Nat /\ size[k] = Cardinality({i \in pool : GeoStratum(i) = k})
  BY <1>2, <1>7
<1> QED BY <1>1, <1>3, <1>6, <1>10, <1>11 DEF K, size

\* Products of the quotas.
LEMMA Shared ==
  ASSUME NEW a \in Nat, NEW n \in Nat \ {0}
  PROVE  /\ a \div n \in Nat /\ a % n \in 0 .. n - 1 /\ a = n * (a \div n) + (a % n)
OBVIOUS

LEMMA ShareIsSmall ==
  ASSUME NEW size \in Nat, NEW places \in Nat, NEW n \in Nat \ {0}, places <= n,
         NEW share \in Nat, NEW rem \in Nat, size * places = n * share + rem
  PROVE  share <= size /\ (rem > 0 => share + 1 <= size)
<1>1. size * places <= size * n
  OBVIOUS
<1>2. n * share + rem <= n * size
  <2>1. size * n = n * size
    OBVIOUS
  <2> QED BY <1>1, <2>1
<1>3. share <= size
  <2>1. SUFFICES ASSUME size + 1 <= share
                 PROVE  FALSE
    OBVIOUS
  <2>2. n * (size + 1) <= n * share
    BY <2>1
  <2>3. n * (size + 1) = n * size + n
    OBVIOUS
  <2>4. n * size \in Nat /\ n * share \in Nat /\ n * (size + 1) \in Nat
    OBVIOUS
  <2> QED BY <1>2, <2>2, <2>3, <2>4
<1>4. rem > 0 => share # size
  BY <1>2
<1> QED BY <1>3, <1>4

LEMMA MissingIsSmall ==
  ASSUME NEW n \in Nat \ {0}, NEW m \in Int, NEW p \in Nat, NEW r \in Nat,
         n * m = r, r <= (n - 1) * p
  PROVE  m \in 0 .. p
<1>1. m >= 0
  <2>1. SUFFICES ASSUME m <= -1
                 PROVE  FALSE
    OBVIOUS
  <2>2. n * m <= n * (-1)
    BY <2>1
  <2> QED BY <2>2
<1>2. m <= p
  <2>1. SUFFICES ASSUME p + 1 <= m
                 PROVE  FALSE
    OBVIOUS
  <2>2. n * (p + 1) <= n * m
    BY <2>1
  <2>3. n * (p + 1) = n * p + n /\ (n - 1) * p = n * p - p
    OBVIOUS
  <2>4. n * p \in Nat /\ n * (p + 1) \in Nat /\ (n - 1) * p \in Int
    OBVIOUS
  <2> QED BY <2>2, <2>3, <2>4
<1> QED BY <1>1, <1>2

\* A stratum after two numbers.
IsAfterTwo(t, g, k) ==
  /\ t \in [1 .. 5 -> Int] /\ t[1] = g
  /\ t[3] = k[1] /\ t[4] = k[2] /\ t[5] = k[3]

LEMMA StratumAfterTwo ==
  ASSUME NEW g \in Int, NEW h \in Int, NEW k \in [1 .. 3 -> Int]
  PROVE  IsAfterTwo(<<g, h>> \o k, g, k)
<1>1. <<g, h>> \in [1 .. 2 -> Int] /\ <<g, h>>[1] = g
  OBVIOUS
<1>2. PICK p \in Nat, q \in Nat : p = 2 /\ q = 3
  OBVIOUS
<1>3. p \in Nat /\ q \in Nat /\ <<g, h>> \in [1 .. p -> Int] /\ k \in [1 .. q -> Int]
  BY <1>1, <1>2
<1>4. /\ <<g, h>> \o k \in [1 .. p + q -> Int]
      /\ \A j \in 1 .. q : (<<g, h>> \o k)[p + j] = k[j]
  BY <1>3, Joined, Zenon
<1>5. p + q = 5 /\ p + 1 = 3 /\ p + 2 = 4 /\ p + 3 = 5
      /\ 1 \in 1 .. q /\ 2 \in 1 .. q /\ 3 \in 1 .. q
  BY <1>2
<1>6. /\ (<<g, h>> \o k)[p + 1] = k[1] /\ (<<g, h>> \o k)[p + 2] = k[2]
      /\ (<<g, h>> \o k)[p + 3] = k[3]
  BY <1>4, <1>5, Zenon
<1>7. (<<g, h>> \o k)[1] = <<g, h>>[1]
  <2>1. <<g, h>> \in Seq(Int)
    OBVIOUS
  <2>2. k \in Seq(Int)
    OBVIOUS
  <2>3. 1 \in 1 .. Len(<<g, h>>)
    OBVIOUS
  <2> QED BY <2>1, <2>2, <2>3, JoinedFirst, Zenon
<1> QED BY <1>1, <1>4, <1>5, <1>6, <1>7, Zenon DEF IsAfterTwo

\* The shares and what is given to the largest remainders fit the strata and
\* add up to the target.
LEMMA QuotasFit ==
  ASSUME HashIsANumber, RelationOK, dataset = "GeoLife", NEW pool \in SUBSET Rows,
         target <= Cardinality(pool)
  PROVE  /\ \A k \in Groups(pool) :
              /\ Quotas(pool)[k] \in 0 .. PoolSizes(pool)[k]
              /\ Quotas(pool)[k] * Cardinality(pool) - PoolSizes(pool)[k] * target
                   > -Cardinality(pool)
              /\ Quotas(pool)[k] * Cardinality(pool) - PoolSizes(pool)[k] * target
                   < Cardinality(pool)
         /\ Sum(Quotas(pool), Groups(pool)) = target
<1> DEFINE K == Groups(pool)
           n == Cardinality(pool)
           size == PoolSizes(pool)
           share == [k \in K |-> (size[k] * target) \div n]
           rem   == [k \in K |-> (size[k] * target) % n]
           load  == [k \in K |-> size[k] * target]
           piece  == [k \in K |-> n * ((size[k] * target) \div n)]
           key   == [k \in K |-> <<-((size[k] * target) % n), Hash(salt, k)>> \o k]
           missing == target - Sum(share, K)
           more  == Smallest(missing, K, key)
           given == [k \in K |-> IF k \in more THEN 1 ELSE 0]
           quota == Quotas(pool)
           Pos   == {k \in K : rem[k] > 0}
           mark  == [k \in K |-> IF k \in Pos THEN 1 ELSE 0]
<1>1. /\ n \in Nat /\ IsFiniteSet(K) /\ target \in Nat
      /\ \A k \in K : k \in [1 .. 3 -> Int] /\ Hash(salt, k) \in Int /\ size[k] \in Nat
      /\ Sum(size, K) = n
  BY PoolParts DEF RelationOK
<1>2. quota = [k \in K |-> share[k] + IF k \in more THEN 1 ELSE 0]
  BY DEF Quotas
<1>3. /\ \A k \in K : /\ share[k] = (size[k] * target) \div n
                      /\ rem[k] = (size[k] * target) % n
                      /\ load[k] = size[k] * target
                      /\ piece[k] = n * share[k]
                      /\ key[k] = <<-rem[k], Hash(salt, k)>> \o k
                      /\ mark[k] = IF k \in Pos THEN 1 ELSE 0
                      /\ given[k] = IF k \in more THEN 1 ELSE 0
                      /\ quota[k] = share[k] + IF k \in more THEN 1 ELSE 0
  <2> HIDE DEF K, n, size, more, Pos, quota
  <2> QED BY <1>2
<1>4. target <= n /\ missing = target - Sum(share, K) /\ more = Smallest(missing, K, key)
  OBVIOUS
<1>5. Pos \in SUBSET K /\ \A k \in K : k \in Pos <=> rem[k] > 0
  OBVIOUS
<1> HIDE DEF K, n, size, share, rem, load, piece, key, missing, more, given, quota, Pos, mark
<1>6. CASE n = 0
  <2>1. K = {}
    <3>1. pool = {}
      BY <1>6, PoolParts, FS_EmptySet DEF n
    <3> QED BY <3>1 DEF K, Groups
  <2>2. target = 0 /\ Sum(quota, K) = 0
    BY <1>1, <1>4, <1>6, <2>1, SumOfNone
  <2> QED BY <2>1, <2>2 DEF K, quota
<1>7. CASE n # 0
  <2>1. n \in Nat \ {0}
    BY <1>1, <1>7
  <2>2. ASSUME NEW k \in K
        PROVE  /\ load[k] \in Nat /\ share[k] \in Nat /\ rem[k] \in Nat /\ rem[k] <= n - 1
               /\ load[k] = n * share[k] + rem[k]
               /\ load[k] = target * size[k]
    <3>1. load[k] \in Nat /\ load[k] = size[k] * target
          /\ target * size[k] = size[k] * target
      <4>1. \A a, c \in Nat : a * c \in Nat /\ c * a = a * c
        OBVIOUS
      <4>2. size[k] \in Nat /\ target \in Nat
        BY <1>1
      <4>3. load[k] = size[k] * target
        BY <1>3
      <4> QED BY <4>1, <4>2, <4>3
    <3>2. share[k] = load[k] \div n /\ rem[k] = load[k] % n
      BY <1>3
    <3>3. share[k] \in Nat /\ rem[k] \in 0 .. n - 1 /\ load[k] = n * share[k] + rem[k]
      BY <2>1, <3>1, <3>2, Shared
    <3> QED BY <2>1, <3>1, <3>3
  <2>3. /\ Sum(share, K) \in Nat /\ Sum(rem, K) \in Nat
        /\ Sum(load, K) = n * Sum(share, K) + Sum(rem, K)
    <3>1. IsFiniteSet(K) /\ n \in Nat
      BY <1>1
    <3>2. \A k \in K : share[k] \in Nat /\ rem[k] \in Nat /\ load[k] \in Nat
      BY <2>2
    <3>3. \A k \in K : load[k] = n * share[k] + rem[k]
      BY <2>2
    <3>4. \A k \in K : piece[k] = n * share[k] /\ piece[k] \in Nat
      <4>1. \A k \in K : piece[k] = n * share[k]
        BY <1>3
      <4> QED BY <3>1, <3>2, <4>1
    <3>5. Sum(share, K) \in Nat
      BY <3>1, <3>2, <3>4, SumScales
    <3>6. Sum(piece, K) = n * Sum(share, K)
      BY <3>1, <3>2, <3>4, SumScales
    <3>7. \A k \in K : load[k] = piece[k] + rem[k]
      BY <3>3, <3>4
    <3>8. Sum(load, K) = Sum(piece, K) + Sum(rem, K)
      BY <3>1, <3>2, <3>4, <3>7, SumAdds
    <3>9. Sum(rem, K) \in Nat
      BY <3>1, <3>2, <3>4, <3>7, SumAdds
    <3> QED BY <3>5, <3>6, <3>8, <3>9
  <2>4. Sum(load, K) = target * n
    <3>1. IsFiniteSet(K) /\ target \in Nat
      BY <1>1
    <3>2. \A k \in K : size[k] \in Nat /\ load[k] \in Nat
      BY <1>1, <2>2
    <3>3. \A k \in K : load[k] = target * size[k]
      BY <2>2
    <3>4. Sum(load, K) = target * Sum(size, K)
      BY <3>1, <3>2, <3>3, SumScales
    <3> QED BY <1>1, <3>4
  <2>5. missing \in Int /\ n * missing = Sum(rem, K)
    <3> DEFINE s == Sum(share, K)
               r == Sum(rem, K)
    <3>1. s \in Nat /\ r \in Nat /\ target * n = n * s + r /\ missing = target - s
      BY <1>4, <2>3, <2>4
    <3> HIDE DEF s, r
    <3>2. n * (target - s) = target * n - n * s
      BY <1>1, <3>1
    <3>3. n * missing = r
      <4>1. target * n \in Nat /\ n * s \in Nat
        BY <1>1, <3>1
      <4> QED BY <3>1, <3>2, <4>1
    <3> QED BY <1>1, <3>1, <3>3 DEF r
  <2>6. IsFiniteSet(Pos) /\ Cardinality(Pos) \in Nat /\ Cardinality(Pos) <= Cardinality(K)
        /\ Cardinality(K) \in Nat
    BY <1>1, <1>5, Fewer
  <2>7. missing \in 0 .. Cardinality(Pos)
    <3>1. Sum(mark, K) = Cardinality(Pos)
      BY <1>1, <1>3, <1>5, SumOfMarks
    <3>2. n - 1 \in Nat
      BY <2>1
    <3>3. \A k \in K : mark[k] \in Nat /\ rem[k] \in Nat /\ rem[k] <= (n - 1) * mark[k]
      <4>1. ASSUME NEW k \in K
            PROVE  mark[k] \in Nat /\ rem[k] <= (n - 1) * mark[k]
        <5>1. CASE k \in Pos
          <6>1. mark[k] = 1
            BY <1>3, <5>1
          <6> QED BY <2>2, <3>2, <6>1
        <5>2. CASE k \notin Pos
          <6>1. mark[k] = 0 /\ rem[k] = 0
            <7>1. mark[k] = 0 /\ ~(rem[k] > 0)
              BY <1>3, <1>5, <5>2
            <7>2. rem[k] \in Nat
              BY <2>2
            <7> QED BY <7>1, <7>2
          <6> QED BY <3>2, <6>1
        <5> QED BY <5>1, <5>2
      <4> QED BY <2>2, <4>1
    <3>4. Sum(rem, K) <= (n - 1) * Sum(mark, K)
      <4> DEFINE c == n - 1
      <4>1. c \in Nat /\ \A k \in K : mark[k] \in Nat /\ rem[k] \in Nat /\ rem[k] <= c * mark[k]
        BY <3>2, <3>3
      <4> HIDE DEF c
      <4>2. Sum(rem, K) <= c * Sum(mark, K)
        BY <1>1, <4>1, SumAtMost
      <4> QED BY <4>2 DEF c
    <3> QED BY <2>1, <2>3, <2>5, <2>6, <3>1, <3>4, MissingIsSmall
  <2>8. ASSUME NEW k \in K
         PROVE  /\ key[k] \in [1 .. 5 -> Int] /\ key[k][1] = -rem[k]
                /\ key[k][3] = k[1] /\ key[k][4] = k[2] /\ key[k][5] = k[3]
    <3> DEFINE g == -rem[k]
               h == Hash(salt, k)
    <3>1. g \in Int /\ h \in Int /\ k \in [1 .. 3 -> Int]
      BY <1>1, <2>2
    <3>2. key[k] = <<g, h>> \o k
      BY <1>3
    <3>3. g = -rem[k]
      OBVIOUS
    <3> HIDE DEF g, h
    <3>4. IsAfterTwo(key[k], g, k)
      BY <3>1, <3>2, StratumAfterTwo
    <3> QED BY <3>3, <3>4 DEF IsAfterTwo
  <2>9. Ordered(K, key)
    <3>1. PICK five \in Nat : five = 5
      OBVIOUS
    <3>2. \A x \in K : key[x] \in [1 .. five -> Int]
      BY <2>8, <3>1
    <3>3. ASSUME NEW x \in K, NEW y \in K, key[x] = key[y]
          PROVE  x = y
      <4>1. x[1] = y[1] /\ x[2] = y[2] /\ x[3] = y[3]
        BY <2>8, <3>3
      <4>2. x \in [1 .. 3 -> Int] /\ y \in [1 .. 3 -> Int]
        BY <1>1
      <4> QED BY <4>1, <4>2, StrataDiffer
    <3>4. IsFiniteSet(K) /\ five \in Nat
      BY <1>1
    <3> QED BY <3>2, <3>3, <3>4, KeysAreOrdered, Zenon
  <2>10. more \in SUBSET K /\ Cardinality(more) = missing
    <3>1. missing \in 0 .. Cardinality(K)
      BY <2>6, <2>7
    <3> QED BY <1>4, <2>9, <3>1, SmallestTakes
  <2>11. ASSUME NEW x \in more, x \notin Pos
         PROVE  FALSE
    <3>1. x \in K /\ rem[x] = 0
      BY <1>5, <2>2, <2>10, <2>11
    <3> DEFINE B == {y \in K : Before(key[y], key[x])}
    <3>2. Pos \in SUBSET B
      <4>1. ASSUME NEW y \in Pos
            PROVE  Before(key[y], key[x])
        <5>1. y \in K /\ rem[y] \in Nat /\ rem[y] > 0
          BY <1>5, <2>2
        <5>2. key[y] \in [1 .. 5 -> Int] /\ key[y][1] = -rem[y] /\ key[x][1] = -rem[x]
          <6>1. \A k \in K : key[k] \in [1 .. 5 -> Int] /\ key[k][1] = -rem[k]
            BY <2>8
          <6> QED BY <3>1, <5>1, <6>1
        <5>3. 1 \in DOMAIN key[y] /\ key[y][1] < key[x][1] /\ \A j \in 1 .. 1 - 1 : FALSE
          BY <3>1, <5>1, <5>2
        <5> QED BY <5>3 DEF Before
      <4> QED BY <1>5, <4>1
    <3>3. Rank(x, K, key) = Cardinality(B) /\ Rank(x, K, key) < missing
      BY <1>4 DEF Rank, Smallest
    <3>4. B \in SUBSET K
      OBVIOUS
    <3> HIDE DEF B
    <3>5. IsFiniteSet(B) /\ Cardinality(B) \in Nat
      BY <1>1, <3>4, Fewer
    <3>6. Cardinality(Pos) <= Cardinality(B)
      BY <3>2, <3>5, Fewer
    <3> QED BY <2>5, <2>6, <2>7, <3>3, <3>5, <3>6
  <2>12. ASSUME NEW k \in K
         PROVE  /\ quota[k] \in 0 .. size[k]
                /\ quota[k] * n - size[k] * target > -n
                /\ quota[k] * n - size[k] * target < n
    <3> DEFINE q == quota[k]
               s == share[k]
               r == rem[k]
               z == size[k]
               l == load[k]
    <3>1. /\ q = s + (IF k \in more THEN 1 ELSE 0) /\ l = z * target
          /\ (k \in more => r > 0)
          /\ s \in Nat /\ r \in Nat /\ r <= n - 1 /\ z \in Nat /\ l \in Nat /\ l = n * s + r
      BY <1>1, <1>3, <1>5, <2>2, <2>11
    <3> HIDE DEF q, s, r, z, l
    <3>2. s <= z /\ (r > 0 => s + 1 <= z)
      BY <1>1, <1>4, <2>1, <3>1, ShareIsSmall
    <3>3. q \in 0 .. z
      BY <3>1, <3>2
    <3>4. CASE k \in more
      <4>1. q = s + 1
        BY <3>1, <3>4
      <4>2. q * n = n * s + n
        BY <2>1, <3>1, <4>1
      <4>3. n * s \in Nat
        BY <2>1, <3>1
      <4>4. q * n - l = n - r
        BY <2>1, <3>1, <4>2, <4>3
      <4>5. q * n - l > -n /\ q * n - l < n
        BY <2>1, <3>1, <3>4, <4>4
      <4> QED BY <3>1, <3>3, <4>5 DEF q, z
    <3>5. CASE k \notin more
      <4>1. q = s
        BY <3>1, <3>5
      <4>2. q * n = n * s
        BY <2>1, <3>1, <4>1
      <4>3. n * s \in Nat
        BY <2>1, <3>1
      <4>4. q * n - l = -r
        BY <2>1, <3>1, <4>2, <4>3
      <4>5. q * n - l > -n /\ q * n - l < n
        BY <2>1, <3>1, <4>4
      <4> QED BY <3>1, <3>3, <4>5 DEF q, z
    <3> QED BY <3>4, <3>5
  <2>13. Sum(quota, K) = target
    <3>1. Sum(given, K) = missing
      BY <1>1, <1>3, <2>10, SumOfMarks
    <3>2. ASSUME NEW k \in K
          PROVE  share[k] \in Nat /\ given[k] \in Nat /\ quota[k] \in Nat
      <4>1. share[k] \in Nat
        BY <2>2
      <4>2. given[k] \in {0, 1} /\ quota[k] \in {share[k] + 0, share[k] + 1}
        BY <1>3
      <4> QED BY <4>1, <4>2
    <3>3. \A k \in K : quota[k] = share[k] + given[k]
      BY <1>3, <2>2
    <3>4. Sum(quota, K) = Sum(share, K) + Sum(given, K)
      BY <1>1, <3>2, <3>3, SumAdds
    <3> QED BY <1>1, <1>4, <2>3, <2>5, <3>1, <3>4
  <2> QED BY <2>12, <2>13 DEF K, quota, size, n
<1> QED BY <1>6, <1>7

\* A side takes its target, stratum by stratum.
LEMMA GeoSideIsFair ==
  ASSUME HashIsANumber, RelationOK, dataset = "GeoLife", NEW side,
         target <= Cardinality(Pool(side))
  PROVE  /\ \A k \in DOMAIN Slices(side) :
              /\ Slices(side)[k] \in SUBSET {i \in Pool(side) : GeoStratum(i) = k}
              /\ Cardinality(Slices(side)[k]) = Quotas(Pool(side))[k]
         /\ DOMAIN Slices(side) = Groups(Pool(side))
         /\ GeoChosen(side) \in SUBSET Pool(side)
         /\ Cardinality(GeoChosen(side)) = target
<1> DEFINE pool == Pool(side)
           K == Groups(pool)
           quota == Quotas(pool)
           F == Slices(side)
<1>1. pool \in SUBSET Rows
  BY DEF Pool
<1>2. F = [k \in K |-> Slice(pool, k, quota[k])]
  BY DEF Slices
<1>3. GeoChosen(side) = UNION {F[k] : k \in DOMAIN F}
  BY DEF GeoChosen
<1>4. target <= Cardinality(pool)
  OBVIOUS
<1> HIDE DEF pool, quota, F
<1>5. DOMAIN F = K /\ \A k \in K : F[k] = Slice(pool, k, quota[k])
  BY <1>2
<1>6. /\ IsFiniteSet(pool) /\ IsFiniteSet(K)
      /\ \A k \in K : PoolSizes(pool)[k] = Cardinality({i \in pool : GeoStratum(i) = k})
  BY <1>1, PoolParts
<1>7. /\ \A k \in K : quota[k] \in 0 .. PoolSizes(pool)[k]
      /\ Sum(quota, K) = target
  BY <1>1, <1>4, QuotasFit DEF quota
<1>8. ASSUME NEW k \in K
      PROVE  /\ F[k] \in SUBSET {i \in pool : GeoStratum(i) = k}
             /\ IsFiniteSet(F[k]) /\ Cardinality(F[k]) = quota[k]
  <2> DEFINE M == {i \in pool : GeoStratum(i) = k}
  <2>1. quota[k] \in 0 .. Cardinality(M)
    BY <1>6, <1>7
  <2>2. M \in SUBSET Rows
    BY <1>1
  <2>3. Ordered(M, GeoKey)
    BY <2>2, GeoKeysAreOrdered, OrderedPart
  <2>4. M = {i \in pool : GeoStratum(i) = k}
    OBVIOUS
  <2> HIDE DEF M
  <2>5. F[k] = Smallest(quota[k], M, GeoKey)
    <3>1. Slice(pool, k, quota[k]) = Smallest(quota[k], M, GeoKey)
      BY <1>1, <2>1, <2>4, SliceIsFirstRows
    <3> QED BY <1>5, <3>1
  <2>6. /\ F[k] \in SUBSET M /\ IsFiniteSet(F[k]) /\ Cardinality(F[k]) = quota[k]
    BY <2>1, <2>3, <2>5, SmallestTakes
  <2> QED BY <2>4, <2>6
<1> HIDE DEF K
<1>9. GeoChosen(side) = Together(F, K)
  BY <1>3, <1>5 DEF Together
<1>10. Cardinality(GeoChosen(side)) = target
  <2>1. \A k \in K : IsFiniteSet(F[k]) /\ quota[k] = Cardinality(F[k])
    BY <1>8
  <2>2. \A k, m \in K : k # m => F[k] \cap F[m] = {}
    BY <1>8
  <2> QED BY <1>6, <1>7, <1>9, <2>1, <2>2, SumCounts
<1>11. GeoChosen(side) \in SUBSET pool
  BY <1>8, <1>9 DEF Together
<1>12. \A k \in DOMAIN F :
         /\ F[k] \in SUBSET {i \in pool : GeoStratum(i) = k}
         /\ Cardinality(F[k]) = quota[k]
  BY <1>5, <1>8
<1> QED BY <1>5, <1>10, <1>11, <1>12 DEF F, K, quota, pool

\* Both sides are fair, and share no user.
LEMMA GeoIsFair ==
  ASSUME HashIsANumber, RelationOK, dataset = "GeoLife", ~GeoFails
  PROVE  /\ \A side \in Sides : \A k \in DOMAIN Slices(side) :
              LET n == Cardinality(Pool(side))
                  slice == Slices(side)[k]
                  given == Cardinality(slice) * n - PoolSizes(Pool(side))[k] * target
              IN given > -n /\ given < n /\ \A i \in slice : GeoStratum(i) = k
         /\ \A side \in Sides : Cardinality(GeoChosen(side)) = target
         /\ {rows[i].user : i \in GeoChosen("R")}
              \intersect {rows[i].user : i \in GeoChosen("S")} = {}
<1>1. ASSUME NEW side \in Sides
      PROVE  target <= Cardinality(Pool(side)) /\ Pool(side) \in SUBSET Rows
  <2>1. Pool(side) \in SUBSET Rows
    BY DEF Pool
  <2>2. Cardinality(Pool(side)) \in Nat /\ target \in Nat
    BY <2>1, PoolParts DEF RelationOK
  <2>3. ~(Cardinality(Pool(side)) < target)
    BY DEF GeoFails
  <2> QED BY <2>1, <2>2, <2>3
<1>2. ASSUME NEW side \in Sides, NEW k \in DOMAIN Slices(side)
      PROVE  LET n == Cardinality(Pool(side))
                 slice == Slices(side)[k]
                 given == Cardinality(slice) * n - PoolSizes(Pool(side))[k] * target
             IN given > -n /\ given < n /\ \A i \in slice : GeoStratum(i) = k
  <2>1. /\ Slices(side)[k] \in SUBSET {i \in Pool(side) : GeoStratum(i) = k}
        /\ Cardinality(Slices(side)[k]) = Quotas(Pool(side))[k]
        /\ k \in Groups(Pool(side))
    BY <1>1, GeoSideIsFair
  <2>2. /\ Quotas(Pool(side))[k] * Cardinality(Pool(side))
             - PoolSizes(Pool(side))[k] * target > -Cardinality(Pool(side))
        /\ Quotas(Pool(side))[k] * Cardinality(Pool(side))
             - PoolSizes(Pool(side))[k] * target < Cardinality(Pool(side))
    BY <1>1, <2>1, QuotasFit
  <2> QED BY <2>1, <2>2
<1>3. \A side \in Sides : Cardinality(GeoChosen(side)) = target
                          /\ GeoChosen(side) \in SUBSET Pool(side)
  BY <1>1, GeoSideIsFair
<1>4. \A i \in GeoChosen("R") : UserSide(rows[i].user) = "R"
  BY <1>3 DEF Pool, Sides
<1>5. \A i \in GeoChosen("S") : UserSide(rows[i].user) = "S"
  BY <1>3 DEF Pool, Sides
<1>6. {rows[i].user : i \in GeoChosen("R")}
        \intersect {rows[i].user : i \in GeoChosen("S")} = {}
  <2>1. \A i \in GeoChosen("R") : \A j \in GeoChosen("S") : rows[i].user # rows[j].user
    BY <1>4, <1>5
  <2> QED BY <2>1
<1> QED BY <1>2, <1>3, <1>6

\* Every relation is halved or thinned fairly and to size, whatever its rows,
\* the target and the hashes: cmab_split_indices and select_geolife_indices.
THEOREM SharesAreAlwaysFair ==
  ASSUME HashIsANumber, EncodingIsExact
  PROVE  SelectSpec => []SharesAreFair
<1>1. RelationOK => SharesAreFair
  BY CmabIsFair, GeoIsFair DEF SharesAreFair
<1> QED BY <1>1, RelationIsTyped, PTL

-----------------------------------------------------------------------------
(* The same rows in another order.                                         *)

\* Each row of the new order is a row of the old one, and the reverse.
Involution(p, D) == p \in [D -> D] /\ \A j \in D : p[p[j]] = j
\* B holds the new places of the rows at the places of A.
Carries(p, D, A, B) ==
  A \in SUBSET D /\ B \in SUBSET D /\ \A j \in D : j \in B <=> p[j] \in A

LEMMA CarriedSize ==
  ASSUME NEW D, IsFiniteSet(D), NEW p, Involution(p, D), NEW A, NEW B, Carries(p, D, A, B)
  PROVE  IsFiniteSet(A) /\ IsFiniteSet(B) /\ Cardinality(B) = Cardinality(A)
<1> DEFINE f == [j \in B |-> p[j]]
<1>1. A \in SUBSET D /\ B \in SUBSET D /\ \A j \in D : j \in B <=> p[j] \in A
  BY DEF Carries
<1>2. p \in [D -> D] /\ \A j \in D : p[p[j]] = j
  BY DEF Involution
<1>3. f \in [B -> A] /\ \A j \in B : f[j] = p[j]
  BY <1>1
<1> HIDE DEF f
<1>4. \A x, y \in B : f[x] = f[y] => x = y
  BY <1>1, <1>2, <1>3
<1>5. ASSUME NEW y \in A
      PROVE  \E x \in B : f[x] = y
  <2>1. p[y] \in D /\ p[p[y]] = y /\ y \in D
    BY <1>1, <1>2
  <2>2. p[y] \in B
    BY <1>1, <2>1
  <2> QED BY <1>3, <2>1, <2>2
<1>6. IsFiniteSet(A) /\ IsFiniteSet(B)
  BY <1>1, Fewer
<1> QED BY <1>3, <1>4, <1>5, <1>6, SameNumber

LEMMA CarriedRank ==
  ASSUME NEW D, IsFiniteSet(D), NEW p, Involution(p, D), NEW A, NEW B, Carries(p, D, A, B),
         NEW keyA, NEW keyB, NEW x \in B,
         \A y \in B : Before(keyB[y], keyB[x]) <=> Before(keyA[p[y]], keyA[p[x]])
  PROVE  Rank(x, B, keyB) = Rank(p[x], A, keyA)
<1> DEFINE E == {y \in A : Before(keyA[y], keyA[p[x]])}
           F == {y \in B : Before(keyB[y], keyB[x])}
<1>1. Carries(p, D, E, F)
  BY DEF Carries
<1>2. Rank(x, B, keyB) = Cardinality(F) /\ Rank(p[x], A, keyA) = Cardinality(E)
  BY DEF Rank
<1> HIDE DEF E, F
<1> QED BY <1>1, <1>2, CarriedSize

LEMMA CarriedSmallest ==
  ASSUME NEW D, IsFiniteSet(D), NEW p, Involution(p, D), NEW A, NEW B, Carries(p, D, A, B),
         NEW keyA, NEW keyB,
         \A x, y \in B : Before(keyB[y], keyB[x]) <=> Before(keyA[p[y]], keyA[p[x]]), NEW n
  PROVE  Carries(p, D, Smallest(n, A, keyA), Smallest(n, B, keyB))
<1>1. \A x \in B : Rank(x, B, keyB) = Rank(p[x], A, keyA)
  BY CarriedRank
<1>2. A \in SUBSET D /\ B \in SUBSET D /\ \A j \in D : j \in B <=> p[j] \in A
  BY DEF Carries
<1>3. Smallest(n, A, keyA) = {x \in A : Rank(x, A, keyA) < n}
  BY DEF Smallest
<1>4. Smallest(n, B, keyB) = {x \in B : Rank(x, B, keyB) < n}
  BY DEF Smallest
<1>5. ASSUME NEW j \in D
      PROVE  j \in Smallest(n, B, keyB) <=> p[j] \in Smallest(n, A, keyA)
  <2>1. j \in B <=> p[j] \in A
    BY <1>2
  <2>2. j \in B => Rank(j, B, keyB) = Rank(p[j], A, keyA)
    BY <1>1
  <2> QED BY <1>3, <1>4, <2>1, <2>2
<1>6. Smallest(n, A, keyA) \in SUBSET D /\ Smallest(n, B, keyB) \in SUBSET D
  BY <1>2, <1>3, <1>4
<1> QED BY <1>5, <1>6 DEF Carries

\* What is read off the rows is the same set.
LEMMA CarriedImage ==
  ASSUME NEW D, NEW p, Involution(p, D), NEW A, NEW B, Carries(p, D, A, B), NEW f, NEW g,
         \A j \in B : g[j] = f[p[j]]
  PROVE  {g[j] : j \in B} = {f[j] : j \in A}
<1>1. A \in SUBSET D /\ B \in SUBSET D /\ \A j \in D : j \in B <=> p[j] \in A
  BY DEF Carries
<1>2. p \in [D -> D] /\ \A j \in D : p[p[j]] = j
  BY DEF Involution
<1>3. \A j \in B : p[j] \in A
  BY <1>1
<1>4. \A j \in A : p[j] \in B /\ p[p[j]] = j
  BY <1>1, <1>2
<1> QED BY <1>3, <1>4

\* Rows are published in another order.
Reordered(p) ==
  /\ RelationOK /\ RelationOK' /\ Rows' = Rows /\ Involution(p, Rows)
  /\ \A j \in Rows : rows'[j] = rows[p[j]]
  /\ UNCHANGED <<dataset, target, salt>>

LEMMA ReorderedFacts ==
  ASSUME NEW p, Reordered(p)
  PROVE  /\ IsFiniteSet(Rows) /\ Rows' = Rows /\ Involution(p, Rows)
         /\ Carries(p, Rows, Rows, Rows)
         /\ \A j \in Rows : p[j] \in Rows /\ p[p[j]] = j /\ rows'[j] = rows[p[j]]
         /\ dataset' = dataset /\ target' = target /\ salt' = salt
<1>1. IsFiniteSet(Rows)
  BY RowsAreNumbered DEF Reordered
<1>2. /\ Rows' = Rows /\ Involution(p, Rows)
      /\ \A j \in Rows : rows'[j] = rows[p[j]]
      /\ dataset' = dataset /\ target' = target /\ salt' = salt
  BY DEF Reordered
<1>3. \A j \in Rows : p[j] \in Rows /\ p[p[j]] = j
  BY <1>2 DEF Involution
<1>4. Carries(p, Rows, Rows, Rows)
  BY <1>3 DEF Carries
<1>5. \A j \in Rows : p[j] \in Rows /\ p[p[j]] = j /\ rows'[j] = rows[p[j]]
  BY <1>2, <1>3
<1> QED BY <1>1, <1>2, <1>4, <1>5

\* CMAB: identities follow the buildings.
LEMMA CmabIdsMove ==
  ASSUME NEW p, Reordered(p)
  PROVE  /\ CmabIdentityFails' <=> CmabIdentityFails
         /\ \A j \in Rows : CmabId'[j] = CmabId[p[j]]
         /\ \A j \in Rows : CmabKey'[j] = CmabKey[p[j]]
<1>1. /\ IsFiniteSet(Rows) /\ Rows' = Rows /\ Involution(p, Rows)
      /\ Carries(p, Rows, Rows, Rows)
      /\ \A j \in Rows : p[j] \in Rows /\ p[p[j]] = j /\ rows'[j] = rows[p[j]]
      /\ salt' = salt
  BY ReorderedFacts
<1>2. \A j \in Rows : SourceKey[j] = <<rows[j].file, rows[j].fid>>
  BY DEF SourceKey
<1>3. \A j \in Rows : SourceKey'[j] = SourceKey[p[j]]
  <2>1. \A j \in Rows : SourceKey'[j] = <<rows'[j].file, rows'[j].fid>>
    BY <1>1 DEF SourceKey
  <2> QED BY <1>1, <1>2, <2>1
<1>4. \A j \in Rows : CmabId'[j] = CmabId[p[j]]
  <2>1. \A j \in Rows : CmabId[j] = Rank(j, Rows, SourceKey)
    BY DEF CmabId
  <2>2. \A j \in Rows : CmabId'[j] = Rank(j, Rows, SourceKey')
    BY <1>1 DEF CmabId
  <2>3. \A x, y \in Rows :
          Before(SourceKey'[y], SourceKey'[x]) <=> Before(SourceKey[p[y]], SourceKey[p[x]])
    BY <1>3
  <2> DEFINE old == SourceKey
             new == SourceKey'
  <2>4. \A j \in Rows : Rank(j, Rows, new) = Rank(p[j], Rows, old)
    <3> HIDE DEF old, new
    <3>1. /\ IsFiniteSet(Rows) /\ Involution(p, Rows) /\ Carries(p, Rows, Rows, Rows)
      BY <1>1
    <3>2. ASSUME NEW j \in Rows
          PROVE  Rank(j, Rows, new) = Rank(p[j], Rows, old)
      <4>1. \A y \in Rows : Before(new[y], new[j]) <=> Before(old[p[y]], old[p[j]])
        BY <2>3 DEF old, new
      <4> QED BY <3>1, <4>1, CarriedRank
    <3> QED BY <3>2
  <2> QED BY <1>1, <2>1, <2>2, <2>4
<1>5. \A j \in Rows : CmabKey'[j] = CmabKey[p[j]]
  <2>1. \A j \in Rows : CmabKey[j] = <<Hash(salt, <<CmabId[j]>>), CmabId[j]>>
    BY DEF CmabKey
  <2>2. \A j \in Rows : CmabKey'[j] = <<Hash(salt, <<CmabId'[j]>>), CmabId'[j]>>
    BY <1>1 DEF CmabKey
  <2>3. ASSUME NEW j \in Rows
        PROVE  CmabKey'[j] = CmabKey[p[j]]
    <3>1. p[j] \in Rows /\ CmabId'[j] = CmabId[p[j]]
      BY <1>1, <1>4
    <3> QED BY <2>1, <2>2, <3>1
  <2> QED BY <2>3
<1>6. CmabIdentityFails' <=> CmabIdentityFails
  <2>1. rows = <<>> <=> Rows = {}
    BY DEF Reordered, RelationOK, Rows
  <2>2. rows' = <<>> <=> Rows' = {}
    BY DEF Reordered, RelationOK, Rows
  <2>3. (\E i \in Rows : rows'[i].file = EmptyText \/ rows'[i].fid < 0)
          <=> (\E i \in Rows : rows[i].file = EmptyText \/ rows[i].fid < 0)
    <3>1. ASSUME NEW i \in Rows, rows'[i].file = EmptyText \/ rows'[i].fid < 0
          PROVE  \E j \in Rows : rows[j].file = EmptyText \/ rows[j].fid < 0
      BY <1>1, <3>1
    <3>2. ASSUME NEW i \in Rows, rows[i].file = EmptyText \/ rows[i].fid < 0
          PROVE  \E j \in Rows : rows'[j].file = EmptyText \/ rows'[j].fid < 0
      <4>1. p[i] \in Rows /\ rows'[p[i]] = rows[i]
        BY <1>1
      <4> QED BY <3>2, <4>1
    <3> QED BY <3>1, <3>2
  <2>4. (\E i, j \in Rows : i # j /\ SourceKey'[i] = SourceKey'[j])
          <=> (\E i, j \in Rows : i # j /\ SourceKey[i] = SourceKey[j])
    <3>1. ASSUME NEW i \in Rows, NEW j \in Rows, i # j, SourceKey'[i] = SourceKey'[j]
          PROVE  \E k, l \in Rows : k # l /\ SourceKey[k] = SourceKey[l]
      <4>1. p[i] \in Rows /\ p[j] \in Rows /\ p[i] # p[j]
        BY <1>1, <3>1
      <4> QED BY <1>3, <3>1, <4>1
    <3>2. ASSUME NEW i \in Rows, NEW j \in Rows, i # j, SourceKey[i] = SourceKey[j]
          PROVE  \E k, l \in Rows : k # l /\ SourceKey'[k] = SourceKey'[l]
      <4>1. p[i] \in Rows /\ p[j] \in Rows /\ p[i] # p[j]
            /\ SourceKey'[p[i]] = SourceKey[i] /\ SourceKey'[p[j]] = SourceKey[j]
        BY <1>1, <1>3, <3>2
      <4> QED BY <3>2, <4>1
    <3> QED BY <3>1, <3>2
  <2>5. CmabIdentityFails <=>
          \/ Rows = {}
          \/ \E i \in Rows : rows[i].file = EmptyText \/ rows[i].fid < 0
          \/ \E i, j \in Rows : i # j /\ SourceKey[i] = SourceKey[j]
    BY <2>1 DEF CmabIdentityFails
  <2>6. CmabIdentityFails' <=>
          \/ Rows = {}
          \/ \E i \in Rows : rows'[i].file = EmptyText \/ rows'[i].fid < 0
          \/ \E i, j \in Rows : i # j /\ SourceKey'[i] = SourceKey'[j]
    <3>1. CmabIdentityFails' <=>
          \/ rows' = <<>>
          \/ \E i \in Rows' : rows'[i].file = EmptyText \/ rows'[i].fid < 0
          \/ \E i, j \in Rows' : i # j /\ SourceKey'[i] = SourceKey'[j]
      BY DEF CmabIdentityFails, EmptyText
    <3> QED BY <1>1, <2>2, <3>1
  <2> QED BY <2>3, <2>4, <2>5, <2>6
<1> QED BY <1>4, <1>5, <1>6

\* CMAB: strata and their quotas stay, their members move.
LEMMA CmabStrataMove ==
  ASSUME NEW p, Reordered(p)
  PROVE  /\ CmabStrata' = CmabStrata
         /\ \A k : Carries(p, Rows, CmabMembers(k), CmabMembers(k)')
         /\ \A k : Cardinality(CmabMembers(k)') = Cardinality(CmabMembers(k))
<1>1. /\ IsFiniteSet(Rows) /\ Rows' = Rows /\ Involution(p, Rows)
      /\ Carries(p, Rows, Rows, Rows)
      /\ \A j \in Rows : p[j] \in Rows /\ p[p[j]] = j /\ rows'[j] = rows[p[j]]
  BY ReorderedFacts
<1> DEFINE old == [j \in Rows |-> CmabStratum(j)]
           new == [j \in Rows |-> CmabStratum(j)']
<1>2. \A j \in Rows : new[j] = old[p[j]]
  <2>1. \A j \in Rows : CmabStratum(j)' = CmabStratum(p[j])
    BY <1>1 DEF CmabStratum
  <2> QED BY <1>1, <2>1
<1>3. CmabStrata = {old[j] : j \in Rows}
  BY DEF CmabStrata
<1>4. CmabStrata' = {new[j] : j \in Rows}
  BY <1>1 DEF CmabStrata
<1>5. \A k : CmabMembers(k) = {j \in Rows : old[j] = k}
  BY DEF CmabMembers
<1>6. \A k : CmabMembers(k)' = {j \in Rows : new[j] = k}
  BY <1>1 DEF CmabMembers
<1> HIDE DEF old, new
<1>7. CmabStrata' = CmabStrata
  BY <1>1, <1>2, <1>3, <1>4, CarriedImage
<1>8. ASSUME NEW k
      PROVE  Carries(p, Rows, CmabMembers(k), CmabMembers(k)')
  BY <1>1, <1>2, <1>5, <1>6 DEF Carries
<1>9. ASSUME NEW k
      PROVE  Cardinality(CmabMembers(k)') = Cardinality(CmabMembers(k))
  BY <1>1, <1>8, CarriedSize
<1> QED BY <1>7, <1>8, <1>9

LEMMA CmabQuotasMove ==
  ASSUME NEW p, Reordered(p)
  PROVE  /\ Odd' = Odd /\ Missing' = Missing
         /\ \A k : CmabQuota(k)' = CmabQuota(k)
         /\ CmabFails' <=> CmabFails
<1>1. target' = target /\ salt' = salt
  BY ReorderedFacts
<1>2. /\ CmabStrata' = CmabStrata
      /\ \A k : Cardinality(CmabMembers(k)') = Cardinality(CmabMembers(k))
  BY CmabStrataMove
<1>3. Odd' = Odd
  BY <1>2 DEF Odd
<1>4. Missing' = Missing
  <2> DEFINE old == [k \in CmabStrata |-> Cardinality(CmabMembers(k)) \div 2]
             new == [k \in CmabStrata |-> Cardinality(CmabMembers(k)') \div 2]
  <2>1. new = old
    BY <1>2
  <2>2. Missing = target - Sum(old, CmabStrata)
    BY DEF Missing
  <2>3. Missing' = target - Sum(new, CmabStrata)
    BY <1>1, <1>2 DEF Missing
  <2> HIDE DEF old, new
  <2> QED BY <2>1, <2>2, <2>3
<1>5. Rounded' = Rounded
  <2> DEFINE key == [k \in Odd |-> <<Hash(salt, k), Canonical(k)>>]
  <2>1. Rounded = Smallest(Missing, Odd, key)
    BY DEF Rounded
  <2>2. Rounded' = Smallest(Missing, Odd, key)
    BY <1>1, <1>3, <1>4 DEF Rounded
  <2> QED BY <2>1, <2>2
<1>6. ASSUME NEW k
      PROVE  CmabQuota(k)' = CmabQuota(k)
  BY <1>2, <1>5 DEF CmabQuota
<1>7. CmabFails' <=> CmabFails
  BY <1>3, <1>4, CmabIdsMove DEF CmabFails
<1> QED BY <1>3, <1>4, <1>6, <1>7

LEMMA CmabChoiceStays ==
  ASSUME NEW p, Reordered(p), dataset = "CMAB"
  PROVE  Choice' = Choice
<1>1. /\ IsFiniteSet(Rows) /\ Rows' = Rows /\ Involution(p, Rows)
      /\ Carries(p, Rows, Rows, Rows) /\ dataset' = dataset
      /\ \A j \in Rows : p[j] \in Rows /\ p[p[j]] = j /\ rows'[j] = rows[p[j]]
  BY ReorderedFacts
<1>2. CmabFails' <=> CmabFails
  BY CmabQuotasMove
<1>3. ASSUME NEW j \in Rows
      PROVE  j \in CmabR' <=> p[j] \in CmabR
  <2> DEFINE old == CmabKey
             new == CmabKey'
             Taken(k)    == Smallest(CmabQuota(k), CmabMembers(k), CmabKey)
             TakenNew(k) == Smallest(CmabQuota(k), CmabMembers(k)', CmabKey')
  <2>1. \A x \in Rows : new[x] = old[p[x]]
    BY CmabIdsMove
  <2>2. ASSUME NEW k
        PROVE  Carries(p, Rows, Taken(k), TakenNew(k))
    <3> DEFINE A == CmabMembers(k)
               B == CmabMembers(k)'
               n == CmabQuota(k)
    <3>1. Carries(p, Rows, A, B)
      BY CmabStrataMove
    <3>2. B \in SUBSET Rows
      BY <3>1 DEF Carries
    <3> HIDE DEF old, new, A, B, n
    <3>3. \A x, y \in B : Before(new[y], new[x]) <=> Before(old[p[y]], old[p[x]])
      BY <2>1, <3>2
    <3>4. Carries(p, Rows, Smallest(n, A, old), Smallest(n, B, new))
      BY <1>1, <3>1, <3>3, CarriedSmallest
    <3> QED BY <3>4 DEF A, B, n, old, new
  <2>3. CmabR = UNION {Taken(k) : k \in CmabStrata}
    BY DEF CmabR
  <2>4. CmabR' = UNION {TakenNew(k) : k \in CmabStrata}
    <3>1. CmabStrata' = CmabStrata /\ \A k : CmabQuota(k)' = CmabQuota(k)
      BY CmabStrataMove, CmabQuotasMove
    <3>2. CmabR' = UNION {Smallest(CmabQuota(k)', CmabMembers(k)', CmabKey') : k \in CmabStrata'}
      BY DEF CmabR
    <3> QED BY <3>1, <3>2
  <2> HIDE DEF Taken, TakenNew
  <2>5. \A k : j \in TakenNew(k) <=> p[j] \in Taken(k)
    BY <2>2 DEF Carries
  <2> QED BY <2>3, <2>4, <2>5
<1> DEFINE f == [j \in Rows |-> <<CmabId[j], rows[j], j \in CmabR>>]
           g == [j \in Rows |-> <<CmabId'[j], rows'[j], j \in CmabR'>>]
<1>4. ASSUME NEW j \in Rows
      PROVE  g[j] = f[p[j]]
  <2>1. CmabId'[j] = CmabId[p[j]]
    BY CmabIdsMove
  <2>2. rows'[j] = rows[p[j]] /\ p[j] \in Rows
    BY <1>1
  <2>3. (j \in CmabR') = (p[j] \in CmabR)
    BY <1>3
  <2>4. g[j] = <<CmabId'[j], rows'[j], j \in CmabR'>>
    OBVIOUS
  <2>5. f[p[j]] = <<CmabId[p[j]], rows[p[j]], p[j] \in CmabR>>
    BY <2>2
  <2> HIDE DEF f, g
  <2> QED BY <2>1, <2>2, <2>3, <2>4, <2>5, Zenon
<1>5. ~CmabFails => Choice = {f[j] : j \in Rows}
  BY DEF Choice
<1>6. ~CmabFails => Choice' = {g[j] : j \in Rows}
  BY <1>1, <1>2 DEF Choice
<1>7. CmabFails => Choice = {}
  BY DEF Choice
<1>8. CmabFails => Choice' = {}
  BY <1>1, <1>2 DEF Choice
<1> HIDE DEF f, g
<1>9. {g[j] : j \in Rows} = {f[j] : j \in Rows}
  BY <1>1, <1>4, CarriedImage
<1> QED BY <1>5, <1>6, <1>7, <1>8, <1>9

\* GeoLife: users and pools, strata and their sizes.
LEMMA PoolsMove ==
  ASSUME NEW p, Reordered(p)
  PROVE  /\ \A side : Carries(p, Rows, Pool(side), Pool(side)')
         /\ \A side : Cardinality(Pool(side)') = Cardinality(Pool(side))
<1>1. /\ IsFiniteSet(Rows) /\ Rows' = Rows /\ Involution(p, Rows)
      /\ Carries(p, Rows, Rows, Rows) /\ salt' = salt
      /\ \A j \in Rows : p[j] \in Rows /\ p[p[j]] = j /\ rows'[j] = rows[p[j]]
  BY ReorderedFacts
<1> DEFINE old == [j \in Rows |-> rows[j].user]
           new == [j \in Rows |-> rows'[j].user]
<1>2. \A j \in Rows : new[j] = old[p[j]]
  BY <1>1
<1>3. Users = {old[j] : j \in Rows}
  BY DEF Users
<1>4. Users' = {new[j] : j \in Rows}
  BY <1>1 DEF Users
<1> HIDE DEF old, new
<1>5. Users' = Users
  BY <1>1, <1>2, <1>3, <1>4, CarriedImage
<1>6. ASSUME NEW u
      PROVE  UserSide(u)' = UserSide(u)
  BY <1>1, <1>5 DEF UserSide
<1>7. ASSUME NEW side
      PROVE  Carries(p, Rows, Pool(side), Pool(side)')
  <2>1. Pool(side) = {j \in Rows : UserSide(rows[j].user) = side}
    BY DEF Pool
  <2>2. Pool(side)' = {j \in Rows : UserSide(rows[p[j]].user) = side}
    <3>1. Pool(side)' = {j \in Rows' : UserSide(rows[j].user)' = side}
      BY DEF Pool
    <3>2. \A j \in Rows : UserSide(rows[j].user)' = UserSide(rows[p[j]].user)
      <4>1. \A j \in Rows : UserSide(rows[j].user)' = UserSide(rows'[j].user)
        BY <1>1, <1>5 DEF UserSide
      <4> QED BY <1>1, <4>1
    <3> QED BY <1>1, <3>1, <3>2
  <2> QED BY <1>1, <2>1, <2>2 DEF Carries
<1>8. ASSUME NEW side
      PROVE  Cardinality(Pool(side)') = Cardinality(Pool(side))
  BY <1>1, <1>7, CarriedSize
<1> QED BY <1>7, <1>8

LEMMA GeoRowsMove ==
  ASSUME NEW p, Reordered(p), NEW j \in Rows
  PROVE  /\ GeoStratum(j)' = GeoStratum(p[j])
         /\ PointKey(j)' = PointKey(p[j])
         /\ Priority(j)' = Priority(p[j])
<1>1. rows'[j] = rows[p[j]] /\ salt' = salt
  BY ReorderedFacts
<1>2. GeoStratum(j)' = GeoStratum(p[j])
  BY <1>1 DEF GeoStratum
<1>3. PointKey(j)' = PointKey(p[j])
  BY <1>1 DEF PointKey
<1>4. Priority(j)' = Priority(p[j])
  BY <1>1, <1>3 DEF Priority
<1> QED BY <1>2, <1>3, <1>4

LEMMA GroupsMove ==
  ASSUME NEW p, Reordered(p), NEW side
  PROVE  /\ Groups(Pool(side))' = Groups(Pool(side))
         /\ \A k : Carries(p, Rows, {i \in Pool(side) : GeoStratum(i) = k},
                                    {i \in Pool(side)' : GeoStratum(i)' = k})
         /\ PoolSizes(Pool(side))' = PoolSizes(Pool(side))
<1> DEFINE A == Pool(side)
           B == Pool(side)'
           old == [j \in Rows |-> GeoStratum(j)]
           new == [j \in Rows |-> GeoStratum(j)']
           K == Groups(A)
<1>1. IsFiniteSet(Rows) /\ Involution(p, Rows) /\ \A j \in Rows : p[j] \in Rows
  BY ReorderedFacts
<1>2. Carries(p, Rows, A, B)
  BY PoolsMove
<1>3. A \in SUBSET Rows /\ B \in SUBSET Rows /\ \A j \in Rows : j \in B <=> p[j] \in A
  BY <1>2 DEF Carries
<1>4. /\ \A j \in Rows : new[j] = old[p[j]]
      /\ \A j \in Rows : old[j] = GeoStratum(j) /\ new[j] = GeoStratum(j)'
  BY <1>1, GeoRowsMove
<1>5. Groups(A) = {old[j] : j \in A}
  BY <1>3 DEF Groups
<1>6. Groups(Pool(side))' = {new[j] : j \in B}
  BY <1>3 DEF Groups
<1>7. Groups(Pool(side))' = Groups(A)
  <2> HIDE DEF A, B, old, new
  <2>1. \A j \in B : p[j] \in A /\ new[j] = old[p[j]]
    BY <1>3, <1>4
  <2>2. \A j \in A : p[j] \in B /\ new[p[j]] = old[j]
    <3>1. \A j \in Rows : p[p[j]] = j
      BY <1>1 DEF Involution
    <3> QED BY <1>1, <1>3, <1>4, <3>1
  <2>3. {new[j] : j \in B} = {old[j] : j \in A}
    BY <2>1, <2>2
  <2> QED BY <1>5, <1>6, <2>3
<1> DEFINE M(k) == {i \in Pool(side) : GeoStratum(i) = k}
           N(k) == {i \in Pool(side)' : GeoStratum(i)' = k}
<1>8. ASSUME NEW k
      PROVE  Carries(p, Rows, M(k), N(k))
  BY <1>1, <1>3, <1>4 DEF Carries
<1>9. PoolSizes(A) = [k \in K |-> Cardinality(M(k))]
  BY DEF PoolSizes
<1>10. PoolSizes(Pool(side))' = [k \in Groups(Pool(side))' |-> Cardinality(N(k))]
  BY DEF PoolSizes
<1>11. PoolSizes(Pool(side))' = [k \in K |-> Cardinality(N(k))]
  BY <1>7, <1>10
<1> HIDE DEF M, N
<1>12. \A k : Cardinality(N(k)) = Cardinality(M(k))
  BY <1>1, <1>8, CarriedSize
<1>13. PoolSizes(Pool(side))' = PoolSizes(A)
  BY <1>9, <1>11, <1>12
<1> QED BY <1>7, <1>8, <1>13 DEF M, N

LEMMA GeoQuotasMove ==
  ASSUME NEW p, Reordered(p), NEW side
  PROVE  Quotas(Pool(side))' = Quotas(Pool(side))
<1> DEFINE K == Groups(Pool(side))
           n == Cardinality(Pool(side))
           size == PoolSizes(Pool(side))
           share == [k \in K |-> (size[k] * target) \div n]
           key   == [k \in K |-> <<-((size[k] * target) % n), Hash(salt, k)>> \o k]
           more  == Smallest(target - Sum(share, K), K, key)
<1>1. target' = target /\ salt' = salt
  BY ReorderedFacts
<1>2. Groups(Pool(side))' = K /\ PoolSizes(Pool(side))' = size
      /\ Cardinality(Pool(side)') = n
  BY GroupsMove, PoolsMove
<1>3. Quotas(Pool(side)) = [k \in K |-> share[k] + IF k \in more THEN 1 ELSE 0]
  BY DEF Quotas
<1>4. Quotas(Pool(side))' = [k \in K |-> share[k] + IF k \in more THEN 1 ELSE 0]
  BY <1>1, <1>2 DEF Quotas
<1> QED BY <1>3, <1>4

\* Keys that differ before their last number are compared without it.
LEMMA LastIsIdle ==
  ASSUME NEW a \in [1 .. 7 -> Int], NEW b \in [1 .. 7 -> Int],
         NEW c \in [1 .. 7 -> Int], NEW d \in [1 .. 7 -> Int],
         \A j \in 1 .. 6 : a[j] = c[j], \A j \in 1 .. 6 : b[j] = d[j],
         a[5] # b[5] \/ a[6] # b[6], Before(a, b)
  PROVE  Before(c, d)
<1>1. PICK m \in 1 .. 7 : a[m] < b[m] /\ \A l \in 1 .. m - 1 : a[l] = b[l]
  BY DEF Before
<1>2. m \in 1 .. 6
  BY <1>1
<1>3. c[m] < d[m] /\ \A l \in 1 .. m - 1 : c[l] = d[l]
  BY <1>1, <1>2
<1>4. m \in DOMAIN c
  OBVIOUS
<1> QED BY <1>3, <1>4 DEF Before

LEMMA GeoKeysMove ==
  ASSUME HashIsANumber, NEW p, Reordered(p), dataset = "GeoLife", PointsAreUnique,
         NEW x \in Rows, NEW y \in Rows
  PROVE  Before(GeoKey'[x], GeoKey'[y]) <=> Before(GeoKey[p[x]], GeoKey[p[y]])
<1>1. /\ Rows' = Rows /\ RelationOK
      /\ \A j \in Rows : p[j] \in Rows /\ p[p[j]] = j
  BY ReorderedFacts DEF Reordered
<1>2. \A j \in Rows : j \in Int
  BY <1>1, RowsAreNumbered
<1> DEFINE Beginning(j) == (GeoStratum(j) \o <<Priority(j)>>) \o PointKey(j)
<1>3. ASSUME NEW j \in Rows
      PROVE  /\ GeoKey[j] \in [1 .. 7 -> Int]
             /\ \A l \in 1 .. 6 : GeoKey[j][l] = Beginning(j)[l]
             /\ GeoKey[j][5] = PointKey(j)[1] /\ GeoKey[j][6] = PointKey(j)[2]
  BY <1>1, GeoKeyFacts DEF Beginning
<1>4. ASSUME NEW j \in Rows
      PROVE  /\ GeoKey'[j] \in [1 .. 7 -> Int]
             /\ \A l \in 1 .. 6 : GeoKey'[j][l] = Beginning(p[j])[l]
  <2>1. GeoKey'[j] = ((GeoStratum(j)' \o <<Priority(j)'>>) \o PointKey(j)') \o <<j>>
    BY <1>1 DEF GeoKey
  <2>2. GeoKey'[j] = Beginning(p[j]) \o <<j>>
    BY <2>1, GeoRowsMove
  <2>3. /\ GeoStratum(p[j]) \in [1 .. 3 -> Int] /\ Priority(p[j]) \in Int
        /\ PointKey(p[j]) \in [1 .. 2 -> Int] /\ j \in Int
    BY <1>1, <1>2, GeoRowFacts
  <2>4. IsLongKey(GeoKey'[j], GeoStratum(p[j]), Priority(p[j]), PointKey(p[j]), j)
    BY <2>2, <2>3, LongKey
  <2> QED BY <2>4 DEF IsLongKey
<1> HIDE DEF Beginning
<1> DEFINE a == GeoKey'[x]
           b == GeoKey'[y]
           c == GeoKey[p[x]]
           d == GeoKey[p[y]]
<1>5. /\ a \in [1 .. 7 -> Int] /\ b \in [1 .. 7 -> Int] /\ c \in [1 .. 7 -> Int]
      /\ d \in [1 .. 7 -> Int]
      /\ \A j \in 1 .. 6 : a[j] = c[j]
      /\ \A j \in 1 .. 6 : b[j] = d[j]
  BY <1>1, <1>3, <1>4
<1>6. CASE x = y
  <2>1. a = b /\ c = d
    BY <1>6
  <2> HIDE DEF a, b, c, d
  <2>2. ~Before(a, a) /\ ~Before(c, c)
    BY <1>5 DEF Before
  <2> QED BY <2>1, <2>2 DEF a, b, c, d
<1>7. CASE x # y
  <2>1. PointKey(p[x]) # PointKey(p[y])
    BY <1>1, <1>7 DEF PointsAreUnique
  <2>2. PointKey(p[x]) \in [1 .. 2 -> Int] /\ PointKey(p[y]) \in [1 .. 2 -> Int]
    BY <1>1, GeoRowFacts
  <2>3. PointKey(p[x])[1] # PointKey(p[y])[1] \/ PointKey(p[x])[2] # PointKey(p[y])[2]
    <3>1. \A j \in 1 .. 2 : j = 1 \/ j = 2
      OBVIOUS
    <3> QED BY <2>1, <2>2, <3>1, SameTuple
  <2>4. c[5] # d[5] \/ c[6] # d[6]
    BY <1>1, <1>3, <2>3
  <2> HIDE DEF a, b, c, d
  <2>5. a[5] # b[5] \/ a[6] # b[6]
    BY <1>5, <2>4
  <2>6. Before(a, b) => Before(c, d)
    BY <1>5, <2>5, LastIsIdle
  <2>7. Before(c, d) => Before(a, b)
    BY <1>5, <2>4, LastIsIdle
  <2> QED BY <2>6, <2>7 DEF a, b, c, d
<1> QED BY <1>6, <1>7

\* A slice starts where it did, and takes the same rows.
LEMMA SlicesMove ==
  ASSUME HashIsANumber, NEW p, Reordered(p), dataset = "GeoLife", PointsAreUnique,
         NEW side, NEW k \in Groups(Pool(side)), NEW quota
  PROVE  Carries(p, Rows, Slice(Pool(side), k, quota), Slice(Pool(side), k, quota)')
<1> DEFINE A == Pool(side)
           B == Pool(side)'
           old == GeoKey
           new == GeoKey'
           M == {i \in A : GeoStratum(i) = k}
           N == {i \in B : GeoStratum(i)' = k}
<1>1. IsFiniteSet(Rows) /\ Involution(p, Rows) /\ \A j \in Rows : p[j] \in Rows /\ p[p[j]] = j
  BY ReorderedFacts
<1>2. Carries(p, Rows, A, B) /\ Carries(p, Rows, M, N)
  BY PoolsMove, GroupsMove
<1>3. \A x, y \in Rows : Before(new[x], new[y]) <=> Before(old[p[x]], old[p[y]])
  BY GeoKeysMove
<1>4. Slice(Pool(side), k, quota) =
        {i \in A : Rank(i, A, old) \in Min({Rank(j, A, old) : j \in M}) ..
                                         Min({Rank(j, A, old) : j \in M}) + quota - 1}
  BY DEF Slice
<1>5. Slice(Pool(side), k, quota)' =
        {i \in B : Rank(i, B, new) \in Min({Rank(j, B, new) : j \in N}) ..
                                         Min({Rank(j, B, new) : j \in N}) + quota - 1}
  BY DEF Slice
<1>6. M \in SUBSET A /\ N \in SUBSET B
  OBVIOUS
<1> HIDE DEF A, B, old, new, M, N
<1>7. A \in SUBSET Rows /\ B \in SUBSET Rows /\ \A j \in Rows : j \in B <=> p[j] \in A
  BY <1>2 DEF Carries
<1>8. M \in SUBSET Rows /\ N \in SUBSET Rows /\ \A j \in Rows : j \in N <=> p[j] \in M
  BY <1>2 DEF Carries
<1>9. ASSUME NEW x \in B
      PROVE  Rank(x, B, new) = Rank(p[x], A, old)
  <2>1. \A y \in B : Before(new[y], new[x]) <=> Before(old[p[y]], old[p[x]])
    BY <1>3, <1>7
  <2> QED BY <1>1, <1>2, <2>1, CarriedRank
<1>10. {Rank(j, B, new) : j \in N} = {Rank(j, A, old) : j \in M}
  <2>1. \A j \in N : p[j] \in M /\ Rank(j, B, new) = Rank(p[j], A, old)
    BY <1>6, <1>8, <1>9
  <2>2. \A j \in M : p[j] \in N /\ Rank(p[j], B, new) = Rank(j, A, old)
    BY <1>1, <1>6, <1>8, <1>9
  <2> QED BY <2>1, <2>2
<1> DEFINE T == Min({Rank(j, A, old) : j \in M}) .. Min({Rank(j, A, old) : j \in M}) + quota - 1
<1>11. Slice(Pool(side), k, quota) = {i \in A : Rank(i, A, old) \in T}
  BY <1>4
<1>12. Slice(Pool(side), k, quota)' = {i \in B : Rank(i, B, new) \in T}
  BY <1>5, <1>10
<1> HIDE DEF T
<1> QED BY <1>7, <1>9, <1>11, <1>12 DEF Carries

LEMMA GeoSidesMove ==
  ASSUME HashIsANumber, NEW p, Reordered(p), dataset = "GeoLife", PointsAreUnique, NEW side
  PROVE  Carries(p, Rows, GeoChosen(side), GeoChosen(side)')
<1> DEFINE K == Groups(Pool(side))
           Old(k) == Slices(side)[k]
           New(k) == Slices(side)'[k]
<1>1. Groups(Pool(side))' = K /\ Quotas(Pool(side))' = Quotas(Pool(side))
  BY GroupsMove, GeoQuotasMove
<1>2. Slices(side) = [k \in K |-> Slice(Pool(side), k, Quotas(Pool(side))[k])]
  BY DEF Slices
<1>3. ASSUME NEW k \in K
      PROVE  Carries(p, Rows, Old(k), New(k))
  <2>1. PICK quota : quota = Quotas(Pool(side))[k]
    OBVIOUS
  <2>2. Old(k) = Slice(Pool(side), k, quota)
    BY <1>2, <2>1
  <2>3. New(k) = Slice(Pool(side), k, quota)'
    <3>1. Quotas(Pool(side))'[k] = quota
      BY <1>1, <2>1
    <3> QED BY <1>1, <3>1 DEF Slices, Slice
  <2>4. Carries(p, Rows, Slice(Pool(side), k, quota), Slice(Pool(side), k, quota)')
    BY SlicesMove
  <2> QED BY <2>2, <2>3, <2>4
<1>4. DOMAIN Slices(side) = K
  BY <1>2
<1>5. DOMAIN Slices(side)' = K
  BY <1>1 DEF Slices
<1>6. GeoChosen(side) = UNION {Old(k) : k \in K}
  BY <1>4 DEF GeoChosen
<1>7. GeoChosen(side)' = UNION {New(k) : k \in K}
  BY <1>5 DEF GeoChosen
<1> HIDE DEF K, Old, New
<1>8. \A k \in K : /\ Old(k) \in SUBSET Rows /\ New(k) \in SUBSET Rows
                   /\ \A j \in Rows : j \in New(k) <=> p[j] \in Old(k)
  BY <1>3 DEF Carries
<1> QED BY <1>6, <1>7, <1>8 DEF Carries

LEMMA GeoChoiceStays ==
  ASSUME HashIsANumber, NEW p, Reordered(p), dataset = "GeoLife", PointsAreUnique
  PROVE  Choice' = Choice
<1>1. /\ IsFiniteSet(Rows) /\ Rows' = Rows /\ Involution(p, Rows)
      /\ dataset' = dataset /\ target' = target
      /\ \A j \in Rows : p[j] \in Rows /\ p[p[j]] = j /\ rows'[j] = rows[p[j]]
  BY ReorderedFacts
<1> DEFINE A == GeoSelected
           B == GeoSelected'
           R == GeoChosen("R")
           S == GeoChosen("R")'
<1>2. Carries(p, Rows, R, S)
  BY GeoSidesMove
<1>3. Carries(p, Rows, A, B)
  <2>1. Carries(p, Rows, GeoChosen("S"), GeoChosen("S")')
    BY GeoSidesMove
  <2> QED BY <1>2, <2>1 DEF Carries, GeoSelected
<1>4. A \in SUBSET Rows /\ B \in SUBSET Rows /\ \A j \in Rows : j \in B <=> p[j] \in A
  BY <1>3 DEF Carries
<1>5. \A j \in Rows : PointKey(j)' = PointKey(p[j])
  BY GeoRowsMove
<1>6. GeoFails' <=> GeoFails
  <2>1. \A side : Cardinality(Pool(side)') = Cardinality(Pool(side))
    BY PoolsMove
  <2>2. (\E i, j \in B : i # j /\ PointKey(i)' = PointKey(j)')
          <=> (\E i, j \in A : i # j /\ PointKey(i) = PointKey(j))
    <3> HIDE DEF A, B
    <3>1. ASSUME NEW i \in B, NEW j \in B, i # j, PointKey(i)' = PointKey(j)'
          PROVE  \E x, y \in A : x # y /\ PointKey(x) = PointKey(y)
      <4>1. p[i] \in A /\ p[j] \in A /\ p[i] # p[j]
        BY <1>1, <1>4, <3>1
      <4>2. PointKey(p[i]) = PointKey(p[j])
        BY <1>4, <1>5, <3>1
      <4> QED BY <4>1, <4>2
    <3>2. ASSUME NEW i \in A, NEW j \in A, i # j, PointKey(i) = PointKey(j)
          PROVE  \E x, y \in B : x # y /\ PointKey(x)' = PointKey(y)'
      <4>1. /\ p[i] \in B /\ p[j] \in B /\ p[i] # p[j]
            /\ p[p[i]] = i /\ p[p[j]] = j /\ p[i] \in Rows /\ p[j] \in Rows
        BY <1>1, <1>4, <3>2
      <4>2. PointKey(p[i])' = PointKey(p[j])'
        BY <1>5, <3>2, <4>1
      <4> QED BY <4>1, <4>2
    <3> QED BY <3>1, <3>2
  <2>3. GeoFails <=> \/ \E side \in Sides : Cardinality(Pool(side)) < target
                     \/ \E i, j \in A : i # j /\ PointKey(i) = PointKey(j)
    BY DEF GeoFails
  <2>4. GeoFails' <=> \/ \E side \in Sides : Cardinality(Pool(side)') < target
                      \/ \E i, j \in B : i # j /\ PointKey(i)' = PointKey(j)'
    BY <1>1 DEF GeoFails, Sides
  <2> QED BY <2>1, <2>2, <2>3, <2>4
<1> DEFINE f == [j \in A |-> <<GeoId[j], rows[j], j \in R>>]
           g == [j \in B |-> <<GeoId'[j], rows'[j], j \in S>>]
           old == [j \in A |-> PointKey(j)]
           new == [j \in B |-> PointKey(j)']
<1>7. ASSUME NEW j \in B
      PROVE  GeoId'[j] = GeoId[p[j]]
  <2>1. GeoId = [i \in A |-> Rank(i, A, old)]
    BY DEF GeoId
  <2>2. GeoId' = [i \in B |-> Rank(i, B, new)]
    BY DEF GeoId
  <2>3. \A i \in B : new[i] = old[p[i]]
    <3> HIDE DEF A, B
    <3> QED BY <1>4, <1>5
  <2> HIDE DEF A, B, old, new
  <2>4. \A y \in B : Before(new[y], new[j]) <=> Before(old[p[y]], old[p[j]])
    BY <2>3
  <2>5. Rank(j, B, new) = Rank(p[j], A, old)
    BY <1>1, <1>3, <2>4, CarriedRank
  <2>6. p[j] \in A
    BY <1>4
  <2> QED BY <2>1, <2>2, <2>5, <2>6
<1>8. ASSUME NEW j \in B
      PROVE  g[j] = f[p[j]]
  <2>1. p[j] \in A /\ rows'[j] = rows[p[j]]
    BY <1>1, <1>4
  <2>2. (j \in S) = (p[j] \in R)
    BY <1>2, <1>4 DEF Carries
  <2>3. g[j] = <<GeoId'[j], rows'[j], j \in S>>
    OBVIOUS
  <2>4. f[p[j]] = <<GeoId[p[j]], rows[p[j]], p[j] \in R>>
    BY <2>1
  <2> HIDE DEF A, B, R, S, f, g
  <2> QED BY <1>7, <2>1, <2>2, <2>3, <2>4, Zenon
<1>9. ~GeoFails => Choice = {f[j] : j \in A}
  BY DEF Choice
<1>10. ~GeoFails => Choice' = {g[j] : j \in B}
  BY <1>1, <1>6 DEF Choice
<1>11. GeoFails => Choice = {}
  BY DEF Choice
<1>12. GeoFails => Choice' = {}
  BY <1>1, <1>6 DEF Choice
<1> HIDE DEF A, B, R, S, f, g
<1>13. {g[j] : j \in B} = {f[j] : j \in A}
  <2>1. \A j \in B : p[j] \in A /\ g[j] = f[p[j]]
    BY <1>4, <1>8
  <2>2. \A j \in A : p[j] \in B /\ g[p[j]] = f[j]
    BY <1>1, <1>4, <1>8
  <2> QED BY <2>1, <2>2
<1> QED BY <1>9, <1>10, <1>11, <1>12, <1>13
\* The proposals after a step, too.
LEMMA ProposalsAreAllNext ==
  ASSUME NEW m
  PROVE  (RelationOK /\ dataset = "COCO" /\ m \in Selected =>
            Proposals(m) = {i \in Rows : /\ rows[i].shard \in ShardsOf(m.z)
                                         /\ rows[i].type = Proposal /\ rows[i].z = m.z})'
<1>1. RelationOK /\ dataset = "COCO" /\ m \in Selected =>
        Proposals(m) = {i \in Rows : /\ rows[i].shard \in ShardsOf(m.z)
                                     /\ rows[i].type = Proposal /\ rows[i].z = m.z}
  BY ProposalsAreAll
<1> QED BY <1>1, PTL

\* COCO: the same proposals, at their new places, in the same order of keys.
LEMMA CocoProposalsMove ==
  ASSUME NEW p, Reordered(p), dataset = "COCO", NEW m \in Selected
  PROVE  /\ Carries(p, Rows, Proposals(m), Proposals(m)')
         /\ Carries(p, Rows, CocoR(m), CocoR(m)')
<1>1. /\ IsFiniteSet(Rows) /\ Rows' = Rows /\ Involution(p, Rows)
      /\ dataset' = dataset /\ target' = target /\ salt' = salt
      /\ \A j \in Rows : p[j] \in Rows /\ rows'[j] = rows[p[j]]
  BY ReorderedFacts
<1>2. Selected' = Selected
  BY <1>1 DEF Selected
<1> DEFINE A == Proposals(m)
           B == Proposals(m)'
           old == CocoKey(m)
           new == CocoKey(m)'
<1>3. A = {i \in Rows : /\ rows[i].shard \in ShardsOf(m.z)
                        /\ rows[i].type = Proposal /\ rows[i].z = m.z}
  BY ProposalsAreAll DEF Reordered
<1>4. B = {i \in Rows : /\ rows'[i].shard \in ShardsOf(m.z)
                        /\ rows'[i].type = Proposal /\ rows'[i].z = m.z}
  <2>1. RelationOK' /\ dataset' = "COCO" /\ m \in Selected'
    BY <1>1, <1>2 DEF Reordered
  <2> QED BY <1>1, <2>1, ProposalsAreAllNext DEF ShardsOf, Proposal
<1>5. Carries(p, Rows, A, B)
  BY <1>1, <1>3, <1>4 DEF Carries
<1>6. \A j \in Rows : new[j] = old[p[j]]
  BY <1>1 DEF CocoKey
<1>7. CocoR(m) = Smallest(PerImage \div 2, A, old)
  BY DEF CocoR
<1>8. CocoR(m)' = Smallest(PerImage \div 2, B, new)
  BY DEF CocoR, PerImage
<1>9. Carries(p, Rows, CocoR(m), CocoR(m)')
  <2> HIDE DEF A, B, old, new
  <2>1. \A x, y \in B : Before(new[y], new[x]) <=> Before(old[p[y]], old[p[x]])
    BY <1>5, <1>6 DEF Carries
  <2> QED BY <1>1, <1>5, <1>7, <1>8, <2>1, CarriedSmallest
<1> QED BY <1>5, <1>9

LEMMA CocoFailsMove ==
  ASSUME NEW p, Reordered(p), dataset = "COCO"
  PROVE  CocoFails' <=> CocoFails
<1>1. /\ IsFiniteSet(Rows) /\ Rows' = Rows /\ Involution(p, Rows)
      /\ dataset' = dataset /\ target' = target /\ salt' = salt
      /\ \A j \in Rows : p[j] \in Rows /\ p[p[j]] = j /\ rows'[j] = rows[p[j]]
  BY ReorderedFacts
<1>2. Selected' = Selected
  BY <1>1 DEF Selected
<1> DEFINE Old(m) == Proposals(m)
           New(m) == Proposals(m)'
           U == UNION {Old(m) : m \in Selected}
           W == UNION {New(m) : m \in Selected}
           OldImage(m) == \E i \in Old(m) :
             rows[i].image # m.id \/ rows[i].zEnd # m.z + 1 \/ ~rows[i].proper
           NewImage(m) == \E i \in New(m) :
             rows'[i].image # m.id \/ rows'[i].zEnd # m.z + 1 \/ ~rows'[i].proper
           OldRanks(m) == {rows[i].rank : i \in Old(m)}
           NewRanks(m) == {rows'[i].rank : i \in New(m)}
           OldRect == \E i, j \in U : i # j /\ rows[i].rect = rows[j].rect
           NewRect == \E i, j \in W : i # j /\ rows'[i].rect = rows'[j].rect
<1>3. \A m \in Selected : Carries(p, Rows, Old(m), New(m))
  BY CocoProposalsMove
<1>4. CocoFails <=>
        \/ Cardinality(Images) < target
        \/ \E m \in Selected :
             \/ Cardinality(ShardsOf(m.z)) # 1 \/ Cardinality(Old(m)) # PerImage
             \/ OldImage(m) \/ OldRanks(m) # 1 .. PerImage
        \/ OldRect
  BY DEF CocoFails
<1>5. CocoFails' <=>
        \/ Cardinality(Images) < target
        \/ \E m \in Selected :
             \/ Cardinality(ShardsOf(m.z)) # 1 \/ Cardinality(New(m)) # PerImage
             \/ NewImage(m) \/ NewRanks(m) # 1 .. PerImage
        \/ NewRect
  BY <1>1, <1>2 DEF CocoFails, PerImage, ShardsOf
<1> HIDE DEF Old, New
<1>6. \A m \in Selected : Cardinality(New(m)) = Cardinality(Old(m))
  BY <1>1, <1>3, CarriedSize
<1>7. \A m \in Selected : /\ Old(m) \in SUBSET Rows /\ New(m) \in SUBSET Rows
                          /\ \A j \in Rows : j \in New(m) <=> p[j] \in Old(m)
  BY <1>3 DEF Carries
<1>8. ASSUME NEW m \in Selected
      PROVE  /\ \A j \in New(m) : p[j] \in Old(m) /\ rows'[j] = rows[p[j]]
             /\ \A j \in Old(m) : p[j] \in New(m) /\ rows'[p[j]] = rows[j]
  BY <1>1, <1>7
<1>9. ASSUME NEW m \in Selected
      PROVE  (NewImage(m) <=> OldImage(m)) /\ NewRanks(m) = OldRanks(m)
  <2>1. NewImage(m) <=> OldImage(m)
    BY <1>8
  <2>2. NewRanks(m) = OldRanks(m)
    BY <1>8
  <2> QED BY <2>1, <2>2
<1>10. NewRect <=> OldRect
  <2>1. U \in SUBSET Rows /\ W \in SUBSET Rows /\ \A j \in Rows : j \in W <=> p[j] \in U
    BY <1>7
  <2> HIDE DEF U, W
  <2>2. ASSUME NEW i \in W, NEW j \in W, i # j, rows'[i].rect = rows'[j].rect
        PROVE  \E x, y \in U : x # y /\ rows[x].rect = rows[y].rect
    <3>1. /\ p[i] \in U /\ p[j] \in U /\ p[i] # p[j]
          /\ rows'[i] = rows[p[i]] /\ rows'[j] = rows[p[j]]
      BY <1>1, <2>1, <2>2
    <3> QED BY <2>2, <3>1
  <2>3. ASSUME NEW i \in U, NEW j \in U, i # j, rows[i].rect = rows[j].rect
        PROVE  \E x, y \in W : x # y /\ rows'[x].rect = rows'[y].rect
    <3>1. /\ p[i] \in W /\ p[j] \in W /\ p[i] # p[j]
          /\ rows'[p[i]] = rows[i] /\ rows'[p[j]] = rows[j]
      BY <1>1, <2>1, <2>3
    <3> QED BY <2>3, <3>1
  <2> QED BY <2>2, <2>3
<1> HIDE DEF OldImage, NewImage, OldRanks, NewRanks, OldRect, NewRect
<1> QED BY <1>4, <1>5, <1>6, <1>9, <1>10

LEMMA CocoChoiceStays ==
  ASSUME NEW p, Reordered(p), dataset = "COCO"
  PROVE  Choice' = Choice
<1>1. /\ IsFiniteSet(Rows) /\ Rows' = Rows /\ Involution(p, Rows)
      /\ dataset' = dataset /\ target' = target /\ salt' = salt
      /\ \A j \in Rows : p[j] \in Rows /\ p[p[j]] = j /\ rows'[j] = rows[p[j]]
  BY ReorderedFacts
<1>2. Selected' = Selected /\ (CocoFails' <=> CocoFails)
  BY <1>1, CocoFailsMove DEF Selected
<1> DEFINE A == {q \in Selected \X Rows : q[2] \in Proposals(q[1])}
           B == {q \in Selected \X Rows : q[2] \in Proposals(q[1])'}
           f == [q \in A |-> <<q[1].id, rows[q[2]], q[2] \in CocoR(q[1])>>]
           g == [q \in B |-> <<q[1].id, rows'[q[2]], q[2] \in CocoR(q[1])'>>]
           Moved(q) == <<q[1], p[q[2]]>>
<1>3. \A m \in Selected : \A j \in Rows :
        /\ j \in Proposals(m)' <=> p[j] \in Proposals(m)
        /\ j \in CocoR(m)' <=> p[j] \in CocoR(m)
  BY CocoProposalsMove DEF Carries
<1>4. ASSUME NEW q \in B
      PROVE  Moved(q) \in A /\ g[q] = f[Moved(q)]
  <2>1. PICK m \in Selected, j \in Rows : q = <<m, j>> /\ j \in Proposals(m)'
    OBVIOUS
  <2>2. q[1] = m /\ q[2] = j /\ Moved(q) = <<m, p[j]>>
    BY <2>1
  <2>3. p[j] \in Rows /\ rows'[j] = rows[p[j]] /\ p[j] \in Proposals(m)
    BY <1>1, <1>3, <2>1
  <2>4. Moved(q) \in A
    BY <2>2, <2>3
  <2>5. g[q] = <<m.id, rows'[j], j \in CocoR(m)'>>
    BY <2>2
  <2>6. f[Moved(q)] = <<m.id, rows[p[j]], p[j] \in CocoR(m)>>
    BY <2>2, <2>4
  <2>7. (j \in CocoR(m)') = (p[j] \in CocoR(m))
    BY <1>3
  <2> HIDE DEF A, B, f, g, Moved
  <2>8. g[q] = f[Moved(q)]
    BY <2>3, <2>5, <2>6, <2>7, Zenon
  <2> QED BY <2>4, <2>8
<1>5. ASSUME NEW q \in A
      PROVE  Moved(q) \in B /\ Moved(Moved(q)) = q
  <2>1. PICK m \in Selected, j \in Rows : q = <<m, j>> /\ j \in Proposals(m)
    OBVIOUS
  <2>2. Moved(q) = <<m, p[j]>>
    BY <2>1
  <2>3. p[j] \in Rows /\ p[p[j]] = j
    BY <1>1
  <2>4. p[j] \in Proposals(m)'
    BY <1>3, <2>1, <2>3
  <2> QED BY <2>1, <2>2, <2>3, <2>4
<1>6. ~CocoFails => Choice = {f[q] : q \in A}
  BY DEF Choice
<1>7. ~CocoFails => Choice' = {g[q] : q \in B}
  BY <1>1, <1>2 DEF Choice
<1>8. CocoFails => Choice = {}
  BY DEF Choice
<1>9. CocoFails => Choice' = {}
  BY <1>1, <1>2 DEF Choice
<1> HIDE DEF A, B, f, g, Moved
<1>10. {g[q] : q \in B} = {f[q] : q \in A}
  <2>1. \A q \in A : Moved(q) \in B /\ g[Moved(q)] = f[q]
    BY <1>4, <1>5
  <2> QED BY <1>4, <2>1
<1> QED BY <1>2, <1>6, <1>7, <1>8, <1>9, <1>10

\* Whatever the relation is, its choice is that of the same rows in any order.
LEMMA ChoiceStays ==
  ASSUME HashIsANumber, NEW p, Reordered(p), PointsAreUnique
  PROVE  Choice' = Choice
<1>1. CASE dataset \notin {"CMAB", "GeoLife", "COCO"}
  <2>1. dataset' = dataset
    BY ReorderedFacts
  <2> QED BY <1>1, <2>1 DEF Choice
<1> QED BY <1>1, CmabChoiceStays, GeoChoiceStays, CocoChoiceStays

LEMMA PointsStayUnique ==
  ASSUME NEW p, Reordered(p)
  PROVE  PointsAreUnique' <=> PointsAreUnique
<1>1. /\ Rows' = Rows /\ dataset' = dataset
      /\ \A j \in Rows : p[j] \in Rows /\ p[p[j]] = j
  BY ReorderedFacts
<1>2. \A j \in Rows : PointKey(j)' = PointKey(p[j])
  BY GeoRowsMove
<1>3. PointsAreUnique' <=>
        (dataset = "GeoLife" => \A i, j \in Rows : PointKey(i)' = PointKey(j)' => i = j)
  BY <1>1 DEF PointsAreUnique
<1>4. (\A i, j \in Rows : PointKey(i)' = PointKey(j)' => i = j)
        <=> (\A i, j \in Rows : PointKey(i) = PointKey(j) => i = j)
  <2>1. ASSUME \A i, j \in Rows : PointKey(i)' = PointKey(j)' => i = j,
               NEW i \in Rows, NEW j \in Rows, PointKey(i) = PointKey(j)
        PROVE  i = j
    <3>1. p[i] \in Rows /\ p[j] \in Rows /\ PointKey(p[i])' = PointKey(p[j])'
      BY <1>1, <1>2, <2>1
    <3> QED BY <1>1, <2>1, <3>1
  <2>2. ASSUME \A i, j \in Rows : PointKey(i) = PointKey(j) => i = j,
               NEW i \in Rows, NEW j \in Rows, PointKey(i)' = PointKey(j)'
        PROVE  i = j
    <3>1. p[i] \in Rows /\ p[j] \in Rows /\ PointKey(p[i]) = PointKey(p[j])
      BY <1>1, <1>2, <2>2
    <3> QED BY <1>1, <2>2, <3>1
  <2> QED BY <2>1, <2>2
<1> QED BY <1>3, <1>4 DEF PointsAreUnique

\* The steps of a selection publish the rows in another order, or in the same.
LEMMA StepReorders ==
  ASSUME RelationOK, [SelectNext]_selectVars
  PROVE  \E p : Reordered(p)
<1>1. RelationOK'
  BY RelationStep
<1>2. Len(rows) \in Nat /\ Rows = 1 .. Len(rows)
  BY RowsAreNumbered
<1>3. CASE UNCHANGED <<dataset, rows, target, salt>>
  <2> DEFINE same == [j \in Rows |-> j]
  <2>1. Rows' = Rows
    BY <1>3 DEF Rows
  <2>2. Involution(same, Rows)
    BY DEF Involution
  <2>3. \A j \in Rows : rows'[j] = rows[same[j]]
    BY <1>3
  <2> HIDE DEF same
  <2>4. Reordered(same)
    BY <1>1, <1>3, <2>1, <2>2, <2>3 DEF Reordered
  <2> QED BY <2>4
<1>4. ASSUME NEW i \in 1 .. Len(rows) - 1, Exchange(i)
      PROVE  \E p : Reordered(p)
  <2>1. /\ DOMAIN rows' = 1 .. Len(rows)
        /\ \A j \in 1 .. Len(rows) : rows'[j] = rows[Swap(i)[j]]
    BY <1>4, Exchanged
  <2>2. Rows' = Rows /\ \A j \in Rows : rows'[j] = rows[Swap(i)[j]]
    BY <1>2, <2>1 DEF Rows
  <2>3. Involution(Swap(i), Rows)
    BY <1>2 DEF Involution, Swap
  <2>4. UNCHANGED <<dataset, target, salt>>
    BY <1>4 DEF Exchange
  <2>5. Reordered(Swap(i))
    BY <1>1, <2>2, <2>3, <2>4 DEF Reordered
  <2> QED BY <2>5
<1>5. CASE Import
  BY <1>3, <1>5 DEF Import
<1>6. CASE UNCHANGED selectVars
  BY <1>3, <1>6 DEF selectVars
<1> QED BY <1>4, <1>5, <1>6 DEF SelectNext

\* What was chosen is what would be chosen again.
ChoiceStands == PointsAreUnique /\ chosen # Nothing => chosen = Choice

LEMMA ChoiceStep ==
  ASSUME HashIsANumber, RelationOK, ChoiceStands, [SelectNext]_selectVars
  PROVE  /\ ChoiceStands'
         /\ PointsAreUnique /\ chosen # Nothing => chosen' = chosen
<1>1. PICK p : Reordered(p)
  BY StepReorders
<1>2. PointsAreUnique' <=> PointsAreUnique
  BY <1>1, PointsStayUnique
<1>3. PointsAreUnique => Choice' = Choice
  BY <1>1, ChoiceStays
<1>4. chosen' = Choice \/ chosen' = chosen
  BY DEF SelectNext, Import, Exchange, selectVars
<1>5. Nothing' = Nothing
  BY DEF Nothing
<1>6. ChoiceStands'
  BY <1>2, <1>3, <1>4, <1>5 DEF ChoiceStands
<1>7. PointsAreUnique /\ chosen # Nothing => chosen' = chosen
  BY <1>4 DEF ChoiceStands
<1> QED BY <1>6, <1>7

\* The buildings, points and proposals that are chosen, their sides and their
\* ids, and a refusal too, do not depend on the order in which the rows are
\* published, whatever collisions the hash has.
THEOREM ChoiceNeverDependsOnOrder ==
  ASSUME HashIsANumber
  PROVE  SelectSpec => ChoiceIgnoresOrder
<1>1. SelectInit => ChoiceStands
  BY DEF SelectInit, ChoiceStands
<1>2. RelationOK /\ ChoiceStands /\ [SelectNext]_selectVars => ChoiceStands'
  BY ChoiceStep
<1>3. RelationOK /\ ChoiceStands /\ [SelectNext]_selectVars
        => [PointsAreUnique /\ chosen # Nothing => chosen' = chosen]_selectVars
  BY ChoiceStep
<1> QED BY <1>1, <1>2, <1>3, RelationIsTyped, PTL DEF SelectSpec, ChoiceIgnoresOrder
=============================================================================
