---------------------------- MODULE WorkloadFile ----------------------------
(***************************************************************************)
(* The workload format: write_workload and read_workload of                *)
(* python/anchor_exp/workload.py, and load_workload of                     *)
(* cpp/app/workload.cpp, a second reader written on its own.               *)
(*                                                                         *)
(* A cell is one word of eight bytes, and offsets, sizes and the header    *)
(* are counted in cells.  The six arrays, in the order of the header, are  *)
(* the ids, lower and upper coordinates of R and then those of S,          *)
(* coordinates flat by rows.  SHA-256 is injective: the digest of the      *)
(* payload is the sequence it digests.                                     *)
(***************************************************************************)
EXTENDS Integers, FiniteSets, Sequences, Functions

CONSTANTS Bits,          \* width of a word, 64 in the program
          Alignment, HeaderSize,   \* in cells, 8 and 16 in the program
          Instances,     \* [endpoint, dimension, arrays] given to the writer
          MaxChanges     \* changes made to a file after it is written

ASSUME FileAssumption ==
  /\ Bits \in Nat \ {0, 1} /\ Alignment \in Nat \ {0} /\ HeaderSize \in Nat \ {0}
  /\ HeaderSize % Alignment = 0 /\ MaxChanges \in Nat

VARIABLES given,    \* what the writer is called with
          exists,   \* the file does
          written,  \* the file as written: a header and cells by position
          file,     \* the file as it is now
          changes

fileVars == <<given, exists, written, file, changes>>

Word == 0 .. 2 ^ Bits - 1
Given == [endpoint : STRING, dimension : Nat, arrays : [1 .. 6 -> Seq(Word)]]
ASSUME InstancesAssumption == Instances \subseteq Given

Sign == 2 ^ (Bits - 1)

\* int64 is two's complement; a double orders by sign and magnitude, and the
\* largest magnitude stands for those that are not finite.
Number(endpoint, w) ==
  IF endpoint = "int64" THEN (IF w < Sign THEN w ELSE w - 2 ^ Bits)
  ELSE IF w < Sign THEN w ELSE -(w - Sign)
Finite(endpoint, w) == endpoint = "float64" => w % Sign # Sign - 1

NonemptyBoxes(endpoint, lower, upper) ==
  \A k \in DOMAIN lower :
    /\ Finite(endpoint, lower[k]) /\ Finite(endpoint, upper[k])
    /\ Number(endpoint, lower[k]) < Number(endpoint, upper[k])
CanonicalBoxes(endpoint, a) ==
  NonemptyBoxes(endpoint, a[2], a[3]) /\ NonemptyBoxes(endpoint, a[5], a[6])
DistinctIds(a) == IsInjective(a[1]) /\ IsInjective(a[4])
Payload(a) == a[1] \o a[2] \o a[3] \o a[4] \o a[5] \o a[6]

(***************************************************************************)
(* The writer.                                                             *)
(***************************************************************************)
Align(offset) == ((offset + Alignment - 1) \div Alignment) * Alignment

\* Objects of no relation may be missing: the bytes of an empty array of rows
\* cannot be taken.
Writable(g) ==
  LET a == g.arrays IN
  /\ g.endpoint \in {"float64", "int64"} /\ g.dimension >= 1
  /\ \A i \in 1 .. 6 : a[i] # <<>>
  /\ Len(a[2]) = Len(a[1]) * g.dimension /\ Len(a[3]) = Len(a[2])
  /\ Len(a[5]) = Len(a[4]) * g.dimension /\ Len(a[6]) = Len(a[5])
  /\ DistinctIds(a) /\ CanonicalBoxes(g.endpoint, a)

\* Where each array ends, from the aligned end of the one before it.
Ends(a) ==
  LET end[i \in 0 .. 6] == IF i = 0 THEN HeaderSize ELSE Align(end[i - 1]) + Len(a[i])
  IN end
Header(g) ==
  [canonical |-> TRUE, endpoint |-> g.endpoint, dimension |-> g.dimension,
   nR |-> Len(g.arrays[1]), nS |-> Len(g.arrays[4]),
   offsets |-> [i \in 1 .. 6 |-> Align(Ends(g.arrays)[i - 1])],
   size |-> Ends(g.arrays)[6], digest |-> Payload(g.arrays)]

\* Zeros up to an array's offset, then the array.
Cells(h, a) ==
  [p \in HeaderSize .. h.size - 1 |->
     LET inside == {i \in 1 .. 6 : h.offsets[i] <= p /\ p < h.offsets[i] + Len(a[i])}
     IN IF inside = {} THEN 0
        ELSE LET i == CHOOSE j \in inside : TRUE IN a[i][p - h.offsets[i] + 1]]
FileOf(g) == [header |-> Header(g), cells |-> Cells(Header(g), g.arrays)]

(***************************************************************************)
(* The readers.  A read gives a set: the workload, or nothing at all.      *)
(***************************************************************************)
ActualSize(f) == HeaderSize + Cardinality(DOMAIN f.cells)
HeaderIsValid(f) ==
  LET h == f.header
  IN h.canonical /\ h.endpoint # "unknown" /\ h.dimension >= 1 /\ h.size = ActualSize(f)

Counts(h) == LET rows == <<h.nR, h.nS>>
             IN <<rows[1], rows[1] * h.dimension, rows[1] * h.dimension,
                  rows[2], rows[2] * h.dimension, rows[2] * h.dimension>>
ArrayEnd(h, i) == IF i = 0 THEN HeaderSize ELSE h.offsets[i] + Counts(h)[i]
\* Arrays are aligned, within the file, in order, and end where it ends.
ArraysFit(h) ==
  /\ \A i \in 1 .. 6 : /\ h.offsets[i] % Alignment = 0
                       /\ ArrayEnd(h, i - 1) <= h.offsets[i]
                       /\ ArrayEnd(h, i) <= h.size
  /\ ArrayEnd(h, 6) = h.size
ArraysOf(f) ==
  [i \in 1 .. 6 |->
     [k \in 1 .. Counts(f.header)[i] |-> f.cells[f.header.offsets[i] + k - 1]]]
Contents(f) == [endpoint |-> f.header.endpoint, dimension |-> f.header.dimension,
                arrays |-> ArraysOf(f)]

\* read_workload has checks of its own, of the same arithmetic.  Its product of
\* rows and dimension is of 64 bits and may wrap where that of workload.cpp is
\* checked; but the rows then exceed the file, or numpy maps no array of such a
\* shape: either way the file is refused, as it is here, where counts are not
\* bounded.
PyArraysFitInAnyOrder(h) ==
  /\ \A i \in 1 .. 6 : h.offsets[i] % Alignment = 0 /\ h.offsets[i] >= HeaderSize
                       /\ ArrayEnd(h, i) <= h.size
  /\ ArrayEnd(h, 6) = h.size
PyArraysFit(h) == ArraysFit(h)
PyRead(f) ==
  IF /\ HeaderIsValid(f) /\ PyArraysFit(f.header)
     /\ \A i \in 1 .. 6 : Counts(f.header)[i] > 0
     /\ Payload(ArraysOf(f)) = f.header.digest
     /\ CanonicalBoxes(f.header.endpoint, ArraysOf(f))
  THEN {Contents(f)} ELSE {}

PaddingOfFirst(f) ==
  \A p \in HeaderSize .. f.header.offsets[1] - 1 : f.cells[p] = 0
PaddingIsZero(f) ==
  \A i \in 1 .. 6, p \in DOMAIN f.cells :
    ArrayEnd(f.header, i - 1) <= p /\ p < f.header.offsets[i] => f.cells[p] = 0
CppRead(f) ==
  IF /\ HeaderIsValid(f) /\ ArraysFit(f.header) /\ PaddingIsZero(f)
     /\ Payload(ArraysOf(f)) = f.header.digest
     /\ CanonicalBoxes(f.header.endpoint, ArraysOf(f))
     /\ DistinctIds(ArraysOf(f))
  THEN {Contents(f)} ELSE {}

(***************************************************************************)
(* A file is written, and then changed in a few places by something else.  *)
(***************************************************************************)
FileInit ==
  given \in Instances /\ exists = FALSE /\ written = <<>> /\ file = <<>> /\ changes = 0

Write ==
  /\ ~exists /\ Writable(given)
  /\ exists' = TRUE /\ written' = FileOf(given) /\ file' = written'
  /\ UNCHANGED <<given, changes>>

Change(f) ==
  /\ changes < MaxChanges /\ f # file
  /\ file' = f /\ changes' = changes + 1
  /\ UNCHANGED <<given, exists, written>>

ChangeCell == \E p \in DOMAIN file.cells, w \in Word :
                Change([file EXCEPT !.cells[p] = w])
ChangeOffset == \E i \in 1 .. 6, p \in 0 .. written.header.size :
                  Change([file EXCEPT !.header.offsets[i] = p])
ChangeCount == \E n \in 0 .. 3 : \/ Change([file EXCEPT !.header.nR = n])
                                 \/ Change([file EXCEPT !.header.nS = n])
                                 \/ Change([file EXCEPT !.header.dimension = n])
ChangeSize == \E n \in HeaderSize .. written.header.size + 1 :
                Change([file EXCEPT !.header.size = n])
ChangeFormat == \/ Change([file EXCEPT !.header.canonical = FALSE])
                \/ \E e \in {"float64", "int64", "unknown"} :
                     Change([file EXCEPT !.header.endpoint = e])
\* The file is cut short or added to.
Resize == \E n \in 0 .. Cardinality(DOMAIN written.cells) + 1 :
            Change([file EXCEPT !.cells =
              [p \in HeaderSize .. HeaderSize + n - 1 |->
                 IF p \in DOMAIN file.cells THEN file.cells[p] ELSE 0]])

\* Whoever changed the payload gives the header its digest.
Reseal == /\ HeaderIsValid(file) /\ ArraysFit(file.header)
          /\ Change([file EXCEPT !.header.digest = Payload(ArraysOf(file))])

Alteration == \/ ChangeCell \/ ChangeOffset \/ ChangeCount \/ ChangeSize
              \/ ChangeFormat \/ Resize \/ Reseal
FileNext == Write \/ (exists /\ Alteration)
FileSpec == FileInit /\ [][FileNext]_fileVars
-----------------------------------------------------------------------------
\* What the Python writer has written both readers read back, cell by cell:
\* offsets, padding and sizes agree (write_workload 184-222, read_workload
\* 324-336, load_workload 260-284).  Whatever is changed then, the readers
\* accept the same files, with the same contents, but that the C++ reader alone
\* wants zeros in the padding and distinct ids, and the Python reader alone
\* wants rows on both sides.  So a workload validated in Python is the one
\* measured.
ReadersAgree ==
  /\ exists /\ changes = 0 => PyRead(file) = {given} /\ CppRead(file) = {given}
  /\ exists => \/ CppRead(file) = PyRead(file)
               \/ /\ CppRead(file) = {} /\ ArraysFit(file.header)
                  /\ ~PaddingIsZero(file) \/ ~DistinctIds(ArraysOf(file))
               \/ /\ PyRead(file) = {} /\ ArraysFit(file.header)
                  /\ \E i \in 1 .. 6 : Counts(file.header)[i] = 0

\* One change of a file, or of its length, is noticed by the benchmark: the
\* digest covers the payload, and header and padding leave no other choice.
\* Only of the endpoint type is there no trace: the words stay the same.
OneChangeIsNoticed ==
  changes = 1 => \/ CppRead(file) = {}
                 \/ file = [written EXCEPT !.header.endpoint = file.header.endpoint]
=============================================================================
