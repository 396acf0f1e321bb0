----------------------------- MODULE HubDownload -----------------------------
(***************************************************************************)
(* HubClient of hf_real.py: how one pinned asset reaches its final name    *)
(* through a partial file that later sessions resume.                      *)
(*                                                                         *)
(* The bytes of a file are blocks, and a block is TRUE when it holds what  *)
(* the lock pins at its place, so that SHA-256 of a file is the locked one *)
(* exactly when the file is Locked.  A file of no blocks stands for one    *)
(* that does not exist: load_source_lock admits no asset of size 0.        *)
(***************************************************************************)
EXTENDS Naturals, Sequences

CONSTANTS Assets,      \* assets of the source lock
          Size,        \* blocks of an asset
          Endpoints    \* the Hub and its mirrors, in the order of HubClient.endpoints

ASSUME SizeAssumption == Size \in Nat \ {0}
ASSUME EndpointsAssumption == Endpoints \in Seq(STRING) /\ Endpoints # << >>

VARIABLES file,     \* by asset, the file at its final name
          part,     \* by asset, its partial file
          active,   \* the endpoint that answered last, "" before the first answer
          digest    \* the blocks hashed so far by the download in progress

hubVars == <<file, part, active, digest>>

NoFile == << >>
Locked == [i \in 1..Size |-> TRUE]

(***************************************************************************)
(* resolve(): what an endpoint answers, as far as it decides anything, and *)
(* the order in which the endpoints are asked.  A commit or a linked hash  *)
(* that the answer does not give is not compared.                          *)
(***************************************************************************)
Answers == {"pinned", "unlabelled", "error", "other commit", "wrong size", "other hash"}

Accepts(answer) == answer \in {"pinned", "unlabelled"}

Hosts == {Endpoints[i] : i \in DOMAIN Endpoints}

Position(e) == CHOOSE i \in DOMAIN Endpoints : Endpoints[i] = e

AskedBefore(e, f) == /\ f # active
                     /\ e = active \/ Position(e) < Position(f)

Resolve(answer) ==
  \E e \in Hosts :
     /\ Accepts(answer[e])
     /\ \A f \in Hosts :
           AskedBefore(f, e) => ~ Accepts(answer[f])
     /\ active' = e
     /\ UNCHANGED <<file, part, digest>>

Unresolved(answer) == \A e \in Hosts : ~ Accepts(answer[e])

(***************************************************************************)
(* download(), after resolve(): the partial file as it was found.          *)
(***************************************************************************)
CompleteBySize(a) == Len(part[a]) = Size
Complete(a) == part[a] = Locked

UselessIfLong(a) == Len(part[a]) > Size
Useless(a) == Len(part[a]) >= Size /\ ~ Complete(a)

\* A complete partial file gets its final name without a request.
Promote(a) == /\ Complete(a)
              /\ file' = [file EXCEPT ![a] = part[a]]
              /\ part' = [part EXCEPT ![a] = NoFile]
              /\ UNCHANGED <<active, digest>>

\* A partial file that is too long, or as long as the asset and wrong, is removed.
Discard(a) == /\ Useless(a)
              /\ part' = [part EXCEPT ![a] = NoFile]
              /\ UNCHANGED <<file, active, digest>>

(***************************************************************************)
(* The request: it asks for the rest when there is a partial file.  An     *)
(* answer with the whole file, not a range, starts the file and its hash   *)
(* over; otherwise the hash begins with what the partial file holds.       *)
(***************************************************************************)
Open(a, status) ==
  /\ Len(part[a]) < Size
  /\ LET kept == IF status = 206 THEN part[a] ELSE NoFile IN
        /\ part' = [part EXCEPT ![a] = kept]
        /\ digest' = kept
  /\ UNCHANGED <<file, active>>

Receive(a, block) ==
  /\ Len(part[a]) <= Size
  /\ part' = [part EXCEPT ![a] = Append(@, block)]
  /\ digest' = Append(digest, block)
  /\ UNCHANGED <<file, active>>

\* The end of the body: the size on disk and the hash of what was read decide.
PassesLock(a) == Len(part[a]) = Size /\ digest = Locked

Install(a) == /\ PassesLock(a)
              /\ file' = [file EXCEPT ![a] = part[a]]
              /\ part' = [part EXCEPT ![a] = NoFile]
              /\ UNCHANGED <<active, digest>>

HubTypeOK == /\ file \in [Assets -> Seq(BOOLEAN)]
             /\ part \in [Assets -> Seq(BOOLEAN)]
             /\ digest \in Seq(BOOLEAN)
             /\ active \in STRING

HubInit == /\ file = [a \in Assets |-> NoFile]
           /\ part = [a \in Assets |-> NoFile]
           /\ active = ""
           /\ digest = NoFile
==============================================================================
