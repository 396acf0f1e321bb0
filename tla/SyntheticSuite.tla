--------------------------- MODULE SyntheticSuite ---------------------------
(***************************************************************************)
(* cli/prepare_synthetic_suite.py: a session goes through the workloads of *)
(* the suite, keeps those that exist and match, and solves, generates and  *)
(* writes the others: the binary first, then its manifest, each renamed    *)
(* into place.  Between sessions the suite may be edited.                  *)
(*                                                                         *)
(* A Config is all that determines the bytes of a workload and that its    *)
(* manifest repeats: configuration, seed, ids, policy.  The generator is   *)
(* deterministic, so a configuration solved before has the same answer.    *)
(***************************************************************************)
EXTENDS CoverageSolver, Sequences

CONSTANTS Order,     \* the workloads, in the order of the suite
          Versions   \* for each, the configurations an edit may give it

Case == 1 .. Len(Order)
Plans == {p \in [Case -> Config] : \A c \in Case : p[c] \in Versions[Order[c]]}

ASSUME SuiteAssumption ==
  /\ Order \in Seq(DOMAIN Versions) /\ Order # <<>>
  /\ \A w \in DOMAIN Versions : Versions[w] \subseteq Config /\ Versions[w] # {}

VARIABLES
  binary, manifest,   \* of each workload: nothing, or whose it is
  at,                 \* where the session stands
  plan, overwrite,    \* the suite's configurations, --overwrite
  next,               \* the workload it has come to
  outcome,
  answer              \* of each configuration: what the solver says of it

suite == <<binary, manifest, at, plan, overwrite, next, outcome, answer>>
vars  == <<suite, solver>>

Unknown == "unknown"
Answers == {Unknown, "certified", "missed", "failed"}

Init ==
  /\ binary = [c \in Case |-> {}] /\ manifest = [c \in Case |-> {}]
  /\ at = "down" /\ plan \in Plans /\ overwrite = FALSE
  /\ next = 1 /\ outcome = "none"
  /\ answer = [k \in Config |-> Unknown]
  /\ config = plan[1] /\ Idle

Begin(p, ow) ==
  /\ at = "down"
  /\ at' = "case" /\ next' = 1 /\ outcome' = "none"
  /\ plan' = p /\ overwrite' = ow
  /\ UNCHANGED <<binary, manifest, answer, solver>>

Stop(o) ==
  /\ at' = "down" /\ outcome' = o
  /\ UNCHANGED <<binary, manifest, plan, overwrite, next, answer>>

Exists(c)  == binary[c] # {} \/ manifest[c] # {}
MatchesByName(c) == binary[c] # {} /\ manifest[c] = {plan[c]}
\* The file has the manifest's SHA-256, and the manifest the case's identity.
Matches(c) == binary[c] # {} /\ binary[c] = manifest[c] /\ manifest[c] = {plan[c]}
Generates(c) == overwrite \/ ~Exists(c)

Keep ==
  /\ at = "case" /\ next \in Case /\ ~Generates(next) /\ Matches(next)
  /\ next' = next + 1
  /\ UNCHANGED <<binary, manifest, at, plan, overwrite, outcome, answer, solver>>

Refuse ==
  /\ at = "case" /\ next \in Case /\ ~Generates(next) /\ ~Matches(next)
  /\ Stop("error") /\ UNCHANGED solver

Solve ==
  /\ at = "case" /\ next \in Case /\ Generates(next)
  /\ answer[plan[next]] = Unknown
  /\ at' = "solve" /\ Call(plan[next])
  /\ UNCHANGED <<binary, manifest, plan, overwrite, next, outcome, answer>>

\* Philox streams replay: the same seed and configuration, the same answer.
Replay ==
  /\ at = "case" /\ next \in Case /\ Generates(next)
  /\ answer[plan[next]] # Unknown
  /\ UNCHANGED solver
  /\ IF answer[plan[next]] = "failed" THEN Stop("error")
     ELSE /\ at' = "binary"
          /\ UNCHANGED <<binary, manifest, plan, overwrite, next, outcome, answer>>

\* generate_synthetic goes on only from a certified theta.
Solved ==
  /\ at = "solve" /\ pc = "ended"
  /\ at' = "case" /\ Return
  /\ answer' = [answer EXCEPT ![config] =
       IF status # "CERTIFIED" THEN "failed"
       ELSE IF missed THEN "missed" ELSE "certified"]
  /\ UNCHANGED <<binary, manifest, plan, overwrite, next, outcome>>

WriteBinary ==
  /\ at = "binary" /\ at' = "manifest"
  /\ binary' = [binary EXCEPT ![next] = {plan[next]}]
  /\ UNCHANGED <<manifest, plan, overwrite, next, outcome, answer, solver>>

WriteManifest ==
  /\ at = "manifest" /\ at' = "case" /\ next' = next + 1
  /\ manifest' = [manifest EXCEPT ![next] = {plan[next]}]
  /\ UNCHANGED <<binary, plan, overwrite, outcome, answer, solver>>

Finish ==
  /\ at = "case" /\ next \notin Case
  /\ Stop("OK") /\ UNCHANGED solver

\* The session ends between two steps; files are whole, memory is gone.
Crash ==
  /\ at # "down" /\ Stop("none")
  /\ IF at = "solve" THEN Return ELSE UNCHANGED solver

\* expand_experiments of a suite of runs: the manifest repeats the parameters
\* of the case, but nobody asks for the tolerance they were certified at.
SameCase(k, l) == \A field \in {"target", "start", "truth"} : k[field] = l[field]
AdmittedByManifest(c, k) ==
  binary[c] # {} /\ \E l \in manifest[c] : SameCase(l, k)
Admitted(c, k) ==
  binary[c] # {} /\ binary[c] = manifest[c] /\ \E l \in manifest[c] : SameCase(l, k)
Admit(p) ==
  /\ at = "down" /\ plan' = p
  /\ outcome' = IF \A c \in Case : Admitted(c, p[c]) THEN "admitted" ELSE "refused"
  /\ UNCHANGED <<binary, manifest, at, overwrite, next, answer, solver>>

Step ==
  \/ Keep \/ Refuse \/ Solve \/ Replay \/ Solved
  \/ WriteBinary \/ WriteManifest \/ Finish
  \/ at = "solve" /\ SolverStep /\ UNCHANGED suite

Next ==
  \/ \E p \in Plans, ow \in BOOLEAN : Begin(p, ow)
  \/ \E p \in Plans : Admit(p)
  \/ Keep \/ Refuse \/ Solve \/ Replay \/ Solved
  \/ WriteBinary \/ WriteManifest \/ Finish \/ Crash
  \/ at = "solve" /\ SolverStep /\ UNCHANGED suite

\* A session that is not stopped goes on.
Spec == Init /\ [][Next]_vars /\ WF_vars(Step)

-----------------------------------------------------------------------------
\* A session that ends well leaves, for every workload of the suite as it is
\* now, a binary and a manifest that belong together, generated from that
\* configuration at a certified theta: whatever was there before, however
\* sessions were stopped between the two renames, and whatever was edited.
OkIsCurrent ==
  outcome = "OK" =>
    \A c \in Case : /\ binary[c] = {plan[c]} /\ manifest[c] = {plan[c]}
                    /\ answer[plan[c]] \in {"certified", "missed"}

\* What a suite of runs admits, at any time, are pairs of a binary and its own
\* manifest, of the cases it is about, generated at a certified theta: also
\* after an edit, and after a session that was stopped between two renames.
AdmittedIsCertified ==
  outcome = "admitted" =>
    \A c \in Case : /\ binary[c] = manifest[c]
                    /\ \E k \in binary[c] : /\ SameCase(k, plan[c])
                                           /\ answer[k] \in {"certified", "missed"}

\* A file that exists is replaced only with --overwrite, or when it is what a
\* session without it has just written: nothing else is ever lost.
ReplacedOnRequest ==
  [][\A c \in Case : Exists(c) /\ (binary[c] # binary'[c] \/ manifest[c] # manifest'[c])
       => overwrite \/ binary[c] = binary'[c]]_vars

\* Every session comes to its end, through all the solver's rounds.
SessionEnds == (at # "down") ~> (at = "down")
=============================================================================
