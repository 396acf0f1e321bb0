-------------------------- MODULE Workloads_proofs --------------------------
(***************************************************************************)
(* Proofs about the workloads that are measured: how a suite of them is    *)
(* prepared, and the file in which one is kept.                            *)
(*                                                                         *)
(* A. solve_coverage, for any means, enclosures, truths and budgets: it    *)
(* keeps its bracket around the root, certifies only what it trained, and  *)
(* computes no interval too many (SolverInv).                              *)
(*                                                                         *)
(* B. What a session that ends well has prepared, and what a suite of runs *)
(* admits, for any suite, any edits and any solver.  A session has to know *)
(* that the workloads it passed are as the plan says (Passed), that the    *)
(* one it is writing was certified (Underway), and that all files come     *)
(* from certified answers (Certified), since a session stopped between the *)
(* two renames leaves a pair that belongs to no configuration.  Each step  *)
(* of a session lowers a rank of six natural numbers (SessionsAreCounted). *)
(*                                                                         *)
(* C. The workload format, for every width of a word, every alignment,     *)
(* every workload and any number of changes: a written file is read back   *)
(* by both readers, both think alike of a changed one, and one change      *)
(* never goes unnoticed.  The end of each array is the aligned end of the  *)
(* one before it plus its length, so arrays do not overlap and each cell   *)
(* is an array's or padding.  Of the changes, an offset has one aligned    *)
(* value between its neighbours, counts are told by the end of the file    *)
(* and the length of the payload, a cell by the digest or by the zeros of  *)
(* padding.                                                                *)
(***************************************************************************)
EXTENDS SyntheticSuite, WorkloadFile, SequenceTheorems, FiniteSetTheorems, TLAPS

-----------------------------------------------------------------------------
(* A. The solver.                                                          *)

SolverTypeOK ==
  /\ config \in Config
  /\ pc \in {"idle", "calibrate", "initial", "expand", "bisect", "certify", "ended"}
  /\ round \in 0 .. Rounds /\ training \in Nat /\ mean \in [Theta -> Probability]
  /\ theta \in Theta /\ direction \in {-1, 1} /\ lo \in Theta /\ hi \in Theta
  /\ steps \in Nat /\ checkpoint \in Nat /\ desired \in Nat /\ drawn \in Nat
  /\ intervals \in Nat /\ missed \in BOOLEAN /\ rejected \subseteq Theta

\* The expansion stands at the end of the bracket that it moves.
AtTheEdge == pc = "expand" => theta = IF direction > 0 THEN lo ELSE hi

\* What was spent before, and in, the round of calibration.
Spent ==
  /\ pc \in {"initial", "expand", "bisect", "certify"} => round >= 1
  /\ pc \in {"initial", "expand", "bisect"} => intervals <= (round - 1) * Checkpoints
  /\ pc = "certify" =>
       /\ checkpoint < Checkpoints /\ drawn <= desired
       /\ intervals <= (round - 1) * Checkpoints + checkpoint
  /\ intervals <= round * Checkpoints

\* Before it ends, a call has no result; before it begins, no history.
Pending ==
  /\ pc # "ended" => status = "none"
  /\ pc = "idle" => round = 0 /\ intervals = 0 /\ missed = FALSE /\ rejected = {}

SolverInv ==
  /\ SolverTypeOK /\ AtTheEdge /\ Spent /\ Pending
  /\ BracketHoldsRoot /\ CertifiedIsTrue

-----------------------------------------------------------------------------
(* The solver: enclosures.                                                 *)

\* An estimate encloses the mean.
LEMMA EstimateEncloses ==
  ASSUME SolverTypeOK, NEW t \in Theta, NEW e \in Estimates(t)
  PROVE  /\ mean[t] \in Int /\ e.lower \in Int /\ e.upper \in Int
         /\ e.lower <= mean[t] /\ mean[t] <= e.upper
BY SolverAssumption DEF SolverTypeOK, Estimates, Enclosure, Probability, Least, Most

\* What the comparison of an estimate says of the mean.
LEMMA ComparisonTells ==
  ASSUME SolverTypeOK, NEW t \in Theta, NEW e \in Estimates(t)
  PROVE  /\ Comparison(e) \in {-1, 0, 1}
         /\ Comparison(e) = -1 => mean[t] < config.target
         /\ Comparison(e) = 1 => mean[t] > config.target
<1>1. config.target \in Int
  BY SolverAssumption DEF SolverTypeOK
<1>2. QED
  BY <1>1, EstimateEncloses DEF Comparison

\* The tolerance of every round is at most an eighth of what is asked.
LEMMA ToleranceIsAnEighth ==
  ASSUME SolverTypeOK
  PROVE  Tolerance \in Int /\ 8 * Tolerance <= config.epsilon
<1>1. config.epsilon \in Int /\ training \in Nat
  BY SolverAssumption DEF SolverTypeOK
<1>2. config.epsilon \div 8 \in Int /\ 8 * (config.epsilon \div 8) <= config.epsilon
  BY <1>1
<1>3. QED
  BY <1>1, <1>2 DEF Tolerance, Least

\* A small residual is a trained candidate.
LEMMA ResidualTrains ==
  ASSUME SolverTypeOK, NEW t \in Theta, NEW e \in Estimates(t), ResidualWithin(e)
  PROVE  Trained(t)
<1>1. config.target \in Int /\ config.epsilon \in Int
  BY SolverAssumption DEF SolverTypeOK
<1>2. /\ mean[t] - config.target <= Tolerance
      /\ config.target - mean[t] <= Tolerance
  BY <1>1, EstimateEncloses, ToleranceIsAnEighth DEF ResidualWithin
<1>3. QED
  BY <1>1, <1>2, EstimateEncloses, ToleranceIsAnEighth DEF Trained

-----------------------------------------------------------------------------
(* The ways in which a step goes on.                                       *)

\* The end of a search with any result but CERTIFIED.
LEMMA EndSearchPreserves ==
  ASSUME SolverInv, NEW s, s # "CERTIFIED", EndSearch(s),
         pc \in {"calibrate", "initial", "expand", "bisect", "certify"}
  PROVE  SolverInv'
<1>1. SolverTypeOK'
  BY DEF SolverInv, SolverTypeOK, EndSearch, End, calibration, search, sampling, history
<1>2. AtTheEdge' /\ Spent' /\ Pending' /\ BracketHoldsRoot'
  BY DEF SolverInv, EndSearch, End, calibration, history, AtTheEdge, Spent, Pending,
         BracketHoldsRoot
<1>3. CertifiedIsTrue'
  BY DEF SolverInv, EndSearch, End, calibration, history, CertifiedIsTrue, InBand, Trained
<1>4. QED
  BY <1>1, <1>2, <1>3 DEF SolverInv

\* A trained candidate goes to certification.
LEMMA CertifyPreserves ==
  ASSUME SolverInv, NEW t \in Theta, Trained(t), Certify(t),
         pc \in {"initial", "expand", "bisect"}
  PROVE  SolverInv'
<1>1. SolverTypeOK'
  BY SolverAssumption
     DEF SolverInv, SolverTypeOK, Certify, calibration, history
<1>2. AtTheEdge' /\ Pending' /\ BracketHoldsRoot'
  BY DEF SolverInv, Certify, calibration, history, AtTheEdge, Pending, BracketHoldsRoot
<1>3. Spent'
  BY SolverAssumption
     DEF SolverInv, SolverTypeOK, Certify, calibration, history, Spent
<1>4. CertifiedIsTrue'
  BY DEF SolverInv, Certify, calibration, history, CertifiedIsTrue, Pending, InBand, Trained
<1>5. QED
  BY <1>1, <1>2, <1>3, <1>4 DEF SolverInv

\* The search goes on from a bracket that holds the root.
LEMMA ContinuePreserves ==
  ASSUME SolverInv, NEW step \in {"expand", "bisect"}, Continue(step),
         pc \in {"initial", "expand", "bisect"},
         theta' \in Theta, direction' \in {-1, 1}, lo' \in Theta, hi' \in Theta,
         steps' \in Nat, AtTheEdge', BracketHoldsRoot'
  PROVE  SolverInv'
<1>1. SolverTypeOK'
  BY DEF SolverInv, SolverTypeOK, Continue, calibration, sampling, history
<1>2. Spent' /\ Pending'
  BY DEF SolverInv, Continue, calibration, sampling, history, Spent, Pending
<1>3. CertifiedIsTrue'
  BY DEF SolverInv, Continue, calibration, sampling, history, CertifiedIsTrue,
         Pending, InBand
<1>4. QED
  BY <1>1, <1>2, <1>3 DEF SolverInv

\* An enclosure that holds the target ends the search one way or the other.
LEMMA SettlePreserves ==
  ASSUME SolverInv, NEW t \in Theta, NEW e \in Estimates(t), Settle(t, e),
         pc \in {"initial", "expand", "bisect"}
  PROVE  SolverInv'
<1>1. CASE ResidualWithin(e)
  BY <1>1, ResidualTrains, CertifyPreserves DEF Settle, SolverInv
<1>2. CASE ~ResidualWithin(e)
  BY <1>2, EndSearchPreserves DEF Settle
<1>3. QED
  BY <1>1, <1>2

-----------------------------------------------------------------------------
(* The steps of the search.                                                *)

LEMMA CalibratePreserves ==
  ASSUME SolverInv, Calibrate
  PROVE  SolverInv'
<1>1. SolverTypeOK'
  <2>1. Least(ThetaMax, Most(ThetaMin, config.start)) \in Theta
    BY SolverAssumption DEF SolverInv, SolverTypeOK, Theta, Least, Most
  <2>2. training' \in Nat
    BY SolverAssumption DEF SolverInv, SolverTypeOK, Calibrate
  <2>3. mean' \in [Theta -> Probability] /\ round' \in 0 .. Rounds
    BY SolverAssumption DEF SolverInv, SolverTypeOK, Calibrate
  <2>4. QED
    BY <2>1, <2>2, <2>3 DEF SolverInv, SolverTypeOK, Calibrate, sampling, history
<1>2. AtTheEdge' /\ Pending' /\ BracketHoldsRoot'
  BY DEF SolverInv, Calibrate, sampling, history, AtTheEdge, Pending, BracketHoldsRoot
<1>3. Spent'
  BY SolverAssumption
     DEF SolverInv, SolverTypeOK, Calibrate, sampling, history, Spent
<1>4. CertifiedIsTrue'
  BY DEF SolverInv, Calibrate, sampling, history, CertifiedIsTrue, Pending, InBand
<1>5. QED
  BY <1>1, <1>2, <1>3, <1>4 DEF SolverInv

LEMMA AllRejectedPreserves ==
  ASSUME SolverInv, AllRejected
  PROVE  SolverInv'
BY EndSearchPreserves DEF AllRejected

\* The side of the first estimate says where to look, and is one end.
LEMMA EvaluateInitialPreserves ==
  ASSUME SolverInv, EvaluateInitial
  PROVE  SolverInv'
<1>0. SolverTypeOK /\ theta \in Theta /\ pc = "initial"
  BY DEF SolverInv, SolverTypeOK, EvaluateInitial
<1>1. PICK e \in Estimates(theta) :
        \/ e.lower = 0 /\ EndSearch("TARGET_BELOW_NUMERIC_RESOLUTION")
        \/ Settle(theta, e)
        \/ /\ Comparison(e) # 0
           /\ direction' = -Comparison(e)
           /\ lo' = theta /\ hi' = theta /\ steps' = 0 /\ theta' = theta
           /\ Continue("expand")
  BY DEF EvaluateInitial
<1>2. CASE EndSearch("TARGET_BELOW_NUMERIC_RESOLUTION")
  BY <1>0, <1>2, EndSearchPreserves
<1>3. CASE Settle(theta, e)
  BY <1>0, <1>3, SettlePreserves
<1>4. CASE /\ Comparison(e) # 0
           /\ direction' = -Comparison(e)
           /\ lo' = theta /\ hi' = theta /\ steps' = 0 /\ theta' = theta
           /\ Continue("expand")
  <2>1. /\ Comparison(e) \in {-1, 0, 1}
        /\ Comparison(e) = -1 => mean[theta] < config.target
        /\ Comparison(e) = 1 => mean[theta] > config.target
    BY <1>0, ComparisonTells
  <2>2. direction' \in {-1, 1} /\ AtTheEdge'
    BY <1>4, <2>1 DEF AtTheEdge
  <2>3. BracketHoldsRoot'
    BY <1>4, <2>1 DEF BracketHoldsRoot, Continue, calibration
  <2>4. QED
    BY <1>0, <1>4, <2>2, <2>3, ContinuePreserves
<1>5. QED
  BY <1>1, <1>2, <1>3, <1>4

\* While the mean stays on its side the edge moves on; when it changes sides
\* the edge is the other end.
LEMMA ExpandPreserves ==
  ASSUME SolverInv, Expand
  PROVE  SolverInv'
<1>0. SolverTypeOK /\ pc = "expand" /\ BracketHoldsRoot /\ AtTheEdge
  BY DEF SolverInv, Expand
<1> DEFINE t == theta + direction * Stride
<1>1. CASE t \notin Theta
  BY <1>0, <1>1, EndSearchPreserves DEF Expand
<1>2. CASE t \in Theta
  <2>1. PICK e \in Estimates(t) :
          \/ Settle(t, e)
          \/ /\ Comparison(e) = -direction
             /\ lo' = (IF direction > 0 THEN t ELSE lo)
             /\ hi' = (IF direction > 0 THEN hi ELSE t)
             /\ theta' = t /\ steps' = steps + 1
             /\ UNCHANGED direction /\ Continue("expand")
          \/ /\ Comparison(e) = direction
             /\ lo' = (IF direction > 0 THEN lo ELSE t)
             /\ hi' = (IF direction > 0 THEN t ELSE hi)
             /\ theta' = t /\ steps' = 0
             /\ UNCHANGED direction /\ Continue("bisect")
    BY <1>2 DEF Expand, ExpandTo
  <2>2. /\ Comparison(e) = -1 => mean[t] < config.target
        /\ Comparison(e) = 1 => mean[t] > config.target
    BY <1>0, <1>2, ComparisonTells
  <2>3. CASE Settle(t, e)
    BY <1>0, <1>2, <2>3, SettlePreserves
  <2>4. CASE /\ Comparison(e) = -direction
             /\ lo' = (IF direction > 0 THEN t ELSE lo)
             /\ hi' = (IF direction > 0 THEN hi ELSE t)
             /\ theta' = t /\ steps' = steps + 1
             /\ UNCHANGED direction /\ Continue("expand")
    <3>1. /\ theta' \in Theta /\ direction' \in {-1, 1} /\ lo' \in Theta /\ hi' \in Theta
          /\ steps' \in Nat
      BY <1>0, <1>2, <2>4 DEF SolverTypeOK
    <3>2. AtTheEdge'
      BY <2>4 DEF AtTheEdge
    <3>3. BracketHoldsRoot'
      BY <1>0, <2>2, <2>4 DEF BracketHoldsRoot, Continue, calibration, SolverTypeOK
    <3>4. QED
      BY <1>0, <2>4, <3>1, <3>2, <3>3, ContinuePreserves
  <2>5. CASE /\ Comparison(e) = direction
             /\ lo' = (IF direction > 0 THEN lo ELSE t)
             /\ hi' = (IF direction > 0 THEN t ELSE hi)
             /\ theta' = t /\ steps' = 0
             /\ UNCHANGED direction /\ Continue("bisect")
    <3>1. /\ theta' \in Theta /\ direction' \in {-1, 1} /\ lo' \in Theta /\ hi' \in Theta
          /\ steps' \in Nat
      BY <1>0, <1>2, <2>5 DEF SolverTypeOK
    <3>2. AtTheEdge' /\ pc' = "bisect" /\ mean' = mean /\ config' = config
      BY <2>5 DEF AtTheEdge, Continue, calibration
    <3>3. CASE direction = 1
      <4>1. lo' = lo /\ hi' = lo + Stride /\ mean[lo] < config.target
        BY <1>0, <2>5, <3>3, SolverAssumption
           DEF AtTheEdge, BracketHoldsRoot, SolverTypeOK, Theta
      <4>2. mean[hi'] > config.target /\ lo' < hi'
        BY <1>0, <2>2, <2>5, <3>3, <4>1, SolverAssumption DEF SolverTypeOK, Theta
      <4>3. QED
        BY <1>0, <2>5, <3>1, <3>2, <4>1, <4>2, ContinuePreserves DEF BracketHoldsRoot
    <3>4. CASE direction = -1
      <4>1. hi' = hi /\ lo' = hi - Stride /\ mean[hi] > config.target
        BY <1>0, <2>5, <3>4, SolverAssumption
           DEF AtTheEdge, BracketHoldsRoot, SolverTypeOK, Theta
      <4>2. mean[lo'] < config.target /\ lo' < hi'
        BY <1>0, <2>2, <2>5, <3>4, <4>1, SolverAssumption DEF SolverTypeOK, Theta
      <4>3. QED
        BY <1>0, <2>5, <3>1, <3>2, <4>1, <4>2, ContinuePreserves DEF BracketHoldsRoot
    <3>5. QED
      BY <1>0, <3>3, <3>4 DEF SolverTypeOK
  <2>6. QED
    BY <2>1, <2>3, <2>4, <2>5
<1>3. QED
  BY <1>1, <1>2

LEMMA ExpansionLimitPreserves ==
  ASSUME SolverInv, ExpansionLimit
  PROVE  SolverInv'
BY EndSearchPreserves DEF ExpansionLimit

\* The middle is inside the bracket, and replaces the end on its own side.
LEMMA BisectPreserves ==
  ASSUME SolverInv, Bisect
  PROVE  SolverInv'
<1>0. /\ SolverTypeOK /\ pc = "bisect" /\ lo < hi
      /\ mean[lo] < config.target /\ config.target < mean[hi]
  BY DEF SolverInv, Bisect, BracketHoldsRoot
<1>1. CASE Middle \in {lo, hi}
  BY <1>0, <1>1, EndSearchPreserves DEF Bisect
<1>2. CASE Middle \notin {lo, hi}
  <2>1. Middle \in Theta /\ lo < Middle /\ Middle < hi
    BY <1>0, <1>2, SolverAssumption DEF Middle, SolverTypeOK, Theta
  <2>2. PICK e \in Estimates(Middle) :
          \/ Converged(e) /\ Certify(Middle)
          \/ /\ ~Converged(e) /\ Comparison(e) # 0
             /\ lo' = (IF Comparison(e) < 0 THEN Middle ELSE lo)
             /\ hi' = (IF Comparison(e) < 0 THEN hi ELSE Middle)
             /\ theta' = Middle /\ steps' = steps + 1
             /\ UNCHANGED direction /\ Continue("bisect")
          \/ /\ ~Converged(e) /\ Comparison(e) = 0
             /\ EndSearch("NUMERICAL_RESOLUTION_EXHAUSTED")
    BY <1>2 DEF Bisect, BisectAt
  <2>3. CASE Converged(e) /\ Certify(Middle)
    BY <1>0, <2>1, <2>3, ResidualTrains, CertifyPreserves DEF Converged
  <2>4. CASE EndSearch("NUMERICAL_RESOLUTION_EXHAUSTED")
    BY <1>0, <2>4, EndSearchPreserves
  <2>5. CASE /\ Comparison(e) # 0
             /\ lo' = (IF Comparison(e) < 0 THEN Middle ELSE lo)
             /\ hi' = (IF Comparison(e) < 0 THEN hi ELSE Middle)
             /\ theta' = Middle /\ steps' = steps + 1
             /\ UNCHANGED direction /\ Continue("bisect")
    <3>1. /\ Comparison(e) \in {-1, 1}
          /\ Comparison(e) = -1 => mean[Middle] < config.target
          /\ Comparison(e) = 1 => mean[Middle] > config.target
      BY <1>0, <2>1, <2>5, ComparisonTells
    <3>2. /\ theta' \in Theta /\ direction' \in {-1, 1} /\ lo' \in Theta /\ hi' \in Theta
          /\ steps' \in Nat
      BY <1>0, <2>1, <2>5 DEF SolverTypeOK
    <3>3. AtTheEdge' /\ pc' = "bisect" /\ mean' = mean /\ config' = config
      BY <2>5 DEF AtTheEdge, Continue, calibration
    <3>4. lo' < hi' /\ mean[lo'] < config.target /\ config.target < mean[hi']
      BY <1>0, <2>1, <2>5, <3>1
    <3>5. BracketHoldsRoot'
      BY <3>2, <3>3, <3>4 DEF BracketHoldsRoot
    <3>6. QED
      BY <1>0, <2>5, <3>2, <3>3, <3>5, ContinuePreserves
  <2>6. QED
    BY <2>2, <2>3, <2>4, <2>5
<1>3. QED
  BY <1>1, <1>2

LEMMA BisectionLimitPreserves ==
  ASSUME SolverInv, BisectionLimit
  PROVE  SolverInv'
BY EndSearchPreserves DEF BisectionLimit

-----------------------------------------------------------------------------
(* The steps of certification.                                             *)

LEMMA DrawPreserves ==
  ASSUME SolverInv, Draw
  PROVE  SolverInv'
<1>1. SolverTypeOK' /\ drawn' <= desired'
  BY SolverAssumption
     DEF SolverInv, SolverTypeOK, Draw, Least, calibration, search, history
<1>2. AtTheEdge' /\ Pending' /\ BracketHoldsRoot'
  BY DEF SolverInv, Draw, calibration, search, history, AtTheEdge, Pending,
         BracketHoldsRoot
<1>3. Spent'
  BY <1>1 DEF SolverInv, Draw, calibration, search, history, Spent
<1>4. CertifiedIsTrue'
  BY DEF SolverInv, Draw, calibration, search, history, CertifiedIsTrue, InBand, Trained
<1>5. QED
  BY <1>1, <1>2, <1>3, <1>4 DEF SolverInv

\* An interval that holds the true probability says the truth about the band.
LEMMA IntervalsTell ==
  ASSUME SolverTypeOK, NEW interval, interval.lower \in Int, interval.upper \in Int,
         ~Missed(interval)
  PROVE  /\ InBand(interval.lower) /\ InBand(interval.upper) => InBand(config.truth[theta])
         /\ Disjoint(interval) => ~InBand(config.truth[theta])
<1>1. config.target \in Int /\ config.epsilon \in Int /\ config.truth[theta] \in Int
  BY SolverAssumption DEF SolverTypeOK, Probability
<1>2. QED
  BY <1>1 DEF Missed, InBand, Disjoint

LEMMA CheckIntervalPreserves ==
  ASSUME SolverInv, CheckInterval
  PROVE  SolverInv'
<1>0. /\ SolverTypeOK /\ AtTheEdge /\ Spent /\ Pending /\ BracketHoldsRoot
      /\ CertifiedIsTrue /\ pc = "certify"
  BY DEF SolverInv, CheckInterval
<1>1. PICK p \in Probability, statistical \in Radii, numeric \in Slacks :
        LET interval == Enclosure(p, statistical + numeric, statistical + numeric)
        IN /\ intervals' = intervals + 1
           /\ missed' = (missed \/ Missed(interval))
           /\ \/ End("TARGET_BELOW_NUMERIC_RESOLUTION") /\ UNCHANGED rejected
              \/ /\ InBand(interval.lower) /\ InBand(interval.upper)
                 /\ End("CERTIFIED") /\ UNCHANGED rejected
              \/ /\ Disjoint(interval)
                 /\ pc' = "calibrate" /\ rejected' = rejected \union {theta}
                 /\ UNCHANGED <<config, calibration, search, sampling, status>>
              \/ /\ checkpoint + 1 < Checkpoints
                 /\ checkpoint' = checkpoint + 1 /\ desired' = 2 * desired
                 /\ UNCHANGED <<config, pc, calibration, search, drawn, status, rejected>>
              \/ End("SAMPLE_BUDGET_EXCEEDED") /\ UNCHANGED rejected
  BY DEF CheckInterval
<1> DEFINE interval == Enclosure(p, statistical + numeric, statistical + numeric)
<1>2. interval.lower \in Int /\ interval.upper \in Int
  BY SolverAssumption DEF Enclosure, Probability, Least, Most
<1>3. /\ intervals' = intervals + 1
      /\ missed' = (missed \/ Missed(interval))
  BY <1>1
<1>4. missed' \in BOOLEAN
  BY <1>0, <1>3 DEF SolverTypeOK, Missed
<1>5. ~missed' => ~missed /\ ~Missed(interval)
  BY <1>3
<1>6. intervals' \in Nat /\ intervals' <= round * Checkpoints
  BY <1>0, <1>3, SolverAssumption DEF SolverTypeOK, Spent
<1>7. ASSUME NEW s, End(s), UNCHANGED rejected,
             s = "CERTIFIED" => InBand(interval.lower) /\ InBand(interval.upper)
      PROVE  SolverInv'
  <2>1. SolverTypeOK'
    BY <1>0, <1>4, <1>6, <1>7 DEF SolverTypeOK, End, calibration, search, sampling
  <2>2. AtTheEdge' /\ Spent' /\ Pending' /\ BracketHoldsRoot'
    BY <1>0, <1>6, <1>7 DEF End, calibration, AtTheEdge, Spent, Pending, BracketHoldsRoot
  <2>3. CertifiedIsTrue'
    BY <1>0, <1>2, <1>5, <1>7, IntervalsTell
       DEF End, calibration, search, CertifiedIsTrue, InBand, Trained
  <2>4. QED
    BY <2>1, <2>2, <2>3 DEF SolverInv
<1>8. CASE /\ Disjoint(interval)
           /\ pc' = "calibrate" /\ rejected' = rejected \union {theta}
           /\ UNCHANGED <<config, calibration, search, sampling, status>>
  <2>1. SolverTypeOK'
    BY <1>0, <1>4, <1>6, <1>8 DEF SolverTypeOK, calibration, search, sampling
  <2>2. AtTheEdge' /\ Spent' /\ Pending' /\ BracketHoldsRoot'
    BY <1>0, <1>6, <1>8 DEF calibration, AtTheEdge, Spent, Pending, BracketHoldsRoot
  <2>3. CertifiedIsTrue'
    BY <1>0, <1>2, <1>5, <1>8, IntervalsTell DEF CertifiedIsTrue, Pending, InBand
  <2>4. QED
    BY <2>1, <2>2, <2>3 DEF SolverInv
<1>9. CASE /\ checkpoint + 1 < Checkpoints
           /\ checkpoint' = checkpoint + 1 /\ desired' = 2 * desired
           /\ UNCHANGED <<config, pc, calibration, search, drawn, status, rejected>>
  <2>1. SolverTypeOK'
    BY <1>0, <1>4, <1>6, <1>9 DEF SolverTypeOK, calibration, search
  <2>2. AtTheEdge' /\ Pending' /\ BracketHoldsRoot'
    BY <1>0, <1>9 DEF calibration, search, AtTheEdge, Pending, BracketHoldsRoot
  <2>3. Spent'
    BY <1>0, <1>3, <1>6, <1>9, SolverAssumption DEF SolverTypeOK, calibration, Spent
  <2>4. CertifiedIsTrue'
    BY <1>0, <1>5, <1>9 DEF calibration, search, CertifiedIsTrue, Pending, InBand, Trained
  <2>5. QED
    BY <2>1, <2>2, <2>3, <2>4 DEF SolverInv
<1>10. QED
  BY <1>1, <1>7, <1>8, <1>9

LEMMA NumericFailurePreserves ==
  ASSUME SolverInv, NumericFailure
  PROVE  SolverInv'
BY EndSearchPreserves DEF NumericFailure

\* Every step of the solver keeps its invariant.
LEMMA SolverStepPreserves ==
  ASSUME SolverInv, SolverStep
  PROVE  SolverInv'
BY CalibratePreserves, AllRejectedPreserves, EvaluateInitialPreserves, ExpandPreserves,
   ExpansionLimitPreserves, BisectPreserves, BisectionLimitPreserves, DrawPreserves,
   CheckIntervalPreserves, NumericFailurePreserves DEF SolverStep

-----------------------------------------------------------------------------
(* The calls.                                                              *)

LEMMA InitialValues ==
  /\ NoCurve \in [Theta -> Probability] /\ ThetaMin \in Theta
  /\ Rounds \in Nat /\ 0 \in 0 .. Rounds
<1>1. 0 \in Probability /\ ThetaMin \in Theta
  BY SolverAssumption DEF Theta, Probability
<1>2. Rounds \in Nat
  BY SolverAssumption
<1>3. 0 \in 0 .. Rounds
  BY <1>2
<1>4. NoCurve \in [Theta -> Probability]
  BY <1>1 DEF NoCurve
<1>5. QED
  BY <1>1, <1>2, <1>3, <1>4

LEMMA IdleIsFine ==
  ASSUME config \in Config, Idle
  PROVE  SolverInv
<1>1. SolverTypeOK
  BY InitialValues DEF Idle, SolverTypeOK
<1>2. QED
  BY <1>1, SolverAssumption
     DEF Idle, SolverInv, AtTheEdge, Spent, Pending, BracketHoldsRoot, CertifiedIsTrue

LEMMA CallPreserves ==
  ASSUME SolverInv, NEW c \in Config, Call(c)
  PROVE  SolverInv'
<1>1. SolverTypeOK'
  BY DEF SolverInv, SolverTypeOK, Call, calibration, search, sampling, history
<1>2. AtTheEdge' /\ Spent' /\ Pending' /\ BracketHoldsRoot' /\ CertifiedIsTrue'
  BY DEF SolverInv, Call, calibration, search, sampling, history, AtTheEdge, Spent,
         Pending, BracketHoldsRoot, CertifiedIsTrue
<1>3. QED
  BY <1>1, <1>2 DEF SolverInv

LEMMA ReturnPreserves ==
  ASSUME SolverInv, Return
  PROVE  SolverInv'
<1>1. SolverTypeOK'
  BY InitialValues DEF SolverInv, Return, SolverTypeOK
<1>2. AtTheEdge' /\ Spent' /\ Pending' /\ BracketHoldsRoot' /\ CertifiedIsTrue'
  BY SolverAssumption
     DEF SolverInv, Return, AtTheEdge, Spent, Pending, BracketHoldsRoot, CertifiedIsTrue
<1>3. QED
  BY <1>1, <1>2 DEF SolverInv

LEMMA IdlenessPreserves ==
  ASSUME SolverInv, UNCHANGED solver
  PROVE  SolverInv'
BY DEF SolverInv, solver, calibration, search, sampling, history, SolverTypeOK, AtTheEdge,
       Spent, Pending, BracketHoldsRoot, CertifiedIsTrue, InBand, Trained

\* The bound on the number of intervals, from what each round spent.
LEMMA SpentIsBounded ==
  ASSUME SolverInv
  PROVE  UnionBoundCounts
<1>1. /\ round \in Nat /\ Rounds \in Nat /\ Checkpoints \in Nat /\ round <= Rounds
      /\ intervals \in Nat /\ intervals <= round * Checkpoints
  BY SolverAssumption DEF SolverInv, SolverTypeOK, Spent
<1>2. round * Checkpoints <= Rounds * Checkpoints
  <2>1. (Rounds - round) * Checkpoints >= 0
    BY <1>1
  <2>2. QED
    BY <1>1, <2>1
<1>3. round * Checkpoints \in Nat /\ Rounds * Checkpoints \in Nat
  BY <1>1
<1>4. intervals <= Rounds * Checkpoints
  BY <1>1, <1>2, <1>3
<1>5. QED
  BY <1>4 DEF UnionBoundCounts, SolverInv, Spent

-----------------------------------------------------------------------------
(* B. The suite.                                                           *)

Good == {"certified", "missed"}

SuiteTypeOK ==
  /\ binary \in [Case -> SUBSET Config] /\ manifest \in [Case -> SUBSET Config]
  /\ at \in {"down", "case", "solve", "binary", "manifest"}
  /\ plan \in Plans /\ overwrite \in BOOLEAN /\ next \in Nat \ {0}
  /\ outcome \in {"none", "OK", "error", "admitted", "refused"}
  /\ answer \in [Config -> Answers]

\* The answer a session waits for, or writes files from.
Underway ==
  /\ at = "solve" =>
       next \in Case /\ config = plan[next] /\ answer[plan[next]] = Unknown
  /\ at \in {"binary", "manifest"} => next \in Case /\ answer[plan[next]] \in Good
  /\ at = "manifest" => binary[next] = {plan[next]}
  /\ at # "solve" => pc = "idle"

Certified == \A c \in Case : \A k \in binary[c] \union manifest[c] : answer[k] \in Good

Passed ==
  at # "down" =>
    \A c \in Case : c < next => binary[c] = {plan[c]} /\ manifest[c] = {plan[c]}

Judged ==
  /\ outcome # "none" => at = "down"
  /\ OkIsCurrent /\ AdmittedIsCertified

\* Files are written where there are none, or with --overwrite.
OnRequest == at = "binary" => overwrite \/ ~Exists(next)

SuiteInv == SuiteTypeOK /\ Underway /\ Certified /\ Passed /\ Judged
IInv == SolverInv /\ SuiteInv

-----------------------------------------------------------------------------
(* Sessions.                                                               *)

\* What the assumptions say of the cases and of any plan.
LEMMA SuiteFacts ==
  /\ Len(Order) \in Nat \ {0} /\ 1 \in Case
  /\ Case \subseteq Nat \ {0}
  /\ \A n \in Nat \ {0} : n \notin Case => \A c \in Case : c < n
  /\ \A p \in Plans : p \in [Case -> Config]
<1>1. Len(Order) \in Nat \ {0}
  BY SuiteAssumption
<1>2. 1 \in Case /\ Case \subseteq Nat \ {0}
  BY <1>1 DEF Case
<1>3. \A n \in Nat \ {0} : n \notin Case => \A c \in Case : c < n
  BY <1>1 DEF Case
<1>4. ASSUME NEW p \in Plans PROVE p \in [Case -> Config]
  <2>1. ASSUME NEW c \in Case PROVE Versions[Order[c]] \subseteq Config
    BY SuiteAssumption, <1>1 DEF Case
  <2>2. QED
    BY <2>1 DEF Plans
<1>5. QED
  BY <1>1, <1>2, <1>3, <1>4

\* The invariant holds before the first session.
LEMMA InitInv == Init => IInv
<1> SUFFICES ASSUME Init PROVE IInv
  OBVIOUS
<1>1. plan[1] \in Config /\ config = plan[1]
  BY SuiteFacts DEF Init
<1>2. SolverInv
  BY <1>1, IdleIsFine DEF Init
<1>3. SuiteTypeOK
  BY SuiteFacts DEF Init, SuiteTypeOK, Answers
<1>4. Underway /\ Certified /\ Passed /\ Judged
  BY DEF Init, Idle, Underway, Certified, Passed, Judged, OkIsCurrent, AdmittedIsCertified
<1>5. QED
  BY <1>2, <1>3, <1>4 DEF IInv, SuiteInv

\* A new session, of any plan.
LEMMA BeginInv ==
  ASSUME IInv, NEW p \in Plans, NEW ow \in BOOLEAN, Begin(p, ow)
  PROVE  IInv'
<1>1. SolverInv'
  BY IdlenessPreserves DEF IInv, Begin
<1>2. SuiteTypeOK'
  BY DEF IInv, SuiteInv, SuiteTypeOK, Begin
<1>3. (Underway /\ Certified /\ Judged)'
  BY DEF IInv, SuiteInv, Begin, solver, Underway, Certified, Judged, OkIsCurrent,
         AdmittedIsCertified
<1>4. Passed'
  BY SuiteFacts DEF Begin, Passed
<1>5. QED
  BY <1>1, <1>2, <1>3, <1>4 DEF IInv, SuiteInv

\* Admission changes no file: it judges those there are.
LEMMA AdmitInv ==
  ASSUME IInv, NEW p \in Plans, Admit(p)
  PROVE  IInv'
<1>1. SolverInv'
  BY IdlenessPreserves DEF IInv, Admit
<1>2. SuiteTypeOK'
  BY DEF IInv, SuiteInv, SuiteTypeOK, Admit
<1>3. (Underway /\ Certified /\ Passed)'
  BY DEF IInv, SuiteInv, Admit, solver, Underway, Certified, Passed
<1>4. OkIsCurrent'
  BY DEF Admit, OkIsCurrent
<1>5. AdmittedIsCertified'
  <2> SUFFICES ASSUME outcome' = "admitted", NEW c \in Case
               PROVE  /\ binary'[c] = manifest'[c]
                      /\ \E k \in binary'[c] : /\ SameCase(k, plan'[c])
                                              /\ answer'[k] \in Good
    BY DEF AdmittedIsCertified, Good
  <2>1. Admitted(c, p[c])
    BY DEF Admit
  <2>2. PICK l \in manifest[c] : SameCase(l, p[c])
    BY <2>1 DEF Admitted
  <2>3. binary[c] = manifest[c] /\ answer[l] \in Good
    BY <2>1, <2>2 DEF Admitted, IInv, SuiteInv, Certified
  <2>4. QED
    BY <2>2, <2>3 DEF Admit
<1>6. QED
  BY <1>1, <1>2, <1>3, <1>4, <1>5 DEF IInv, SuiteInv, Judged, Admit

\* A workload that is kept, refused, or has to wait for its answer.
LEMMA KeepInv ==
  ASSUME IInv, Keep
  PROVE  IInv'
<1>1. SolverInv'
  BY IdlenessPreserves DEF IInv, Keep
<1>2. SuiteTypeOK'
  BY DEF IInv, SuiteInv, SuiteTypeOK, Keep
<1>3. (Underway /\ Certified /\ Judged)'
  BY DEF IInv, SuiteInv, Keep, solver, Underway, Certified, Judged, OkIsCurrent,
         AdmittedIsCertified
<1>4. Passed'
  <2> SUFFICES ASSUME NEW c \in Case, c < next'
               PROVE  binary'[c] = {plan'[c]} /\ manifest'[c] = {plan'[c]}
    BY DEF Passed
  <2>1. next \in Nat /\ c \in Nat
    BY SuiteFacts DEF IInv, SuiteInv, SuiteTypeOK
  <2>2. c < next \/ c = next
    BY <2>1 DEF Keep
  <2>3. QED
    BY <2>2 DEF Keep, Matches, IInv, SuiteInv, Passed
<1>5. QED
  BY <1>1, <1>2, <1>3, <1>4 DEF IInv, SuiteInv

LEMMA RefuseInv ==
  ASSUME IInv, Refuse
  PROVE  IInv'
<1>1. SolverInv'
  BY IdlenessPreserves DEF IInv, Refuse
<1>2. QED
  BY <1>1 DEF Refuse, Stop, solver, IInv, SuiteInv, SuiteTypeOK, Underway, Certified,
              Passed, Judged, OkIsCurrent, AdmittedIsCertified

LEMMA SolveInv ==
  ASSUME IInv, Solve
  PROVE  IInv'
<1>1. plan[next] \in Config
  BY SuiteFacts DEF Solve, IInv, SuiteInv, SuiteTypeOK
<1>2. SolverInv'
  BY <1>1, CallPreserves DEF IInv, Solve
<1>3. config' = plan[next]
  BY DEF Solve, Call
<1>4. SuiteTypeOK'
  BY DEF IInv, SuiteInv, SuiteTypeOK, Solve
<1>5. (Underway /\ Certified /\ Passed /\ Judged)'
  BY <1>3 DEF IInv, SuiteInv, Solve, Underway, Certified, Passed, Judged, OkIsCurrent,
              AdmittedIsCertified
<1>6. QED
  BY <1>2, <1>4, <1>5 DEF IInv, SuiteInv

\* The step of the solver, inside a session.
LEMMA SolverStepInv ==
  ASSUME IInv, at = "solve", SolverStep, UNCHANGED suite
  PROVE  IInv'
<1>1. SolverInv'
  BY SolverStepPreserves DEF IInv
<1>2. config' = config
  BY DEF SolverStep, Calibrate, AllRejected, EvaluateInitial, Expand, ExpandTo,
         ExpansionLimit, Bisect, BisectAt, BisectionLimit, Draw, CheckInterval,
         NumericFailure, EndSearch, End, Settle, Certify, Continue
<1>3. QED
  BY <1>1, <1>2 DEF IInv, SuiteInv, suite, SuiteTypeOK, Underway, Certified, Passed,
                    Judged, OkIsCurrent, AdmittedIsCertified

\* The answer of the solver, kept for the configuration it is the answer to.
LEMMA SolvedInv ==
  ASSUME IInv, Solved
  PROVE  IInv'
<1>1. SolverInv'
  BY ReturnPreserves DEF IInv, Solved
<1>2. config \in Config /\ answer[config] = Unknown
  BY DEF Solved, IInv, SuiteInv, Underway, SolverInv, SolverTypeOK
<1>3. SuiteTypeOK'
  BY <1>2 DEF Solved, IInv, SuiteInv, SuiteTypeOK, Answers
<1>4. ASSUME NEW k \in Config, answer[k] \in Good
      PROVE  answer'[k] \in Good
  BY <1>2, <1>4 DEF Solved, Good, Unknown, IInv, SuiteInv, SuiteTypeOK
<1>5. Certified'
  BY <1>4, SuiteFacts DEF Solved, IInv, SuiteInv, SuiteTypeOK, Certified
<1>6. (Underway /\ Passed /\ Judged)'
  BY DEF Solved, Return, IInv, SuiteInv, Underway, Passed, Judged, OkIsCurrent,
         AdmittedIsCertified
<1>7. QED
  BY <1>1, <1>3, <1>5, <1>6 DEF IInv, SuiteInv

LEMMA ReplayInv ==
  ASSUME IInv, Replay
  PROVE  IInv'
<1>1. SolverInv'
  BY IdlenessPreserves DEF IInv, Replay
<1>2. plan[next] \in Config
  BY SuiteFacts DEF Replay, IInv, SuiteInv, SuiteTypeOK
<1>3. answer[plan[next]] # "failed" => answer[plan[next]] \in Good
  BY <1>2 DEF Replay, IInv, SuiteInv, SuiteTypeOK, Answers, Good
<1>4. SuiteTypeOK'
  BY DEF Replay, Stop, IInv, SuiteInv, SuiteTypeOK
<1>5. (Underway /\ Certified /\ Passed /\ Judged)'
  BY <1>3 DEF Replay, Stop, solver, IInv, SuiteInv, Underway, Certified, Passed, Judged,
              OkIsCurrent, AdmittedIsCertified
<1>6. QED
  BY <1>1, <1>4, <1>5 DEF IInv, SuiteInv

\* The two renames.
LEMMA WriteBinaryInv ==
  ASSUME IInv, WriteBinary
  PROVE  IInv'
<1>1. SolverInv'
  BY IdlenessPreserves DEF IInv, WriteBinary
<1>2. next \in Case /\ plan[next] \in Config /\ answer[plan[next]] \in Good
  BY SuiteFacts DEF WriteBinary, IInv, SuiteInv, SuiteTypeOK, Underway
<1>3. SuiteTypeOK'
  BY <1>2 DEF WriteBinary, IInv, SuiteInv, SuiteTypeOK
<1>4. binary'[next] = {plan[next]} /\ \A c \in Case \ {next} : binary'[c] = binary[c]
  BY <1>2 DEF WriteBinary, IInv, SuiteInv, SuiteTypeOK
<1>5. Certified'
  BY <1>2, <1>4 DEF WriteBinary, IInv, SuiteInv, Certified
<1>6. Passed'
  <2> SUFFICES ASSUME NEW c \in Case, c < next
               PROVE  binary'[c] = {plan[c]} /\ manifest[c] = {plan[c]}
    BY DEF Passed, WriteBinary
  <2>1. c # next
    BY <1>2, SuiteFacts
  <2>2. QED
    BY <1>4, <2>1 DEF WriteBinary, IInv, SuiteInv, Passed
<1>7. (Underway /\ Judged)'
  BY <1>2, <1>4 DEF WriteBinary, solver, IInv, SuiteInv, Underway, Judged, OkIsCurrent,
                    AdmittedIsCertified
<1>8. QED
  BY <1>1, <1>3, <1>5, <1>6, <1>7 DEF IInv, SuiteInv

LEMMA WriteManifestInv ==
  ASSUME IInv, WriteManifest
  PROVE  IInv'
<1>1. SolverInv'
  BY IdlenessPreserves DEF IInv, WriteManifest
<1>2. /\ next \in Case /\ plan[next] \in Config /\ answer[plan[next]] \in Good
      /\ binary[next] = {plan[next]}
  BY SuiteFacts DEF WriteManifest, IInv, SuiteInv, SuiteTypeOK, Underway
<1>3. SuiteTypeOK'
  BY <1>2 DEF WriteManifest, IInv, SuiteInv, SuiteTypeOK
<1>4. manifest'[next] = {plan[next]} /\ \A c \in Case \ {next} : manifest'[c] = manifest[c]
  BY <1>2 DEF WriteManifest, IInv, SuiteInv, SuiteTypeOK
<1>5. Certified'
  BY <1>2, <1>4 DEF WriteManifest, IInv, SuiteInv, Certified
<1>6. Passed'
  <2> SUFFICES ASSUME NEW c \in Case, c < next + 1
               PROVE  binary[c] = {plan[c]} /\ manifest'[c] = {plan[c]}
    BY DEF Passed, WriteManifest
  <2>1. c < next \/ c = next
    BY <1>2, SuiteFacts
  <2>2. QED
    BY <1>2, <1>4, <2>1 DEF WriteManifest, IInv, SuiteInv, Passed
<1>7. (Underway /\ Judged)'
  BY DEF WriteManifest, solver, IInv, SuiteInv, Underway, Judged, OkIsCurrent,
         AdmittedIsCertified
<1>8. QED
  BY <1>1, <1>3, <1>5, <1>6, <1>7 DEF IInv, SuiteInv

\* The end of a session: every workload has been passed.
LEMMA FinishInv ==
  ASSUME IInv, Finish
  PROVE  IInv'
<1>1. SolverInv'
  BY IdlenessPreserves DEF IInv, Finish
<1>2. \A c \in Case : binary[c] = {plan[c]} /\ manifest[c] = {plan[c]}
  BY SuiteFacts DEF Finish, IInv, SuiteInv, SuiteTypeOK, Passed
<1>3. \A c \in Case : answer[plan[c]] \in Good
  BY <1>2 DEF IInv, SuiteInv, Certified
<1>4. OkIsCurrent'
  BY <1>2, <1>3 DEF Finish, Stop, OkIsCurrent, Good
<1>5. (SuiteTypeOK /\ Underway /\ Certified /\ Passed)'
  BY DEF Finish, Stop, solver, IInv, SuiteInv, SuiteTypeOK, Underway, Certified, Passed
<1>6. (outcome # "none" => at = "down")' /\ AdmittedIsCertified'
  BY DEF Finish, Stop, AdmittedIsCertified
<1>7. QED
  BY <1>1, <1>4, <1>5, <1>6 DEF IInv, SuiteInv, Judged

LEMMA CrashInv ==
  ASSUME IInv, Crash
  PROVE  IInv'
<1>1. SolverInv'
  BY IdlenessPreserves, ReturnPreserves DEF IInv, Crash
<1>2. pc' = "idle"
  BY DEF Crash, Return, solver, IInv, SuiteInv, Underway
<1>3. QED
  BY <1>1, <1>2 DEF Crash, Stop, IInv, SuiteInv, SuiteTypeOK, Underway, Certified, Passed,
                    Judged, OkIsCurrent, AdmittedIsCertified

\* Every step keeps the invariant.
LEMMA Inductive == IInv /\ [Next]_vars => IInv'
<1> SUFFICES ASSUME IInv, [Next]_vars PROVE IInv'
  OBVIOUS
<1>1. CASE UNCHANGED vars
  <2>1. SolverInv'
    BY <1>1, IdlenessPreserves DEF vars, IInv
  <2>2. QED
    BY <1>1, <2>1 DEF vars, suite, solver, IInv, SuiteInv, SuiteTypeOK, Underway,
                      Certified, Passed, Judged, OkIsCurrent, AdmittedIsCertified
<1>2. CASE Next
  BY <1>2, BeginInv, AdmitInv, KeepInv, RefuseInv, SolveInv, ReplayInv, SolvedInv,
     WriteBinaryInv, WriteManifestInv, FinishInv, CrashInv, SolverStepInv DEF Next
<1>3. QED
  BY <1>1, <1>2

\* It holds throughout.
LEMMA Invariance == Spec => []IInv
BY InitInv, Inductive, PTL DEF Spec

-----------------------------------------------------------------------------
(* The theorems.                                                           *)

\* The bracket encloses the root, through every expansion and bisection.
THEOREM AlwaysBracketHoldsRoot == Spec => []BracketHoldsRoot
<1>1. IInv => BracketHoldsRoot
  BY DEF IInv, SolverInv
<1>2. QED
  BY Invariance, <1>1, PTL

\* What is certified was trained, and is true unless an interval missed.
THEOREM AlwaysCertifiedIsTrue == Spec => []CertifiedIsTrue
<1>1. IInv => CertifiedIsTrue
  BY DEF IInv, SolverInv
<1>2. QED
  BY Invariance, <1>1, PTL

\* The failure probability is divided among all the intervals there are.
THEOREM AlwaysUnionBoundCounts == Spec => []UnionBoundCounts
<1>1. IInv => UnionBoundCounts
  BY SpentIsBounded DEF IInv
<1>2. QED
  BY Invariance, <1>1, PTL

\* A session that ends well leaves the suite as it is now, every workload
\* generated at a certified theta.
THEOREM AlwaysOkIsCurrent == Spec => []OkIsCurrent
<1>1. IInv => OkIsCurrent
  BY DEF IInv, SuiteInv, Judged
<1>2. QED
  BY Invariance, <1>1, PTL

\* A suite of runs admits only whole pairs of its own cases, generated at a
\* certified theta.
THEOREM AlwaysAdmittedIsCertified == Spec => []AdmittedIsCertified
<1>1. IInv => AdmittedIsCertified
  BY DEF IInv, SuiteInv, Judged
<1>2. QED
  BY Invariance, <1>1, PTL

\* Without --overwrite, a session changes no file that it found.
THEOREM OnlyOnRequest == Spec => ReplacedOnRequest
<1>1. Init => OnRequest
  BY DEF Init, OnRequest
<1>2. OnRequest /\ [Next]_vars => OnRequest'
  <2> SUFFICES ASSUME OnRequest, [Next]_vars, at' = "binary" PROVE OnRequest'
    BY DEF OnRequest
  <2>1. CASE Replay
    BY <2>1 DEF Replay, Stop, Generates, Exists, OnRequest
  <2>2. CASE ~Replay
    BY <2>2 DEF Next, vars, suite, Begin, Admit, Keep, Refuse, Solve, Solved, WriteBinary,
                WriteManifest, Finish, Crash, Stop, Exists, OnRequest
  <2>3. QED
    BY <2>1, <2>2
<1>3. ASSUME IInv, OnRequest, [Next]_vars, NEW c \in Case, Exists(c),
             binary[c] # binary'[c] \/ manifest[c] # manifest'[c]
      PROVE  overwrite \/ binary[c] = binary'[c]
  <2>1. CASE WriteBinary
    BY <1>3, <2>1 DEF WriteBinary, OnRequest, IInv, SuiteInv, SuiteTypeOK
  <2>2. CASE ~WriteBinary
    BY <1>3, <2>2 DEF Next, vars, suite, Begin, Admit, Keep, Refuse, Solve, Solved, Replay,
                      WriteManifest, Finish, Crash, Stop
  <2>3. QED
    BY <2>1, <2>2
<1>4. IInv /\ OnRequest /\ [Next]_vars =>
        [\A c \in Case : Exists(c) /\ (binary[c] # binary'[c] \/ manifest[c] # manifest'[c])
           => overwrite \/ binary[c] = binary'[c]]_vars
  BY <1>3
<1>5. QED
  BY Invariance, <1>1, <1>2, <1>4, PTL DEF Spec, ReplacedOnRequest

-----------------------------------------------------------------------------
(* Why a session comes to its end.  A rank of six numbers, of which every  *)
(* step of a session lowers the first that it changes.                     *)

\* Workloads to come, and how far the session is with this one.
Left  == Most(0, Len(Order) + 1 - next)
Stage ==
  CASE at = "case" /\ next \in Case /\ answer[plan[next]] = Unknown -> 5
    [] at = "solve"    -> 4
    [] at = "binary"   -> 2
    [] at = "manifest" -> 1
    [] at = "down"     -> 0
    [] OTHER           -> 3

\* Rounds to come, and how far the solver is with this one: expansions,
\* bisections or intervals that it may still make, samples for the next.
RoundsLeft == Rounds - round
Place ==
  CASE pc = "initial"   -> 5
    [] pc = "expand"    -> 4
    [] pc = "bisect"    -> 3
    [] pc = "certify"   -> 2
    [] pc = "calibrate" -> 1
    [] OTHER            -> 0
Tries ==
  CASE pc = "expand"  -> Most(0, MaxExpand - steps)
    [] pc = "bisect"  -> Most(0, MaxBisect - steps)
    [] pc = "certify" -> Checkpoints - checkpoint
    [] OTHER          -> 0
Samples == IF pc = "certify" THEN desired - drawn ELSE 0

Rank == <<Left, Stage, RoundsLeft, Place, Tries, Samples>>

\* No number of it falls below zero, and each step lowers the first one that
\* it changes.
Ranked == \A i \in 1 .. 6 : Rank[i] \in Nat
Closer == \E i \in 1 .. 6 : Rank'[i] < Rank[i] /\ \A j \in 1 .. i - 1 : Rank'[j] = Rank[j]
StepsAreCounted == [][Step => Closer]_vars

\* The first number that changes is lower: one way for each number.
LEMMA Lexicographic ==
  ASSUME \/ Left' < Left
         \/ Left' = Left /\ Stage' < Stage
         \/ /\ Left' = Left /\ Stage' = Stage
            /\ \/ RoundsLeft' < RoundsLeft
               \/ RoundsLeft' = RoundsLeft /\ Place' < Place
               \/ RoundsLeft' = RoundsLeft /\ Place' = Place /\ Tries' < Tries
               \/ RoundsLeft' = RoundsLeft /\ Place' = Place /\ Tries' = Tries /\ Samples' < Samples
  PROVE  Closer
<1>1. /\ Rank[1] = Left /\ Rank[2] = Stage /\ Rank[3] = RoundsLeft
      /\ Rank[4] = Place /\ Rank[5] = Tries /\ Rank[6] = Samples
  BY DEF Rank
<1>2. /\ Rank'[1] = Left' /\ Rank'[2] = Stage' /\ Rank'[3] = RoundsLeft'
      /\ Rank'[4] = Place' /\ Rank'[5] = Tries' /\ Rank'[6] = Samples'
  BY DEF Rank
<1>3. ASSUME NEW n \in 1 .. 6, Rank'[n] < Rank[n], \A j \in 1 .. n - 1 : Rank'[j] = Rank[j]
      PROVE  Closer
  BY <1>3 DEF Closer
<1>4. /\ \A j \in 1 .. 1 - 1 : FALSE
      /\ \A j \in 1 .. 2 - 1 : j = 1
      /\ \A j \in 1 .. 3 - 1 : j = 1 \/ j = 2
      /\ \A j \in 1 .. 4 - 1 : j = 1 \/ j = 2 \/ j = 3
      /\ \A j \in 1 .. 5 - 1 : j = 1 \/ j = 2 \/ j = 3 \/ j = 4
      /\ \A j \in 1 .. 6 - 1 : j = 1 \/ j = 2 \/ j = 3 \/ j = 4 \/ j = 5
  OBVIOUS
<1>5. 1 \in 1 .. 6 /\ 2 \in 1 .. 6 /\ 3 \in 1 .. 6 /\ 4 \in 1 .. 6 /\ 5 \in 1 .. 6 /\ 6 \in 1 .. 6
  OBVIOUS
<1>6. CASE Left' < Left
  BY <1>1, <1>2, <1>3, <1>4, <1>5, <1>6, Zenon
<1>7. CASE Left' = Left /\ Stage' < Stage
  BY <1>1, <1>2, <1>3, <1>4, <1>5, <1>7, Zenon
<1>8. CASE Left' = Left /\ Stage' = Stage /\ RoundsLeft' < RoundsLeft
  BY <1>1, <1>2, <1>3, <1>4, <1>5, <1>8, Zenon
<1>9. CASE Left' = Left /\ Stage' = Stage /\ RoundsLeft' = RoundsLeft /\ Place' < Place
  BY <1>1, <1>2, <1>3, <1>4, <1>5, <1>9, Zenon
<1>10. CASE /\ Left' = Left /\ Stage' = Stage /\ RoundsLeft' = RoundsLeft /\ Place' = Place
            /\ Tries' < Tries
  BY <1>1, <1>2, <1>3, <1>4, <1>5, <1>10, Zenon
<1>11. CASE /\ Left' = Left /\ Stage' = Stage /\ RoundsLeft' = RoundsLeft /\ Place' = Place
            /\ Tries' = Tries /\ Samples' < Samples
  BY <1>1, <1>2, <1>3, <1>4, <1>5, <1>11, Zenon
<1> QED BY <1>6, <1>7, <1>8, <1>9, <1>10, <1>11

\* The numbers of the rank are natural: what may still be done is bounded.
LEMMA RanksAreNatural == IInv => Ranked
<1> SUFFICES ASSUME IInv PROVE Ranked
  OBVIOUS
<1>1. /\ Len(Order) \in Nat /\ next \in Nat /\ round \in 0 .. Rounds /\ steps \in Nat
      /\ Rounds \in Nat /\ Checkpoints \in Nat /\ MaxExpand \in Nat /\ MaxBisect \in Nat
      /\ checkpoint \in Nat /\ desired \in Nat /\ drawn \in Nat
      /\ pc = "certify" => checkpoint < Checkpoints /\ drawn <= desired
  BY SuiteFacts, SolverAssumption DEF IInv, SuiteInv, SuiteTypeOK, SolverInv, SolverTypeOK, Spent
<1>2. Left \in Nat
  BY <1>1 DEF Left, Most
<1>3. Stage \in Nat
  BY DEF Stage
<1>4. RoundsLeft \in Nat
  BY <1>1 DEF RoundsLeft
<1>5. Place \in Nat
  BY DEF Place
<1>6. Tries \in Nat
  BY <1>1 DEF Tries, Most
<1>7. Samples \in Nat
  BY <1>1 DEF Samples
<1>8. /\ Rank[1] = Left /\ Rank[2] = Stage /\ Rank[3] = RoundsLeft
      /\ Rank[4] = Place /\ Rank[5] = Tries /\ Rank[6] = Samples
  BY DEF Rank
<1>9. ASSUME NEW n \in 1 .. 6 PROVE Rank[n] \in Nat
  <2>1. n = 1 \/ n = 2 \/ n = 3 \/ n = 4 \/ n = 5 \/ n = 6
    OBVIOUS
  <2> QED BY <1>2, <1>3, <1>4, <1>5, <1>6, <1>7, <1>8, <2>1, Zenon
<1> QED BY <1>9 DEF Ranked

\* The solver leaves a place for a later one of the same round.
LEMMA PlaceCloser ==
  ASSUME UNCHANGED <<suite, round>>, Place' < Place
  PROVE  Closer
<1>1. Left' = Left /\ Stage' = Stage /\ RoundsLeft' = RoundsLeft
  BY DEF Left, Stage, RoundsLeft, suite
<1> QED BY <1>1, Lexicographic

\* Or it stays there, and has one try less.
LEMMA TryCloser ==
  ASSUME UNCHANGED <<suite, round, pc>>, Tries' < Tries
  PROVE  Closer
<1>1. Left' = Left /\ Stage' = Stage /\ RoundsLeft' = RoundsLeft /\ Place' = Place
  BY DEF Left, Stage, RoundsLeft, Place, suite
<1> QED BY <1>1, Lexicographic

\* Every step of the solver.
LEMMA SolverCloser ==
  ASSUME IInv, SolverStep, UNCHANGED suite
  PROVE  Closer
<1>1. /\ round \in 0 .. Rounds /\ steps \in Nat /\ checkpoint \in Nat
      /\ desired \in Nat /\ drawn \in Nat
      /\ Rounds \in Nat /\ Checkpoints \in Nat /\ MaxExpand \in Nat /\ MaxBisect \in Nat
      /\ Batch \in Nat \ {0}
  BY SolverAssumption DEF IInv, SolverInv, SolverTypeOK
<1>2. Left' = Left /\ Stage' = Stage
  BY DEF Left, Stage, suite
<1>3. CASE Calibrate
  <2>1. RoundsLeft' < RoundsLeft
    BY <1>1, <1>3 DEF Calibrate, RoundsLeft
  <2> QED BY <1>2, <2>1, Lexicographic
<1>4. ASSUME NEW s, EndSearch(s), Place > 0 PROVE Closer
  <2>1. Place' = 0 /\ round' = round
    BY <1>4 DEF EndSearch, End, Place, calibration
  <2> QED BY <1>4, <2>1, PlaceCloser
<1>5. ASSUME NEW t, Certify(t), Place > 2 PROVE Closer
  <2>1. Place' = 2 /\ round' = round
    BY <1>5 DEF Certify, Place, calibration
  <2> QED BY <1>5, <2>1, PlaceCloser
<1>6. ASSUME NEW t, NEW estimate, Settle(t, estimate), Place > 2 PROVE Closer
  <2>1. Place > 0
    BY <1>6 DEF Place
  <2> QED BY <1>4, <1>5, <1>6, <2>1 DEF Settle
<1>7. CASE AllRejected
  BY <1>4, <1>7 DEF AllRejected, Place
<1>8. CASE EvaluateInitial
  <2>1. Place = 5
    BY <1>8 DEF EvaluateInitial, Place
  <2>2. CASE Continue("expand")
    <3>1. Place' = 4 /\ round' = round
      BY <2>2 DEF Continue, Place, calibration
    <3> QED BY <2>1, <3>1, PlaceCloser
  <2>3. CASE EndSearch("TARGET_BELOW_NUMERIC_RESOLUTION")
    BY <1>4, <2>1, <2>3
  <2>4. ASSUME NEW estimate, Settle(theta, estimate) PROVE Closer
    BY <1>6, <2>1, <2>4
  <2> QED BY <1>8, <2>2, <2>3, <2>4 DEF EvaluateInitial
<1>9. CASE Expand
  <2>1. Place = 4 /\ pc = "expand" /\ steps < MaxExpand
    BY <1>9 DEF Expand, Place
  <2>2. CASE Continue("expand") /\ steps' = steps + 1
    <3>1. pc' = pc /\ round' = round
      BY <2>1, <2>2 DEF Continue, calibration
    <3>2. Tries = MaxExpand - steps
      BY <1>1, <2>1 DEF Tries, Most
    <3>3. Tries' = MaxExpand - (steps + 1)
      BY <1>1, <2>1, <2>2, <3>1 DEF Tries, Most
    <3> QED BY <1>1, <3>1, <3>2, <3>3, TryCloser
  <2>3. CASE Continue("bisect")
    <3>1. Place' = 3 /\ round' = round
      BY <2>3 DEF Continue, Place, calibration
    <3> QED BY <2>1, <3>1, PlaceCloser
  <2>4. ASSUME NEW s, EndSearch(s) PROVE Closer
    BY <1>4, <2>1, <2>4
  <2>5. ASSUME NEW t, NEW estimate, Settle(t, estimate) PROVE Closer
    BY <1>6, <2>1, <2>5
  <2> QED BY <1>9, <2>2, <2>3, <2>4, <2>5 DEF Expand, ExpandTo
<1>10. CASE ExpansionLimit
  BY <1>4, <1>10 DEF ExpansionLimit, Place
<1>11. CASE Bisect
  <2>1. Place = 3 /\ pc = "bisect" /\ steps < MaxBisect
    BY <1>11 DEF Bisect, Place
  <2>2. CASE Continue("bisect") /\ steps' = steps + 1
    <3>1. pc' = pc /\ round' = round
      BY <2>1, <2>2 DEF Continue, calibration
    <3>2. Tries = MaxBisect - steps
      BY <1>1, <2>1 DEF Tries, Most
    <3>3. Tries' = MaxBisect - (steps + 1)
      BY <1>1, <2>1, <2>2, <3>1 DEF Tries, Most
    <3> QED BY <1>1, <3>1, <3>2, <3>3, TryCloser
  <2>3. ASSUME NEW s, EndSearch(s) PROVE Closer
    BY <1>4, <2>1, <2>3
  <2>4. ASSUME NEW t, Certify(t) PROVE Closer
    BY <1>5, <2>1, <2>4
  <2> QED BY <1>11, <2>2, <2>3, <2>4 DEF Bisect, BisectAt
<1>12. CASE BisectionLimit
  BY <1>4, <1>12 DEF BisectionLimit, Place
<1>13. CASE Draw
  <2>1. /\ pc = "certify" /\ pc' = pc /\ round' = round /\ checkpoint' = checkpoint
        /\ drawn < desired /\ desired' = desired
        /\ drawn' = drawn + Least(Batch, desired - drawn)
    BY <1>13 DEF Draw, calibration
  <2>2. RoundsLeft' = RoundsLeft /\ Place' = Place /\ Tries' = Tries
    BY <2>1 DEF RoundsLeft, Place, Tries
  <2>3. Least(Batch, desired - drawn) \in Nat \ {0}
    BY <1>1, <2>1 DEF Least
  <2>4. Samples' < Samples
    BY <1>1, <2>1, <2>3 DEF Samples
  <2> QED BY <1>2, <2>2, <2>4, Lexicographic
<1>14. CASE CheckInterval
  <2>1. Place = 2 /\ pc = "certify"
    BY <1>14 DEF CheckInterval, Place
  <2>2. ASSUME NEW s, End(s) PROVE Closer
    <3>1. Place' = 0 /\ round' = round
      BY <2>2 DEF End, Place, calibration
    <3> QED BY <2>1, <3>1, PlaceCloser
  <2>3. CASE pc' = "calibrate" /\ UNCHANGED calibration
    <3>1. Place' = 1 /\ round' = round
      BY <2>3 DEF Place, calibration
    <3> QED BY <2>1, <3>1, PlaceCloser
  <2>4. CASE checkpoint' = checkpoint + 1 /\ UNCHANGED <<pc, calibration>>
    <3>1. pc' = pc /\ round' = round /\ Tries' < Tries
      BY <1>1, <2>1, <2>4 DEF Tries, calibration
    <3> QED BY <3>1, TryCloser
  <2> QED BY <1>14, <2>2, <2>3, <2>4 DEF CheckInterval
<1>15. CASE NumericFailure
  <2>1. Place > 0
    BY <1>15 DEF NumericFailure, Place
  <2> QED BY <1>4, <1>15, <2>1 DEF NumericFailure
<1> QED BY <1>3, <1>7, <1>8, <1>9, <1>10, <1>11, <1>12, <1>13, <1>14, <1>15 DEF SolverStep

\* Every step of a session.
LEMMA StepCloser ==
  ASSUME IInv, Step
  PROVE  Closer
<1>1. Len(Order) \in Nat /\ next \in Nat
  BY SuiteFacts DEF IInv, SuiteInv, SuiteTypeOK
<1>2. ASSUME next \in Case, next' = next + 1 PROVE Closer
  <2>1. next <= Len(Order)
    BY <1>1, <1>2 DEF Case
  <2>2. Left' < Left
    BY <1>1, <1>2, <2>1 DEF Left, Most
  <2> QED BY <2>2, Lexicographic
<1>3. ASSUME next' = next, Stage' < Stage PROVE Closer
  <2>1. Left' = Left
    BY <1>3 DEF Left
  <2> QED BY <1>3, <2>1, Lexicographic
<1>4. ASSUME at # "down", at' = "down", next' = next PROVE Closer
  <2>1. Stage' = 0 /\ Stage > 0
    BY <1>4 DEF Stage
  <2> QED BY <1>3, <1>4, <2>1
<1>5. CASE Keep
  BY <1>2, <1>5 DEF Keep
<1>6. CASE Refuse \/ Finish
  BY <1>4, <1>6 DEF Refuse, Finish, Stop
<1>7. CASE Solve
  <2>1. Stage = 5 /\ Stage' = 4 /\ next' = next
    BY <1>7 DEF Solve, Stage
  <2> QED BY <1>3, <2>1
<1>8. CASE Replay
  <2>1. CASE Stop("error")
    BY <1>4, <1>8, <2>1 DEF Replay, Stop
  <2>2. CASE at' = "binary" /\ next' = next
    <3>1. Stage = 3 /\ Stage' = 2
      BY <1>8, <2>2 DEF Replay, Stage
    <3> QED BY <1>3, <2>2, <3>1
  <2> QED BY <1>8, <2>1, <2>2 DEF Replay
<1>9. CASE Solved
  <2>1. /\ at = "solve" /\ at' = "case" /\ next' = next /\ plan' = plan
        /\ config = plan[next] /\ config \in Config
    BY <1>9 DEF Solved, IInv, SuiteInv, Underway, SolverInv, SolverTypeOK
  <2>2. answer'[plan[next]] # Unknown
    BY <1>9, <2>1 DEF Solved, IInv, SuiteInv, SuiteTypeOK, Unknown
  <2>3. Stage = 4 /\ Stage' = 3
    BY <2>1, <2>2 DEF Stage
  <2> QED BY <1>3, <2>1, <2>3
<1>10. CASE WriteBinary
  <2>1. Stage = 2 /\ Stage' = 1 /\ next' = next
    BY <1>10 DEF WriteBinary, Stage
  <2> QED BY <1>3, <2>1
<1>11. CASE WriteManifest
  <2>1. next \in Case /\ next' = next + 1
    BY <1>11 DEF WriteManifest, IInv, SuiteInv, Underway
  <2> QED BY <1>2, <2>1
<1>12. CASE at = "solve" /\ SolverStep /\ UNCHANGED suite
  BY <1>12, SolverCloser
<1> QED BY <1>5, <1>6, <1>7, <1>8, <1>9, <1>10, <1>11, <1>12 DEF Step

\* Every step of a session, from its start to its end, brings it closer to its
\* end (main of prepare_synthetic_suite.py and solve_coverage): no list of
\* workloads, no curve and no budget lets it go on for ever.
THEOREM SessionsAreCounted == Spec => []Ranked /\ StepsAreCounted
<1>1. IInv /\ [Next]_vars => [Step => Closer]_vars
  BY StepCloser
<1> QED BY <1>1, Invariance, RanksAreNatural, PTL DEF Spec, StepsAreCounted

-----------------------------------------------------------------------------
(* C. The workload format.                                                 *)

\* Division with remainder.
LEMMA DivMod ==
  ASSUME NEW n \in Nat, NEW m \in Nat \ {0}
  PROVE  /\ n \div m \in Nat /\ n % m \in 0 .. m - 1
         /\ n = m * (n \div m) + (n % m)
OBVIOUS

\* A larger factor makes the product larger by the other at least.
LEMMA Grows ==
  ASSUME NEW m \in Nat, NEW p \in Nat, NEW q \in Nat, p < q
  PROVE  m * p + m <= m * q
<1>1. q - p - 1 \in Nat /\ m * (q - p - 1) \in Nat
  OBVIOUS
<1>2. m * q = m * p + m + m * (q - p - 1)
  OBVIOUS
<1> QED BY <1>1, <1>2

\* A multiple leaves no remainder.
LEMMA MultipleMod ==
  ASSUME NEW m \in Nat \ {0}, NEW q \in Nat
  PROVE  (m * q) % m = 0
<1> DEFINE n == m * q
           p == n \div m
<1>1. n \in Nat
  OBVIOUS
<1>2. p \in Nat /\ n % m \in 0 .. m - 1 /\ n = m * p + (n % m)
  BY <1>1, DivMod
<1> HIDE DEF p
<1>3. ~(p < q)
  <2> SUFFICES ASSUME p < q PROVE FALSE
    OBVIOUS
  <2>1. m * p + m <= m * q
    BY <1>2, Grows
  <2> QED BY <1>2, <2>1
<1>4. ~(q < p)
  <2> SUFFICES ASSUME q < p PROVE FALSE
    OBVIOUS
  <2>1. m * q + m <= m * p
    BY <1>2, Grows
  <2> QED BY <1>2, <2>1
<1>5. p = q
  BY <1>2, <1>3, <1>4
<1>6. n = n + (n % m)
  BY <1>2, <1>5
<1>7. n \in Nat /\ n % m \in Nat
  BY <1>1, <1>2
<1> HIDE DEF n
<1>8. n % m = 0
  BY <1>6, <1>7
<1> QED BY <1>8 DEF n

\* Align gives the next multiple of the alignment, the only one before the one
\* after.
LEMMA AlignFacts ==
  ASSUME NEW x \in Nat
  PROVE  /\ Align(x) \in Nat /\ x <= Align(x) /\ Align(x) < x + Alignment
         /\ Align(x) % Alignment = 0
         /\ \A o \in Nat : o % Alignment = 0 /\ x <= o /\ o < Align(x) + Alignment => o = Align(x)
<1> DEFINE q == (x + Alignment - 1) \div Alignment
           r == (x + Alignment - 1) % Alignment
<1>1. Alignment \in Nat \ {0} /\ x + Alignment - 1 \in Nat
  BY FileAssumption
<1>2. q \in Nat /\ r \in 0 .. Alignment - 1 /\ x + Alignment - 1 = Alignment * q + r
  BY <1>1, DivMod
<1>3. Align(x) = Alignment * q
  BY <1>1, <1>2 DEF Align
<1> HIDE DEF q, r
<1>4. Alignment * q \in Nat /\ x <= Alignment * q /\ Alignment * q < x + Alignment
  BY <1>1, <1>2
<1>5. (Alignment * q) % Alignment = 0
  BY <1>1, <1>2, MultipleMod
<1>6. ASSUME NEW o \in Nat, o % Alignment = 0, x <= o, o < Alignment * q + Alignment
      PROVE  o = Alignment * q
  <2> DEFINE p == o \div Alignment
  <2>1. p \in Nat /\ o = Alignment * p
    BY <1>1, <1>6, DivMod
  <2> HIDE DEF p
  <2>2. ~(p < q)
    <3> SUFFICES ASSUME p < q PROVE FALSE
      OBVIOUS
    <3>1. Alignment * p + Alignment <= Alignment * q
      BY <1>1, <1>2, <2>1, Grows
    <3> QED BY <1>1, <1>2, <1>4, <1>6, <2>1, <3>1
  <2>3. ~(q < p)
    <3> SUFFICES ASSUME q < p PROVE FALSE
      OBVIOUS
    <3>1. Alignment * q + Alignment <= Alignment * p
      BY <1>1, <1>2, <2>1, Grows
    <3> QED BY <1>1, <1>4, <1>6, <2>1, <3>1
  <2>4. p = q
    BY <1>2, <2>1, <2>2, <2>3
  <2> QED BY <2>1, <2>4
<1> QED BY <1>3, <1>4, <1>5, <1>6

\* Sequences that begin with parts of one length agree only part by part.
LEMMA ConcatCancel ==
  ASSUME NEW T, NEW s \in Seq(T), NEW t \in Seq(T), NEW u \in Seq(T), NEW v \in Seq(T),
         Len(s) = Len(t), s \o u = t \o v
  PROVE  s = t /\ u = v
<1>1. /\ Len(s \o u) = Len(s) + Len(u) /\ Len(t \o v) = Len(t) + Len(v)
      /\ \A i \in 1 .. Len(s) + Len(u) :
           (s \o u)[i] = IF i <= Len(s) THEN s[i] ELSE u[i - Len(s)]
      /\ \A i \in 1 .. Len(t) + Len(v) :
           (t \o v)[i] = IF i <= Len(t) THEN t[i] ELSE v[i - Len(t)]
  BY ConcatProperties
<1>2. Len(s) \in Nat /\ Len(u) \in Nat /\ Len(v) \in Nat /\ Len(u) = Len(v)
  BY <1>1, LenProperties
<1>3. \A i \in 1 .. Len(s) : s[i] = t[i]
  BY <1>1, <1>2
<1>4. ASSUME NEW i \in 1 .. Len(u) PROVE u[i] = v[i]
  <2> DEFINE j == i + Len(s)
  <2>1. j \in 1 .. Len(s) + Len(u) /\ ~(j <= Len(s)) /\ j - Len(s) = i
    BY <1>2
  <2> HIDE DEF j
  <2>2. (s \o u)[j] = u[i]
    BY <1>1, <2>1
  <2>3. j \in 1 .. Len(t) + Len(v) /\ ~(j <= Len(t)) /\ j - Len(t) = i
    BY <1>2, <2>1
  <2>4. (t \o v)[j] = v[i]
    BY <1>1, <2>3
  <2> QED BY <2>2, <2>4
<1> QED BY <1>2, <1>3, <1>4, SeqEqual

\* What is put together has the lengths of its parts.
LEMMA ConcatLength ==
  ASSUME NEW T, NEW s \in Seq(T), NEW t \in Seq(T)
  PROVE  s \o t \in Seq(T) /\ Len(s \o t) = Len(s) + Len(t)
BY ConcatProperties

\* Of six parts, too.
LEMMA SixLength ==
  ASSUME NEW T, NEW a1 \in Seq(T), NEW a2 \in Seq(T), NEW a3 \in Seq(T),
         NEW a4 \in Seq(T), NEW a5 \in Seq(T), NEW a6 \in Seq(T)
  PROVE  /\ a1 \o a2 \o a3 \o a4 \o a5 \o a6 \in Seq(T)
         /\ Len(a1 \o a2 \o a3 \o a4 \o a5 \o a6)
              = Len(a1) + Len(a2) + Len(a3) + Len(a4) + Len(a5) + Len(a6)
         /\ a1 \o a2 \in Seq(T) /\ a1 \o a2 \o a3 \in Seq(T)
         /\ a1 \o a2 \o a3 \o a4 \in Seq(T) /\ a1 \o a2 \o a3 \o a4 \o a5 \in Seq(T)
         /\ Len(a1 \o a2) = Len(a1) + Len(a2)
         /\ Len(a1 \o a2 \o a3) = Len(a1) + Len(a2) + Len(a3)
         /\ Len(a1 \o a2 \o a3 \o a4) = Len(a1) + Len(a2) + Len(a3) + Len(a4)
         /\ Len(a1 \o a2 \o a3 \o a4 \o a5) = Len(a1) + Len(a2) + Len(a3) + Len(a4) + Len(a5)
<1>1. a1 \o a2 \in Seq(T) /\ Len(a1 \o a2) = Len(a1) + Len(a2)
  BY ConcatLength
<1> DEFINE b2 == a1 \o a2
<1> HIDE DEF b2
<1>2. b2 \o a3 \in Seq(T) /\ Len(b2 \o a3) = Len(b2) + Len(a3)
  BY <1>1, ConcatLength DEF b2
<1> DEFINE b3 == b2 \o a3
<1> HIDE DEF b3
<1>3. b3 \o a4 \in Seq(T) /\ Len(b3 \o a4) = Len(b3) + Len(a4)
  <2>1. b3 \in Seq(T)
    BY <1>2 DEF b3
  <2> QED BY <2>1, ConcatLength
<1> DEFINE b4 == b3 \o a4
<1> HIDE DEF b4
<1>4. b4 \o a5 \in Seq(T) /\ Len(b4 \o a5) = Len(b4) + Len(a5)
  <2>1. b4 \in Seq(T)
    BY <1>3 DEF b4
  <2> QED BY <2>1, ConcatLength
<1> DEFINE b5 == b4 \o a5
<1> HIDE DEF b5
<1>5. b5 \o a6 \in Seq(T) /\ Len(b5 \o a6) = Len(b5) + Len(a6)
  <2>1. b5 \in Seq(T)
    BY <1>4 DEF b5
  <2> QED BY <2>1, ConcatLength
<1> QED BY <1>1, <1>2, <1>3, <1>4, <1>5 DEF b2, b3, b4, b5

\* The payload is as long as its six arrays.
LEMMA PayloadLength ==
  ASSUME NEW T, NEW a \in [1 .. 6 -> Seq(T)]
  PROVE  /\ Payload(a) \in Seq(T)
         /\ Len(Payload(a)) = Len(a[1]) + Len(a[2]) + Len(a[3]) + Len(a[4]) + Len(a[5]) + Len(a[6])
<1>1. /\ a[1] \in Seq(T) /\ a[2] \in Seq(T) /\ a[3] \in Seq(T)
      /\ a[4] \in Seq(T) /\ a[5] \in Seq(T) /\ a[6] \in Seq(T)
  OBVIOUS
<1> QED BY <1>1, SixLength DEF Payload

\* Sequences that end with parts of one length agree only part by part.
LEMMA PeelLeft ==
  ASSUME NEW T, NEW p \in Seq(T), NEW q \in Seq(T), NEW u \in Seq(T), NEW v \in Seq(T),
         Len(u) = Len(v), p \o u = q \o v
  PROVE  p = q
<1>1. Len(p \o u) = Len(p) + Len(u) /\ Len(q \o v) = Len(q) + Len(v)
  BY ConcatLength
<1>2. Len(p) \in Nat /\ Len(q) \in Nat /\ Len(u) \in Nat
  BY LenProperties
<1>3. Len(p) = Len(q)
  BY <1>1, <1>2
<1> QED BY <1>3, ConcatCancel

\* And so do their ends.
LEMMA PeelRight ==
  ASSUME NEW T, NEW p \in Seq(T), NEW q \in Seq(T), NEW u \in Seq(T), NEW v \in Seq(T),
         Len(u) = Len(v), p \o u = q \o v
  PROVE  u = v
<1>1. p = q
  BY PeelLeft
<1> QED BY <1>1, ConcatCancel

\* The payload tells arrays of the same sizes apart.
LEMMA PayloadTells ==
  ASSUME NEW T, NEW a \in [1 .. 6 -> Seq(T)], NEW b \in [1 .. 6 -> Seq(T)],
         \A i \in 1 .. 6 : Len(a[i]) = Len(b[i]), Payload(a) = Payload(b)
  PROVE  \A i \in 1 .. 6 : a[i] = b[i]
<1> DEFINE a1 == a[1]  a2 == a[2]  a3 == a[3]  a4 == a[4]  a5 == a[5]  a6 == a[6]
           b1 == b[1]  b2 == b[2]  b3 == b[3]  b4 == b[4]  b5 == b[5]  b6 == b[6]
<1>1. /\ a1 \in Seq(T) /\ a2 \in Seq(T) /\ a3 \in Seq(T)
      /\ a4 \in Seq(T) /\ a5 \in Seq(T) /\ a6 \in Seq(T)
      /\ b1 \in Seq(T) /\ b2 \in Seq(T) /\ b3 \in Seq(T)
      /\ b4 \in Seq(T) /\ b5 \in Seq(T) /\ b6 \in Seq(T)
  OBVIOUS
<1>2. /\ Len(a2) = Len(b2) /\ Len(a3) = Len(b3)
      /\ Len(a4) = Len(b4) /\ Len(a5) = Len(b5) /\ Len(a6) = Len(b6)
  OBVIOUS
<1>3. a1 \o a2 \o a3 \o a4 \o a5 \o a6 = b1 \o b2 \o b3 \o b4 \o b5 \o b6
  BY DEF Payload
<1>4. SUFFICES a1 = b1 /\ a2 = b2 /\ a3 = b3 /\ a4 = b4 /\ a5 = b5 /\ a6 = b6
  <2>1. ASSUME NEW i \in 1 .. 6 PROVE a[i] = b[i]
    <3>1. i = 1 \/ i = 2 \/ i = 3 \/ i = 4 \/ i = 5 \/ i = 6
      OBVIOUS
    <3> QED BY <1>4, <3>1
  <2> QED BY <2>1
<1> HIDE DEF a1, a2, a3, a4, a5, a6, b1, b2, b3, b4, b5, b6
<1>5. /\ a1 \o a2 \in Seq(T) /\ a1 \o a2 \o a3 \in Seq(T)
      /\ a1 \o a2 \o a3 \o a4 \in Seq(T) /\ a1 \o a2 \o a3 \o a4 \o a5 \in Seq(T)
  BY <1>1, SixLength
<1>6. /\ b1 \o b2 \in Seq(T) /\ b1 \o b2 \o b3 \in Seq(T)
      /\ b1 \o b2 \o b3 \o b4 \in Seq(T) /\ b1 \o b2 \o b3 \o b4 \o b5 \in Seq(T)
  BY <1>1, SixLength
<1>7. a1 \o a2 \o a3 \o a4 \o a5 = b1 \o b2 \o b3 \o b4 \o b5
  BY <1>1, <1>2, <1>3, <1>5, <1>6, PeelLeft
<1>8. a6 = b6
  BY <1>1, <1>2, <1>3, <1>5, <1>6, PeelRight
<1>9. a1 \o a2 \o a3 \o a4 = b1 \o b2 \o b3 \o b4
  BY <1>1, <1>2, <1>7, <1>5, <1>6, PeelLeft
<1>10. a5 = b5
  BY <1>1, <1>2, <1>7, <1>5, <1>6, PeelRight
<1>11. a1 \o a2 \o a3 = b1 \o b2 \o b3
  BY <1>1, <1>2, <1>9, <1>5, <1>6, PeelLeft
<1>12. a4 = b4
  BY <1>1, <1>2, <1>9, <1>5, <1>6, PeelRight
<1>13. a1 \o a2 = b1 \o b2
  BY <1>1, <1>2, <1>11, <1>5, <1>6, PeelLeft
<1>14. a3 = b3
  BY <1>1, <1>2, <1>11, <1>5, <1>6, PeelRight
<1>15. a1 = b1
  BY <1>1, <1>2, <1>13, <1>5, <1>6, PeelLeft
<1>16. a2 = b2
  BY <1>1, <1>2, <1>13, <1>5, <1>6, PeelRight
<1> QED BY <1>8, <1>10, <1>12, <1>14, <1>16, <1>15

\* Factors can be cancelled.
LEMMA Cancel ==
  ASSUME NEW m \in Nat \ {0}, NEW p \in Nat, NEW q \in Nat, m * p = m * q
  PROVE  p = q
<1>1. ~(p < q)
  <2> SUFFICES ASSUME p < q PROVE FALSE
    OBVIOUS
  <2>1. m * p + m <= m * q
    BY Grows
  <2> QED BY <2>1
<1>2. ~(q < p)
  <2> SUFFICES ASSUME q < p PROVE FALSE
    OBVIOUS
  <2>1. m * q + m <= m * p
    BY Grows
  <2> QED BY <2>1
<1> QED BY <1>1, <1>2

\* Where arrays end, one after another.
LEMMA EndsEquation ==
  ASSUME NEW a
  PROVE  /\ Ends(a)[0] = HeaderSize
         /\ \A i \in 1 .. 6 : Ends(a)[i] = Align(Ends(a)[i - 1]) + Len(a[i])
<1> DEFINE e0 == HeaderSize
           e1 == Align(e0) + Len(a[1])
           e2 == Align(e1) + Len(a[2])
           e3 == Align(e2) + Len(a[3])
           e4 == Align(e3) + Len(a[4])
           e5 == Align(e4) + Len(a[5])
           e6 == Align(e5) + Len(a[6])
           f == [i \in 0 .. 6 |->
                   CASE i = 0 -> e0 [] i = 1 -> e1 [] i = 2 -> e2 [] i = 3 -> e3
                     [] i = 4 -> e4 [] i = 5 -> e5 [] i = 6 -> e6]
           F(g) == [i \in 0 .. 6 |-> IF i = 0 THEN HeaderSize ELSE Align(g[i - 1]) + Len(a[i])]
<1>1. f = F(f)
  <2>1. f[0] = e0 /\ f[1] = e1 /\ f[2] = e2 /\ f[3] = e3 /\ f[4] = e4 /\ f[5] = e5 /\ f[6] = e6
    <3> HIDE DEF e0, e1, e2, e3, e4, e5, e6
    <3> QED OBVIOUS
  <2>2. ASSUME NEW i \in 0 .. 6 PROVE f[i] = F(f)[i]
    <3>1. \/ i = 0
          \/ i = 1 /\ i - 1 = 0
          \/ i = 2 /\ i - 1 = 1
          \/ i = 3 /\ i - 1 = 2
          \/ i = 4 /\ i - 1 = 3
          \/ i = 5 /\ i - 1 = 4
          \/ i = 6 /\ i - 1 = 5
      OBVIOUS
    <3>2. F(f)[i] = IF i = 0 THEN HeaderSize ELSE Align(f[i - 1]) + Len(a[i])
      <4> HIDE DEF f
      <4> QED OBVIOUS
    <3> HIDE DEF f
    <3> QED BY <2>1, <3>1, <3>2
  <2>3. f = [i \in 0 .. 6 |-> f[i]] /\ F(f) = [i \in 0 .. 6 |-> F(f)[i]]
    OBVIOUS
  <2> HIDE DEF f, F
  <2> QED BY <2>2, <2>3
<1>2. Ends(a) = CHOOSE g : g = F(g)
  BY DEF Ends
<1> HIDE DEF f, F
<1>3. Ends(a) = F(Ends(a))
  BY <1>1, <1>2
<1>4. \A i \in 0 .. 6 : F(Ends(a))[i] = IF i = 0 THEN HeaderSize ELSE Align(Ends(a)[i - 1]) + Len(a[i])
  BY DEF F
<1>5. Ends(a)[0] = IF 0 = 0 THEN HeaderSize ELSE Align(Ends(a)[0 - 1]) + Len(a[0])
  BY <1>3, <1>4
<1>6. ASSUME NEW i \in 1 .. 6 PROVE Ends(a)[i] = Align(Ends(a)[i - 1]) + Len(a[i])
  <2>1. i \in 0 .. 6 /\ i # 0
    OBVIOUS
  <2> QED BY <1>3, <1>4, <2>1
<1> QED BY <1>5, <1>6

\* What grows step by step grows.
LEMMA Chain ==
  ASSUME NEW e, \A i \in 0 .. 6 : e[i] \in Nat, \A i \in 0 .. 5 : e[i] <= e[i + 1]
  PROVE  \A i, j \in 0 .. 6 : i <= j => e[i] <= e[j]
<1> TAKE i \in 0 .. 6
<1> DEFINE P(j) == i <= j => e[i] <= e[j]
<1>1. ASSUME NEW j \in 0 .. 5, P(j) PROVE P(j + 1)
  <2> SUFFICES ASSUME i <= j + 1 PROVE e[i] <= e[j + 1]
    OBVIOUS
  <2>1. j \in 0 .. 6 /\ j + 1 \in 0 .. 6
    OBVIOUS
  <2>2. e[i] \in Nat /\ e[j] \in Nat /\ e[j + 1] \in Nat /\ e[j] <= e[j + 1]
    BY <2>1
  <2>3. CASE i = j + 1
    BY <2>2, <2>3
  <2>4. CASE i # j + 1
    <3>1. i <= j
      BY <2>4
    <3>2. e[i] <= e[j]
      BY <1>1, <3>1
    <3> QED BY <2>2, <3>2
  <2> QED BY <2>3, <2>4
<1>2. P(0)
  <2>1. i <= 0 => i = 0
    OBVIOUS
  <2>2. e[i] \in Nat
    OBVIOUS
  <2> QED BY <2>1, <2>2
<1> HIDE DEF P
<1>3. P(1)
  BY <1>1, <1>2, 0 + 1 = 1, 0 \in 0 .. 5
<1>4. P(2)
  BY <1>1, <1>3, 1 + 1 = 2, 1 \in 0 .. 5
<1>5. P(3)
  BY <1>1, <1>4, 2 + 1 = 3, 2 \in 0 .. 5
<1>6. P(4)
  BY <1>1, <1>5, 3 + 1 = 4, 3 \in 0 .. 5
<1>7. P(5)
  BY <1>1, <1>6, 4 + 1 = 5, 4 \in 0 .. 5
<1>8. P(6)
  BY <1>1, <1>7, 5 + 1 = 6, 5 \in 0 .. 5
<1>9. ASSUME NEW j \in 0 .. 6 PROVE P(j)
  <2>1. j = 0 \/ j = 1 \/ j = 2 \/ j = 3 \/ j = 4 \/ j = 5 \/ j = 6
    OBVIOUS
  <2> QED BY <1>2, <1>3, <1>4, <1>5, <1>6, <1>7, <1>8, <2>1
<1> QED BY <1>9 DEF P

\* They end in order.
LEMMA EndsInOrder ==
  ASSUME NEW T, NEW a \in [1 .. 6 -> Seq(T)]
  PROVE  /\ \A i \in 0 .. 6 : Ends(a)[i] \in Nat
         /\ \A i \in 1 .. 6 : /\ Len(a[i]) \in Nat /\ Align(Ends(a)[i - 1]) \in Nat
                              /\ Ends(a)[i - 1] <= Align(Ends(a)[i - 1])
                              /\ Align(Ends(a)[i - 1]) % Alignment = 0
                              /\ Ends(a)[i] = Align(Ends(a)[i - 1]) + Len(a[i])
         /\ \A i, j \in 0 .. 6 : i <= j => Ends(a)[i] <= Ends(a)[j]
<1> DEFINE e == Ends(a)
<1>1. e[0] = HeaderSize /\ \A i \in 1 .. 6 : e[i] = Align(e[i - 1]) + Len(a[i])
  BY EndsEquation
<1>2. HeaderSize \in Nat
  BY FileAssumption
<1>3. \A i \in 1 .. 6 : Len(a[i]) \in Nat
  OBVIOUS
<1> HIDE DEF e
<1>4. ASSUME NEW i \in 1 .. 6, e[i - 1] \in Nat
      PROVE  /\ Align(e[i - 1]) \in Nat /\ e[i - 1] <= Align(e[i - 1])
             /\ Align(e[i - 1]) % Alignment = 0
             /\ e[i] \in Nat /\ e[i - 1] <= e[i]
  <2>1. /\ Align(e[i - 1]) \in Nat /\ e[i - 1] <= Align(e[i - 1])
        /\ Align(e[i - 1]) % Alignment = 0
    BY <1>4, AlignFacts
  <2>2. e[i] = Align(e[i - 1]) + Len(a[i]) /\ Len(a[i]) \in Nat
    BY <1>1, <1>3
  <2>3. ASSUME NEW z \in Nat
        PROVE  \A x, y \in Nat : z <= x => x + y \in Nat /\ z <= x + y
    OBVIOUS
  <2>4. e[i] \in Nat /\ e[i - 1] <= e[i]
    BY SMTT(20), <1>4, <2>1, <2>2, <2>3
  <2> QED BY <2>1, <2>4
<1>5. \A i \in 1 .. 6 : e[i - 1] \in Nat => e[i] \in Nat /\ e[i - 1] <= e[i]
  BY <1>4
<1>6. /\ e[0] \in Nat
      /\ e[1] \in Nat /\ e[0] <= e[1] /\ e[2] \in Nat /\ e[1] <= e[2]
      /\ e[3] \in Nat /\ e[2] <= e[3] /\ e[4] \in Nat /\ e[3] <= e[4]
      /\ e[5] \in Nat /\ e[4] <= e[5] /\ e[6] \in Nat /\ e[5] <= e[6]
  <2>1. e[0] \in Nat
    BY <1>1, <1>2
  <2>2. e[1] \in Nat /\ e[0] <= e[1]
    BY <2>1, <1>5, 1 \in 1 .. 6, 1 - 1 = 0
  <2>3. e[2] \in Nat /\ e[1] <= e[2]
    BY <2>2, <1>5, 2 \in 1 .. 6, 2 - 1 = 1
  <2>4. e[3] \in Nat /\ e[2] <= e[3]
    BY <2>3, <1>5, 3 \in 1 .. 6, 3 - 1 = 2
  <2>5. e[4] \in Nat /\ e[3] <= e[4]
    BY <2>4, <1>5, 4 \in 1 .. 6, 4 - 1 = 3
  <2>6. e[5] \in Nat /\ e[4] <= e[5]
    BY <2>5, <1>5, 5 \in 1 .. 6, 5 - 1 = 4
  <2>7. e[6] \in Nat /\ e[5] <= e[6]
    BY <2>6, <1>5, 6 \in 1 .. 6, 6 - 1 = 5
  <2> QED BY <2>1, <2>2, <2>3, <2>4, <2>5, <2>6, <2>7
<1>7. \A i \in 0 .. 6 : e[i] \in Nat
  <2> TAKE i \in 0 .. 6
  <2>1. i = 0 \/ i = 1 \/ i = 2 \/ i = 3 \/ i = 4 \/ i = 5 \/ i = 6
    OBVIOUS
  <2> QED BY <1>6, <2>1
<1>8. \A i \in 1 .. 6 : i - 1 \in 0 .. 6
  OBVIOUS
<1>9. \A i, j \in 0 .. 6 : i <= j => e[i] <= e[j]
  <2>1. \A i \in 0 .. 5 : e[i] <= e[i + 1]
    <3> TAKE i \in 0 .. 5
    <3>1. \/ i = 0 /\ i + 1 = 1
          \/ i = 1 /\ i + 1 = 2
          \/ i = 2 /\ i + 1 = 3
          \/ i = 3 /\ i + 1 = 4
          \/ i = 4 /\ i + 1 = 5
          \/ i = 5 /\ i + 1 = 6
      OBVIOUS
    <3> QED BY <1>6, <3>1
  <2> QED BY <1>7, <2>1, Chain
<1>10. ASSUME NEW i \in 1 .. 6
       PROVE  /\ Len(a[i]) \in Nat /\ Align(e[i - 1]) \in Nat
              /\ e[i - 1] <= Align(e[i - 1]) /\ Align(e[i - 1]) % Alignment = 0
              /\ e[i] = Align(e[i - 1]) + Len(a[i])
  <2>1. e[i - 1] \in Nat
    BY <1>7, <1>8
  <2> QED BY <1>1, <1>3, <1>4, <2>1
<1> QED BY <1>7, <1>9, <1>10 DEF e

(***************************************************************************)
(* The layout of a written file.                                           *)
(***************************************************************************)
\* The header the writer makes, field by field.
LEMMA HeaderFields ==
  ASSUME NEW g
  PROVE  /\ FileOf(g).header = Header(g) /\ FileOf(g).cells = Cells(Header(g), g.arrays)
         /\ Header(g).canonical = TRUE /\ Header(g).endpoint = g.endpoint
         /\ Header(g).dimension = g.dimension
         /\ Header(g).nR = Len(g.arrays[1]) /\ Header(g).nS = Len(g.arrays[4])
         /\ \A i \in 1 .. 6 : Header(g).offsets[i] = Align(Ends(g.arrays)[i - 1])
         /\ Header(g).size = Ends(g.arrays)[6] /\ Header(g).digest = Payload(g.arrays)
BY DEF FileOf, Header

\* What a header counts are the lengths of the arrays.
LEMMA WrittenCounts ==
  ASSUME NEW g \in Given, Writable(g)
  PROVE  /\ Counts(Header(g)) \in [1 .. 6 -> Nat \ {0}]
         /\ \A i \in 1 .. 6 : Counts(Header(g))[i] = Len(g.arrays[i])
<1> DEFINE a == g.arrays
           c == Counts(Header(g))
<1>1. a \in [1 .. 6 -> Seq(Word)] /\ g.dimension \in Nat
  BY DEF Given
<1>2. /\ c[1] = Len(a[1]) /\ c[2] = Len(a[1]) * g.dimension /\ c[3] = Len(a[1]) * g.dimension
      /\ c[4] = Len(a[4]) /\ c[5] = Len(a[4]) * g.dimension /\ c[6] = Len(a[4]) * g.dimension
  BY HeaderFields DEF Counts
<1>3. /\ Len(a[2]) = Len(a[1]) * g.dimension /\ Len(a[3]) = Len(a[2])
      /\ Len(a[5]) = Len(a[4]) * g.dimension /\ Len(a[6]) = Len(a[5])
  BY DEF Writable
<1>4. \A i \in 1 .. 6 : c[i] = Len(a[i])
  <2> TAKE i \in 1 .. 6
  <2>1. i = 1 \/ i = 2 \/ i = 3 \/ i = 4 \/ i = 5 \/ i = 6
    OBVIOUS
  <2> HIDE DEF a, c
  <2> QED BY <1>2, <1>3, <2>1
<1>5. \A i \in 1 .. 6 : Len(a[i]) \in Nat \ {0}
  <2> TAKE i \in 1 .. 6
  <2>1. a[i] # <<>> /\ a[i] \in Seq(Word)
    BY <1>1 DEF Writable
  <2> HIDE DEF a
  <2> QED BY <2>1, EmptySeq, LenProperties
<1>6. c = [i \in 1 .. 6 |-> c[i]]
  BY DEF Counts
<1> HIDE DEF c, a
<1>7. c \in [1 .. 6 -> Nat \ {0}]
  BY <1>4, <1>5, <1>6
<1> QED BY <1>4, <1>7 DEF a, c

\* The layout of a file: E is where its arrays end.
Laid(h, a, E) ==
  /\ a \in [1 .. 6 -> Seq(Word)]
  /\ E[0] = HeaderSize /\ h.size = E[6]
  /\ \A i \in 0 .. 6 : E[i] \in Nat /\ ArrayEnd(h, i) = E[i] /\ E[i] <= E[6] /\ HeaderSize <= E[i]
  /\ \A i \in 1 .. 6 : /\ Len(a[i]) \in Nat \ {0} /\ Counts(h)[i] = Len(a[i])
                       /\ h.offsets[i] = Align(E[i - 1]) /\ h.offsets[i] \in Nat
                       /\ E[i - 1] <= h.offsets[i] /\ h.offsets[i] % Alignment = 0
                       /\ E[i] = h.offsets[i] + Len(a[i])
                       /\ i - 1 \in 0 .. 6
  /\ \A i, j \in 0 .. 6 : i <= j => E[i] <= E[j]

\* What the writer writes is laid out so.
LEMMA Layout ==
  ASSUME NEW g \in Given, Writable(g)
  PROVE  Laid(Header(g), g.arrays, Ends(g.arrays))
<1> DEFINE h == Header(g)
           a == g.arrays
           E == Ends(a)
<1>1. a \in [1 .. 6 -> Seq(Word)]
  BY DEF Given
<1>2. /\ \A i \in 0 .. 6 : E[i] \in Nat
      /\ \A i \in 1 .. 6 : /\ Len(a[i]) \in Nat /\ Align(E[i - 1]) \in Nat
                           /\ E[i - 1] <= Align(E[i - 1])
                           /\ Align(E[i - 1]) % Alignment = 0
                           /\ E[i] = Align(E[i - 1]) + Len(a[i])
      /\ \A i, j \in 0 .. 6 : i <= j => E[i] <= E[j]
  BY <1>1, EndsInOrder
<1>3. E[0] = HeaderSize
  BY EndsEquation
<1>4. /\ \A i \in 1 .. 6 : h.offsets[i] = Align(E[i - 1])
      /\ h.size = E[6]
  BY HeaderFields
<1>5. \A i \in 1 .. 6 : Counts(h)[i] = Len(a[i]) /\ Len(a[i]) \in Nat \ {0}
  BY WrittenCounts
<1> HIDE DEF h, a, E
<1>6. \A i \in 0 .. 6 : ArrayEnd(h, i) = E[i]
  <2> TAKE i \in 0 .. 6
  <2>1. CASE i = 0
    BY <1>3, <2>1 DEF ArrayEnd
  <2>2. CASE i \in 1 .. 6
    <3>1. ArrayEnd(h, i) = h.offsets[i] + Counts(h)[i]
      BY <2>2 DEF ArrayEnd
    <3>2. h.offsets[i] = Align(E[i - 1]) /\ Counts(h)[i] = Len(a[i])
          /\ E[i] = Align(E[i - 1]) + Len(a[i])
      BY <1>2, <1>4, <1>5, <2>2
    <3> QED BY <3>1, <3>2
  <2> QED BY <2>1, <2>2
<1>7. \A i \in 0 .. 6 : E[i] <= E[6] /\ HeaderSize <= E[i]
  <2> TAKE i \in 0 .. 6
  <2>1. i <= 6 /\ 0 <= i /\ 6 \in 0 .. 6 /\ 0 \in 0 .. 6
    OBVIOUS
  <2> QED BY <1>2, <1>3, <2>1
<1>8. \A i \in 1 .. 6 : i - 1 \in 0 .. 6
  OBVIOUS
<1>9. \A i \in 1 .. 6 : /\ h.offsets[i] = Align(E[i - 1]) /\ h.offsets[i] \in Nat
                        /\ E[i - 1] <= h.offsets[i] /\ h.offsets[i] % Alignment = 0
                        /\ E[i] = h.offsets[i] + Len(a[i])
  BY <1>2, <1>4
<1> QED BY <1>1, <1>2, <1>3, <1>4, <1>5, <1>6, <1>7, <1>8, <1>9 DEF Laid, h, a, E

\* No two arrays share a cell, nor an array and another's padding.
LEMMA Apart ==
  ASSUME NEW h, NEW a, NEW E, Laid(h, a, E), NEW i \in 1 .. 6, NEW j \in 1 .. 6, i # j,
         NEW p \in Int, E[i - 1] <= p, p < E[i]
  PROVE  ~(h.offsets[j] <= p /\ p < h.offsets[j] + Len(a[j]))
<1>1. /\ i - 1 \in 0 .. 6 /\ j - 1 \in 0 .. 6 /\ i \in 0 .. 6 /\ j \in 0 .. 6
  OBVIOUS
<1>2. /\ E[i - 1] \in Nat /\ E[i] \in Nat /\ E[j - 1] \in Nat /\ E[j] \in Nat
      /\ E[j] = h.offsets[j] + Len(a[j]) /\ E[j - 1] <= h.offsets[j]
      /\ h.offsets[j] \in Nat /\ Len(a[j]) \in Nat
  BY <1>1 DEF Laid
<1>3. CASE j < i
  <2>1. j <= i - 1
    BY <1>3
  <2>2. E[j] <= E[i - 1]
    BY <1>1, <2>1 DEF Laid
  <2> QED BY <1>2, <2>2
<1>4. CASE i < j
  <2>1. i <= j - 1
    BY <1>4
  <2>2. E[i] <= E[j - 1]
    BY <1>1, <2>1 DEF Laid
  <2> QED BY <1>2, <2>2
<1> QED BY <1>3, <1>4

\* The cells of a written file.
LEMMA WrittenCells ==
  ASSUME NEW h, NEW a, NEW E, Laid(h, a, E)
  PROVE  /\ DOMAIN Cells(h, a) = HeaderSize .. h.size - 1
         /\ \A i \in 1 .. 6 : \A k \in 1 .. Len(a[i]) :
              /\ h.offsets[i] + k - 1 \in HeaderSize .. h.size - 1
              /\ Cells(h, a)[h.offsets[i] + k - 1] = a[i][k]
         /\ \A i \in 1 .. 6 : \A p \in Int :
              E[i - 1] <= p /\ p < h.offsets[i]
                => p \in HeaderSize .. h.size - 1 /\ Cells(h, a)[p] = 0
<1> DEFINE inside(p) == {i \in 1 .. 6 : h.offsets[i] <= p /\ p < h.offsets[i] + Len(a[i])}
           c == Cells(h, a)
<1>1. /\ DOMAIN c = HeaderSize .. h.size - 1
      /\ \A p \in HeaderSize .. h.size - 1 :
           c[p] = IF inside(p) = {} THEN 0
                  ELSE a[CHOOSE j \in inside(p) : TRUE]
                        [p - h.offsets[CHOOSE j \in inside(p) : TRUE] + 1]
  BY DEF Cells
<1>2. HeaderSize \in Nat /\ h.size \in Nat
  BY FileAssumption DEF Laid
<1>3. ASSUME NEW i \in 1 .. 6, NEW p \in Int, E[i - 1] <= p, p < E[i]
      PROVE  p \in HeaderSize .. h.size - 1 /\ inside(p) \subseteq {i}
  <2>1. E[i - 1] \in Nat /\ E[i] \in Nat /\ HeaderSize <= E[i - 1] /\ E[i] <= E[6] /\ h.size = E[6]
    BY SMTT(20) DEF Laid
  <2>2. p \in HeaderSize .. h.size - 1
    BY <1>2, <1>3, <2>1
  <2>3. \A j \in 1 .. 6 : j # i => ~(h.offsets[j] <= p /\ p < h.offsets[j] + Len(a[j]))
    BY <1>3, Apart
  <2> QED BY <2>2, <2>3
<1>4. ASSUME NEW i \in 1 .. 6, NEW k \in 1 .. Len(a[i])
      PROVE  /\ h.offsets[i] + k - 1 \in HeaderSize .. h.size - 1
             /\ c[h.offsets[i] + k - 1] = a[i][k]
  <2> DEFINE p == h.offsets[i] + k - 1
  <2>1. /\ h.offsets[i] \in Nat /\ Len(a[i]) \in Nat /\ E[i] = h.offsets[i] + Len(a[i])
        /\ E[i - 1] \in Nat /\ E[i - 1] <= h.offsets[i]
    BY DEF Laid
  <2>2. /\ p \in Int /\ E[i - 1] <= p /\ p < E[i] /\ h.offsets[i] <= p
        /\ p < h.offsets[i] + Len(a[i]) /\ p - h.offsets[i] + 1 = k
    BY <2>1
  <2> HIDE DEF p
  <2>3. p \in HeaderSize .. h.size - 1 /\ inside(p) = {i}
    BY <1>3, <2>2
  <2> HIDE DEF inside
  <2>4. (CHOOSE j \in inside(p) : TRUE) = i
    BY <2>3
  <2>5. c[p] = a[i][p - h.offsets[i] + 1]
    BY <1>1, <2>3, <2>4
  <2> QED BY <2>2, <2>3, <2>5 DEF p
<1>5. ASSUME NEW i \in 1 .. 6, NEW p \in Int, E[i - 1] <= p, p < h.offsets[i]
      PROVE  p \in HeaderSize .. h.size - 1 /\ c[p] = 0
  <2>1. h.offsets[i] \in Nat /\ Len(a[i]) \in Nat /\ E[i] = h.offsets[i] + Len(a[i]) /\ E[i - 1] \in Nat
    BY DEF Laid
  <2>2. p < E[i]
    BY <1>5, <2>1
  <2>3. p \in HeaderSize .. h.size - 1 /\ inside(p) \subseteq {i}
    BY <1>3, <1>5, <2>2
  <2>4. i \notin inside(p)
    BY <1>5, <2>1
  <2>5. inside(p) = {}
    BY <2>3, <2>4
  <2> HIDE DEF inside
  <2> QED BY <1>1, <2>3, <2>5
<1> HIDE DEF c
<1> QED BY <1>1, <1>4, <1>5 DEF c

\* Every cell is an array's or padding.
LEMMA EveryCell ==
  ASSUME NEW h, NEW a, NEW E, Laid(h, a, E), NEW p \in HeaderSize .. h.size - 1
  PROVE  \E i \in 1 .. 6 : E[i - 1] <= p /\ p < E[i]
<1>1. /\ E[0] = HeaderSize /\ h.size = E[6]
      /\ E[0] \in Nat /\ E[1] \in Nat /\ E[2] \in Nat /\ E[3] \in Nat
      /\ E[4] \in Nat /\ E[5] \in Nat /\ E[6] \in Nat
  BY DEF Laid
<1>2. p \in Int /\ E[0] <= p /\ p < E[6]
  BY <1>1
<1>3. \/ E[0] <= p /\ p < E[1]
      \/ E[1] <= p /\ p < E[2]
      \/ E[2] <= p /\ p < E[3]
      \/ E[3] <= p /\ p < E[4]
      \/ E[4] <= p /\ p < E[5]
      \/ E[5] <= p /\ p < E[6]
  BY <1>1, <1>2
<1>4. 1 - 1 = 0 /\ 2 - 1 = 1 /\ 3 - 1 = 2 /\ 4 - 1 = 3 /\ 5 - 1 = 4 /\ 6 - 1 = 5
  OBVIOUS
<1>5. 1 \in 1 .. 6 /\ 2 \in 1 .. 6 /\ 3 \in 1 .. 6 /\ 4 \in 1 .. 6 /\ 5 \in 1 .. 6 /\ 6 \in 1 .. 6
  OBVIOUS
<1> QED BY <1>3, <1>4, <1>5

(***************************************************************************)
(* What is written is read.                                                *)
(***************************************************************************)
\* The length of a file whose cells follow the header without a gap.
LEMMA SizeOfCells ==
  ASSUME NEW f, NEW n \in Nat, DOMAIN f.cells = HeaderSize .. HeaderSize + n - 1
  PROVE  ActualSize(f) = HeaderSize + n
<1>1. HeaderSize \in Nat
  BY FileAssumption
<1>2. Cardinality(HeaderSize .. HeaderSize + n - 1) = n
  <2>1. HeaderSize \in Int /\ HeaderSize + n - 1 \in Int
    BY <1>1
  <2>2. Cardinality(HeaderSize .. HeaderSize + n - 1)
          = IF HeaderSize > HeaderSize + n - 1 THEN 0 ELSE HeaderSize + n - 1 - HeaderSize + 1
    BY <2>1, FS_Interval
  <2> QED BY <1>1, <2>2
<1> QED BY <1>2 DEF ActualSize

\* A written file is valid, its arrays fit and are those that were given.
LEMMA WrittenFile ==
  ASSUME NEW g \in Given, Writable(g)
  PROVE  /\ HeaderIsValid(FileOf(g)) /\ ArraysFit(Header(g)) /\ PaddingIsZero(FileOf(g))
         /\ \A i \in 1 .. 6 : Counts(Header(g))[i] > 0
         /\ ArraysOf(FileOf(g)) = g.arrays
         /\ ActualSize(FileOf(g)) = Header(g).size
         /\ DOMAIN FileOf(g).cells = HeaderSize .. Header(g).size - 1
<1> DEFINE h == Header(g)
           a == g.arrays
           E == Ends(a)
           f == FileOf(g)
<1>1. Laid(h, a, E)
  BY Layout
<1>2. f.header = h /\ f.cells = Cells(h, a)
  BY HeaderFields
<1>3. h.canonical = TRUE /\ h.endpoint = g.endpoint /\ h.dimension = g.dimension
  BY HeaderFields
<1>4. g.endpoint \in {"float64", "int64"} /\ g.dimension >= 1
  BY DEF Writable
<1>5. DOMAIN f.cells = HeaderSize .. h.size - 1
  <2> HIDE DEF h, a, E, f
  <2> QED BY <1>1, <1>2, WrittenCells
<1> HIDE DEF h, a, E, f
<1>6. HeaderSize \in Nat /\ h.size \in Nat /\ HeaderSize <= h.size
  <2>1. h.size = E[6] /\ 6 \in 0 .. 6
    BY <1>1 DEF Laid
  <2>2. E[6] \in Nat /\ HeaderSize <= E[6]
    BY <1>1, <2>1 DEF Laid
  <2> QED BY <2>1, <2>2, FileAssumption
<1>7. ActualSize(f) = h.size
  <2> DEFINE n == h.size - HeaderSize
  <2>1. n \in Nat /\ h.size = HeaderSize + n
    BY <1>6
  <2> HIDE DEF n
  <2>2. h.size - 1 = HeaderSize + n - 1
    BY <1>6, <2>1
  <2>3. DOMAIN f.cells = HeaderSize .. HeaderSize + n - 1
    BY <1>5, <2>2
  <2> QED BY <2>1, <2>3, SizeOfCells
<1>8. HeaderIsValid(f)
  <2>1. h.endpoint # "unknown"
    BY <1>3, <1>4
  <2>2. h.canonical /\ h.dimension >= 1
    BY <1>3, <1>4
  <2> QED BY <1>2, <1>7, <2>1, <2>2 DEF HeaderIsValid
<1>9. ArraysFit(h)
  <2>1. ASSUME NEW i \in 1 .. 6
        PROVE  /\ h.offsets[i] % Alignment = 0 /\ ArrayEnd(h, i - 1) <= h.offsets[i]
               /\ ArrayEnd(h, i) <= h.size
    <3>1. i - 1 \in 0 .. 6 /\ i \in 0 .. 6
      OBVIOUS
    <3>2. /\ ArrayEnd(h, i - 1) = E[i - 1] /\ ArrayEnd(h, i) = E[i]
          /\ E[i] <= E[6] /\ h.size = E[6]
      BY <1>1, <3>1 DEF Laid
    <3>3. h.offsets[i] % Alignment = 0 /\ E[i - 1] <= h.offsets[i]
      BY <1>1 DEF Laid
    <3> QED BY <3>2, <3>3
  <2>2. ArrayEnd(h, 6) = h.size
    BY <1>1 DEF Laid
  <2> QED BY <2>1, <2>2 DEF ArraysFit
<1>10. PaddingIsZero(f)
  <2> SUFFICES ASSUME NEW i \in 1 .. 6, NEW p \in DOMAIN f.cells,
                      ArrayEnd(h, i - 1) <= p, p < h.offsets[i]
               PROVE  f.cells[p] = 0
    BY <1>2 DEF PaddingIsZero
  <2>1. p \in Int
    BY <1>5, <1>6
  <2>2. ArrayEnd(h, i - 1) = E[i - 1]
    BY <1>1 DEF Laid
  <2> QED BY <1>1, <1>2, <2>1, <2>2, WrittenCells
<1>11. ASSUME NEW i \in 1 .. 6 PROVE Counts(h)[i] > 0
  <2>1. Len(a[i]) \in Nat \ {0} /\ Counts(h)[i] = Len(a[i])
    BY <1>1 DEF Laid
  <2> QED BY <2>1
<1>12. ArraysOf(f) = a
  <2>1. ASSUME NEW i \in 1 .. 6 PROVE ArraysOf(f)[i] = a[i]
    <3>1. ArraysOf(f)[i] = [k \in 1 .. Len(a[i]) |-> f.cells[h.offsets[i] + k - 1]]
      <4>1. Counts(f.header)[i] = Len(a[i])
        BY <1>1, <1>2 DEF Laid
      <4> QED BY <1>2, <4>1 DEF ArraysOf
    <3>2. \A k \in 1 .. Len(a[i]) : f.cells[h.offsets[i] + k - 1] = a[i][k]
      BY SMTT(20), <1>1, <1>2, WrittenCells
    <3>3. a[i] = [k \in 1 .. Len(a[i]) |-> a[i][k]]
      <4>1. a[i] \in Seq(Word)
        BY <1>1 DEF Laid
      <4> QED BY <4>1
    <3> QED BY <3>1, <3>2, <3>3
  <2>2. a = [i \in 1 .. 6 |-> a[i]] /\ ArraysOf(f) = [i \in 1 .. 6 |-> ArraysOf(f)[i]]
    BY <1>1 DEF Laid, ArraysOf
  <2> QED BY <2>1, <2>2
<1> QED BY <1>5, <1>7, <1>8, <1>9, <1>10, <1>11, <1>12 DEF h, a, f

\* Both readers read it back.
LEMMA WrittenIsRead ==
  ASSUME NEW g \in Given, Writable(g)
  PROVE  PyRead(FileOf(g)) = {g} /\ CppRead(FileOf(g)) = {g}
<1> DEFINE f == FileOf(g)
<1>1. /\ HeaderIsValid(f) /\ ArraysFit(f.header) /\ PaddingIsZero(f)
      /\ \A i \in 1 .. 6 : Counts(f.header)[i] > 0
      /\ ArraysOf(f) = g.arrays
  BY WrittenFile, HeaderFields
<1>2. /\ f.header.digest = Payload(g.arrays) /\ f.header.endpoint = g.endpoint
      /\ f.header.dimension = g.dimension
  BY HeaderFields
<1>3. DistinctIds(g.arrays) /\ CanonicalBoxes(g.endpoint, g.arrays)
  BY DEF Writable
<1>4. Contents(f) = g
  <2>1. g = [endpoint |-> g.endpoint, dimension |-> g.dimension, arrays |-> g.arrays]
    BY DEF Given
  <2> HIDE DEF f
  <2> QED BY <1>1, <1>2, <2>1 DEF Contents
<1> HIDE DEF f
<1>5. PyRead(f) = {Contents(f)}
  BY <1>1, <1>2, <1>3 DEF PyRead, PyArraysFit
<1>6. CppRead(f) = {Contents(f)}
  BY <1>1, <1>2, <1>3 DEF CppRead
<1> QED BY <1>4, <1>5, <1>6 DEF f

\* Of a file whose header counts with natural numbers the readers think alike,
\* but for padding, ids and empty relations.
LEMMA ReadersAlike ==
  ASSUME NEW f, f.header.nR \in Nat, f.header.nS \in Nat, f.header.dimension \in Nat
  PROVE  \/ CppRead(f) = PyRead(f)
         \/ /\ CppRead(f) = {} /\ ArraysFit(f.header)
            /\ ~PaddingIsZero(f) \/ ~DistinctIds(ArraysOf(f))
         \/ /\ PyRead(f) = {} /\ ArraysFit(f.header)
            /\ \E i \in 1 .. 6 : Counts(f.header)[i] = 0
<1>1. \A i \in 1 .. 6 : Counts(f.header)[i] \in Nat
  <2> DEFINE c == Counts(f.header)
  <2>1. c[1] \in Nat /\ c[2] \in Nat /\ c[3] \in Nat /\ c[4] \in Nat /\ c[5] \in Nat /\ c[6] \in Nat
    BY DEF Counts
  <2> HIDE DEF c
  <2>2. ASSUME NEW i \in 1 .. 6 PROVE c[i] \in Nat
    <3>1. i = 1 \/ i = 2 \/ i = 3 \/ i = 4 \/ i = 5 \/ i = 6
      OBVIOUS
    <3> QED BY <2>1, <3>1
  <2> QED BY <2>2 DEF c
<1> DEFINE Common == /\ HeaderIsValid(f) /\ ArraysFit(f.header)
                     /\ Payload(ArraysOf(f)) = f.header.digest
                     /\ CanonicalBoxes(f.header.endpoint, ArraysOf(f))
           Rows == \A i \in 1 .. 6 : Counts(f.header)[i] > 0
           Own == PaddingIsZero(f) /\ DistinctIds(ArraysOf(f))
<1>2. PyRead(f) = IF Common /\ Rows THEN {Contents(f)} ELSE {}
  BY DEF PyRead, PyArraysFit
<1>3. CppRead(f) = IF Common /\ Own THEN {Contents(f)} ELSE {}
  BY DEF CppRead
<1>4. Common => ArraysFit(f.header)
  OBVIOUS
<1>5. Rows \/ \E i \in 1 .. 6 : Counts(f.header)[i] = 0
  BY <1>1
<1>6. Own \/ ~PaddingIsZero(f) \/ ~DistinctIds(ArraysOf(f))
  OBVIOUS
<1> HIDE DEF Common, Rows, Own
<1> QED BY <1>2, <1>3, <1>4, <1>5, <1>6

(***************************************************************************)
(* One change is noticed, whatever it is.                                  *)
(***************************************************************************)
\* The cells of a payload are a function of the positions.
LEMMA CellsAreFunctions ==
  ASSUME NEW h, NEW a
  PROVE  Cells(h, a) = [p \in DOMAIN Cells(h, a) |-> Cells(h, a)[p]]
<1> DEFINE inside(p) == {i \in 1 .. 6 : h.offsets[i] <= p /\ p < h.offsets[i] + Len(a[i])}
           i(p) == CHOOSE j \in inside(p) : TRUE
           shift(p) == IF inside(p) = {} THEN 0 ELSE a[i(p)][p - h.offsets[i(p)] + 1]
           S == HeaderSize .. h.size - 1
<1>1. Cells(h, a) = [p \in S |-> shift(p)]
  BY Zenon DEF Cells
<1> HIDE DEF shift, S
<1> QED BY <1>1

\* What a written file is made of.
LEMMA FileShape ==
  ASSUME NEW g
  PROVE  /\ FileOf(g) = [header |-> FileOf(g).header, cells |-> FileOf(g).cells]
         /\ FileOf(g).header = Header(g)
         /\ Header(g) = [canonical |-> Header(g).canonical, endpoint |-> Header(g).endpoint,
                         dimension |-> Header(g).dimension, nR |-> Header(g).nR,
                         nS |-> Header(g).nS, offsets |-> Header(g).offsets,
                         size |-> Header(g).size, digest |-> Header(g).digest]
         /\ Header(g).offsets = [i \in 1 .. 6 |-> Header(g).offsets[i]]
         /\ FileOf(g).cells = [p \in DOMAIN FileOf(g).cells |-> FileOf(g).cells[p]]
<1>1. FileOf(g).header = Header(g) /\ FileOf(g).cells = Cells(Header(g), g.arrays)
  BY DEF FileOf
<1>2. FileOf(g) = [header |-> FileOf(g).header, cells |-> FileOf(g).cells]
  BY DEF FileOf
<1>3. Header(g) = [canonical |-> Header(g).canonical, endpoint |-> Header(g).endpoint,
                   dimension |-> Header(g).dimension, nR |-> Header(g).nR,
                   nS |-> Header(g).nS, offsets |-> Header(g).offsets,
                   size |-> Header(g).size, digest |-> Header(g).digest]
  BY DEF Header
<1>4. Header(g).offsets = [i \in 1 .. 6 |-> Header(g).offsets[i]]
  BY DEF Header
<1>5. Cells(Header(g), g.arrays)
        = [p \in DOMAIN Cells(Header(g), g.arrays) |-> Cells(Header(g), g.arrays)[p]]
  BY CellsAreFunctions
<1> QED BY <1>1, <1>2, <1>3, <1>4, <1>5

\* A function of one to a number is a sequence of that length.
LEMMA FunctionIsSequence ==
  ASSUME NEW T, NEW n \in Nat, NEW s \in [1 .. n -> T]
  PROVE  s \in Seq(T) /\ Len(s) = n
<1>1. s \in Seq(T) /\ DOMAIN s = 1 .. n
  OBVIOUS
<1> QED BY <1>1

\* The arrays of a file, one by one.
LEMMA ArraysOfEach ==
  ASSUME NEW f
  PROVE  /\ ArraysOf(f) = [i \in 1 .. 6 |-> ArraysOf(f)[i]]
         /\ \A i \in 1 .. 6 :
              ArraysOf(f)[i]
                = [k \in 1 .. Counts(f.header)[i] |-> f.cells[f.header.offsets[i] + k - 1]]
BY DEF ArraysOf

\* Arrays have the lengths the header counts, and are of cells.
LEMMA ArraysCounted ==
  ASSUME NEW f, \A i \in 1 .. 6 : Counts(f.header)[i] \in Nat
  PROVE  \E T : /\ ArraysOf(f) \in [1 .. 6 -> Seq(T)]
                /\ \A i \in 1 .. 6 : Len(ArraysOf(f)[i]) = Counts(f.header)[i]
<1> DEFINE c == Counts(f.header)
           b == ArraysOf(f)
           T == {f.cells[x] : x \in Int} \cup {f.cells[f.header.offsets[i] + k - 1] : i \in 1 .. 6, k \in Nat}
<1>1. ASSUME NEW i \in 1 .. 6 PROVE b[i] \in Seq(T) /\ Len(b[i]) = c[i]
  <2>1. b[i] = [k \in 1 .. c[i] |-> f.cells[f.header.offsets[i] + k - 1]]
    BY DEF ArraysOf
  <2>2. c[i] \in Nat
    OBVIOUS
  <2>3. \A k \in 1 .. c[i] : f.cells[f.header.offsets[i] + k - 1] \in T
    <3> TAKE k \in 1 .. c[i]
    <3>1. k \in Nat
      BY <2>2
    <3> QED BY <3>1
  <2> HIDE DEF b, c, T
  <2>4. b[i] \in [1 .. c[i] -> T]
    BY <2>1, <2>3
  <2> QED BY <2>2, <2>4, FunctionIsSequence
<1>2. b = [i \in 1 .. 6 |-> b[i]]
  BY DEF ArraysOf
<1> HIDE DEF b, c, T
<1>3. b \in [1 .. 6 -> Seq(T)]
  BY <1>1, <1>2
<1> QED BY <1>1, <1>3 DEF b, c

\* So what the digest of a file is of has the length its header counts.
LEMMA CountedPayload ==
  ASSUME NEW f, \A i \in 1 .. 6 : Counts(f.header)[i] \in Nat
  PROVE  Len(Payload(ArraysOf(f)))
           = Counts(f.header)[1] + Counts(f.header)[2] + Counts(f.header)[3]
             + Counts(f.header)[4] + Counts(f.header)[5] + Counts(f.header)[6]
<1> DEFINE c == Counts(f.header)
           b == ArraysOf(f)
<1>1. PICK T : /\ b \in [1 .. 6 -> Seq(T)]
               /\ \A i \in 1 .. 6 : Len(b[i]) = c[i]
  BY ArraysCounted
<1> HIDE DEF b, c
<1>2. Len(Payload(b)) = Len(b[1]) + Len(b[2]) + Len(b[3]) + Len(b[4]) + Len(b[5]) + Len(b[6])
  BY <1>1, PayloadLength
<1>3. /\ Len(b[1]) = c[1] /\ Len(b[2]) = c[2] /\ Len(b[3]) = c[3]
      /\ Len(b[4]) = c[4] /\ Len(b[5]) = c[5] /\ Len(b[6]) = c[6]
  BY <1>1
<1> QED BY <1>2, <1>3 DEF b, c

\* Arrays of the same lengths that differ in a cell have different payloads.
LEMMA PayloadDiffers ==
  ASSUME NEW S, NEW T, NEW a \in [1 .. 6 -> Seq(S)], NEW b \in [1 .. 6 -> Seq(T)],
         \A j \in 1 .. 6 : Len(b[j]) = Len(a[j]),
         NEW i \in 1 .. 6, b[i] # a[i]
  PROVE  Payload(b) # Payload(a)
<1> DEFINE V == S \cup T
<1>1. S \subseteq V /\ T \subseteq V
  OBVIOUS
<1> HIDE DEF V
<1>2. ASSUME NEW j \in 1 .. 6 PROVE a[j] \in Seq(V) /\ b[j] \in Seq(V)
  <2>1. a[j] \in Seq(S) /\ b[j] \in Seq(T)
    OBVIOUS
  <2> QED BY SMTT(20), <1>1, <2>1
<1>3. a \in [1 .. 6 -> Seq(V)] /\ b \in [1 .. 6 -> Seq(V)]
  BY <1>2
<1>4. Payload(b) = Payload(a) => \A j \in 1 .. 6 : b[j] = a[j]
  BY <1>3, PayloadTells
<1> QED BY <1>4

\* A cell that is changed is noticed, by the digest or by the padding.
LEMMA ChangedCell ==
  ASSUME NEW h, NEW a, NEW E, Laid(h, a, E), h.digest = Payload(a),
         NEW f, f.header = h, DOMAIN f.cells = HeaderSize .. h.size - 1,
         NEW p \in HeaderSize .. h.size - 1, f.cells[p] # Cells(h, a)[p]
  PROVE  CppRead(f) = {}
<1>1. HeaderSize \in Nat /\ h.size \in Nat /\ p \in Int
  BY FileAssumption DEF Laid
<1>2. PICK i \in 1 .. 6 : E[i - 1] <= p /\ p < E[i]
  BY EveryCell
<1>3. CASE p < h.offsets[i]
  <2>1. Cells(h, a)[p] = 0
    BY <1>1, <1>2, <1>3, WrittenCells
  <2>2. ArrayEnd(h, i - 1) = E[i - 1]
    BY DEF Laid
  <2>3. ~PaddingIsZero(f)
    BY <1>2, <1>3, <2>1, <2>2 DEF PaddingIsZero
  <2> QED BY <2>3 DEF CppRead
<1>4. CASE h.offsets[i] <= p
  <2> DEFINE o == h.offsets[i]
             n == Len(a[i])
             k == p - o + 1
             b == ArraysOf(f)
             c == Cells(h, a)
  <2>1. /\ o \in Nat /\ n \in Nat /\ E[i] = o + n /\ Counts(h)[i] = n
        /\ a \in [1 .. 6 -> Seq(Word)]
        /\ \A j \in 1 .. 6 : Counts(h)[j] = Len(a[j]) /\ Len(a[j]) \in Nat
    BY DEF Laid
  <2>2. p \in Int /\ o <= p /\ p < o + n
    BY <1>1, <1>2, <1>4, <2>1
  <2>3. \A x \in 1 .. n : c[o + x - 1] = a[i][x]
    BY WrittenCells, SMTT(20)
  <2>4. b[i] = [x \in 1 .. Counts(f.header)[i] |-> f.cells[f.header.offsets[i] + x - 1]]
    BY ArraysOfEach
  <2>5. \E T : b \in [1 .. 6 -> Seq(T)] /\ \A j \in 1 .. 6 : Len(b[j]) = Counts(f.header)[j]
    BY <2>1, ArraysCounted
  <2>6. f.cells[p] # c[p] /\ h.offsets[i] = o
    OBVIOUS
  <2> HIDE DEF b, c, o, n
  <2>7. k \in 1 .. n /\ o + k - 1 = p
    BY <2>1, <2>2
  <2>8. c[p] = a[i][k]
    BY <2>3, <2>7
  <2>9. b[i][k] = f.cells[p]
    BY SMTT(20), <2>1, <2>4, <2>6, <2>7
  <2>10. b[i] # a[i]
    BY <2>6, <2>8, <2>9
  <2>11. Payload(b) # Payload(a)
    <3>1. PICK T : b \in [1 .. 6 -> Seq(T)] /\ \A j \in 1 .. 6 : Len(b[j]) = Counts(f.header)[j]
      BY <2>5
    <3>2. \A j \in 1 .. 6 : Len(b[j]) = Len(a[j])
      BY <2>1, <3>1
    <3>3. a \in [1 .. 6 -> Seq(Word)] /\ b \in [1 .. 6 -> Seq(T)]
      BY <2>1, <3>1
    <3> QED BY <2>10, <3>2, <3>3, PayloadDiffers
  <2> QED BY <2>11 DEF CppRead, b
<1>5. h.offsets[i] \in Nat
  BY DEF Laid
<1> QED BY <1>1, <1>3, <1>4, <1>5

\* So it is in a written file.
LEMMA CellIsNoticed ==
  ASSUME NEW g \in Given, Writable(g), NEW p \in DOMAIN FileOf(g).cells, NEW w,
         [FileOf(g) EXCEPT !.cells[p] = w] # FileOf(g)
  PROVE  CppRead([FileOf(g) EXCEPT !.cells[p] = w]) = {}
<1> DEFINE h == Header(g)
           a == g.arrays
           f0 == FileOf(g)
           f == [f0 EXCEPT !.cells[p] = w]
<1>1. Laid(h, a, Ends(a))
  BY Layout
<1>2. f0.header = h /\ f0.cells = Cells(h, a) /\ h.digest = Payload(a)
  BY HeaderFields
<1>3. DOMAIN f0.cells = HeaderSize .. h.size - 1
  BY WrittenFile
<1>4. f0 = [header |-> f0.header, cells |-> f0.cells]
  BY FileShape
<1>5. f0.cells = [x \in DOMAIN f0.cells |-> f0.cells[x]]
  BY FileShape
<1>6. f # f0 /\ p \in DOMAIN f0.cells
  OBVIOUS
<1>7. SUFFICES CppRead(f) = {}
  OBVIOUS
<1> HIDE DEF h, a, f0
<1>8. f = [header |-> f0.header, cells |-> [f0.cells EXCEPT ![p] = w]]
  BY <1>4
<1> HIDE DEF f
<1>9. f.header = h /\ f.cells = [f0.cells EXCEPT ![p] = w]
  BY <1>2, <1>8
<1>10. DOMAIN f.cells = HeaderSize .. h.size - 1 /\ f.cells[p] = w
  BY <1>3, <1>6, <1>9
<1>11. w # f0.cells[p]
  <2> SUFFICES ASSUME w = f0.cells[p] PROVE f = f0
    BY <1>6
  <2>1. [f0.cells EXCEPT ![p] = w] = f0.cells
    BY <1>5
  <2>2. f = [header |-> f0.header, cells |-> f0.cells]
    BY <1>8, <2>1
  <2> QED BY <1>4, <2>2
<1>12. f.cells[p] # Cells(h, a)[p] /\ p \in HeaderSize .. h.size - 1
  BY <1>2, <1>3, <1>6, <1>10, <1>11
<1>13. f.header = h /\ DOMAIN f.cells = HeaderSize .. h.size - 1
  BY <1>9, <1>10
<1> DEFINE E == Ends(a)
<1>14. Laid(h, a, E) /\ h.digest = Payload(a)
  BY <1>1, <1>2
<1> HIDE DEF E
<1> QED BY <1>12, <1>13, <1>14, ChangedCell

\* The start of an array cannot be moved.
LEMMA ChangedOffset ==
  ASSUME NEW h, NEW a, NEW E, Laid(h, a, E),
         NEW k, k.nR = h.nR, k.nS = h.nS, k.dimension = h.dimension, k.size = h.size,
         NEW i \in 1 .. 6, \A j \in 1 .. 6 : j # i => k.offsets[j] = h.offsets[j],
         k.offsets[i] \in Nat, ArraysFit(k)
  PROVE  k.offsets[i] = h.offsets[i]
<1> DEFINE o == k.offsets[i]
           n == Len(a[i])
<1>1. Counts(k) = Counts(h)
  BY DEF Counts
<1>2. /\ n \in Nat \ {0} /\ Counts(h)[i] = n
      /\ h.offsets[i] = Align(E[i - 1]) /\ h.offsets[i] \in Nat
      /\ E[i] = h.offsets[i] + n /\ E[i - 1] \in Nat
      /\ E[6] = h.size
  BY DEF Laid
<1>3. ArrayEnd(k, i) = o + n
  BY <1>1, <1>2 DEF ArrayEnd
<1>4. o % Alignment = 0 /\ ArrayEnd(k, i - 1) <= o
  BY DEF ArraysFit
<1>5. ArrayEnd(k, i - 1) = E[i - 1]
  <2>1. ArrayEnd(h, i - 1) = E[i - 1] /\ i - 1 \in 0 .. 6
    BY DEF Laid
  <2>2. ArrayEnd(k, i - 1) = ArrayEnd(h, i - 1)
    <3>1. CASE i - 1 = 0
      BY <3>1 DEF ArrayEnd
    <3>2. CASE i - 1 # 0
      <4>1. i - 1 \in 1 .. 6 /\ i - 1 # i
        BY <3>2, <2>1
      <4>2. k.offsets[i - 1] = h.offsets[i - 1]
        BY <4>1
      <4> QED BY <1>1, <3>2, <4>2 DEF ArrayEnd
    <3> QED BY <3>1, <3>2
  <2> QED BY <2>1, <2>2
<1>6. CASE i = 6
  <2>1. ArrayEnd(k, 6) = k.size
    BY DEF ArraysFit
  <2>2. o \in Nat
    OBVIOUS
  <2> HIDE DEF o, n
  <2>3. o + n = h.offsets[i] + n
    BY <1>2, <1>3, <1>6, <2>1
  <2>4. o = h.offsets[i]
    BY <1>2, <2>2, <2>3
  <2> QED BY <2>4 DEF o
<1>7. CASE i # 6
  <2> DEFINE j == i + 1
  <2>1. j \in 1 .. 6 /\ j - 1 = i /\ j # i
    BY <1>7
  <2> HIDE DEF j
  <2>2. ArrayEnd(k, i) <= k.offsets[j]
    <3>1. ArrayEnd(k, j - 1) <= k.offsets[j]
      BY <2>1 DEF ArraysFit
    <3> QED BY <2>1, <3>1
  <2>3. k.offsets[j] = h.offsets[j]
    BY <2>1
  <2>4. h.offsets[j] = Align(E[i]) /\ E[i] \in Nat
    <3>1. h.offsets[j] = Align(E[j - 1])
      BY <2>1 DEF Laid
    <3>2. i \in 0 .. 6
      OBVIOUS
    <3>3. E[i] \in Nat
      BY <3>2 DEF Laid
    <3> QED BY <2>1, <3>1, <3>3
  <2>5. Align(E[i]) < E[i] + Alignment /\ Align(E[i]) \in Nat
    BY <2>4, AlignFacts
  <2>6. Alignment \in Nat \ {0}
    BY FileAssumption
  <2>7. o \in Nat
    OBVIOUS
  <2> HIDE DEF o, n
  <2>8. o < Align(E[i - 1]) + Alignment
    BY <1>2, <1>3, <2>2, <2>3, <2>4, <2>5, <2>6, <2>7
  <2>9. E[i - 1] <= o
    BY <1>4, <1>5
  <2>10. o = Align(E[i - 1])
    BY <1>2, <1>4, <2>7, <2>8, <2>9, AlignFacts
  <2> QED BY <1>2, <2>10 DEF o
<1> QED BY <1>6, <1>7

\* Nor can one of the counts be changed, when the payload is as long as before.
LEMMA ChangedCount ==
  ASSUME NEW h, NEW a, NEW E, Laid(h, a, E),
         h.nR \in Nat \ {0}, h.nS \in Nat \ {0}, h.dimension \in Nat \ {0},
         NEW k, k.nR \in Nat, k.nS \in Nat, k.dimension \in Nat,
         k.offsets = h.offsets, k.size = h.size,
         \/ k.nS = h.nS /\ k.dimension = h.dimension
         \/ k.nR = h.nR /\ k.dimension = h.dimension
         \/ k.nR = h.nR /\ k.nS = h.nS,
         ArraysFit(k),
         Counts(k)[1] + Counts(k)[2] + Counts(k)[3] + Counts(k)[4] + Counts(k)[5] + Counts(k)[6]
           = Counts(h)[1] + Counts(h)[2] + Counts(h)[3] + Counts(h)[4] + Counts(h)[5] + Counts(h)[6]
  PROVE  k.nR = h.nR /\ k.nS = h.nS /\ k.dimension = h.dimension
<1> DEFINE r == h.nR
           s == h.nS
           d == h.dimension
           r2 == k.nR
           s2 == k.nS
           d2 == k.dimension
<1>1. /\ Counts(h)[1] = r /\ Counts(h)[2] = r * d /\ Counts(h)[3] = r * d
      /\ Counts(h)[4] = s /\ Counts(h)[5] = s * d /\ Counts(h)[6] = s * d
  BY DEF Counts
<1>2. /\ Counts(k)[1] = r2 /\ Counts(k)[2] = r2 * d2 /\ Counts(k)[3] = r2 * d2
      /\ Counts(k)[4] = s2 /\ Counts(k)[5] = s2 * d2 /\ Counts(k)[6] = s2 * d2
  BY DEF Counts
<1>3. ArrayEnd(k, 6) = k.size /\ ArrayEnd(h, 6) = h.size
  <2>1. ArrayEnd(k, 6) = k.size
    BY DEF ArraysFit
  <2>2. ArrayEnd(h, 6) = E[6] /\ h.size = E[6]
    <3>1. 6 \in 0 .. 6
      OBVIOUS
    <3> QED BY <3>1 DEF Laid
  <2> QED BY <2>1, <2>2
<1>4. ArrayEnd(k, 6) = k.offsets[6] + s2 * d2 /\ ArrayEnd(h, 6) = h.offsets[6] + s * d
  BY <1>1, <1>2 DEF ArrayEnd
<1>5. h.offsets[6] \in Nat
  BY DEF Laid
<1>6. /\ r \in Nat \ {0} /\ s \in Nat \ {0} /\ d \in Nat \ {0}
      /\ r2 \in Nat /\ s2 \in Nat /\ d2 \in Nat
  OBVIOUS
<1>7. \/ s2 = s /\ d2 = d
      \/ r2 = r /\ d2 = d
      \/ r2 = r /\ s2 = s
  OBVIOUS
<1>8. r2 + r2 * d2 + r2 * d2 + s2 + s2 * d2 + s2 * d2 = r + r * d + r * d + s + s * d + s * d
  BY <1>1, <1>2
<1>9. h.offsets[6] + s2 * d2 = h.offsets[6] + s * d
  BY <1>3, <1>4
<1>10. SUFFICES r2 = r /\ s2 = s /\ d2 = d
  OBVIOUS
<1> HIDE DEF r, s, d, r2, s2, d2
<1>11. /\ s2 * d2 \in Nat /\ s * d \in Nat /\ r2 * d2 \in Nat /\ r * d \in Nat
  BY <1>6
<1>12. s2 * d2 = s * d
  BY <1>5, <1>9, <1>11
<1>13. CASE s2 = s /\ d2 = d
  <2>1. (1 + d + d) * r2 = (1 + d + d) * r
    <3>1. (1 + d + d) * r2 = r2 + r2 * d + r2 * d /\ (1 + d + d) * r = r + r * d + r * d
      BY <1>6
    <3>2. r2 + r2 * d + r2 * d = r + r * d + r * d
      BY <1>6, <1>8, <1>11, <1>13
    <3> QED BY <3>1, <3>2
  <2>2. 1 + d + d \in Nat \ {0}
    BY <1>6
  <2>3. r2 = r
    BY <1>6, <2>1, <2>2, Cancel
  <2> QED BY <1>13, <2>3
<1>14. CASE r2 = r /\ d2 = d
  <2>1. d * s2 = d * s
    BY <1>6, <1>12, <1>14
  <2>2. s2 = s
    BY <1>6, <2>1, Cancel
  <2> QED BY <1>14, <2>2
<1>15. CASE r2 = r /\ s2 = s
  <2>1. s * d2 = s * d
    BY <1>12, <1>15
  <2>2. d2 = d
    BY <1>6, <2>1, Cancel
  <2> QED BY <1>15, <2>2
<1> QED BY <1>7, <1>13, <1>14, <1>15

\* The writer's file as two records.
LEMMA FileRecord ==
  ASSUME NEW g
  PROVE  /\ FileOf(g) = [header |-> Header(g), cells |-> Cells(Header(g), g.arrays)]
         /\ \E c, e, d, r, s, o, z, t :
              Header(g) = [canonical |-> c, endpoint |-> e, dimension |-> d, nR |-> r,
                           nS |-> s, offsets |-> o, size |-> z, digest |-> t]
<1>1. FileOf(g) = [header |-> Header(g), cells |-> Cells(Header(g), g.arrays)]
  BY DEF FileOf
<1>2. Header(g) = [canonical |-> TRUE, endpoint |-> g.endpoint, dimension |-> g.dimension,
                   nR |-> Len(g.arrays[1]), nS |-> Len(g.arrays[4]),
                   offsets |-> [i \in 1 .. 6 |-> Align(Ends(g.arrays)[i - 1])],
                   size |-> Ends(g.arrays)[6], digest |-> Payload(g.arrays)]
  BY DEF Header
<1> QED BY <1>1, <1>2

\* Counts that are natural.
LEMMA WrittenNumbers ==
  ASSUME NEW g \in Given, Writable(g)
  PROVE  /\ Header(g).nR \in Nat \ {0} /\ Header(g).nS \in Nat \ {0}
         /\ Header(g).dimension \in Nat \ {0} /\ Header(g).size \in Nat
         /\ HeaderSize <= Header(g).size
<1> DEFINE h == Header(g)
           a == g.arrays
           E == Ends(a)
<1>1. Laid(h, a, E)
  BY Layout
<1>2. h.dimension = g.dimension /\ h.nR = Len(a[1]) /\ h.nS = Len(a[4])
  BY HeaderFields
<1>3. g.dimension \in Nat /\ g.dimension >= 1
  BY DEF Given, Writable
<1> HIDE DEF h, a, E
<1>4. Len(a[1]) \in Nat \ {0} /\ Len(a[4]) \in Nat \ {0}
  BY <1>1 DEF Laid
<1>5. h.size \in Nat /\ HeaderSize <= h.size
  <2>1. 6 \in 0 .. 6
    OBVIOUS
  <2> QED BY <1>1, <2>1 DEF Laid
<1>6. h.nR \in Nat \ {0} /\ h.nS \in Nat \ {0} /\ h.dimension \in Nat \ {0}
  BY <1>2, <1>3, <1>4
<1> QED BY <1>5, <1>6 DEF h

\* An array that starts elsewhere is noticed.
LEMMA OffsetIsNoticed ==
  ASSUME NEW g \in Given, Writable(g), NEW i \in 1 .. 6, NEW p \in Nat,
         [FileOf(g) EXCEPT !.header.offsets[i] = p] # FileOf(g)
  PROVE  CppRead([FileOf(g) EXCEPT !.header.offsets[i] = p]) = {}
<1> DEFINE h == Header(g)
           a == g.arrays
           E == Ends(a)
           c == Cells(h, a)
           f0 == FileOf(g)
           f == [f0 EXCEPT !.header.offsets[i] = p]
           k == [h EXCEPT !.offsets = [h.offsets EXCEPT ![i] = p]]
<1>1. Laid(h, a, E)
  BY Layout
<1>2. f0 = [header |-> h, cells |-> c]
  BY FileRecord
<1>3. \E x1, x2, x3, x4, x5, x6, x7, x8 :
        h = [canonical |-> x1, endpoint |-> x2, dimension |-> x3, nR |-> x4,
             nS |-> x5, offsets |-> x6, size |-> x7, digest |-> x8]
  BY FileRecord
<1>4. f # f0
  OBVIOUS
<1>5. SUFFICES CppRead(f) = {}
  OBVIOUS
<1>6. h.offsets = [j \in 1 .. 6 |-> h.offsets[j]]
  BY FileShape
<1> HIDE DEF h, a, E, c, f0
<1>7. f = [header |-> k, cells |-> c]
  BY <1>2
<1> HIDE DEF f
<1>8. /\ k.nR = h.nR /\ k.nS = h.nS /\ k.dimension = h.dimension /\ k.size = h.size
      /\ k.offsets = [h.offsets EXCEPT ![i] = p]
  BY <1>3
<1>9. DOMAIN h.offsets = 1 .. 6
  BY <1>6
<1> HIDE DEF k
<1>10. k.offsets[i] = p /\ \A j \in 1 .. 6 : j # i => k.offsets[j] = h.offsets[j]
  BY <1>8, <1>9
<1>11. p # h.offsets[i]
  <2> SUFFICES ASSUME p = h.offsets[i] PROVE f = f0
    BY <1>4
  <2>1. [h.offsets EXCEPT ![i] = p] = h.offsets
    BY <1>6
  <2>2. k = h
    BY <1>3, <2>1 DEF k
  <2> QED BY <1>2, <1>7, <2>2
<1>12. ~ArraysFit(k)
  <2> SUFFICES ASSUME ArraysFit(k) PROVE FALSE
    OBVIOUS
  <2>1. k.nR = h.nR /\ k.nS = h.nS /\ k.dimension = h.dimension /\ k.size = h.size
    BY <1>8
  <2>2. k.offsets[i] \in Nat /\ \A j \in 1 .. 6 : j # i => k.offsets[j] = h.offsets[j]
    BY <1>10
  <2>3. k.offsets[i] = h.offsets[i]
    BY <1>1, <2>1, <2>2, ChangedOffset
  <2> QED BY <1>10, <1>11, <2>3
<1> QED BY <1>7, <1>12 DEF CppRead

\* A file that is read has the counts it was written with, if all but one are.
LEMMA CountsAreKept ==
  ASSUME NEW g \in Given, Writable(g),
         NEW f, f.header.nR \in Nat, f.header.nS \in Nat, f.header.dimension \in Nat,
         f.header.offsets = Header(g).offsets, f.header.size = Header(g).size,
         f.header.digest = Header(g).digest,
         \/ f.header.nS = Header(g).nS /\ f.header.dimension = Header(g).dimension
         \/ f.header.nR = Header(g).nR /\ f.header.dimension = Header(g).dimension
         \/ f.header.nR = Header(g).nR /\ f.header.nS = Header(g).nS,
         CppRead(f) # {}
  PROVE  /\ f.header.nR = Header(g).nR /\ f.header.nS = Header(g).nS
         /\ f.header.dimension = Header(g).dimension
<1> DEFINE h == Header(g)
           k == f.header
           a == g.arrays
           E == Ends(a)
           L == Counts(h)
           M == Counts(k)
<1>1. Laid(h, a, E)
  BY Layout
<1>2. h.nR \in Nat \ {0} /\ h.nS \in Nat \ {0} /\ h.dimension \in Nat \ {0}
  BY WrittenNumbers
<1>3. ArraysFit(k) /\ Payload(ArraysOf(f)) = k.digest
  BY DEF CppRead
<1>4. h.digest = Payload(a)
  BY HeaderFields
<1>5. \A i \in 1 .. 6 : M[i] \in Nat
  <2>1. /\ M[1] = k.nR /\ M[2] = k.nR * k.dimension /\ M[3] = k.nR * k.dimension
        /\ M[4] = k.nS /\ M[5] = k.nS * k.dimension /\ M[6] = k.nS * k.dimension
    BY DEF Counts
  <2>2. k.nR * k.dimension \in Nat /\ k.nS * k.dimension \in Nat /\ k.nR \in Nat /\ k.nS \in Nat
    OBVIOUS
  <2> HIDE DEF M, k
  <2> TAKE i \in 1 .. 6
  <2>3. i = 1 \/ i = 2 \/ i = 3 \/ i = 4 \/ i = 5 \/ i = 6
    OBVIOUS
  <2> QED BY <2>1, <2>2, <2>3
<1>6. Len(Payload(ArraysOf(f))) = M[1] + M[2] + M[3] + M[4] + M[5] + M[6]
  BY <1>5, CountedPayload
<1>7. /\ k.nR \in Nat /\ k.nS \in Nat /\ k.dimension \in Nat
      /\ k.offsets = h.offsets /\ k.size = h.size /\ k.digest = h.digest
  OBVIOUS
<1>8. \/ k.nS = h.nS /\ k.dimension = h.dimension
      \/ k.nR = h.nR /\ k.dimension = h.dimension
      \/ k.nR = h.nR /\ k.nS = h.nS
  OBVIOUS
<1>9. SUFFICES k.nR = h.nR /\ k.nS = h.nS /\ k.dimension = h.dimension
  OBVIOUS
<1> HIDE DEF h, k, a, E, L, M
<1>10. Len(Payload(a)) = L[1] + L[2] + L[3] + L[4] + L[5] + L[6]
  <2>1. a \in [1 .. 6 -> Seq(Word)]
    BY <1>1 DEF Laid
  <2>2. /\ L[1] = Len(a[1]) /\ L[2] = Len(a[2]) /\ L[3] = Len(a[3])
        /\ L[4] = Len(a[4]) /\ L[5] = Len(a[5]) /\ L[6] = Len(a[6])
    BY <1>1 DEF Laid, L
  <2>3. Len(Payload(a)) = Len(a[1]) + Len(a[2]) + Len(a[3]) + Len(a[4]) + Len(a[5]) + Len(a[6])
    BY <2>1, PayloadLength
  <2> QED BY <2>2, <2>3
<1>11. M[1] + M[2] + M[3] + M[4] + M[5] + M[6] = L[1] + L[2] + L[3] + L[4] + L[5] + L[6]
  BY <1>3, <1>4, <1>6, <1>7, <1>10
<1> QED BY <1>1, <1>2, <1>3, <1>7, <1>8, <1>11, ChangedCount DEF L, M

\* A count that is changed is noticed.
LEMMA CountIsNoticed ==
  ASSUME NEW g \in Given, Writable(g), NEW n \in Nat, NEW f, f # FileOf(g),
         \/ f = [FileOf(g) EXCEPT !.header.nR = n]
         \/ f = [FileOf(g) EXCEPT !.header.nS = n]
         \/ f = [FileOf(g) EXCEPT !.header.dimension = n]
  PROVE  CppRead(f) = {}
<1> DEFINE h == Header(g)
           c == Cells(h, g.arrays)
           f0 == FileOf(g)
<1>1. f0 = [header |-> h, cells |-> c]
  BY FileRecord
<1>2. PICK x1, x2, x3, x4, x5, x6, x7, x8 :
        h = [canonical |-> x1, endpoint |-> x2, dimension |-> x3, nR |-> x4,
             nS |-> x5, offsets |-> x6, size |-> x7, digest |-> x8]
  BY FileRecord
<1>3. h.nR \in Nat /\ h.nS \in Nat /\ h.dimension \in Nat
  BY WrittenNumbers
<1>4. f # f0
  OBVIOUS
<1>5. \/ f = [f0 EXCEPT !.header.nR = n]
      \/ f = [f0 EXCEPT !.header.nS = n]
      \/ f = [f0 EXCEPT !.header.dimension = n]
  OBVIOUS
<1>6. SUFFICES ASSUME CppRead(f) # {} PROVE FALSE
  OBVIOUS
<1> HIDE DEF h, c, f0
<1>7. /\ f = [header |-> f.header, cells |-> c]
      /\ \/ f.header = [h EXCEPT !.nR = n]
         \/ f.header = [h EXCEPT !.nS = n]
         \/ f.header = [h EXCEPT !.dimension = n]
  BY <1>1, <1>5
<1> DEFINE k == f.header
<1>8. /\ k = [canonical |-> x1, endpoint |-> x2, dimension |-> k.dimension, nR |-> k.nR,
             nS |-> k.nS, offsets |-> x6, size |-> x7, digest |-> x8]
      /\ k.nR \in Nat /\ k.nS \in Nat /\ k.dimension \in Nat
      /\ \/ k.nS = h.nS /\ k.dimension = h.dimension
         \/ k.nR = h.nR /\ k.dimension = h.dimension
         \/ k.nR = h.nR /\ k.nS = h.nS
  <2>1. CASE k = [h EXCEPT !.nR = n]
    BY <1>2, <1>3, <2>1
  <2>2. CASE k = [h EXCEPT !.nS = n]
    BY <1>2, <1>3, <2>2
  <2>3. CASE k = [h EXCEPT !.dimension = n]
    BY <1>2, <1>3, <2>3
  <2> QED BY <1>7, <2>1, <2>2, <2>3
<1>9. k.offsets = h.offsets /\ k.size = h.size /\ k.digest = h.digest
  BY <1>2, <1>8
<1>10. k.nR = h.nR /\ k.nS = h.nS /\ k.dimension = h.dimension
  BY <1>6, <1>8, <1>9, CountsAreKept DEF h
<1>11. k = h
  BY <1>2, <1>8, <1>10
<1> QED BY <1>1, <1>4, <1>7, <1>11

\* A size that is changed in the header is not that of the file.
LEMMA SizeIsNoticed ==
  ASSUME NEW g \in Given, Writable(g), NEW n,
         [FileOf(g) EXCEPT !.header.size = n] # FileOf(g)
  PROVE  CppRead([FileOf(g) EXCEPT !.header.size = n]) = {}
<1> DEFINE h == Header(g)
           c == Cells(h, g.arrays)
           f0 == FileOf(g)
           f == [f0 EXCEPT !.header.size = n]
           k == [h EXCEPT !.size = n]
<1>1. f0 = [header |-> h, cells |-> c]
  BY FileRecord
<1>2. PICK x1, x2, x3, x4, x5, x6, x7, x8 :
        h = [canonical |-> x1, endpoint |-> x2, dimension |-> x3, nR |-> x4,
             nS |-> x5, offsets |-> x6, size |-> x7, digest |-> x8]
  BY FileRecord
<1>3. ActualSize(f0) = h.size
  BY WrittenFile
<1>4. f # f0
  OBVIOUS
<1>5. SUFFICES CppRead(f) = {}
  OBVIOUS
<1> HIDE DEF h, c, f0
<1>6. f = [header |-> k, cells |-> c]
  BY <1>1
<1> HIDE DEF f
<1>7. ActualSize(f) = h.size
  BY <1>1, <1>3, <1>6 DEF ActualSize
<1>8. k.size = n
  BY <1>2
<1>9. n # h.size
  <2> SUFFICES ASSUME n = h.size PROVE f = f0
    BY <1>4
  <2>1. k = h
    BY <1>2
  <2> HIDE DEF k
  <2> QED BY <1>1, <1>6, <2>1
<1> HIDE DEF k
<1>10. ~HeaderIsValid(f)
  BY <1>6, <1>7, <1>8, <1>9 DEF HeaderIsValid
<1> QED BY <1>10 DEF CppRead

\* A file that is cut short or added to is not of the size in its header.
LEMMA ResizeIsNoticed ==
  ASSUME NEW g \in Given, Writable(g), NEW n \in Nat, NEW f,
         f = [FileOf(g) EXCEPT !.cells =
                [p \in HeaderSize .. HeaderSize + n - 1 |->
                   IF p \in DOMAIN FileOf(g).cells THEN FileOf(g).cells[p] ELSE 0]]
  PROVE  CppRead(f) = {} \/ f = FileOf(g)
<1> DEFINE h == Header(g)
           c == Cells(h, g.arrays)
           f0 == FileOf(g)
           c2 == [p \in HeaderSize .. HeaderSize + n - 1 |->
                    IF p \in DOMAIN f0.cells THEN f0.cells[p] ELSE 0]
<1>1. f0 = [header |-> h, cells |-> c]
  BY FileRecord
<1>2. f0.cells = c /\ DOMAIN f0.cells = HeaderSize .. h.size - 1
  BY HeaderFields, WrittenFile
<1>3. h.size \in Nat /\ HeaderSize \in Nat /\ HeaderSize <= h.size
  BY WrittenNumbers, FileAssumption
<1>4. f = [f0 EXCEPT !.cells = c2]
  OBVIOUS
<1>5. c = [p \in DOMAIN c |-> c[p]]
  BY CellsAreFunctions
<1>6. SUFFICES ASSUME f # f0 PROVE CppRead(f) = {}
  OBVIOUS
<1> HIDE DEF h, c, f0
<1>7. c2 = [p \in HeaderSize .. HeaderSize + n - 1 |-> IF p \in DOMAIN c THEN c[p] ELSE 0]
  BY <1>2
<1> HIDE DEF c2
<1>8. f = [header |-> h, cells |-> c2]
  BY <1>1, <1>4
<1>9. DOMAIN f.cells = HeaderSize .. HeaderSize + n - 1
  BY <1>7, <1>8
<1>10. ActualSize(f) = HeaderSize + n
  BY <1>9, SizeOfCells
<1>11. HeaderSize + n # h.size
  <2> SUFFICES ASSUME HeaderSize + n = h.size PROVE f = f0
    BY <1>6
  <2>1. HeaderSize + n - 1 = h.size - 1
    BY <1>3
  <2>2. DOMAIN c = HeaderSize .. HeaderSize + n - 1
    BY <1>2, <2>1
  <2>3. c2 = [p \in DOMAIN c |-> c[p]]
    BY <1>7, <2>2
  <2>4. c2 = c
    BY <1>5, <2>3
  <2> QED BY <1>1, <1>8, <2>4
<1>12. ~HeaderIsValid(f)
  <2>1. f.header = h
    BY <1>8
  <2> QED BY <1>10, <1>11, <2>1 DEF HeaderIsValid
<1> QED BY <1>12 DEF CppRead

\* The digest of a written file is already that of its payload.
LEMMA ResealIsNothing ==
  ASSUME NEW g \in Given, Writable(g)
  PROVE  [FileOf(g) EXCEPT !.header.digest = Payload(ArraysOf(FileOf(g)))] = FileOf(g)
<1> DEFINE h == Header(g)
           c == Cells(h, g.arrays)
           f0 == FileOf(g)
           d == Payload(ArraysOf(f0))
<1>1. f0 = [header |-> h, cells |-> c]
  BY FileRecord
<1>2. PICK x1, x2, x3, x4, x5, x6, x7, x8 :
        h = [canonical |-> x1, endpoint |-> x2, dimension |-> x3, nR |-> x4,
             nS |-> x5, offsets |-> x6, size |-> x7, digest |-> x8]
  BY FileRecord
<1>3. d = h.digest
  BY WrittenFile, HeaderFields
<1>4. SUFFICES [f0 EXCEPT !.header.digest = d] = f0
  OBVIOUS
<1> HIDE DEF h, c, f0, d
<1>5. [h EXCEPT !.digest = d] = h
  BY <1>2, <1>3
<1>6. [f0 EXCEPT !.header.digest = d] = [header |-> [h EXCEPT !.digest = d], cells |-> c]
  BY <1>1
<1> QED BY <1>1, <1>5, <1>6

\* A header that is not canonical is refused; of another endpoint type only the
\* header tells.
LEMMA FormatIsNoticed ==
  ASSUME NEW g
  PROVE  /\ CppRead([FileOf(g) EXCEPT !.header.canonical = FALSE]) = {}
         /\ \A e : [FileOf(g) EXCEPT !.header.endpoint = e].header.endpoint = e
<1> DEFINE h == Header(g)
           c == Cells(h, g.arrays)
           f0 == FileOf(g)
<1>1. f0 = [header |-> h, cells |-> c]
  BY FileRecord
<1>2. PICK x1, x2, x3, x4, x5, x6, x7, x8 :
        h = [canonical |-> x1, endpoint |-> x2, dimension |-> x3, nR |-> x4,
             nS |-> x5, offsets |-> x6, size |-> x7, digest |-> x8]
  BY FileRecord
<1>3. SUFFICES /\ CppRead([f0 EXCEPT !.header.canonical = FALSE]) = {}
               /\ \A e : [f0 EXCEPT !.header.endpoint = e].header.endpoint = e
  OBVIOUS
<1> HIDE DEF h, c, f0
<1>4. ASSUME NEW e PROVE [f0 EXCEPT !.header.endpoint = e].header.endpoint = e
  <2>1. [f0 EXCEPT !.header.endpoint = e] = [header |-> [h EXCEPT !.endpoint = e], cells |-> c]
    BY <1>1
  <2>2. [h EXCEPT !.endpoint = e].endpoint = e
    BY <1>2
  <2> QED BY <2>1, <2>2
<1> DEFINE v == FALSE
           f == [f0 EXCEPT !.header.canonical = v]
<1>5. v = FALSE
  OBVIOUS
<1> HIDE DEF v
<1>6. f = [header |-> [h EXCEPT !.canonical = v], cells |-> c]
  BY <1>1
<1> HIDE DEF f
<1>7. f.header.canonical = v
  BY <1>2, <1>6
<1>8. CppRead(f) = {}
  BY <1>5, <1>7 DEF CppRead, HeaderIsValid
<1> QED BY <1>4, <1>8 DEF f, v

(***************************************************************************)
(* What stays true however often a file is changed.                        *)
(***************************************************************************)
\* A file of the form the writer gives it, whose header counts with natural
\* numbers.
IsHeader(k) ==
  /\ k = [canonical |-> k.canonical, endpoint |-> k.endpoint, dimension |-> k.dimension,
          nR |-> k.nR, nS |-> k.nS, offsets |-> k.offsets, size |-> k.size,
          digest |-> k.digest]
  /\ k.dimension \in Nat /\ k.nR \in Nat /\ k.nS \in Nat
IsFile(f) == f = [header |-> f.header, cells |-> f.cells] /\ IsHeader(f.header)

\* Header fields one by one make a header.
LEMMA MakesHeader ==
  ASSUME NEW x1, NEW x2, NEW d \in Nat, NEW r \in Nat, NEW s \in Nat,
         NEW x6, NEW x7, NEW x8
  PROVE  IsHeader([canonical |-> x1, endpoint |-> x2, dimension |-> d, nR |-> r, nS |-> s,
                   offsets |-> x6, size |-> x7, digest |-> x8])
BY DEF IsHeader

\* A header and cells make a file.
LEMMA MakesFile ==
  ASSUME NEW k, NEW c, IsHeader(k)
  PROVE  IsFile([header |-> k, cells |-> c])
BY DEF IsFile

\* A file is made of them.
LEMMA IsMadeOf ==
  ASSUME NEW f, IsFile(f)
  PROVE  \E k, c : IsHeader(k) /\ f = [header |-> k, cells |-> c]
BY DEF IsFile

\* And its header of its fields.
LEMMA HeaderIsMadeOf ==
  ASSUME NEW k, IsHeader(k)
  PROVE  \E x1, x2, x6, x7, x8 : \E d, r, s \in Nat :
           k = [canonical |-> x1, endpoint |-> x2, dimension |-> d, nR |-> r, nS |-> s,
                offsets |-> x6, size |-> x7, digest |-> x8]
BY DEF IsHeader

\* What the writer writes is a file.
LEMMA WrittenIsFile ==
  ASSUME NEW g \in Given, Writable(g)
  PROVE  IsFile(FileOf(g))
<1> DEFINE h == Header(g)
           c == Cells(h, g.arrays)
           f0 == FileOf(g)
<1>1. f0 = [header |-> h, cells |-> c]
  BY FileRecord
<1>2. PICK x1, x2, x3, x4, x5, x6, x7, x8 :
        h = [canonical |-> x1, endpoint |-> x2, dimension |-> x3, nR |-> x4,
             nS |-> x5, offsets |-> x6, size |-> x7, digest |-> x8]
  BY FileRecord
<1>3. h.nR \in Nat /\ h.nS \in Nat /\ h.dimension \in Nat
  BY WrittenNumbers
<1>4. SUFFICES IsFile(f0)
  OBVIOUS
<1> HIDE DEF h, c, f0
<1>5. x3 \in Nat /\ x4 \in Nat /\ x5 \in Nat
  BY <1>2, <1>3
<1>6. IsHeader(h)
  BY <1>2, <1>5, MakesHeader
<1> QED BY <1>1, <1>6, MakesFile

\* Files stay files when their cells change,
LEMMA CellsChange ==
  ASSUME NEW f, IsFile(f), NEW c2
  PROVE  IsFile([f EXCEPT !.cells = c2])
<1>1. PICK k, c : IsHeader(k) /\ f = [header |-> k, cells |-> c]
  BY IsMadeOf
<1>2. [f EXCEPT !.cells = c2] = [header |-> k, cells |-> c2]
  BY <1>1
<1> QED BY <1>1, <1>2, MakesFile

\* and when a field of their header does.
LEMMA HeaderChange ==
  ASSUME NEW f, IsFile(f), NEW v, NEW n \in Nat
  PROVE  /\ IsFile([f EXCEPT !.header.canonical = v]) /\ IsFile([f EXCEPT !.header.endpoint = v])
         /\ IsFile([f EXCEPT !.header.offsets = v]) /\ IsFile([f EXCEPT !.header.size = v])
         /\ IsFile([f EXCEPT !.header.digest = v]) /\ IsFile([f EXCEPT !.header.nR = n])
         /\ IsFile([f EXCEPT !.header.nS = n]) /\ IsFile([f EXCEPT !.header.dimension = n])
<1>1. PICK k, c : IsHeader(k) /\ f = [header |-> k, cells |-> c]
  BY IsMadeOf
<1>2. PICK x1, x2, x6, x7, x8 : \E d, r, s \in Nat :
        k = [canonical |-> x1, endpoint |-> x2, dimension |-> d, nR |-> r, nS |-> s,
             offsets |-> x6, size |-> x7, digest |-> x8]
  BY <1>1, HeaderIsMadeOf
<1>3. PICK d \in Nat, r \in Nat, s \in Nat :
        k = [canonical |-> x1, endpoint |-> x2, dimension |-> d, nR |-> r, nS |-> s,
             offsets |-> x6, size |-> x7, digest |-> x8]
  BY <1>2
<1>4. IsHeader([k EXCEPT !.canonical = v])
  <2>1. [k EXCEPT !.canonical = v]
          = [canonical |-> v, endpoint |-> x2, dimension |-> d, nR |-> r, nS |-> s,
             offsets |-> x6, size |-> x7, digest |-> x8]
    BY <1>3
  <2> QED BY <2>1, MakesHeader
<1>5. IsHeader([k EXCEPT !.endpoint = v])
  <2>1. [k EXCEPT !.endpoint = v]
          = [canonical |-> x1, endpoint |-> v, dimension |-> d, nR |-> r, nS |-> s,
             offsets |-> x6, size |-> x7, digest |-> x8]
    BY <1>3
  <2> QED BY <2>1, MakesHeader
<1>6. IsHeader([k EXCEPT !.offsets = v])
  <2>1. [k EXCEPT !.offsets = v]
          = [canonical |-> x1, endpoint |-> x2, dimension |-> d, nR |-> r, nS |-> s,
             offsets |-> v, size |-> x7, digest |-> x8]
    BY <1>3
  <2> QED BY <2>1, MakesHeader
<1>7. IsHeader([k EXCEPT !.size = v])
  <2>1. [k EXCEPT !.size = v]
          = [canonical |-> x1, endpoint |-> x2, dimension |-> d, nR |-> r, nS |-> s,
             offsets |-> x6, size |-> v, digest |-> x8]
    BY <1>3
  <2> QED BY <2>1, MakesHeader
<1>8. IsHeader([k EXCEPT !.digest = v])
  <2>1. [k EXCEPT !.digest = v]
          = [canonical |-> x1, endpoint |-> x2, dimension |-> d, nR |-> r, nS |-> s,
             offsets |-> x6, size |-> x7, digest |-> v]
    BY <1>3
  <2> QED BY <2>1, MakesHeader
<1>9. IsHeader([k EXCEPT !.nR = n])
  <2>1. [k EXCEPT !.nR = n]
          = [canonical |-> x1, endpoint |-> x2, dimension |-> d, nR |-> n, nS |-> s,
             offsets |-> x6, size |-> x7, digest |-> x8]
    BY <1>3
  <2> QED BY <2>1, MakesHeader
<1>10. IsHeader([k EXCEPT !.nS = n])
  <2>1. [k EXCEPT !.nS = n]
          = [canonical |-> x1, endpoint |-> x2, dimension |-> d, nR |-> r, nS |-> n,
             offsets |-> x6, size |-> x7, digest |-> x8]
    BY <1>3
  <2> QED BY <2>1, MakesHeader
<1>11. IsHeader([k EXCEPT !.dimension = n])
  <2>1. [k EXCEPT !.dimension = n]
          = [canonical |-> x1, endpoint |-> x2, dimension |-> n, nR |-> r, nS |-> s,
             offsets |-> x6, size |-> x7, digest |-> x8]
    BY <1>3
  <2> QED BY <2>1, MakesHeader
<1>12. /\ [f EXCEPT !.header.canonical = v] = [header |-> [k EXCEPT !.canonical = v], cells |-> c]
       /\ [f EXCEPT !.header.endpoint = v] = [header |-> [k EXCEPT !.endpoint = v], cells |-> c]
       /\ [f EXCEPT !.header.offsets = v] = [header |-> [k EXCEPT !.offsets = v], cells |-> c]
       /\ [f EXCEPT !.header.size = v] = [header |-> [k EXCEPT !.size = v], cells |-> c]
  BY <1>1
<1>13. /\ [f EXCEPT !.header.digest = v] = [header |-> [k EXCEPT !.digest = v], cells |-> c]
       /\ [f EXCEPT !.header.nR = n] = [header |-> [k EXCEPT !.nR = n], cells |-> c]
       /\ [f EXCEPT !.header.nS = n] = [header |-> [k EXCEPT !.nS = n], cells |-> c]
       /\ [f EXCEPT !.header.dimension = n] = [header |-> [k EXCEPT !.dimension = n], cells |-> c]
  BY <1>1
<1> QED BY SMTT(20), <1>4, <1>5, <1>6, <1>7, <1>8, <1>9, <1>10, <1>11, <1>12, <1>13, MakesFile

\* Whatever is done to a file, it stays one.
LEMMA AlterationKeepsFiles ==
  ASSUME IsFile(file), Alteration
  PROVE  IsFile(file')
<1>1. CASE ChangeCell
  <2>1. PICK p, w : file' = [file EXCEPT !.cells[p] = w]
    BY <1>1 DEF ChangeCell, Change
  <2>2. file' = [file EXCEPT !.cells = [file.cells EXCEPT ![p] = w]]
    BY <2>1
  <2> QED BY <2>2, CellsChange
<1>2. CASE ChangeOffset
  <2>1. PICK i, p : file' = [file EXCEPT !.header.offsets[i] = p]
    BY <1>2 DEF ChangeOffset, Change
  <2>2. file' = [file EXCEPT !.header.offsets = [file.header.offsets EXCEPT ![i] = p]]
    BY <2>1
  <2> QED BY <2>2, HeaderChange
<1>3. CASE ChangeCount
  <2>1. PICK n \in 0 .. 3 : \/ file' = [file EXCEPT !.header.nR = n]
                            \/ file' = [file EXCEPT !.header.nS = n]
                            \/ file' = [file EXCEPT !.header.dimension = n]
    BY <1>3 DEF ChangeCount, Change
  <2>2. n \in Nat
    OBVIOUS
  <2>3. CASE file' = [file EXCEPT !.header.nR = n]
    BY <2>2, <2>3, HeaderChange
  <2>4. CASE file' = [file EXCEPT !.header.nS = n]
    BY <2>2, <2>4, HeaderChange
  <2>5. CASE file' = [file EXCEPT !.header.dimension = n]
    BY <2>2, <2>5, HeaderChange
  <2> QED BY <2>1, <2>3, <2>4, <2>5
<1>4. CASE ChangeSize
  <2>1. PICK n : file' = [file EXCEPT !.header.size = n]
    BY <1>4 DEF ChangeSize, Change
  <2> QED BY <2>1, HeaderChange
<1>5. CASE ChangeFormat
  <2>1. \/ file' = [file EXCEPT !.header.canonical = FALSE]
        \/ \E e : file' = [file EXCEPT !.header.endpoint = e]
    BY <1>5 DEF ChangeFormat, Change
  <2>2. CASE file' = [file EXCEPT !.header.canonical = FALSE]
    BY <2>2, HeaderChange
  <2>3. ASSUME NEW e, file' = [file EXCEPT !.header.endpoint = e] PROVE IsFile(file')
    BY <2>3, HeaderChange
  <2> QED BY <2>1, <2>2, <2>3
<1>6. CASE Resize
  <2>1. PICK c : file' = [file EXCEPT !.cells = c]
    BY <1>6 DEF Resize, Change
  <2> QED BY <2>1, CellsChange
<1>7. CASE Reseal
  <2>1. PICK d : file' = [file EXCEPT !.header.digest = d]
    BY <1>7 DEF Reseal, Change
  <2> QED BY <2>1, HeaderChange
<1> QED BY <1>1, <1>2, <1>3, <1>4, <1>5, <1>6, <1>7 DEF Alteration

\* One alteration of a written file is noticed.
LEMMA FirstAlteration ==
  ASSUME NEW g \in Given, Writable(g), file = FileOf(g), written = file, Alteration
  PROVE  \/ CppRead(file') = {}
         \/ file' = [written EXCEPT !.header.endpoint = file'.header.endpoint]
<1> DEFINE f0 == FileOf(g)
<1>1. CASE ChangeCell
  <2>1. PICK p \in DOMAIN f0.cells, w \in Word : file' = [f0 EXCEPT !.cells[p] = w] /\ file' # f0
    BY SMTT(20), <1>1 DEF ChangeCell, Change
  <2> QED BY <2>1, CellIsNoticed
<1>2. CASE ChangeOffset
  <2>1. PICK i \in 1 .. 6, p \in 0 .. written.header.size :
          file' = [f0 EXCEPT !.header.offsets[i] = p] /\ file' # f0
    BY <1>2 DEF ChangeOffset, Change
  <2>2. p \in Nat
    <3>1. written.header.size \in Nat
      BY HeaderFields, WrittenNumbers
    <3> QED BY <3>1
  <2> QED BY <2>1, <2>2, OffsetIsNoticed
<1>3. CASE ChangeCount
  <2>1. PICK n \in 0 .. 3 : /\ file' # f0
                            /\ \/ file' = [f0 EXCEPT !.header.nR = n]
                               \/ file' = [f0 EXCEPT !.header.nS = n]
                               \/ file' = [f0 EXCEPT !.header.dimension = n]
    BY <1>3 DEF ChangeCount, Change
  <2>2. n \in Nat
    OBVIOUS
  <2> QED BY <2>1, <2>2, CountIsNoticed
<1>4. CASE ChangeSize
  <2>1. PICK n : file' = [f0 EXCEPT !.header.size = n] /\ file' # f0
    BY <1>4 DEF ChangeSize, Change
  <2> QED BY <2>1, SizeIsNoticed
<1>5. CASE ChangeFormat
  <2>1. \/ file' = [f0 EXCEPT !.header.canonical = FALSE]
        \/ \E e : file' = [f0 EXCEPT !.header.endpoint = e]
    BY <1>5 DEF ChangeFormat, Change
  <2>2. CASE file' = [f0 EXCEPT !.header.canonical = FALSE]
    BY <2>2, FormatIsNoticed
  <2>3. ASSUME NEW e, file' = [f0 EXCEPT !.header.endpoint = e]
        PROVE  file' = [written EXCEPT !.header.endpoint = file'.header.endpoint]
    <3>1. file'.header.endpoint = e
      BY <2>3, FormatIsNoticed
    <3> QED BY <2>3, <3>1
  <2> QED BY <2>1, <2>2, <2>3
<1>6. CASE Resize
  <2>1. PICK n \in 0 .. Cardinality(DOMAIN written.cells) + 1 :
          Change([file EXCEPT !.cells =
                    [p \in HeaderSize .. HeaderSize + n - 1 |->
                       IF p \in DOMAIN file.cells THEN file.cells[p] ELSE 0]])
    BY <1>6 DEF Resize
  <2>2. /\ file' # file
        /\ file' = [file EXCEPT !.cells =
                      [p \in HeaderSize .. HeaderSize + n - 1 |->
                         IF p \in DOMAIN file.cells THEN file.cells[p] ELSE 0]]
    BY <2>1 DEF Change
  <2>3. n \in Nat
    <3>1. Cardinality(DOMAIN f0.cells) \in Nat
      <4>1. DOMAIN f0.cells = HeaderSize .. Header(g).size - 1
        BY WrittenFile
      <4>2. HeaderSize \in Int /\ Header(g).size - 1 \in Int
        BY WrittenNumbers, FileAssumption
      <4>3. IsFiniteSet(DOMAIN f0.cells)
        BY <4>1, <4>2, FS_Interval
      <4> QED BY <4>3, FS_CardinalityType
    <3>2. Cardinality(DOMAIN written.cells) \in Nat
      BY <3>1
    <3> QED BY <3>2
  <2> QED BY <2>2, <2>3, ResizeIsNoticed
<1>7. CASE Reseal
  <2>1. file' = [f0 EXCEPT !.header.digest = Payload(ArraysOf(f0))] /\ file' # f0
    BY <1>7 DEF Reseal, Change
  <2> QED BY <2>1, ResealIsNothing
<1> QED BY <1>1, <1>2, <1>3, <1>4, <1>5, <1>6, <1>7 DEF Alteration

\* The inductive invariant: what is written is the writer's file of a workload
\* it takes, what is there is a file, and unchanged until something changes it.
Kept ==
  /\ exists \in BOOLEAN /\ changes \in Nat /\ given \in Instances
  /\ ~exists => changes = 0
  /\ exists => Writable(given) /\ written = FileOf(given) /\ IsFile(file)
  /\ exists /\ changes = 0 => file = written
  /\ OneChangeIsNoticed

\* Nothing is kept at first.
LEMMA InitKept == FileInit => Kept
<1> SUFFICES ASSUME FileInit PROVE Kept
  OBVIOUS
<1>1. exists = FALSE /\ changes = 0 /\ given \in Instances
  BY DEF FileInit
<1>2. OneChangeIsNoticed
  BY <1>1 DEF OneChangeIsNoticed
<1> QED BY <1>1, <1>2 DEF Kept

\* Every step keeps the invariant.
LEMMA StepKept == Kept /\ [FileNext]_fileVars => Kept'
<1> SUFFICES ASSUME Kept, [FileNext]_fileVars PROVE Kept'
  OBVIOUS
<1>1. given \in Given /\ exists \in BOOLEAN /\ changes \in Nat
  BY InstancesAssumption DEF Kept
<1>2. CASE Write
  <2>1. /\ exists' = TRUE /\ Writable(given) /\ written' = FileOf(given) /\ file' = FileOf(given)
        /\ given' = given /\ changes' = changes /\ changes = 0
    BY <1>2 DEF Write, Kept
  <2>2. IsFile(FileOf(given))
    BY <1>1, <2>1, WrittenIsFile
  <2> QED BY <2>1, <2>2 DEF Kept, OneChangeIsNoticed
<1>3. CASE exists /\ Alteration
  <2>1. /\ given' = given /\ exists' = exists /\ written' = written /\ changes' = changes + 1
    BY <1>3 DEF Alteration, ChangeCell, ChangeOffset, ChangeCount, ChangeSize, ChangeFormat,
                Resize, Reseal, Change
  <2>2. IsFile(file')
    BY <1>3, AlterationKeepsFiles DEF Kept
  <2>3. OneChangeIsNoticed'
    <3> SUFFICES ASSUME changes' = 1
                 PROVE  \/ CppRead(file') = {}
                        \/ file' = [written' EXCEPT !.header.endpoint = file'.header.endpoint]
      BY DEF OneChangeIsNoticed
    <3>1. changes = 0
      BY <1>1, <2>1
    <3>2. Writable(given) /\ file = FileOf(given) /\ written = file
      BY <1>3, <3>1 DEF Kept
    <3> QED BY <1>1, <1>3, <2>1, <3>2, FirstAlteration
  <2>4. changes' \in Nat /\ changes' # 0
    BY <1>1, <2>1
  <2> QED BY <1>1, <1>3, <2>1, <2>2, <2>3, <2>4 DEF Kept
<1>4. CASE UNCHANGED fileVars
  BY <1>4 DEF fileVars, Kept, OneChangeIsNoticed
<1> QED BY <1>2, <1>3, <1>4 DEF FileNext

\* So what is kept is always so.
LEMMA AlwaysKept == FileSpec => []Kept
BY InitKept, StepKept, PTL DEF FileSpec

\* What has not been changed is read back by both, and of what has the readers
\* think alike.
LEMMA KeptAgrees == Kept => ReadersAgree
<1> SUFFICES ASSUME Kept PROVE ReadersAgree
  OBVIOUS
<1>1. given \in Given
  BY InstancesAssumption DEF Kept
<1>2. exists /\ changes = 0 => PyRead(file) = {given} /\ CppRead(file) = {given}
  <2> SUFFICES ASSUME exists, changes = 0
               PROVE  PyRead(file) = {given} /\ CppRead(file) = {given}
    OBVIOUS
  <2>1. Writable(given) /\ file = FileOf(given)
    BY DEF Kept
  <2> QED BY <1>1, <2>1, WrittenIsRead
<1>3. exists => \/ CppRead(file) = PyRead(file)
                \/ /\ CppRead(file) = {} /\ ArraysFit(file.header)
                   /\ ~PaddingIsZero(file) \/ ~DistinctIds(ArraysOf(file))
                \/ /\ PyRead(file) = {} /\ ArraysFit(file.header)
                   /\ \E i \in 1 .. 6 : Counts(file.header)[i] = 0
  <2> SUFFICES ASSUME exists
               PROVE  \/ CppRead(file) = PyRead(file)
                      \/ /\ CppRead(file) = {} /\ ArraysFit(file.header)
                         /\ ~PaddingIsZero(file) \/ ~DistinctIds(ArraysOf(file))
                      \/ /\ PyRead(file) = {} /\ ArraysFit(file.header)
                         /\ \E i \in 1 .. 6 : Counts(file.header)[i] = 0
    OBVIOUS
  <2>1. file.header.nR \in Nat /\ file.header.nS \in Nat /\ file.header.dimension \in Nat
    BY DEF Kept, IsFile, IsHeader
  <2> QED BY <2>1, ReadersAlike
<1> QED BY <1>2, <1>3 DEF ReadersAgree

\* The C++ reader and the Python reader accept the same files, with the same
\* contents, and the writer's as it was given, whatever the workload, the width
\* of a word, the alignment and the number of changes.
THEOREM ReadersAlwaysAgree == FileSpec => []ReadersAgree
BY AlwaysKept, KeptAgrees, PTL

\* One change of a written file never goes unnoticed by the benchmark, but that
\* of the endpoint type.
THEOREM OneChangeIsAlwaysNoticed == FileSpec => []OneChangeIsNoticed
<1>1. Kept => OneChangeIsNoticed
  BY DEF Kept
<1> QED BY <1>1, AlwaysKept, PTL
=============================================================================
