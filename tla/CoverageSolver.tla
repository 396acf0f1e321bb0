--------------------------- MODULE CoverageSolver ---------------------------
(***************************************************************************)
(* solve_coverage of python/anchor_exp/alacarte.py.  Each round finds, on  *)
(* samples of its own, the theta at which the mean intersection            *)
(* probability meets the target, and then certifies it on fresh samples by *)
(* confidence intervals taken at doubling sample counts.  A candidate that *)
(* an interval rejects sends the solver to the next round.                 *)
(*                                                                         *)
(* Probabilities are integers 0 .. One and thetas a grid of integers: two  *)
(* neighbours have no float between them.  A mean of samples is one of     *)
(* Curves; what floating point makes of it is an enclosure of the exact    *)
(* value.  An interval of any place and of any of the given radii may      *)
(* come out of the fresh samples; missed records whether one was wrong.    *)
(***************************************************************************)
EXTENDS Integers, FiniteSets

CONSTANTS
  Config,                  \* records [target, epsilon, start, truth]
  One,
  ThetaMin, ThetaMax, Stride, ThetaTolerance,   \* Stride stands for log 2
  Curves,                  \* empirical means as functions of theta
  Slacks,                  \* how far an enclosure reaches beyond its value
  Radii,                   \* statistical radii of confidence intervals
  TrainTolerance,          \* train_tolerance_initial
  Rounds, Checkpoints, MaxExpand, MaxBisect,
  Initial, Batch           \* certification_initial, certification_batch

Theta == ThetaMin .. ThetaMax
Probability == 0 .. One
Monotone(f) == \A s, t \in Theta : s <= t => f[s] <= f[t]

ASSUME SolverAssumption ==
  /\ One \in Nat /\ ThetaMin \in Int /\ ThetaMax \in Int /\ ThetaMin < ThetaMax
  /\ Stride \in Nat \ {0} /\ ThetaTolerance \in Nat
  /\ Curves \subseteq [Theta -> Probability] /\ \A f \in Curves : Monotone(f)
  /\ Slacks \subseteq Nat /\ Radii \subseteq Nat
  /\ TrainTolerance \in Nat
  /\ {Rounds, Checkpoints, MaxExpand, MaxBisect, Initial, Batch} \subseteq Nat \ {0}
  /\ \A c \in Config : /\ c.target \in Int /\ c.epsilon \in Int /\ c.start \in Int
                       /\ c.truth \in [Theta -> Probability]

VARIABLES
  config,        \* what the caller asks for
  pc,            \* "initial", "expand" and "bisect" are in _find_empirical_root
  round, training, mean,   \* calibration round, its tolerance, the mean over its samples
  theta, direction, lo, hi, steps,
  checkpoint, desired, drawn,   \* checkpoints passed; moments.count and its goal
  status,
  intervals,     \* history: confidence intervals of this call
  missed,        \* history: one of them did not hold the true probability
  rejected       \* history: candidates found outside the band

calibration == <<round, training, mean>>
search   == <<theta, direction, lo, hi, steps>>
sampling == <<checkpoint, desired, drawn>>
history  == <<intervals, missed, rejected>>
solver   == <<config, pc, calibration, search, sampling, status, history>>

Least(a, b) == IF a < b THEN a ELSE b
Most(a, b)  == IF a > b THEN a ELSE b

\* A numeric value known up to its enclosure, which stays within [0,1].
Enclosure(p, below, above) == [lower |-> Most(0, p - below), upper |-> Least(One, p + above)]
Estimates(t) == {Enclosure(mean[t], b, a) : b, a \in Slacks}

Comparison(estimate) ==
  IF estimate.upper < config.target THEN -1
  ELSE IF estimate.lower > config.target THEN 1 ELSE 0

Tolerance == Least(config.epsilon \div 8, training)
ResidualWithin(estimate) ==
  /\ estimate.lower >= config.target - Tolerance
  /\ estimate.upper <= config.target + Tolerance

End(s) ==
  /\ pc' = "ended" /\ status' = s
  /\ UNCHANGED <<config, calibration, search, sampling>>
EndSearch(s) == End(s) /\ UNCHANGED history

Certify(t) ==
  /\ pc' = "certify" /\ theta' = t
  /\ checkpoint' = 0 /\ desired' = Initial /\ drawn' = 0
  /\ UNCHANGED <<config, calibration, direction, lo, hi, steps, status, history>>
Continue(at) ==
  pc' = at /\ UNCHANGED <<config, calibration, sampling, status, history>>

SettleAnyway(t, estimate) == Comparison(estimate) = 0 /\ Certify(t)
\* The enclosure holds the target: done, or no side can be told.
Settle(t, estimate) ==
  /\ Comparison(estimate) = 0
  /\ IF ResidualWithin(estimate) THEN Certify(t)
     ELSE EndSearch("NUMERICAL_RESOLUTION_EXHAUSTED")

(***************************************************************************)
(* Calibration.                                                            *)
(***************************************************************************)
Calibrate ==
  /\ pc = "calibrate" /\ round < Rounds
  /\ round' = round + 1 /\ mean' \in Curves
  /\ training' = (IF round = 0 THEN TrainTolerance ELSE training \div 2)
  /\ theta' = Least(ThetaMax, Most(ThetaMin, config.start))
  /\ pc' = "initial"
  /\ UNCHANGED <<config, direction, lo, hi, steps, sampling, status, history>>

RejectedOnceMore ==
  /\ pc = "calibrate" /\ round = Rounds + 1
  /\ EndSearch("CERTIFICATION_NOT_REACHED")
AllRejected ==
  /\ pc = "calibrate" /\ round = Rounds
  /\ EndSearch("CERTIFICATION_NOT_REACHED")

\* A mean whose enclosure reaches down to 0 may have no logarithm.
EvaluateInitial ==
  /\ pc = "initial"
  /\ \E estimate \in Estimates(theta) :
       \/ estimate.lower = 0 /\ EndSearch("TARGET_BELOW_NUMERIC_RESOLUTION")
       \/ Settle(theta, estimate)
       \/ /\ Comparison(estimate) # 0
          /\ direction' = -Comparison(estimate)
          /\ lo' = theta /\ hi' = theta /\ steps' = 0 /\ theta' = theta
          /\ Continue("expand")

ExpandTo(t) ==
  \E estimate \in Estimates(t) :
    \/ Settle(t, estimate)
    \/ /\ Comparison(estimate) = -direction
       /\ lo' = (IF direction > 0 THEN t ELSE lo)
       /\ hi' = (IF direction > 0 THEN hi ELSE t)
       /\ theta' = t /\ steps' = steps + 1
       /\ UNCHANGED direction /\ Continue("expand")
    \/ /\ Comparison(estimate) = direction
       /\ lo' = (IF direction > 0 THEN lo ELSE t)
       /\ hi' = (IF direction > 0 THEN t ELSE hi)
       /\ theta' = t /\ steps' = 0
       /\ UNCHANGED direction /\ Continue("bisect")

Expand ==
  /\ pc = "expand" /\ steps < MaxExpand
  /\ LET t == theta + direction * Stride
     IN IF t \in Theta THEN ExpandTo(t) ELSE EndSearch("BRACKET_NOT_FOUND")
ExpansionLimit ==
  pc = "expand" /\ steps = MaxExpand /\ EndSearch("EXPANSION_LIMIT_REACHED")

Middle == lo + (hi - lo) \div 2
Converged(estimate) ==
  ResidualWithin(estimate) /\ (hi - lo <= ThetaTolerance \/ Comparison(estimate) = 0)
BisectTowardsLarger(t) ==
  \E estimate \in Estimates(t) :
    \/ Converged(estimate) /\ Certify(t)
    \/ /\ ~Converged(estimate) /\ Comparison(estimate) # 0
       /\ lo' = (IF Comparison(estimate) > 0 THEN t ELSE lo)
       /\ hi' = (IF Comparison(estimate) > 0 THEN hi ELSE t)
       /\ theta' = t /\ steps' = steps + 1
       /\ UNCHANGED direction /\ Continue("bisect")
BisectAt(t) ==
  \E estimate \in Estimates(t) :
    \/ Converged(estimate) /\ Certify(t)
    \/ /\ ~Converged(estimate) /\ Comparison(estimate) # 0
       /\ lo' = (IF Comparison(estimate) < 0 THEN t ELSE lo)
       /\ hi' = (IF Comparison(estimate) < 0 THEN hi ELSE t)
       /\ theta' = t /\ steps' = steps + 1
       /\ UNCHANGED direction /\ Continue("bisect")
    \/ /\ ~Converged(estimate) /\ Comparison(estimate) = 0
       /\ EndSearch("NUMERICAL_RESOLUTION_EXHAUSTED")

Bisect ==
  /\ pc = "bisect" /\ steps < MaxBisect
  /\ IF Middle \in {lo, hi} THEN EndSearch("NUMERICAL_RESOLUTION_EXHAUSTED")
     ELSE BisectAt(Middle)
BisectionLimit ==
  pc = "bisect" /\ steps = MaxBisect /\ EndSearch("BISECTION_LIMIT_REACHED")

(***************************************************************************)
(* Certification.                                                          *)
(***************************************************************************)
DrawWholeBatch ==
  /\ pc = "certify" /\ drawn < desired
  /\ drawn' = drawn + Batch
  /\ UNCHANGED <<config, pc, calibration, search, checkpoint, desired, status, history>>
Draw ==
  /\ pc = "certify" /\ drawn < desired
  /\ drawn' = drawn + Least(Batch, desired - drawn)
  /\ UNCHANGED <<config, pc, calibration, search, checkpoint, desired, status, history>>

InBand(p) == config.target - config.epsilon <= p /\ p <= config.target + config.epsilon
Missed(interval) ==
  config.truth[theta] < interval.lower \/ config.truth[theta] > interval.upper
Disjoint(interval) ==
  \/ interval.upper < config.target - config.epsilon
  \/ interval.lower > config.target + config.epsilon
Decided(interval) ==
  (InBand(interval.lower) /\ InBand(interval.upper)) \/ Disjoint(interval)

CheckInterval ==
  /\ pc = "certify" /\ drawn = desired
  /\ \E p \in Probability, statistical \in Radii, numeric \in Slacks :
       LET interval == Enclosure(p, statistical + numeric, statistical + numeric)
       IN /\ intervals' = intervals + 1
          /\ missed' = (missed \/ Missed(interval))
          /\ \/ /\ 8 * numeric > config.epsilon
                /\ End("TARGET_BELOW_NUMERIC_RESOLUTION") /\ UNCHANGED rejected
             \/ /\ 8 * numeric <= config.epsilon
                /\ InBand(interval.lower) /\ InBand(interval.upper)
                /\ End("CERTIFIED") /\ UNCHANGED rejected
             \/ /\ 8 * numeric <= config.epsilon /\ Disjoint(interval)
                /\ pc' = "calibrate" /\ rejected' = rejected \union {theta}
                /\ UNCHANGED <<config, calibration, search, sampling, status>>
             \/ /\ 8 * numeric <= config.epsilon /\ ~Decided(interval)
                /\ checkpoint + 1 < Checkpoints
                /\ checkpoint' = checkpoint + 1 /\ desired' = 2 * desired
                /\ UNCHANGED <<config, pc, calibration, search, drawn, status, rejected>>
             \/ /\ 8 * numeric <= config.epsilon /\ ~Decided(interval)
                /\ checkpoint + 1 = Checkpoints
                /\ End("SAMPLE_BUDGET_EXCEEDED") /\ UNCHANGED rejected

\* A draw, an evaluation or a bound may overflow or lose its enclosure.
NumericFailure ==
  \/ /\ \/ pc \in {"initial", "expand", "bisect"}
        \/ pc = "certify" /\ drawn < desired
     /\ EndSearch("NONFINITE_EVALUATION")
  \/ /\ \/ pc = "calibrate" /\ round < Rounds
        \/ pc = "certify" /\ drawn = desired
     /\ EndSearch("NUMERICAL_RESOLUTION_EXHAUSTED")

NoCurve == [t \in Theta |-> 0]
Idle ==
  /\ pc = "idle" /\ round = 0 /\ training = 0 /\ mean = NoCurve
  /\ theta = ThetaMin /\ direction = 1 /\ lo = ThetaMin /\ hi = ThetaMin
  /\ steps = 0 /\ checkpoint = 0 /\ desired = 0 /\ drawn = 0 /\ status = "none"
  /\ intervals = 0 /\ missed = FALSE /\ rejected = {}

\* A target and a tolerance that leave room on both sides.
Valid(c) ==
  /\ 0 < c.target /\ c.target < One
  /\ 0 < c.epsilon /\ c.epsilon < c.target /\ c.epsilon < One - c.target

\* A call, and what is left of it when its caller has the result.  An eighth
\* of the tolerance must not vanish.
Call(c) ==
  /\ pc = "idle" /\ config' = c
  /\ \/ Valid(c) /\ c.epsilon >= 8 /\ pc' = "calibrate" /\ UNCHANGED status
     \/ ~Valid(c) /\ pc' = "ended" /\ status' = "INVALID_INPUT"
     \/ /\ Valid(c) /\ c.epsilon < 8
        /\ pc' = "ended" /\ status' = "TARGET_BELOW_NUMERIC_RESOLUTION"
  /\ UNCHANGED <<calibration, search, sampling, history>>
Return ==
  /\ pc' = "idle" /\ round' = 0 /\ training' = 0 /\ mean' = NoCurve /\ UNCHANGED config
  /\ theta' = ThetaMin /\ direction' = 1 /\ lo' = ThetaMin /\ hi' = ThetaMin
  /\ steps' = 0 /\ checkpoint' = 0 /\ desired' = 0 /\ drawn' = 0 /\ status' = "none"
  /\ intervals' = 0 /\ missed' = FALSE /\ rejected' = {}

SolverStep ==
  \/ Calibrate \/ AllRejected \/ EvaluateInitial
  \/ Expand \/ ExpansionLimit \/ Bisect \/ BisectionLimit
  \/ Draw \/ CheckInterval \/ NumericFailure
-----------------------------------------------------------------------------
\* The bracket always encloses the point where the empirical mean passes the
\* target, and its ends stay apart: neither expansion nor bisection may move
\* the wrong end (_find_empirical_root 868-962).
BracketHoldsRoot ==
  /\ pc = "expand" =>
       IF direction > 0 THEN mean[lo] < config.target ELSE mean[hi] > config.target
  /\ pc = "bisect" =>
       /\ lo < hi /\ {lo, hi} \subseteq Theta
       /\ mean[lo] < config.target /\ config.target < mean[hi]

Trained(t) ==
  /\ 8 * (mean[t] - config.target) <= config.epsilon
  /\ 8 * (config.target - mean[t]) <= config.epsilon

\* What is certified has been trained to an eighth of the tolerance, and, if
\* no interval of the call missed the truth, expects a density within the
\* tolerance of the target; every rejected candidate does not (solve_coverage
\* 1233-1290, _certify_candidate 1174-1193).
CertifiedIsTrue ==
  /\ (pc = "certify" \/ status = "CERTIFIED") => Trained(theta)
  /\ status = "CERTIFIED" /\ ~missed => InBand(config.truth[theta])
  /\ ~missed => \A t \in rejected : ~InBand(config.truth[t])

\* No call computes more intervals than the failure probability delta was
\* divided among (_empirical_bernstein_radius_upper 1054), and each from as
\* many samples as its radius was computed for.
UnionBoundCounts ==
  /\ intervals <= Rounds * Checkpoints
  /\ pc = "certify" => drawn <= desired
=============================================================================
