------------------------------ MODULE Detectors ------------------------------
(***************************************************************************)
(* The anomaly detectors as AnomalyAggregator.run drives them, for one     *)
(* metric: the z-score of zscore_detector.py over a rolling window, the    *)
(* second derivative of smart_acceleration.py, the two rates of            *)
(* ecc_rate_model.py.  No detector looks at another metric but the         *)
(* isolation forest, which is scikit-learn's.                              *)
(*                                                                         *)
(* The comparisons are those of the code, multiplied out to integers.      *)
(***************************************************************************)
EXTENDS Integers, Sequences, FiniteSets, SequencesExt

CONSTANTS
    Metric,         \* the metrics looked at
    Threshold2,     \* threshold * threshold, 9
    MinWindow,      \* min_window, 10
    MaxWindow,      \* the deque's maxlen, 100
    MinHistory,     \* readings compute() asks for, 10
    Split,          \* readings the halves are compared after, 20
    SmartKeep,      \* readings kept by SmartAccelerationDetector, 4320
    EccKeep,        \* readings kept by EccRateDetector, 1440
    PerHour         \* units of time in an hour

Smart == {"reallocated_sector_ct"}
Ecc   == {"ce_count"}
Proc  == {"load_1min"}

ASSUME DetectorsAssumption ==
    /\ Metric \subseteq Smart \cup Ecc \cup Proc
    /\ Threshold2 \in Nat /\ PerHour \in Nat \ {0}
    /\ MinWindow \in Nat /\ MaxWindow \in Nat \ {0}
    /\ MinHistory \in Nat /\ MinHistory > 2 /\ Split >= MinHistory
    /\ SmartKeep \in Nat /\ SmartKeep >= MinHistory /\ EccKeep \in Nat /\ EccKeep > Split

AnomalyType == {"zscore_spike", "smart_acceleration", "ecc_rate_acceleration"}

VARIABLES
    metric,
    window,     \* ZScoreDetector.windows of the metric
    history,    \* the history of its own detector: [gap, value, failing], where
                \* gap is the time since the last reading, and failing says
                \* that the reading is of a failing device
    flags       \* anomaly_type of what the last cycle flagged

detectors == <<metric, window, history, flags>>

DetectorsInit ==
    /\ metric \in Metric
    /\ window = <<>> /\ history = <<>> /\ flags = {}

\* VARIANT of LastOf: one more is kept.
LastOfOneMore(s, n) == IF Len(s) > n + 1 THEN SubSeq(s, Len(s) - n, Len(s)) ELSE s

LastOf(s, n) == IF Len(s) > n THEN SubSeq(s, Len(s) - n + 1, Len(s)) ELSE s

-----------------------------------------------------------------------------
(* ZScoreDetector: |x - mean| / std > threshold, with the deviation of the  *)
(* whole window.                                                           *)

Total(s) ==
    LET total[n \in 0 .. Len(s)] == IF n = 0 THEN 0 ELSE total[n - 1] + s[n]
    IN total[Len(s)]

Squares(s) == Total([i \in DOMAIN s |-> s[i] * s[i]])
Spread(s)  == Len(s) * Squares(s) - Total(s) * Total(s)
Off(x, s)  == Len(s) * x - Total(s)

\* On the threshold itself it is the rounding of the division that decides.
Exceeds(x, s) ==
    LET margin == Off(x, s) * Off(x, s) - Threshold2 * Spread(s)
    IN IF Spread(s) = 0 THEN {FALSE}
       ELSE {b \in BOOLEAN : (margin > 0 => b) /\ (b => margin >= 0)}

\* VARIANT of Spike: the reading is compared with those before it.
SpikeAmongOthers(x, w) == IF Len(w) < MinWindow THEN {FALSE} ELSE Exceeds(x, Front(w))

\* What may be found of the reading x, at the end of its window w.
Spike(x, w) == IF Len(w) < MinWindow THEN {FALSE} ELSE Exceeds(x, w)

-----------------------------------------------------------------------------
(* SmartAccelerationDetector: np.gradient twice, at the last reading, which *)
(* depends on the last three.                                              *)

SmartAccelerating(h) ==
    /\ Len(h) >= MinHistory
    /\ LET n   == Len(h)
           was == h[n - 1].value - h[n - 2].value
           is  == h[n].value - h[n - 1].value
           d1  == h[n - 1].gap
           d2  == h[n].gap
       IN /\ 100 * PerHour * PerHour * (d1 * is - d2 * was) > d1 * d2 * (d1 + d2)
          /\ h[n].value > 0

-----------------------------------------------------------------------------
(* EccRateDetector: the rate of the second half is more than one and a half *)
(* times that of the first, if that had any.                               *)

Elapsed(h, from, to) == Total([i \in 1 .. to - from |-> h[from + i].gap])

\* At least a hundredth of an hour; the unit is a hundredth of a unit.
Duration(t) == IF 100 * t > PerHour THEN 100 * t ELSE PerHour

EccAccelerating(h) ==
    /\ Len(h) > Split
    /\ LET n      == Len(h)
           mid    == n \div 2 + 1
           first  == h[mid].value - h[1].value
           second == h[n].value - h[mid].value
       IN /\ first > 0
          /\ 2 * second * Duration(Elapsed(h, 1, mid)) > 3 * first * Duration(Elapsed(h, mid, n))

-----------------------------------------------------------------------------
(* AnomalyAggregator.run: every detector is updated before any is asked.   *)

Keep == IF metric \in Smart THEN SmartKeep ELSE EccKeep

Run(gap, value, failing) ==
    /\ window' = LastOf(Append(window, value), MaxWindow)
    /\ history' = IF metric \in Proc THEN history
                  ELSE LastOf(Append(history, [gap |-> gap, value |-> value, failing |-> failing]),
                              Keep)
    /\ \E spike \in Spike(value, window') :
        flags' = {f \in AnomalyType :
                CASE f = "zscore_spike"          -> spike
                  [] f = "smart_acceleration"    -> metric \in Smart /\ SmartAccelerating(history')
                  [] f = "ecc_rate_acceleration" -> metric \in Ecc /\ EccAccelerating(history')}
    /\ UNCHANGED metric

\* reset_hw_history of the demo driver, which leaves the windows alone.
ClearHistory == history' = <<>> /\ UNCHANGED <<metric, window, flags>>
=============================================================================
