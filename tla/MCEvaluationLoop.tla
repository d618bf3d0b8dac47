--------------------------- MODULE MCEvaluationLoop ---------------------------
(* EvaluationLoop with three candidates.  The metrics hit every sort order,  *)
(* a tie in WER and an improvement equal to the threshold.                   *)
EXTENDS EvaluationLoop

CONSTANTS a, b, c, unknown

MCCandidates == <<a, b, c>>

MCMetrics == {[wer |-> 0, rtf |-> 5], [wer |-> 0, rtf |-> 60],
              [wer |-> 5, rtf |-> 30], [wer |-> 25, rtf |-> 5]}
==============================================================================
