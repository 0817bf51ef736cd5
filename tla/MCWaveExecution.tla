-------------------------- MODULE MCWaveExecution --------------------------
EXTENDS WaveExecution, TLC

CONSTANTS e1, e2

\* The second wave is of one environment.
MCCohort == 1 :> <<e1, e2>> @@ 2 :> <<e2>>
MCTouched == [w \in Waves |-> Topologies]
MCSymmetry == Permutations(Controllers)
=============================================================================
