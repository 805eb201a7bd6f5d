----------------------------- MODULE MCBarIngest -----------------------------
(* Two sessions, two instruments with one bar each.                         *)
EXTENDS DataQuality, TLC

CONSTANTS w1, w2, b1, b2, v1, v2, i1, i2

MCWriters == {w1, w2}
MCEvents == {b1, b2}
MCValues == {v1, v2}
MCInstruments == {i1, i2}
MCInstrumentOf == b1 :> i1 @@ b2 :> i2

\* The instruments are alike: one report on one of them.
MCInit == QualityInit /\ report.inst = i1

MCSpec == MCInit /\ [][QualityNext]_qualityVars

Symmetric == Permutations(MCWriters) \cup Permutations(MCValues)
=============================================================================
