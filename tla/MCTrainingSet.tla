---------------------------- MODULE MCTrainingSet ----------------------------
(* Two instruments with six days of bars, b without one on day 5.           *)
EXTENDS TrainingSet

Day(i, d, c) == [inst |-> i, ev |-> d, shape |-> [close |-> c, volume |-> 1], avail |-> d]

MCInstruments == {"a", "b"}
MCShapes == {[close |-> 3, volume |-> 1], [close |-> 0, volume |-> 0]}
MCHistory ==
    {Day("a", d, IF d = 6 THEN 3 ELSE 2) : d \in 1..6}
        \cup {Day("b", d, 2) : d \in {1, 2, 3, 4, 6}}
MCDates == {<<4, 5>>, <<4>>}
MCLookbacks == {1, 3}
MCFractions == {<<1, 4>>, <<3, 4>>}
=============================================================================
