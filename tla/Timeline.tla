------------------------------ MODULE Timeline ------------------------------
(***************************************************************************)
(* What a point-in-time store promises, whatever its implementation: the   *)
(* facts about an event form a history that is only ever extended, and     *)
(* only at instants that are still open.  Once an instant is settled, the  *)
(* answer to a query as of that instant never changes again.               *)
(*                                                                         *)
(* RevisionStore implements this specification (its Refinement property),  *)
(* and so do the ticks of ObservedEvents (TicksAreFinal) and the bars that *)
(* ScannerPipeline reads.                                                  *)
(***************************************************************************)
EXTENDS Naturals

CONSTANTS
    Events,     \* logical events: one bar, one article, one filing
    Values,     \* what a revision says about its event
    Times       \* the instants a query may ask about

VARIABLES
    facts,      \* the published revisions: [ev, val, at]
    settled     \* the instants whose history is complete

tvars == <<facts, settled>>

Fact == [ev : Events, val : Values, at : Times]

\* An event has at most one revision per instant.
Functional(fs) == \A f, g \in fs : f.ev = g.ev /\ f.at = g.at => f = g

TimelineTypeOK == facts \subseteq Fact /\ settled \subseteq Times /\ Functional(facts)

\* The revisions a query as of t answers with: the last one of every event.
Answer(fs, t) ==
    {f \in fs : f.at <= t /\ \A g \in fs : g.ev = f.ev /\ g.at <= t => g.at <= f.at}

TInit == facts = {} /\ settled = {}

\* Publish revisions that lie after every settled instant, and settle more.
TNext ==
    /\ facts' \subseteq Fact
    /\ facts \subseteq facts'
    /\ Functional(facts')
    /\ \A f \in facts' \ facts : \A t \in settled : t < f.at
    /\ settled' \subseteq Times
    /\ settled \subseteq settled'

TSpec == TInit /\ [][TNext]_tvars

(***************************************************************************)
(* The promise to a reader: an answer as of a settled instant is final.    *)
(***************************************************************************)
SettledAnswersFinal == [][\A t \in settled : Answer(facts', t) = Answer(facts, t)]_tvars
=============================================================================
