-------------------------- MODULE MCObservedEvents --------------------------
(* The keys of each run are in its .cfg file.                               *)
EXTENDS ContextExtraction, TLC

CONSTANTS x, y

MCValues == {[values |-> v, raw_payload |-> v] : v \in {x, y}}

Symmetric == Permutations(Writers) \cup Permutations({x, y})

\* Annotations and the other tables share neither rows nor locks: a behaviour with both
\* shows nothing that one with either does not.
Annotating == produced # {} \/ DOMAIN table \cap Articles # {}

ObserveNext ==
    /\ ~Annotating
    /\ \E w \in Writers, b \in Batches(clock) : KeysOf(b) \cap Articles = {} /\ Observe(w, b)
    /\ UNCHANGED <<results, produced>>

AnnotateNext ==
    /\ DOMAIN table \subseteq Articles
    /\ \A w \in Writers : KeysOf(batch[w]) \cup DOMAIN own[w] \subseteq Articles
    /\ \E w \in Writers : Extract(w)

MCNext == Transaction \/ ObserveNext \/ AnnotateNext

MCSpec == ExtractionInit /\ [][MCNext]_annotationVars
=============================================================================
