-------------------------- MODULE ContextExtraction --------------------------
(***************************************************************************)
(* AI context annotations: an extractor turns an article into an           *)
(* AIContextResult - what the LLM answered, or, when the call fails, the   *)
(* explicit unknown - and persist_annotations writes the results in hand   *)
(* over an observed-event table, one row per article and model version.    *)
(***************************************************************************)
EXTENDS ObservedEvents

CONSTANTS
    Articles,   \* natural keys: an article with the model and version that reads it
    Outputs,    \* what the LLM can answer
    MaxResults  \* bound on the extractions

ASSUME ExtractionAssumption == Articles \subseteq Snapshots /\ MaxResults \in Nat

VARIABLES
    results,    \* results[w]: the AIContextResults in w's hands
    produced    \* every result an extractor ever returned

annotationVars == <<vars, results, produced>>

\* The columns of an annotation; "defaults" are the UNKNOWN variants of AIContextResult.
OkResult(output) == [status |-> "ok", output |-> output, parse_error |-> "none"]
UnknownResult == [status |-> "unknown", output |-> "defaults", parse_error |-> "error"]

Result == [key : Articles, val : {UnknownResult} \cup {OkResult(o) : o \in Outputs}, ing : Times]

AnnotationTypeOK ==
    /\ TypeOK
    /\ produced \subseteq Result
    /\ \A k \in Articles \cap DOMAIN table : table[k].val \in {x.val : x \in Result}
    /\ \A w \in Writers : results[w] \in Seq(Result)

-----------------------------------------------------------------------------
ExtractionInit ==
    /\ Init
    /\ results = [w \in Writers |-> <<>>]
    /\ produced = {}

Extracted(w, k, val) ==
    /\ phase[w] # "write"
    /\ Len(results[w]) < MaxBatch
    /\ Cardinality(produced) < MaxResults
    /\ LET result == [key |-> k, val |-> val, ing |-> clock]
       IN  /\ results' = [results EXCEPT ![w] = Append(@, result)]
           /\ produced' = produced \cup {result}
    /\ UNCHANGED vars

ExtractOk(w, k, output) == Extracted(w, k, OkResult(output))

\* Any Exception of the call becomes a result.
ExtractFails(w, k) == Extracted(w, k, UnknownResult)

\* ok_result is called outside the try: a response without parsed_output raises into the
\* caller, and the results it has in hand go with its transaction.
ExtractRaises(w) ==
    /\ phase[w] # "write"
    /\ results[w] # <<>>
    /\ results' = [results EXCEPT ![w] = <<>>]
    /\ Close(w)
    /\ UNCHANGED <<table, produced>>

\* persist_annotations: available_at is the caller's as_of, ingested_at generated_at.
PersistAnnotations(w) ==
    /\ phase[w] = "open"
    /\ results[w] # <<>>
    /\ phase' = [phase EXCEPT ![w] = "write"]
    /\ stamp' = [stamp EXCEPT ![w] = clock]
    /\ batch' = [batch EXCEPT ![w] = results[w]]
    /\ results' = [results EXCEPT ![w] = <<>>]
    /\ UNCHANGED <<clock, table, own, produced>>

Extract(w) ==
    \/ \E k \in Articles : ExtractFails(w, k) \/ \E o \in Outputs : ExtractOk(w, k, o)
    \/ ExtractRaises(w)
    \/ PersistAnnotations(w)

Transaction ==
    /\ Tick \/ \E w \in Writers : Begin(w) \/ Upsert(w) \/ Commit(w) \/ Rollback(w)
    /\ UNCHANGED <<results, produced>>

ExtractionNext == (\E w \in Writers : Extract(w)) \/ Transaction

ExtractionSpec == ExtractionInit /\ [][ExtractionNext]_annotationVars

-----------------------------------------------------------------------------
\* load_annotations_as_of: the results that the rows stand for.
LoadAsOf(asOf) ==
    {[key |-> k, val |-> table[k].val, ing |-> table[k].ing] :
        k \in Articles \cap SelectAsOf(table, asOf)}

(***************************************************************************)
(* What a reader loads is one result that an extractor returned, whole: an *)
(* annotation overwritten by a later run, failed or not, never keeps the   *)
(* status, the values, the error or the time of the run before.            *)
(***************************************************************************)
AnnotationsAreWhole == \A t \in Times : LoadAsOf(t) \subseteq produced

(***************************************************************************)
(* app/ai_context/persistence.py:39-41: a point-in-time read can never see *)
(* an annotation before it was actually produced.  ingested_at is when the *)
(* values were generated, available_at from when they are returned.        *)
(***************************************************************************)
NeverSeenBeforeProduced ==
    \A k \in Articles \cap DOMAIN table : table[k].ing <= table[k].avail

(***************************************************************************)
(* No document promises this: a failed extraction leaves in place what an  *)
(* earlier one of the same article by the same model version found.        *)
(***************************************************************************)
FindingsAreKept ==
    [][\A k \in Articles \cap DOMAIN table :
          table[k].val.status = "ok" => table'[k].val.status = "ok"]_annotationVars
=============================================================================
