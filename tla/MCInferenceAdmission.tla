------------------------ MODULE MCInferenceAdmission ------------------------
(***************************************************************************)
(* The two gates share no state: a behaviour is one of the inference gate  *)
(* or one of the parser's gate, and each is explored completely.           *)
(***************************************************************************)
EXTENDS InferenceAdmission, ParserSupervision

VARIABLE parsing

ASSUME ParserAssumption

MCInit == parsing \in BOOLEAN /\ Init /\ ParserInit

MCNext ==
    \/ ~parsing /\ Next /\ UNCHANGED <<parsing, parserVars>>
    \/ parsing /\ ParserNext /\ UNCHANGED <<parsing, vars>>

\* In the behaviours of one gate nothing of the other is enabled that a
\* fairness condition names.
MCSpec == MCInit /\ [][MCNext]_<<parsing, vars, parserVars>> /\ Fairness /\ ParserFairness
============================================================================
