---------------------------- MODULE SseContract ----------------------------
(***************************************************************************)
(* What one /ask/stream response promises its client and the chat history: *)
(*    sources, then tokens of the answer in order, then metrics, then done *)
(* with an error event before the metrics when the answer was cut short,   *)
(* the response possibly dropped at any moment, and nothing kept of an     *)
(* answer that was not delivered to its end.                               *)
(***************************************************************************)
EXTENDS Naturals, Sequences

CONSTANT Rows  \* number of rows of a kept exchange

VARIABLES
    length,    \* tokens in the whole answer
    complete,  \* whether the answer's source will end normally
    phase,     \* how far the response is
    told,      \* tokens handed to the client
    kept       \* rows kept so far

vars == <<length, complete, phase, told, kept>>
script == <<length, complete>>

Init ==
    /\ length \in Nat
    /\ complete \in BOOLEAN
    /\ phase = "new"
    /\ told = 0
    /\ kept = 0

Open ==
    /\ phase = "new"
    /\ phase' = "open"
    /\ UNCHANGED <<script, told, kept>>

Tell ==
    /\ phase = "open"
    /\ told' > told
    /\ told' <= length
    /\ UNCHANGED <<script, phase, kept>>

CutShort ==
    /\ phase = "open"
    /\ phase' = "failed"
    /\ UNCHANGED <<script, told, kept>>

\* The metrics event, after the whole answer or after an error event.
Measure ==
    /\ \/ phase = "open" /\ complete /\ told = length /\ phase' = "whole"
       \/ phase = "failed" /\ phase' = "partial"
    /\ UNCHANGED <<script, told, kept>>

Keep ==
    /\ phase = "whole"
    /\ kept' = kept + 1
    /\ kept' <= Rows
    /\ UNCHANGED <<script, phase, told>>

\* The response is over, with a last row possibly still being written.
Finish(last) ==
    /\ phase' = last
    /\ \/ UNCHANGED kept
       \/ phase = "whole" /\ kept' = kept + 1 /\ kept' <= Rows
    /\ UNCHANGED <<script, told>>

Done == phase \in {"whole", "partial"} /\ Finish("done")

Drop == phase # "dropped" /\ Finish("dropped")

Next == Open \/ Tell \/ CutShort \/ Measure \/ Keep \/ Done \/ Drop

Spec == Init /\ [][Next]_vars
=============================================================================
