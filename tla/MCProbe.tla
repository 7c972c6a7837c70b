------------------------------ MODULE MCProbe ------------------------------
(***************************************************************************)
(* A small instance of Probe.                                              *)
(***************************************************************************)
EXTENDS Probe

CONSTANTS s1, s2

\* s1 reports two frames, with one between them that is not reported; s2 reports
\* one, and then breaks the parser with bytes still to come.
TwoStreams == [s \in Streams |-> IF s = s1 THEN <<"part", "alert", "short", "alert">>
                                           ELSE <<"alert", "badend", "alert">>]
=============================================================================
