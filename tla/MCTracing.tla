------------------------------ MODULE MCTracing ------------------------------
(* All codes of up to two opcodes, and two of three.                       *)
EXTENDS Tracing

MCCodes == UNION {[1 .. n -> {"ADD", "CALL", "STOP", "INVALID"}] : n \in 0 .. 2}
             \cup {<<"CALL", "CALL", "ADD">>, <<"ADD", "CALL", "INVALID">>}
==============================================================================
