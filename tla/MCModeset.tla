------------------------------ MODULE MCModeset ------------------------------
(* Instances of Modeset for TLC: connectors that share encoders and CRTCs.   *)
EXTENDS Modeset

CONSTANTS c1, c2, c3, e1, e2

MCOrder == <<c1, c2, c3>>
MCOrder2 == <<c1, c2>>

\* c3 can only use the encoder that c1 and c2 prefer.
MCEncodersOf == [c \in Connector |-> IF c = c3 THEN <<e1>> ELSE <<e1, e2>>]
MCPossibleCrtcs == [e \in Encoder |-> IF e = e1 THEN {1} ELSE {1, 2}]
=============================================================================
