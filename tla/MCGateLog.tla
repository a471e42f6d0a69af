----------------------------- MODULE MCGateLog -----------------------------
(***************************************************************************)
(* Two threads of one client beside another client of the same process and *)
(* one of another process.                                                 *)
(***************************************************************************)
EXTENDS GateLog

CONSTANTS t1, t2, t3, t4, c1, c2, c3, p1, p2

ThreeClients == [t \in {t1, t2, t3, t4} |->
                   IF t = t3 THEN c2 ELSE IF t = t4 THEN c3 ELSE c1]
Hosts == [c \in {c1, c2, c3} |-> IF c = c3 THEN p2 ELSE p1]

=============================================================================
