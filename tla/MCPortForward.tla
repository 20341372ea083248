--------------------------- MODULE MCPortForward ---------------------------
(* Small instances of PortForward: one connection, or one in depth and     *)
(* another that fails.                                                     *)
EXTENDS PortForward, TLC

CONSTANTS c, d

OneConn   == {c}
TwoConns  == {c, d}
OneEach   == [x \in {c, d} |-> 1]
OneChunk  == [x \in {c} |-> 1]
UserSends == c :> 2 @@ d :> 0
LocalSent == c :> 1 @@ d :> 0
=============================================================================
