-------------------------- MODULE MCRouteSelection --------------------------
(* A small instance of RouteSelection: snapshots are posted with the       *)
(* defaults, with no answered call, with the figures of an unknown chain,  *)
(* and with a higher fee.                                                  *)
EXTENDS RouteSelection

Body(fee, seconds, errors) == [fee |-> fee, seconds |-> seconds, errors |-> errors]
Defaults == Body(Nothing, Nothing, Nothing)

PostedBodies == {Defaults,
                 Body(Nothing, Nothing, 100),
                 Body(Unknown, Unknown, 100),
                 Body(1030, 960, 100)}
=============================================================================
