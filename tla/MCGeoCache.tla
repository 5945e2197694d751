------------------------------ MODULE MCGeoCache ------------------------------
(* Instances of GeoCache for TLC: three places in a row, of which the middle   *)
(* one is near both others and these are not near each other.                 *)
EXTENDS GeoCache

Row == {[latitude |-> n, longitude |-> -n] : n \in 0..2}
=============================================================================
