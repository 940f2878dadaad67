------------------------------ MODULE MCGeocoder ------------------------------
(* Geocoder for TLC: two points of one key, of which one has no place, and *)
(* a point of another key.                                                 *)
EXTENDS Geocoder

MCCallerOf == [l \in Lookup |-> IF l = 4 THEN "upload" ELSE "regeocode"]

MCPoint == {"center", "suburb", "ocean"}
MCKey == {"here", "there"}
MCPlace == {"town"}
MCCacheKey == [p \in MCPoint |-> IF p = "ocean" THEN "there" ELSE "here"]
MCPlaceOf == [p \in MCPoint |-> IF p = "center" THEN "town" ELSE "nowhere"]
===============================================================================
