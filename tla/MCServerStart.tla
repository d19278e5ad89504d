---------------------------- MODULE MCServerStart -----------------------------
(* Instances of ServerStart for TLC. *)
EXTENDS ServerStart

CONSTANTS u1, u2

MCUsers == {u1, u2}

(* No administrator, one, and two that differ; which of the two names has   *)
(* which row does not matter, because the settings begin with either.       *)
MCOldAdmins ==
  {[u \in MCUsers |-> IF u = u1 THEN p[1] ELSE p[2]] :
     p \in {<<"none", "none">>, <<"nohash", "none">>, <<"changeme", "none">>,
            <<"good", "none">>, <<"good", "changeme">>, <<"nohash", "changeme">>}}
===============================================================================
