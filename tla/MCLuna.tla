------------------------------- MODULE MCLuna -------------------------------
(* Luna for TLC. *)
EXTENDS Luna, TLC

(* The workers are interchangeable. *)
LunaSymmetry == Permutations(Worker)

(* With a total limit one worker; without, any number of them. *)
MCLunaInit ==
    /\ LunaInit
    /\ \A t \in Token : lredis[t].limit =>
          Cardinality({w \in Worker : lwork[w].step # "absent"}) = 1

(* With a total limit, and thus with one worker, nothing is followed beyond a third request. *)
LunaBound == \A t \in Token : lredis[t].limit => lhist[t].admitted <= 2

MCLunaSpec == MCLunaInit /\ [][LunaNext]_lunaVars
=============================================================================
