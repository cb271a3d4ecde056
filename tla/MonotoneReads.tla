---------------------------- MODULE MonotoneReads ----------------------------
(***************************************************************************)
(* What a cache of slowly changing data promises its readers: an answer is *)
(* a version of the data that existed, and the answers for one key never   *)
(* go back in time.  How fresh they are is left open.                      *)
(***************************************************************************)
EXTENDS Integers

CONSTANTS Keys, MaxVersion

VARIABLES version,  \* the data behind each key, as the number of its changes
          seen      \* the version last returned for each key

Init == /\ version = [k \in Keys |-> 0]
        /\ seen = [k \in Keys |-> 0]

Change(k) == /\ version[k] < MaxVersion
             /\ version' = [version EXCEPT ![k] = @ + 1]
             /\ UNCHANGED seen

Answer(k) == /\ \E v \in seen[k]..version[k] : seen' = [seen EXCEPT ![k] = v]
             /\ UNCHANGED version

Next == \E k \in Keys : Change(k) \/ Answer(k)

Spec == Init /\ [][Next]_<<version, seen>>
=============================================================================
