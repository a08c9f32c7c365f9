---------------------------- MODULE MCMemoryStore ----------------------------
(***************************************************************************)
(* Instances of MemoryStore for TLC.                                        *)
(***************************************************************************)
EXTENDS MemoryStore, TLC

CONSTANTS p1, p2, t1, t2, t3, v1, topic, final, s1, s2

Sessions == [n \in Nodes |-> IF n = 1 THEN s1 ELSE s2]

(* Two threads in one process and one in another. *)
TwoAndOne == [t \in {t1, t2, t3} |-> IF t = t3 THEN p2 ELSE p1]

(* At most two threads are active at once: two of p1, or one of each        *)
(* process; then for three calls only, in which p2 does not die.  A process *)
(* dies or a mutation is refused, not both.                                 *)
Pairs ==
    /\ errors' + crashes' <= 1
    /\ p2 \in open \cup open' =>
          /\ ops' <= 3 /\ p2 \in open'
          /\ \E t \in {t1, t2} : pc'[t] = "idle"
PairSpec == Init /\ [][Next /\ Pairs]_vars

Ask(tags, match, require, exclude, limit) ==
    [tags |-> tags, match |-> match, require |-> require, exclude |-> exclude,
     limit |-> limit]

(* The recall step of the workflow, of a third session, a recall that asks  *)
(* for all of its tags, and one that is cut.                                *)
RecallStep == {Ask(<<topic>>, "any", <<final>>, Missing, 3)}
Various    == RecallStep \cup
              {Ask(<<topic>>, "any", <<final, topic>>, s2, 3),
               Ask(<<topic, final>>, "any", <<>>, Missing, 1),
               Ask(<<topic, final>>, "all", <<>>, Missing, 3)}

Few == {{topic}, {topic, final}}

Symmetry == Permutations({t1, t2})

OneSnapshot == {[k \in Keys |-> IF k = ValueKey(1) THEN v1
                                ELSE IF k = TagKey(1) THEN {topic} ELSE Missing]}
=============================================================================
