-------------------------- MODULE ActiveGeneration --------------------------
(***************************************************************************)
(* What the generation store promises its readers, and nothing of how it   *)
(* does it (services/bi-control/src/generation-store.mjs, header comment): *)
(* there is one commit point, a generation is published before it is       *)
(* committed, and the committed generation is never reclaimed.             *)
(***************************************************************************)
CONSTANTS Generations, None

VARIABLES usable,   \* the complete, verifiable generations a reader may open
          active    \* the committed one, None before the first commit

avars == <<usable, active>>

AInit == usable = {} /\ active = None

\* A complete generation becomes openable; readers do not see it yet.
Publish(g) == /\ g \notin usable
              /\ usable' = usable \union {g}
              /\ UNCHANGED active

\* The single commit point.
Commit(g) == /\ g \in usable
             /\ active' = g
             /\ UNCHANGED usable

\* Storage is given back, never the committed generation's.
Reclaim(g) == /\ g # active
              /\ usable' = usable \ {g}
              /\ UNCHANGED active

ANext == \E g \in Generations : Publish(g) \/ Commit(g) \/ Reclaim(g)

ASpec == AInit /\ [][ANext]_avars

\* What a reader relies on: the committed generation can always be opened.
ActiveIsUsable == active = None \/ active \in usable
=============================================================================
