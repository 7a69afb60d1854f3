------------------------- MODULE ReleaseAccounting -------------------------
(***************************************************************************)
(* What the release flusher promises to the registry and to Home.  Home    *)
(* learns the cumulative number of releases of a group, possibly in jumps  *)
(* but never backwards and never more than were announced, and a ticket is *)
(* completed only when Home knows at least the number the ticket stands    *)
(* for.                                                                    *)
(***************************************************************************)
EXTENDS Integers

CONSTANTS Groups,   \* release groups: a credential and a model
          MaxSeq    \* bound on the releases of a group

VARIABLES announced, \* the highest number announced for each group
          known,     \* the highest number Home has learned
          completed  \* the numbers whose tickets are completed

avars == <<announced, known, completed>>

AInit ==
    /\ announced = [g \in Groups |-> 0]
    /\ known = [g \in Groups |-> 0]
    /\ completed = [g \in Groups |-> {}]

(* Numbers may be announced late, after a higher one of the same group.    *)
Announce(g, n) ==
    /\ n > announced[g]
    /\ announced' = [announced EXCEPT ![g] = n]
    /\ UNCHANGED <<known, completed>>

Learn(g, n) ==
    /\ n > known[g]
    /\ n <= announced[g]
    /\ known' = [known EXCEPT ![g] = n]
    /\ UNCHANGED <<announced, completed>>

Complete(g, S) ==
    /\ \A n \in S : n <= known[g]
    /\ completed' = [completed EXCEPT ![g] = @ \cup S]
    /\ UNCHANGED <<announced, known>>

ANext ==
    \E g \in Groups :
        \/ \E n \in 1..MaxSeq : Announce(g, n) \/ Learn(g, n)
        \/ \E S \in SUBSET (1..MaxSeq) : Complete(g, S)

ASpec == AInit /\ [][ANext]_avars

=============================================================================
