---------------------------- MODULE RunIdentity ----------------------------
(***************************************************************************)
(* What run directories promise to the launchers that share one: the       *)
(* directory gets one identity, once, and whoever works in it works under  *)
(* that one.                                                               *)
(***************************************************************************)
CONSTANTS Launchers, Identities, None

VARIABLES
  identity,  \* of the directory
  known      \* the identity each launcher works under

IdentityInit ==
  /\ identity \in Identities \cup {None}
  /\ known = [p \in Launchers |-> None]

Publish(p, id) ==
  /\ identity = None
  /\ identity' = id
  /\ known' = [known EXCEPT ![p] = id]

Learn(p) ==
  /\ identity # None
  /\ known' = [known EXCEPT ![p] = identity]
  /\ UNCHANGED identity

Leave(p) ==
  /\ known' = [known EXCEPT ![p] = None]
  /\ UNCHANGED identity

IdentityNext ==
  \E p \in Launchers : Learn(p) \/ Leave(p) \/ \E id \in Identities : Publish(p, id)

IdentitySpec == IdentityInit /\ [][IdentityNext]_<<identity, known>>
=============================================================================
