------------------------------- MODULE MCDevices -------------------------------
(***************************************************************************)
(* What the backend keeps for each device of a user: its refresh token     *)
(* (Session), and the queue of envelopes for a device that connects twice  *)
(* (SyncBus).  They share no state and are checked one at a time: part is  *)
(* chosen once, and only that part moves.                                  *)
(***************************************************************************)
EXTENDS MCLogin, SyncBus

VARIABLE part

OneDevice == [c \in Subs |-> "d1"]
ForIt == [e \in Msgs |-> "d1"]
OwnIds == [e \in Msgs |-> e]

\* A login at rest is in one of its initial states.
DevicesInit ==
    /\ part \in {"login", "queue"}
    /\ SessionInit /\ (part # "login" => app = CHOOSE a \in Apps : TRUE)
    /\ Init

DevicesNext ==
    /\ UNCHANGED part
    /\ \/ part = "login" /\ SessionNext /\ UNCHANGED vars
       \/ part = "queue" /\ Next /\ UNCHANGED sessionVars

DevicesSpec == DevicesInit /\ [][DevicesNext]_<<part, sessionVars, vars>>

Perms == Permutations(Subs) \cup Permutations(Msgs)
=============================================================================
