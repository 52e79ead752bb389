--------------------------------- MODULE MCPool ---------------------------------
(***************************************************************************)
(* The pool of an account, with the connections of its devices and the     *)
(* worker that puts parsed products.                                       *)
(***************************************************************************)
EXTENDS CollectionPool, TLC

OfAccount == [c \in Subs |-> PoolChannel]
AllUpdates == [kind : {"put", "claim_clear"}, id : Ids]

Perms == Permutations(Subs)
=============================================================================
