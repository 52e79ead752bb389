------------------------------- MODULE MCClients -------------------------------
(***************************************************************************)
(* What clients show and what the backend stores of it: the pages of       *)
(* MCPages, and the devices of the extension with the pool of MCPool.  As  *)
(* in MCPages one part is chosen, and only that part moves.                *)
(***************************************************************************)
EXTENDS MCPages, MCPool

ClientsInit ==
    /\ Init
    /\ PagesInit \/ (part = "pool" /\ PagesRest)

ClientsNext ==
    \/ PagesNext /\ UNCHANGED vars
    \/ Moves("pool") /\ Next /\ UNCHANGED pagesVars

ClientsSpec == ClientsInit /\ [][ClientsNext]_<<part, pagesVars, vars>>
=============================================================================
