--------------------------- MODULE MCCreditService ---------------------------
(* One wallet that a Go service and a Python service draw on. *)
EXTENDS CreditService, TLC

CONSTANTS u1, k1

Ask(op, s, q, a) ==
    [op |-> op, user |-> u1, source |-> s, key |-> k1, qty |-> q, amount |-> a]

\* Calls of one or two images (credits-api.md: n) that yield one or two, of a
\* Go service; calls of a Python service; refunds of both, in Go of
\* a stated amount that may be too much; grants and reads.
AllAsked == {
    Ask("grant", "admin_grant", 0, 2), Ask("balance", "admin_grant", 0, 0),
    Ask("preconsume", "design", 1, 0), Ask("preconsume", "design", 2, 0),
    Ask("preconsume", "translate", 1, 0),
    Ask("settle", "design", 0, 0), Ask("settle", "design", 2, 0),
    Ask("refund", "design", 0, 2), Ask("refund", "translate", 0, 0)}

\* Calls and replays on a wallet that is just large enough.
ReplayAsked == {
    Ask("grant", "admin_grant", 0, 1),
    Ask("preconsume", "design", 1, 0), Ask("preconsume", "translate", 1, 0)}

Perms == Permutations(Reqs)
=============================================================================
