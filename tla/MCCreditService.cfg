CONSTANTS
  u1 = u1
  k1 = k1
  Users = {u1}
  Keys = {k1}
  BonusKey = k1
  GoSources = {"design"}
  PySources = {"translate"}
  Prices = {1}
  Reqs = {r1, r2, r3, r4}
  Asked <- AllAsked
SYMMETRY Perms
SPECIFICATION Spec
INVARIANTS TypeOK LedgerChain NetSpent RefundCovered RefundNeverRefused
           ChargedOnce HitAnswersOwnRow ReplayHonouredGo
PROPERTIES Implements OverdrawnBySettleOnly
CHECK_DEADLOCK FALSE
