SPECIFICATION Spec
CONSTANTS
  Subs = {s1, s2}
  Plans = {p1, p2}
  Free = free
  None = none
  Workers = {w1, w2}
  MaxEvents = 5
INVARIANTS AccessIsCharged ChargedHasAccess RefundedHasNoAccess QuotaFollowsPlan
CHECK_DEADLOCK FALSE
SYMMETRY Symmetry
CONSTRAINT OneSlip
