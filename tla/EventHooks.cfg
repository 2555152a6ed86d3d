SPECIFICATION Spec
CONSTANTS
  Service = {s1, s2}
  Nobody = Nobody
  Event = {e1}
  Thread = {t1, t2, t3}
  MaxListed = 2
SYMMETRY Symmetric
INVARIANTS TypeOK EventsAreListed HooksAreListed FiringReachesAll
