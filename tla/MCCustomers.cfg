\* Two requests at a time on one service after the other.
SPECIFICATION Spec
CONSTANTS
  u1 = u1  a1 = a1  a2 = a2  c1 = c1  c2 = c2  t1 = t1  t2 = t2  t3 = t3  h1 = h1  h2 = h2
  e1 = e1  e2 = e2  s1 = s1  s2 = s2  f1 = f1  f2 = f2  f3 = f3  d1 = d1
  p1 = p1  p2 = p2  q1 = q1  q2 = q2
  Null = Null
  Handlers = {h1, h2}
  Users = {u1}
  AccountIds = {a1, a2}
  Tokens = {t1, t2, t3}
  MaxPasswords = 1
  Emails = {e1, e2}
  Subs = {s1, s2}
  Devices = {d1}
  Files = {f1, f2, f3}
  Customers = {c1}
  MaxAddresses = 3
  Shoppers = {c1, c2}
  Wares = {p1}
  Terms = {q1}
  MaxWishes = 2
  MaxSearches = 3
SYMMETRY Symmetry
INVARIANTS OneLivePerSession ResetsEndSessions ProfileServed DevicesServed OneDefault SearchesCounted
CHECK_DEADLOCK FALSE
