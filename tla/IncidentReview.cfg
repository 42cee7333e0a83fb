\* Two requests at once, one user, one comment.
SPECIFICATION Spec
CONSTANTS
  r1 = r1
  r2 = r2
  u1 = u1
  c1 = c1
  Requests = {r1, r2}
  Users = {u1}
  Comments = {c1}
  Null = Null
  MaxChanges = 4
INVARIANTS
  ReviewedHasComment
