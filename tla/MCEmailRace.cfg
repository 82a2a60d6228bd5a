SPECIFICATION EmailSpec
CONSTANTS
  p1 = p1
  p2 = p2
  p3 = p3
  p4 = p4
  g1 = g1
  v1 = v1
  e1 = e1
  e2 = e2
  k1 = k1
  s1 = s1
  s2 = s2
  Email = {e1, e2}
  Key = {k1}
  Secret = {s1, s2}
  Post <- Posts
  Get = {g1}
  Validate = {v1}
  EmailOf <- Emails
  KeyOf <- OneKey
  SecretOf <- Secrets
  NoSecret = NoSecret
  NoPost = NoPost
  Overlap = TRUE
  EmailFaults = {}
PROPERTIES
  KeepsRegistry
CHECK_DEADLOCK FALSE
