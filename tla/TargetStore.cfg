SPECIFICATION Spec
CONSTANTS
  p1 = p1  p2 = p2  t1 = t1  t2 = t2  t3 = t3  v1 = v1  v2 = v2
  None = None
  Process = {p1}
  Target = {t1, t2, t3}
  Version = {v1, v2}
  Revision = {r1, r2}
  OtpOf <- MCOtpOf
  AbortIn <- OutsideOtp
INVARIANTS TypeOK ListedIsReady InstalledIsReady
PROPERTIES NeededIsKept
