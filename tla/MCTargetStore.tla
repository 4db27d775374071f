---------------------------- MODULE MCTargetStore ----------------------------
(* Three targets, two of them of the same OTP version.                     *)
EXTENDS TargetStore

CONSTANTS p1, p2, t1, t2, t3, v1, v2

Targets == {t1, t2, t3}
MCOtpOf == [t \in Target |-> IF t = t3 THEN v2 ELSE v1]

\* No command ends while it is unpacking or deleting an OTP.
OutsideOtp == Phase \ {"idle", "unpackOtp", "collect"}
Anywhere == Phase \ {"idle"}
InRemove == {"remove"}
Nowhere == {}
=============================================================================
