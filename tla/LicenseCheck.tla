---------------------------- MODULE LicenseCheck ----------------------------
(***************************************************************************)
(* The verification pipeline every token goes through before the SDK uses  *)
(* it: jwt.py and verify.py (the chain Master -> Submaster -> Project ->   *)
(* Daily -> activation token), validate.py (the offline window) and the    *)
(* composition of both in license.py.                                      *)
(*                                                                         *)
(* An entry is what the cache file holds: a token and its three certs.     *)
(* Every JWT is a record of the claims the code reads.  A signature is     *)
(* reduced to the key that made it, so it verifies under that key and no   *)
(* other.  A missing claim is Absent.  A check that raises returns the     *)
(* name of the error, without its "Error" suffix; one that returns         *)
(* normally returns "Ok".                                                  *)
(***************************************************************************)
EXTENDS Entitlements, Sequences

CONSTANTS
  MasterKeys,    \* the sequence of root keys, in the order they are tried
  Issuer,        \* "licenselatte"
  MaxGrace,      \* _MAX_GRACE_PERIOD_SECS, 90 days
  MaxAge,        \* _MAX_AGE_SECS, 365 days
  RenewAfter,    \* _MAX_RENEWAL_TIME_SECS, one hour
  NeverExpires   \* _NEVER_EXPIRES, 2099-01-01

ASSUME LicenseCheckAssumption ==
  /\ Absent \notin Int
  /\ MasterKeys \in Seq(STRING) /\ MasterKeys # << >>
  /\ MaxGrace \in Nat /\ MaxAge \in Nat /\ MaxGrace < MaxAge
  /\ RenewAfter \in Nat \ {0}
  /\ NeverExpires \in Nat \ {0}

-----------------------------------------------------------------------------
(* jwt.py *)

\* The claim is a number and it satisfies the comparison at hand.
Later(claim, now)   == claim # Absent /\ claim > now
Earlier(claim, now) == claim # Absent /\ claim < now

\* Mutant: exp is always looked at.
CheckTimeClaimsAlways(jwt, now, checkExp) ==
  IF Later(jwt.iat, now) \/ Later(jwt.nbf, now) THEN "NotYetValid"
  ELSE IF Earlier(jwt.exp, now)                 THEN "Expired"
  ELSE "Ok"

\* Zero leeway.  iat and nbf are always looked at, exp only on request.
CheckTimeClaims(jwt, now, checkExp) ==
  IF Later(jwt.iat, now) \/ Later(jwt.nbf, now) THEN "NotYetValid"
  ELSE IF checkExp /\ Earlier(jwt.exp, now)     THEN "Expired"
  ELSE "Ok"

\* timed is FALSE for the call that passes leeway_secs=None.  A header that is JSON
\* but not an object has no get: "AttributeError" is no error of this package.
ParseAndVerify(jwt, key, now, timed, checkExp) ==
  IF jwt.form = "headless"       THEN "AttributeError"
  ELSE IF jwt.form # "good"      THEN "MalformedToken"
  ELSE IF jwt.signedBy # key   THEN "InvalidSignature"
  ELSE IF jwt.iss # Issuer     THEN "WrongIssuer"
  ELSE IF timed                THEN CheckTimeClaims(jwt, now, checkExp)
  ELSE "Ok"

-----------------------------------------------------------------------------
(* verify.py *)

\* Mutant: only the first root key is tried.
VerifySubmasterFirst(cert, now, checkExp) ==
  ParseAndVerify(cert, MasterKeys[1], now, TRUE, checkExp)

\* The root keys are tried in order.  When none verifies the cert, the error
\* raised is the one the FIRST key gave.  (The AttributeError of a header that is no
\* object ends the search; it comes before the key is used, so each key gives it.)
VerifySubmaster(cert, now, checkExp) ==
  LET Under(key) == ParseAndVerify(cert, key, now, TRUE, checkExp)
  IN  IF \E i \in DOMAIN MasterKeys : Under(MasterKeys[i]) = "Ok"
      THEN "Ok"
      ELSE Under(MasterKeys[1])

\* The public key a cert carries under spk, ppk or dpk: Absent when the claim
\* is missing, "bad" when it is not 32 bytes of hex.
PubKeyError(cert) ==
  IF cert.carries = Absent     THEN "MissingClaim"
  ELSE IF cert.carries = "bad" THEN "InvalidClaim"
  ELSE "Ok"

NumClaim(claim) == IF claim = Absent THEN 0 ELSE claim

AtLeastZero(n) == IF n < 0 THEN 0 ELSE n

\* The two token formats, told apart by grc alone.
GraceOf(token) ==
  AtLeastZero(IF token.grc # Absent
              THEN token.grc
              ELSE NumClaim(token.exp) - NumClaim(token.iat))

EndOf(token) ==
  IF token.grc # Absent      THEN NumClaim(token.exp)
  ELSE IF token.lex # Absent THEN token.lex
  ELSE NeverExpires

\* What the activation token says, as a License.
LicenseOf(token) ==
  [ activation_id     |-> token.aid,
    key               |-> token.sub,
    alias             |-> token.alias,
    project_id        |-> token.pid,
    machine_id        |-> token.mid,
    issued_at         |-> NumClaim(token.iat),
    expires_at        |-> EndOf(token),
    grace_period_secs |-> GraceOf(token),
    entitlements      |-> DecodeEntitlements(token.ent) ]

\* Mutant: no ceiling on the grace period.
CrossCheckNoCeiling(e) ==
  LET iat == NumClaim(e.token.iat)
  IN  IF e.project.pid \notin {Absent, "", e.token.pid} THEN "ChainInconsistent"
      ELSE IF Absent \in {e.daily.iat, e.daily.exp}     THEN "MissingClaim"
      ELSE IF iat < e.daily.iat \/ iat > e.daily.exp    THEN "ChainInconsistent"
      ELSE "Ok"

\* The checks that relate two links of the chain, in the order of the code.  An
\* empty pid in the project cert is no pid.
CrossCheck(e) ==
  LET iat == NumClaim(e.token.iat)
  IN  IF e.project.pid \notin {Absent, "", e.token.pid} THEN "ChainInconsistent"
      ELSE IF Absent \in {e.daily.iat, e.daily.exp}     THEN "MissingClaim"
      ELSE IF iat < e.daily.iat \/ iat > e.daily.exp    THEN "ChainInconsistent"
      ELSE IF GraceOf(e.token) > MaxGrace               THEN "ChainInconsistent"
      ELSE "Ok"

\* Every link in order, the first error wins.  The daily cert's exp is never
\* compared with now, and no time claim of the token is.
VerifyActivationAt(e, now, ignoreExpiry) ==
  LET checkExp == ~ignoreExpiry
      sub   == VerifySubmaster(e.submaster, now, checkExp)
      proj  == ParseAndVerify(e.project, e.submaster.carries, now, TRUE, checkExp)
      daily == ParseAndVerify(e.daily, e.project.carries, now, TRUE, FALSE)
      act   == ParseAndVerify(e.token, e.daily.carries, now, FALSE, TRUE)
  IN  IF sub # "Ok"                              THEN sub
      ELSE IF PubKeyError(e.submaster) # "Ok"    THEN PubKeyError(e.submaster)
      ELSE IF proj # "Ok"                        THEN proj
      ELSE IF PubKeyError(e.project) # "Ok"      THEN PubKeyError(e.project)
      ELSE IF daily # "Ok"                       THEN daily
      ELSE IF PubKeyError(e.daily) # "Ok"        THEN PubKeyError(e.daily)
      ELSE IF act # "Ok"                         THEN act
      ELSE CrossCheck(e)

-----------------------------------------------------------------------------
(* validate.py *)

\* Mutant: the grace window is looked at before the licence's end.
ValidateAtGraceFirst(lic, machine, now) ==
  IF lic.issued_at = 0 \/ lic.expires_at = 0                 THEN "InvalidFields"
  ELSE IF lic.grace_period_secs <= 0                         THEN "InvalidFields"
  ELSE IF lic.machine_id # machine                           THEN "MachineIdMismatch"
  ELSE IF lic.expires_at < lic.issued_at                     THEN "InvalidFields"
  ELSE IF now > lic.issued_at + lic.grace_period_secs        THEN "GraceExpired"
  ELSE IF now > lic.expires_at                               THEN "HardExpired"
  ELSE "Ok"

ValidateAt(lic, machine, now) ==
  IF lic.issued_at = 0 \/ lic.expires_at = 0                 THEN "InvalidFields"
  ELSE IF lic.grace_period_secs <= 0                         THEN "InvalidFields"
  ELSE IF lic.machine_id # machine                           THEN "MachineIdMismatch"
  ELSE IF lic.expires_at < lic.issued_at                     THEN "InvalidFields"
  ELSE IF now > lic.expires_at                               THEN "HardExpired"
  ELSE IF now > lic.issued_at + lic.grace_period_secs        THEN "GraceExpired"
  ELSE IF now - lic.issued_at > MaxAge                       THEN "LicenseTooOld"
  ELSE "Ok"

\* Mutant: the last moment of the window counts as inside.
InGracePeriodToTheEnd(lic, now, renewalFailed) ==
  /\ renewalFailed
  /\ RenewAfter < now - lic.issued_at
  /\ now - lic.issued_at <= lic.grace_period_secs

\* in_grace_period, with its two strict bounds.
InGracePeriod(lic, now, renewalFailed) ==
  /\ renewalFailed
  /\ RenewAfter < now - lic.issued_at
  /\ now - lic.issued_at < lic.grace_period_secs

IsValid(lic, now) == now - lic.issued_at <= lic.grace_period_secs

-----------------------------------------------------------------------------
(* license.py, and what http.py makes of a verdict *)

\* _to_public_license: the map is never missing, has_entitlements says whether it was.
PublicLicense(lic, inGrace) ==
  [ key |-> lic.key, activation_id |-> lic.activation_id, project_id |-> lic.project_id,
    issued_at |-> lic.issued_at, expires_at |-> lic.expires_at,
    grace_period_secs |-> lic.grace_period_secs, in_grace_period |-> inGrace,
    entitlements     |-> IF lic.entitlements = Absent THEN << >> ELSE lic.entitlements,
    has_entitlements |-> lic.entitlements # Absent ]

CheckLicenseAt(e, machine, now) ==
  LET verified == VerifyActivationAt(e, now, FALSE)
  IN  IF verified # "Ok" THEN verified
      ELSE ValidateAt(LicenseOf(e.token), machine, now)

Accepted(e, machine, now) == CheckLicenseAt(e, machine, now) = "Ok"

\* What check_license_at returns when it does not raise.
LicenseGivenOut(e, now, renewalFailed) ==
  LET lic == LicenseOf(e.token)
  IN  PublicLicense(lic, InGracePeriod(lic, now, renewalFailed))

\* Mutant: a token from the future counts as lapsed.
LapsedErrorsFuture ==
  {"Expired", "HardExpired", "GraceExpired", "LicenseTooOld", "NotYetValid"}

\* _LAPSED_ERRORS: what check() takes to mean that only time has passed.
LapsedErrors == {"Expired", "HardExpired", "GraceExpired", "LicenseTooOld"}

Lapsed(e, machine, now) == CheckLicenseAt(e, machine, now) \in LapsedErrors

\* Mutants: any machine's token, and a test that does not ignore expiry.
WorthRenewingAnywhere(e, machine, now) == VerifyActivationAt(e, now, TRUE) = "Ok"
WorthRenewingUnexpired(e, machine, now) ==
  VerifyActivationAt(e, now, FALSE) = "Ok" /\ e.token.mid = machine

\* The test of _renew_lapsed: the chain still verifies when cert expiry is
\* ignored, and the token names this machine.
WorthRenewing(e, machine, now) ==
  VerifyActivationAt(e, now, TRUE) = "Ok" /\ e.token.mid = machine

\* The age test at the head of _renew_in_background.
RenewalDue(e, now) == now - NumClaim(e.token.iat) >= RenewAfter

\* check() comes to _renew_in_background with this entry and finds it due.
StartsRenewal(e, machine, now) ==
  /\ RenewalDue(e, now)
  /\ \/ Accepted(e, machine, now)
     \/ Lapsed(e, machine, now) /\ WorthRenewing(e, machine, now)
=============================================================================
