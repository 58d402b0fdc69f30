-------------------------- MODULE LicenseLifeProofs --------------------------
(***************************************************************************)
(* The properties of LicenseLife, for every set of entries, every sequence *)
(* of root keys and every value of the limits.                             *)
(***************************************************************************)
EXTENDS LicenseLife, LicenseCheckProofs

Inv == entry \in Entries /\ now \in Nat /\ now > 0

LEMMA InvHolds == Spec => []Inv
<1>1. Init => Inv
  BY DEF Init, Inv
<1>2. Inv /\ [Tick]_vars => Inv'
  BY DEF Inv, Tick, vars
<1>. QED BY <1>1, <1>2, PTL DEF Spec

LEMMA EntryTimed ==
  ASSUME NEW e \in EntryType
  PROVE  Timed(e.submaster) /\ Timed(e.project) /\ Timed(e.daily)
<1>1. e.submaster \in Cert /\ e.project \in Cert /\ e.daily \in Cert
  BY DEF EntryType
<1>2. \A cert \in Cert : Timed(cert)
  BY DEF Cert, Claim, Timed
<1>. QED BY <1>1, <1>2

LEMMA Typed == Inv => entry \in EntryType /\ now \in Int
BY LicenseLifeAssumption DEF LicenseLifeAssumption, Inv

-----------------------------------------------------------------------------
(* Verification in one formula *)

Sound(jwt, key) == jwt.form = "good" /\ jwt.signedBy = key /\ jwt.iss = Issuer

InDates(jwt, t, checkExp) ==
  ~Later(jwt.iat, t) /\ ~Later(jwt.nbf, t) /\ (checkExp => ~Earlier(jwt.exp, t))

LEMMA ParseTimed ==
  ASSUME NEW jwt, NEW key, NEW t, NEW checkExp
  PROVE  ParseAndVerify(jwt, key, t, TRUE, checkExp) = "Ok"
           <=> Sound(jwt, key) /\ InDates(jwt, t, checkExp)
BY DEF ParseAndVerify, CheckTimeClaims, Sound, InDates

LEMMA ParseUntimed ==
  ASSUME NEW jwt, NEW key, NEW t, NEW checkExp
  PROVE  ParseAndVerify(jwt, key, t, FALSE, checkExp) = "Ok" <=> Sound(jwt, key)
BY DEF ParseAndVerify, Sound

LEMMA KeyOk ==
  ASSUME NEW cert
  PROVE  PubKeyError(cert) = "Ok" <=> cert.carries \notin {Absent, "bad"}
BY DEF PubKeyError

LEMMA SubmasterVerifies ==
  ASSUME NEW cert, NEW t, NEW checkExp
  PROVE  VerifySubmaster(cert, t, checkExp) = "Ok"
           <=> /\ \E i \in DOMAIN MasterKeys : Sound(cert, MasterKeys[i])
               /\ InDates(cert, t, checkExp)
<1>1. \A i \in DOMAIN MasterKeys :
        ParseAndVerify(cert, MasterKeys[i], t, TRUE, checkExp) = "Ok"
          <=> Sound(cert, MasterKeys[i]) /\ InDates(cert, t, checkExp)
  BY ParseTimed
<1>. QED BY <1>1, SubmasterOk

InCertWindow(e, t, checkExp) ==
  /\ InDates(e.submaster, t, checkExp)
  /\ InDates(e.project, t, checkExp)
  /\ InDates(e.daily, t, FALSE)

LEMMA AuthenticAsSound ==
  ASSUME NEW e
  PROVE  Authentic(e)
           <=> /\ \E i \in DOMAIN MasterKeys : Sound(e.submaster, MasterKeys[i])
               /\ e.submaster.carries \notin {Absent, "bad"}
               /\ Sound(e.project, e.submaster.carries)
               /\ e.project.carries \notin {Absent, "bad"}
               /\ Sound(e.daily, e.project.carries)
               /\ e.daily.carries \notin {Absent, "bad"}
               /\ Sound(e.token, e.daily.carries)
BY DEF Authentic, Sound

LEMMA VerifyOk ==
  ASSUME NEW e, NEW t, NEW ignoring \in BOOLEAN
  PROVE  VerifyActivationAt(e, t, ignoring) = "Ok"
           <=> Authentic(e) /\ CrossCheck(e) = "Ok" /\ InCertWindow(e, t, ~ignoring)
<1>1. VerifyActivationAt(e, t, ignoring) = "Ok"
        <=> /\ VerifySubmaster(e.submaster, t, ~ignoring) = "Ok"
            /\ PubKeyError(e.submaster) = "Ok"
            /\ ParseAndVerify(e.project, e.submaster.carries, t, TRUE, ~ignoring) = "Ok"
            /\ PubKeyError(e.project) = "Ok"
            /\ ParseAndVerify(e.daily, e.project.carries, t, TRUE, FALSE) = "Ok"
            /\ PubKeyError(e.daily) = "Ok"
            /\ ParseAndVerify(e.token, e.daily.carries, t, FALSE, TRUE) = "Ok"
            /\ CrossCheck(e) = "Ok"
  BY DEF VerifyActivationAt
<1>2. ParseAndVerify(e.project, e.submaster.carries, t, TRUE, ~ignoring) = "Ok"
        <=> Sound(e.project, e.submaster.carries) /\ InDates(e.project, t, ~ignoring)
  BY ParseTimed
<1>3. ParseAndVerify(e.daily, e.project.carries, t, TRUE, FALSE) = "Ok"
        <=> Sound(e.daily, e.project.carries) /\ InDates(e.daily, t, FALSE)
  BY ParseTimed
<1>4. ParseAndVerify(e.token, e.daily.carries, t, FALSE, TRUE) = "Ok"
        <=> Sound(e.token, e.daily.carries)
  BY ParseUntimed
<1>5. VerifySubmaster(e.submaster, t, ~ignoring) = "Ok"
        <=> /\ \E i \in DOMAIN MasterKeys : Sound(e.submaster, MasterKeys[i])
            /\ InDates(e.submaster, t, ~ignoring)
  BY SubmasterVerifies
<1>6. /\ PubKeyError(e.submaster) = "Ok" <=> e.submaster.carries \notin {Absent, "bad"}
      /\ PubKeyError(e.project) = "Ok" <=> e.project.carries \notin {Absent, "bad"}
      /\ PubKeyError(e.daily) = "Ok" <=> e.daily.carries \notin {Absent, "bad"}
  BY KeyOk
<1>. QED BY <1>1, <1>2, <1>3, <1>4, <1>5, <1>6, AuthenticAsSound DEF InCertWindow

-----------------------------------------------------------------------------
(* The licence a token carries, and the verdicts on it *)

LEMMA CrossCheckOk ==
  ASSUME NEW e \in EntryType
  PROVE  CrossCheck(e) = "Ok"
           <=> /\ e.project.pid \in {Absent, "", e.token.pid}
               /\ e.daily.iat # Absent /\ e.daily.exp # Absent
               /\ e.daily.iat <= NumClaim(e.token.iat)
               /\ NumClaim(e.token.iat) <= e.daily.exp
               /\ GraceOf(e.token) <= MaxGrace
<1>1. e.daily.iat \in Int \cup {Absent} /\ e.daily.exp \in Int \cup {Absent}
  BY EntryTimed DEF Timed
<1>2. NumClaim(e.token.iat) \in Int
  BY DEF EntryType, Token, Claim, NumClaim
<1>3. GraceOf(e.token) \in Int
  BY DEF EntryType, Token, Claim, NumClaim, GraceOf, AtLeastZero
<1>. DEFINE agrees == e.project.pid \in {Absent, "", e.token.pid}
            iat    == NumClaim(e.token.iat)
            dated  == Absent \notin {e.daily.iat, e.daily.exp}
<1>4. CrossCheck(e) = "Ok"
        <=> /\ agrees /\ dated
            /\ ~(iat < e.daily.iat \/ iat > e.daily.exp)
            /\ ~(GraceOf(e.token) > MaxGrace)
  BY Zenon DEF CrossCheck
<1>5. dated <=> e.daily.iat # Absent /\ e.daily.exp # Absent
  OBVIOUS
<1>. HIDE DEF agrees, dated
<1>6. MaxGrace \in Int
  BY LicenseCheckAssumption DEF LicenseCheckAssumption
<1>7. dated => /\ ~(iat < e.daily.iat \/ iat > e.daily.exp)
                    <=> e.daily.iat <= iat /\ iat <= e.daily.exp
               /\ ~(GraceOf(e.token) > MaxGrace) <=> GraceOf(e.token) <= MaxGrace
  BY <1>1, <1>2, <1>3, <1>5, <1>6
<1>. QED BY <1>4, <1>5, <1>7 DEF agrees

LEMMA LicenseTyped ==
  ASSUME NEW e \in EntryType
  PROVE  /\ LicenseOf(e.token).issued_at \in Int
         /\ LicenseOf(e.token).expires_at \in Int
         /\ LicenseOf(e.token).grace_period_secs \in Int
         /\ LicenseOf(e.token).issued_at = NumClaim(e.token.iat)
         /\ LicenseOf(e.token).grace_period_secs = GraceOf(e.token)
         /\ LicenseOf(e.token).machine_id = e.token.mid
BY LicenseCheckAssumption
DEF LicenseCheckAssumption, EntryType, Token, Claim, NumClaim, GraceOf, EndOf, AtLeastZero, LicenseOf

\* What validate_at wants of a licence whatever the time.
FieldsOk(lic, machine) ==
  /\ lic.issued_at # 0 /\ lic.expires_at # 0
  /\ 0 < lic.grace_period_secs
  /\ lic.machine_id = machine
  /\ lic.issued_at <= lic.expires_at

LEMMA ValidateVerdict ==
  ASSUME NEW lic, lic.issued_at \in Int, lic.expires_at \in Int, lic.grace_period_secs \in Int,
         NEW machine, NEW t \in Int
  PROVE  /\ ValidateAt(lic, machine, t) = "Ok"
              <=> /\ FieldsOk(lic, machine)
                  /\ t <= lic.expires_at
                  /\ t <= lic.issued_at + lic.grace_period_secs
                  /\ t - lic.issued_at <= MaxAge
         /\ ValidateAt(lic, machine, t) \in {"Ok", "HardExpired", "GraceExpired", "LicenseTooOld"}
              <=> FieldsOk(lic, machine)
         /\ ValidateAt(lic, machine, t) \notin {"Expired"}
BY LicenseCheckAssumption DEF LicenseCheckAssumption, ValidateAt, FieldsOk

\* The errors verification can raise: none is validate_at's.
LEMMA VerifyVerdict ==
  ASSUME NEW e, NEW t, NEW ignoring
  PROVE  VerifyActivationAt(e, t, ignoring)
           \notin {"HardExpired", "GraceExpired", "LicenseTooOld"}
BY DEF VerifyActivationAt, VerifySubmaster, ParseAndVerify, CheckTimeClaims, PubKeyError, CrossCheck

\* Verification calls a chain expired only when its submaster or its project
\* cert is: never for the daily cert, nor for the token.
LEMMA VerifyExpired ==
  ASSUME NEW e, NEW t, VerifyActivationAt(e, t, FALSE) = "Expired"
  PROVE  Earlier(e.submaster.exp, t) \/ Earlier(e.project.exp, t)
BY DEF VerifyActivationAt, VerifySubmaster, ParseAndVerify, CheckTimeClaims, PubKeyError, CrossCheck

LEMMA AcceptedParts ==
  ASSUME NEW e, NEW machine, NEW t
  PROVE  Accepted(e, machine, t)
           <=> /\ VerifyActivationAt(e, t, FALSE) = "Ok"
               /\ ValidateAt(LicenseOf(e.token), machine, t) = "Ok"
BY DEF Accepted, CheckLicenseAt

\* check_license_at accepts an entry exactly while the reference says so.
LEMMA AcceptedIff ==
  ASSUME NEW e \in EntryType, NEW machine, NEW t \in Int
  PROVE  Accepted(e, machine, t)
           <=> Authentic(e) /\ Usable(e, machine) /\ InWindow(e, t)
<1>. DEFINE lic == LicenseOf(e.token)
<1>1. /\ lic.issued_at \in Int /\ lic.expires_at \in Int /\ lic.grace_period_secs \in Int
      /\ lic.issued_at = NumClaim(e.token.iat)
      /\ lic.grace_period_secs = GraceOf(e.token)
  BY LicenseTyped
<1>2. VerifyActivationAt(e, t, FALSE) = "Ok"
        <=> Authentic(e) /\ CrossCheck(e) = "Ok" /\ InCertWindow(e, t, TRUE)
  BY VerifyOk
<1>3. ValidateAt(lic, machine, t) = "Ok"
        <=> /\ FieldsOk(lic, machine)
            /\ t <= lic.expires_at
            /\ t <= lic.issued_at + lic.grace_period_secs
            /\ t - lic.issued_at <= MaxAge
  BY <1>1, ValidateVerdict
<1>4. Usable(e, machine) <=> CrossCheck(e) = "Ok" /\ FieldsOk(lic, machine)
  BY <1>1, CrossCheckOk DEF Usable, FieldsOk
<1>5. InWindow(e, t) <=> /\ InCertWindow(e, t, TRUE)
                         /\ t <= lic.expires_at
                         /\ t <= lic.issued_at + lic.grace_period_secs
  BY DEF InWindow, ChainInDate, InCertWindow, InDates
<1>6. CrossCheck(e) = "Ok" /\ t <= lic.issued_at + lic.grace_period_secs
        => t - lic.issued_at <= MaxAge
  <2>1. CrossCheck(e) = "Ok" => lic.grace_period_secs <= MaxGrace
    BY <1>1, CrossCheckOk
  <2>2. MaxGrace \in Int /\ MaxAge \in Int /\ MaxGrace < MaxAge
    BY LicenseCheckAssumption DEF LicenseCheckAssumption
  <2>. HIDE DEF lic
  <2>. QED BY <1>1, <2>1, <2>2
<1>. HIDE DEF lic
<1>7. Accepted(e, machine, t)
        <=> VerifyActivationAt(e, t, FALSE) = "Ok" /\ ValidateAt(lic, machine, t) = "Ok"
  BY AcceptedParts DEF lic
<1>. QED BY <1>2, <1>3, <1>4, <1>5, <1>6, <1>7

\* A chain that verified, or failed only by its expiry, keeps doing one of the
\* two, as long as an expired submaster cert is rooted in the first key.
LEMMA SignedNeverFails ==
  ASSUME NEW e, NEW t, VerifyActivationAt(e, t, TRUE) = "Ok",
         e.submaster.signedBy = MasterKeys[1] \/ ~Earlier(e.submaster.exp, t)
  PROVE  VerifyActivationAt(e, t, FALSE) \in {"Ok", "Expired"}
<1>1. Authentic(e) /\ CrossCheck(e) = "Ok" /\ InCertWindow(e, t, FALSE)
  BY VerifyOk
<1>2. VerifySubmaster(e.submaster, t, TRUE) \in {"Ok", "Expired"}
  <2>1. CASE ~Earlier(e.submaster.exp, t)
    <3>1. InDates(e.submaster, t, TRUE)
      BY <1>1, <2>1 DEF InCertWindow, InDates
    <3>. QED BY <1>1, <3>1, SubmasterVerifies, AuthenticAsSound
  <2>2. CASE e.submaster.signedBy = MasterKeys[1]
    <3>1. ParseAndVerify(e.submaster, MasterKeys[1], t, TRUE, TRUE) \in {"Ok", "Expired"}
      BY <1>1, <2>2 DEF Authentic, InCertWindow, InDates, ParseAndVerify, CheckTimeClaims
    <3>. QED BY <3>1 DEF VerifySubmaster
  <2>. QED BY <2>1, <2>2
<1>3. ParseAndVerify(e.project, e.submaster.carries, t, TRUE, TRUE) \in {"Ok", "Expired"}
  BY <1>1 DEF Authentic, InCertWindow, InDates, ParseAndVerify, CheckTimeClaims
<1>4. ParseAndVerify(e.daily, e.project.carries, t, TRUE, FALSE) = "Ok"
  BY <1>1, ParseTimed, AuthenticAsSound DEF InCertWindow
<1>5. ParseAndVerify(e.token, e.daily.carries, t, FALSE, TRUE) = "Ok"
  BY <1>1, ParseUntimed, AuthenticAsSound
<1>6. /\ PubKeyError(e.submaster) = "Ok"
      /\ PubKeyError(e.project) = "Ok"
      /\ PubKeyError(e.daily) = "Ok"
  BY <1>1, KeyOk, AuthenticAsSound
<1>. QED BY <1>1, <1>2, <1>3, <1>4, <1>5, <1>6 DEF VerifyActivationAt

\* Time only goes on: at each step the clock is the same or one later.
LEMMA Onward ==
  ASSUME Inv, [Tick]_vars
  PROVE  entry' = entry /\ now \in Int /\ now' \in Int /\ now <= now' /\ entry \in EntryType
BY Typed DEF Inv, Tick, vars

-----------------------------------------------------------------------------
(* The theorems *)

\* An entry is accepted exactly while it is authentic, usable and inside every
\* interval it sets, whatever the order of the checks.
THEOREM AcceptanceExact == Spec => []AcceptedExactlyInWindow
<1>1. Inv => AcceptedExactlyInWindow
  BY Typed, AcceptedIff DEF AcceptedExactlyInWindow
<1>. QED BY <1>1, InvHolds, PTL

\* The three freshness checks agree on every entry that is given out: it is fresh,
\* and a user whose renewals fail is warned from an hour after the issue to the end.
THEOREM WarnedToTheEnd == Spec => []WarnedUntilTheEnd
<1>1. ASSUME Inv
      PROVE  WarnedUntilTheEnd
  <2>. DEFINE lic == LicenseOf(entry.token)
  <2>. SUFFICES ASSUME Accepted(entry, Machine, now)
                PROVE  /\ IsValid(lic, now)
                       /\ LicenseGivenOut(entry, now, TRUE).in_grace_period
                            <=> /\ RenewAfter < now - lic.issued_at
                                /\ now - lic.issued_at # lic.grace_period_secs
    BY DEF WarnedUntilTheEnd
  <2>1. entry \in EntryType /\ now \in Int
    BY <1>1, Typed
  <2>2. lic.issued_at \in Int /\ lic.grace_period_secs \in Int
    BY <2>1, LicenseTyped
  <2>3. now <= lic.issued_at + lic.grace_period_secs
    BY <2>1, AcceptedIff DEF InWindow
  <2>4. LicenseGivenOut(entry, now, TRUE).in_grace_period
          <=> /\ RenewAfter < now - lic.issued_at
              /\ now - lic.issued_at < lic.grace_period_secs
    BY DEF LicenseGivenOut, PublicLicense, InGracePeriod
  <2>. HIDE DEF lic
  <2>5. /\ now - lic.issued_at <= lic.grace_period_secs
        /\ now - lic.issued_at < lic.grace_period_secs <=> now - lic.issued_at # lic.grace_period_secs
    BY <2>1, <2>2, <2>3
  <2>6. IsValid(lic, now)
    BY <2>5 DEF IsValid
  <2>. QED BY <2>4, <2>5, <2>6, Zenon
<1>. QED BY <1>1, InvHolds, PTL

LEMMA EntTyped ==
  ASSUME NEW e \in Entries, e.token.ent # Absent
  PROVE  /\ \A k \in DOMAIN e.token.ent : e.token.ent[k] \in Json
         /\ DecodeEntitlements(e.token.ent) # Absent
<1>1. e.token.ent \in Ents
  BY LicenseLifeAssumption DEF LicenseLifeAssumption, EntryType, Token
<1>. QED BY <1>1, LicenseLifeAssumption DEF LicenseLifeAssumption

\* What narrowing leaves of one value is what can and limit are to answer from.
LEMMA NarrowExact ==
  ASSUME NEW value \in Json
  PROVE  /\ Narrow(value) = [kind |-> "bool", n |-> 1] <=> value.kind = "bool" /\ value.n = 1
         /\ Narrow(value).kind = "int" <=> value.kind \in {"int", "whole"}
         /\ Narrow(value).n = value.n
BY DEF Narrow, Json, Kinds

\* An application reads back the entitlements the seller set, and nothing else.
THEOREM EntitlementsExact == Spec => []EntitlementsAsSet
<1>1. ASSUME Inv
      PROVE  EntitlementsAsSet
  <2>. DEFINE ent    == entry.token.ent
              given  == LicenseGivenOut(entry, now, FALSE)
              Set(k) == IF ent # Absent /\ k \in DOMAIN ent THEN ent[k]
                        ELSE [kind |-> "other", n |-> 0]
  <2>. SUFFICES /\ given.has_entitlements <=> ent # Absent
                /\ \A k \in Names :
                     /\ can(given.entitlements, k) <=> Set(k).kind = "bool" /\ Set(k).n = 1
                     /\ limit(given.entitlements, k)
                          = IF Set(k).kind \in {"int", "whole"} THEN Set(k).n ELSE Absent
    BY DEF EntitlementsAsSet
  <2>1. entry \in Entries
    BY <1>1 DEF Inv
  <2>2. /\ given.has_entitlements = (DecodeEntitlements(ent) # Absent)
        /\ given.entitlements = IF DecodeEntitlements(ent) = Absent THEN << >>
                                ELSE DecodeEntitlements(ent)
    BY DEF LicenseGivenOut, PublicLicense, LicenseOf
  <2>3. CASE ent = Absent
    <3>1. DecodeEntitlements(ent) = Absent
      BY <2>3 DEF DecodeEntitlements
    <3>2. DOMAIN given.entitlements = {}
      <4>1. given.entitlements = << >>
        BY <2>2, <3>1, Zenon
      <4>2. DOMAIN << >> = {}
        OBVIOUS
      <4>. QED BY <4>1, <4>2, Zenon
    <3>3. \A k \in Names : Set(k) = [kind |-> "other", n |-> 0]
      BY <2>3
    <3>. QED BY <2>2, <2>3, <3>1, <3>2, <3>3 DEF can, limit
  <2>4. CASE ent # Absent
    <3>1. /\ \A k \in DOMAIN ent : ent[k] \in Json
          /\ DecodeEntitlements(ent) # Absent
      BY <2>1, <2>4, EntTyped
    <3>2. given.entitlements
            = [ key \in { k \in DOMAIN ent : ent[k].kind \in {"bool", "int", "whole"} }
                  |-> Narrow(ent[key]) ]
      BY <2>2, <2>4, <3>1 DEF DecodeEntitlements
    <3>. HIDE DEF given
    <3>3. ASSUME NEW k \in Names
          PROVE  /\ can(given.entitlements, k) <=> Set(k).kind = "bool" /\ Set(k).n = 1
                 /\ limit(given.entitlements, k)
                      = IF Set(k).kind \in {"int", "whole"} THEN Set(k).n ELSE Absent
      <4>1. CASE k \in DOMAIN given.entitlements
        <5>1. /\ k \in DOMAIN ent /\ given.entitlements[k] = Narrow(ent[k])
              /\ Set(k) = ent[k] /\ ent[k] \in Json
          BY <2>4, <3>1, <3>2, <4>1
        <5>. QED BY <4>1, <5>1, NarrowExact DEF can, limit
      <4>2. CASE k \notin DOMAIN given.entitlements
        <5>1. Set(k).kind \notin {"bool", "int", "whole"}
          BY <3>2, <4>2
        <5>. QED BY <4>2, <5>1 DEF can, limit
      <4>. QED BY <4>1, <4>2
    <3>. QED BY <2>2, <2>4, <3>1, <3>3
  <2>. QED BY <2>3, <2>4
<1>. QED BY <1>1, InvHolds, PTL

\* HardExpired is the verdict on exactly the entries whose licence has ended while
\* all the rest of them holds.
THEOREM HardExpiryExact == Spec => []HardExpiryReported
<1>1. ASSUME Inv PROVE HardExpiryReported
  <2>. DEFINE lic == LicenseOf(entry.token)
              verified == VerifyActivationAt(entry, now, FALSE)
  <2>1. entry \in EntryType /\ now \in Int
    BY <1>1, Typed
  <2>2. /\ lic.issued_at \in Int /\ lic.expires_at \in Int /\ lic.grace_period_secs \in Int
        /\ lic.issued_at = NumClaim(entry.token.iat)
        /\ lic.grace_period_secs = GraceOf(entry.token)
        /\ lic.expires_at = EndOf(entry.token)
    BY <2>1, LicenseTyped DEF LicenseOf
  <2>3. verified = "Ok"
          <=> Authentic(entry) /\ CrossCheck(entry) = "Ok" /\ ChainInDate(entry, now)
    BY VerifyOk DEF ChainInDate, InCertWindow, InDates
  <2>4. Usable(entry, Machine) <=> CrossCheck(entry) = "Ok" /\ FieldsOk(lic, Machine)
    BY <2>1, <2>2, CrossCheckOk DEF Usable, FieldsOk
  <2>5. verified # "HardExpired"
    BY VerifyVerdict
  <2>6. CheckLicenseAt(entry, Machine, now) = "HardExpired"
          <=> verified = "Ok" /\ ValidateAt(lic, Machine, now) = "HardExpired"
    BY <2>5 DEF CheckLicenseAt
  <2>. HIDE DEF lic, verified
  <2>7. ValidateAt(lic, Machine, now) = "HardExpired"
          <=> FieldsOk(lic, Machine) /\ now > lic.expires_at
    BY <2>1, <2>2 DEF ValidateAt, FieldsOk
  <2>. QED BY <2>2, <2>3, <2>4, <2>6, <2>7 DEF HardExpiryReported
<1>. QED BY <1>1, InvHolds, PTL

\* The 365-day ceiling of validate_at is never what rejects an entry.
THEOREM AgeCeilingIdle == Spec => []TooOldNeverRaised
<1>1. ASSUME Inv PROVE TooOldNeverRaised
  <2>. DEFINE lic == LicenseOf(entry.token)
  <2>1. entry \in EntryType /\ now \in Int
    BY <1>1, Typed
  <2>2. /\ lic.issued_at \in Int /\ lic.expires_at \in Int /\ lic.grace_period_secs \in Int
        /\ lic.issued_at = NumClaim(entry.token.iat)
        /\ lic.grace_period_secs = GraceOf(entry.token)
    BY <2>1, LicenseTyped
  <2>3. CASE VerifyActivationAt(entry, now, FALSE) # "Ok"
    BY <2>3, VerifyVerdict DEF TooOldNeverRaised, CheckLicenseAt
  <2>4. CASE VerifyActivationAt(entry, now, FALSE) = "Ok"
    <3>1. CrossCheck(entry) = "Ok"
      BY <2>4, VerifyOk
    <3>2. lic.grace_period_secs <= MaxGrace
      BY <2>1, <2>2, <3>1, CrossCheckOk
    <3>3. MaxGrace \in Int /\ MaxAge \in Int /\ MaxGrace < MaxAge
      BY LicenseCheckAssumption DEF LicenseCheckAssumption
    <3>. HIDE DEF lic
    <3>4. ValidateAt(lic, Machine, now) # "LicenseTooOld"
      BY <2>1, <2>2, <3>2, <3>3 DEF ValidateAt
    <3>. QED BY <2>4, <3>4 DEF TooOldNeverRaised, CheckLicenseAt, lic
  <2>. QED BY <2>3, <2>4
<1>. QED BY <1>1, InvHolds, PTL

\* Only this machine's own, authentic tokens start a background renewal.
THEOREM OnlyOwnRenewed == Spec => []OnlyOwnTokensRenewed
<1>1. ASSUME Inv, StartsRenewal(entry, Machine, now)
      PROVE  Authentic(entry) /\ entry.token.mid = Machine
  <2>1. entry \in EntryType /\ now \in Int
    BY <1>1, Typed
  <2>2. CASE Accepted(entry, Machine, now)
    BY <2>1, <2>2, AcceptedIff, LicenseTyped DEF Usable
  <2>3. CASE WorthRenewing(entry, Machine, now)
    BY <2>3, VerifyOk DEF WorthRenewing
  <2>. QED BY <1>1, <2>2, <2>3 DEF StartsRenewal
<1>2. Inv => OnlyOwnTokensRenewed
  BY <1>1 DEF OnlyOwnTokensRenewed
<1>. QED BY <1>2, InvHolds, PTL

\* With expiry ignored, verification never takes back what it once said.
THEOREM SignedStays == Spec => SignedStaysSigned
<1>1. ASSUME Inv, [Tick]_vars, VerifyActivationAt(entry, now, TRUE) = "Ok"
      PROVE  VerifyActivationAt(entry, now, TRUE)' = "Ok"
  <2>1. entry' = entry /\ now \in Int /\ now' \in Int /\ now <= now' /\ entry \in EntryType
    BY <1>1, Onward
  <2>2. Timed(entry.submaster) /\ Timed(entry.project) /\ Timed(entry.daily)
    BY <2>1, EntryTimed
  <2>3. VerifyActivationAt(entry, now', TRUE) = "Ok"
    BY <1>1, <2>1, <2>2, SignedForever
  <2>. QED BY <2>1, <2>3
<1>2. Inv /\ [Tick]_vars
        => [VerifyActivationAt(entry, now, TRUE) = "Ok"
              => VerifyActivationAt(entry, now, TRUE)' = "Ok"]_vars
  BY <1>1
<1>. QED BY <1>2, InvHolds, PTL DEF Spec, SignedStaysSigned

\* What makes an entry lapsed at one time keeps it out of the window later.
LEMMA LapsedOutside ==
  ASSUME NEW e \in EntryType, NEW machine, NEW t \in Int, NEW u \in Int, t <= u,
         Lapsed(e, machine, t)
  PROVE  ~Accepted(e, machine, u)
<1>. DEFINE lic == LicenseOf(e.token)
<1>1. /\ lic.issued_at \in Int /\ lic.expires_at \in Int /\ lic.grace_period_secs \in Int
      /\ lic.issued_at = NumClaim(e.token.iat)
      /\ lic.grace_period_secs = GraceOf(e.token)
  BY LicenseTyped
<1>2. SUFFICES ASSUME Accepted(e, machine, u) PROVE FALSE
  OBVIOUS
<1>3. Authentic(e) /\ Usable(e, machine) /\ InWindow(e, u)
  BY <1>2, AcceptedIff
<1>4. CASE VerifyActivationAt(e, t, FALSE) # "Ok"
  <2>1. VerifyActivationAt(e, t, FALSE) = "Expired"
    BY <1>4, VerifyVerdict DEF Lapsed, CheckLicenseAt, LapsedErrors
  <2>2. Earlier(e.submaster.exp, t) \/ Earlier(e.project.exp, t)
    BY <2>1, VerifyExpired
  <2>3. e.submaster.exp \in Int \cup {Absent} /\ e.project.exp \in Int \cup {Absent}
    BY EntryTimed DEF Timed
  <2>4. Earlier(e.submaster.exp, u) \/ Earlier(e.project.exp, u)
    BY <2>2, <2>3 DEF Earlier
  <2>. QED BY <1>3, <2>4 DEF InWindow, ChainInDate
<1>5. CASE VerifyActivationAt(e, t, FALSE) = "Ok"
  <2>1. ValidateAt(lic, machine, t) # "Ok"
    BY <1>5 DEF Lapsed, CheckLicenseAt, LapsedErrors
  <2>2. FieldsOk(lic, machine)
    BY <1>3 DEF Usable, FieldsOk
  <2>3. ~(t <= lic.expires_at /\ t <= lic.issued_at + lic.grace_period_secs
            /\ t - lic.issued_at <= MaxAge)
    BY <1>1, <2>1, <2>2, ValidateVerdict
  <2>4. u <= lic.expires_at /\ u <= lic.issued_at + lic.grace_period_secs
    BY <1>3 DEF InWindow
  <2>5. lic.grace_period_secs <= MaxGrace
    BY <1>1, <1>3 DEF Usable
  <2>6. MaxGrace \in Int /\ MaxAge \in Int /\ MaxGrace < MaxAge
    BY LicenseCheckAssumption DEF LicenseCheckAssumption
  <2>. HIDE DEF lic
  <2>. QED BY <1>1, <2>3, <2>4, <2>5, <2>6
<1>. QED BY <1>4, <1>5

\* The entry has lapsed by now, whatever check says of it at this moment.
HasLapsed == \E u \in Int : u <= now /\ Lapsed(entry, Machine, u)

\* A lapse is final: no later check, however late, accepts the entry again.  Lapsed is
\* not preserved by a step, but HasLapsed is, and it keeps the entry out.
THEOREM LapseFinal == Spec => LapseIsFinal
<1>1. Inv /\ Lapsed(entry, Machine, now) => HasLapsed
  BY Typed DEF HasLapsed
<1>2. ASSUME Inv, HasLapsed, [Tick]_vars
      PROVE  HasLapsed'
  <2>1. entry' = entry /\ now \in Int /\ now' \in Int /\ now <= now'
    BY <1>2, Onward
  <2>2. PICK u \in Int : u <= now /\ Lapsed(entry, Machine, u)
    BY <1>2 DEF HasLapsed
  <2>3. u <= now' /\ Lapsed(entry', Machine, u)
    BY <2>1, <2>2
  <2>. QED BY <2>3 DEF HasLapsed
<1>3. ASSUME Inv, HasLapsed
      PROVE  ~Accepted(entry, Machine, now)
  <2>1. entry \in EntryType /\ now \in Int
    BY <1>3, Typed
  <2>2. PICK u \in Int : u <= now /\ Lapsed(entry, Machine, u)
    BY <1>3 DEF HasLapsed
  <2>. QED BY <2>1, <2>2, LapsedOutside
<1>. QED BY <1>1, <1>2, <1>3, InvHolds, PTL DEF Spec, LapseIsFinal

\* The step of RecoversUnlessSubmasterLapsed.
LEMMA RecoverableOn ==
  ASSUME NEW e \in EntryType, NEW t \in Int, NEW u \in Int, t <= u,
         Recoverable(e, t),
         e.submaster.signedBy = MasterKeys[1] \/ ~Earlier(e.submaster.exp, u)
  PROVE  Recoverable(e, u)
<1>. DEFINE lic == LicenseOf(e.token)
<1>1. /\ lic.issued_at \in Int /\ lic.expires_at \in Int /\ lic.grace_period_secs \in Int
      /\ lic.machine_id = e.token.mid
  BY LicenseTyped
<1>2. Timed(e.submaster) /\ Timed(e.project) /\ Timed(e.daily)
  BY EntryTimed
<1>3. VerifyActivationAt(e, u, TRUE) = "Ok"
  <2>1. CASE Accepted(e, Machine, t)
    <3>1. VerifyActivationAt(e, t, FALSE) = "Ok"
      BY <2>1, AcceptedParts
    <3>. QED BY <1>2, <3>1, SignedForever
  <2>2. CASE WorthRenewing(e, Machine, t)
    <3>1. VerifyActivationAt(e, t, TRUE) = "Ok"
      BY <2>2 DEF WorthRenewing
    <3>. QED BY <1>2, <3>1, SignedForever
  <2>. QED BY <2>1, <2>2 DEF Recoverable
<1>4. e.token.mid = Machine
  <2>1. CASE Accepted(e, Machine, t)
    <3>1. lic.machine_id = Machine
      BY <2>1, AcceptedIff DEF Usable
    <3>. QED BY <1>1, <3>1
  <2>2. CASE WorthRenewing(e, Machine, t)
    BY <2>2 DEF WorthRenewing
  <2>. QED BY <2>1, <2>2 DEF Recoverable
<1>5. WorthRenewing(e, Machine, u)
  BY <1>3, <1>4 DEF WorthRenewing
<1>6. VerifyActivationAt(e, u, FALSE) \in {"Ok", "Expired"}
  BY <1>3, SignedNeverFails
<1>7. CASE VerifyActivationAt(e, u, FALSE) = "Expired"
  <2>1. Lapsed(e, Machine, u)
    BY <1>7 DEF Lapsed, CheckLicenseAt, LapsedErrors
  <2>. QED BY <1>5, <2>1 DEF Recoverable
<1>8. CASE VerifyActivationAt(e, u, FALSE) = "Ok"
  <2>1. VerifyActivationAt(e, t, FALSE) # "Expired"
    <3>1. InCertWindow(e, u, TRUE)
      BY <1>8, VerifyOk
    <3>2. ~Earlier(e.submaster.exp, u) /\ ~Earlier(e.project.exp, u)
      BY <3>1 DEF InCertWindow, InDates
    <3>3. ~Earlier(e.submaster.exp, t) /\ ~Earlier(e.project.exp, t)
      BY <1>2, <3>2 DEF Earlier, Timed
    <3>. QED BY <3>3, VerifyExpired
  <2>2. CheckLicenseAt(e, Machine, t) \in LapsedErrors \cup {"Ok"}
    BY DEF Recoverable, Accepted, Lapsed
  <2>3. VerifyActivationAt(e, t, FALSE) = "Ok"
    BY <2>1, <2>2, VerifyVerdict DEF CheckLicenseAt, LapsedErrors
  <2>4. ValidateAt(lic, Machine, t) \in LapsedErrors \cup {"Ok"}
    BY <2>2, <2>3 DEF CheckLicenseAt
  <2>5. FieldsOk(lic, Machine)
    BY <1>1, <2>4, ValidateVerdict DEF LapsedErrors
  <2>6. ValidateAt(lic, Machine, u) \in LapsedErrors \cup {"Ok"}
    BY <1>1, <2>5, ValidateVerdict DEF LapsedErrors
  <2>7. CheckLicenseAt(e, Machine, u) \in LapsedErrors \cup {"Ok"}
    BY <1>8, <2>6 DEF CheckLicenseAt
  <2>. QED BY <1>5, <2>7 DEF Recoverable, Accepted, Lapsed
<1>. QED BY <1>6, <1>7, <1>8

\* An entry once accepted stays in the hands of check() or of _renew_lapsed until
\* its submaster cert expires, and for ever under the first root key.
THEOREM Recovers == Spec => RecoversUnlessSubmasterLapsed
<1>1. ASSUME Inv, [Tick]_vars, Recoverable(entry, now),
             entry.submaster.signedBy = MasterKeys[1] \/ ~Earlier(entry.submaster.exp, now')
      PROVE  Recoverable(entry, now)'
  <2>1. entry' = entry /\ now \in Int /\ now' \in Int /\ now <= now' /\ entry \in EntryType
    BY <1>1, Onward
  <2>2. Recoverable(entry, now')
    BY <1>1, <2>1, RecoverableOn
  <2>. QED BY <2>1, <2>2
<1>2. Inv /\ [Tick]_vars
        => [ /\ Recoverable(entry, now)
             /\ \/ entry.submaster.signedBy = MasterKeys[1]
                \/ ~Earlier(entry.submaster.exp, now')
             => Recoverable(entry, now)' ]_vars
  BY <1>1
<1>. QED BY <1>2, InvHolds, PTL DEF Spec, RecoversUnlessSubmasterLapsed
=============================================================================
