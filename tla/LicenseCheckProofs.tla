------------------------- MODULE LicenseCheckProofs -------------------------
(***************************************************************************)
(* Lemmas about the verification pipeline, for every entry and every       *)
(* sequence of root keys.                                                  *)
(***************************************************************************)
EXTENDS LicenseCheck, TLAPS

\* The time claims of a JWT are numbers, or missing.
Timed(jwt) == jwt.iat \in Int \cup {Absent} /\ jwt.nbf \in Int \cup {Absent}
              /\ jwt.exp \in Int \cup {Absent}

\* A JWT that once verified goes on verifying when its expiry is ignored.
LEMMA ParseForever ==
  ASSUME NEW jwt, Timed(jwt), NEW key, NEW n \in Int, NEW m \in Int, n <= m,
         NEW timed \in BOOLEAN, NEW checkExp \in BOOLEAN,
         ParseAndVerify(jwt, key, n, timed, checkExp) = "Ok"
  PROVE  ParseAndVerify(jwt, key, m, timed, FALSE) = "Ok"
BY LicenseCheckAssumption
DEF LicenseCheckAssumption, Timed, ParseAndVerify, CheckTimeClaims, Later, Earlier

LEMMA FirstRoot == 1 \in DOMAIN MasterKeys
BY LicenseCheckAssumption DEF LicenseCheckAssumption

\* A submaster cert verifies exactly when some root key verifies it: the error of
\* the first key stands for all of them only when every one has failed.
LEMMA SubmasterOk ==
  ASSUME NEW cert, NEW n, NEW checkExp
  PROVE  VerifySubmaster(cert, n, checkExp) = "Ok"
           <=> \E i \in DOMAIN MasterKeys :
                 ParseAndVerify(cert, MasterKeys[i], n, TRUE, checkExp) = "Ok"
BY FirstRoot DEF VerifySubmaster

\* With expiry ignored, verification never takes back what it once said.
LEMMA SignedForever ==
  ASSUME NEW e, Timed(e.submaster), Timed(e.project), Timed(e.daily),
         NEW n \in Int, NEW m \in Int, n <= m, NEW ignoring \in BOOLEAN,
         VerifyActivationAt(e, n, ignoring) = "Ok"
  PROVE  VerifyActivationAt(e, m, TRUE) = "Ok"
<1>1. /\ VerifySubmaster(e.submaster, n, ~ignoring) = "Ok"
      /\ PubKeyError(e.submaster) = "Ok"
      /\ ParseAndVerify(e.project, e.submaster.carries, n, TRUE, ~ignoring) = "Ok"
      /\ PubKeyError(e.project) = "Ok"
      /\ ParseAndVerify(e.daily, e.project.carries, n, TRUE, FALSE) = "Ok"
      /\ PubKeyError(e.daily) = "Ok"
      /\ ParseAndVerify(e.token, e.daily.carries, n, FALSE, TRUE) = "Ok"
      /\ CrossCheck(e) = "Ok"
  BY DEF VerifyActivationAt
<1>2. VerifySubmaster(e.submaster, m, FALSE) = "Ok"
  <2>1. PICK i \in DOMAIN MasterKeys :
          ParseAndVerify(e.submaster, MasterKeys[i], n, TRUE, ~ignoring) = "Ok"
    BY <1>1, SubmasterOk
  <2>2. ParseAndVerify(e.submaster, MasterKeys[i], m, TRUE, FALSE) = "Ok"
    BY <2>1, ParseForever
  <2>. QED BY <2>2, SubmasterOk
<1>3. ParseAndVerify(e.project, e.submaster.carries, m, TRUE, FALSE) = "Ok"
  BY <1>1, ParseForever
<1>4. ParseAndVerify(e.daily, e.project.carries, m, TRUE, FALSE) = "Ok"
  BY <1>1, ParseForever
<1>5. ParseAndVerify(e.token, e.daily.carries, m, FALSE, TRUE) = "Ok"
  BY <1>1 DEF ParseAndVerify
<1>. QED BY <1>1, <1>2, <1>3, <1>4, <1>5 DEF VerifyActivationAt
=============================================================================
