----------------------------- MODULE LicenseLife -----------------------------
(***************************************************************************)
(* One cached entry watched while time passes: what check_license_at says  *)
(* of it at every moment of its life, and what Sdk.check makes of that     *)
(* (give the licence out, renew in the background, or ask the user to      *)
(* activate again).                                                        *)
(***************************************************************************)
EXTENDS LicenseCheck

CONSTANTS
  Entries,    \* the entries considered
  Machine,    \* the derived ID of this machine
  Names,      \* names of entitlements
  Ents,       \* the ent claims considered
  Horizon     \* bound on the clock, for TLC

Claim == Int \cup {Absent}

\* A compact JWT; one that cannot be decoded; one whose header is JSON and no object.
Forms == {"good", "malformed", "headless"}

Cert == [ form : Forms, signedBy : STRING, iss : STRING,
          iat : Claim, nbf : Claim, exp : Claim,
          carries : STRING \cup {Absent}, pid : STRING \cup {Absent} ]

Token == [ form : Forms, signedBy : STRING, iss : STRING,
           sub : STRING, alias : STRING, aid : STRING, pid : STRING, mid : STRING,
           iat : Claim, exp : Claim, grc : Claim, lex : Claim,
           ent : Ents \cup {Absent} ]

EntryType == [token : Token, submaster : Cert, project : Cert, daily : Cert]

ASSUME LicenseLifeAssumption ==
  /\ \A ent \in Ents : /\ DOMAIN ent \subseteq Names
                       /\ \A k \in DOMAIN ent : ent[k] \in Json
                       /\ DecodeEntitlements(ent) # Absent   \* Absent is no map
  /\ Entries \subseteq EntryType
  /\ Machine \in STRING
  /\ Horizon \in Nat

VARIABLES entry, now

vars == <<entry, now>>

Init == entry \in Entries /\ now = 1

\* time.time() moves on.
Tick ==
  /\ now < Horizon
  /\ now' = now + 1
  /\ UNCHANGED entry

Spec == Init /\ [][Tick]_vars

-----------------------------------------------------------------------------
(* The reference: the window in which an entry ought to be accepted, stated *)
(* from the chain as a whole and not check by check.                        *)

\* The signatures form a chain from a root to the token, and every link is a
\* JWT of this issuer with what the next link needs.
Authentic(e) ==
  /\ \A jwt \in {e.submaster, e.project, e.daily, e.token} :
       jwt.form = "good" /\ jwt.iss = Issuer
  /\ \A cert \in {e.submaster, e.project, e.daily} : cert.carries \notin {Absent, "bad"}
  /\ \E i \in DOMAIN MasterKeys : e.submaster.signedBy = MasterKeys[i]
  /\ e.project.signedBy = e.submaster.carries
  /\ e.daily.signedBy = e.project.carries
  /\ e.token.signedBy = e.daily.carries

\* The token agrees with its chain, belongs to machine, and has a licence end
\* and a grace window that make sense.
Usable(e, machine) ==
  LET lic == LicenseOf(e.token)
  IN  /\ e.project.pid \in {Absent, "", e.token.pid}
      /\ e.daily.iat # Absent /\ e.daily.exp # Absent
      /\ e.daily.iat <= lic.issued_at /\ lic.issued_at <= e.daily.exp
      /\ 0 < lic.grace_period_secs /\ lic.grace_period_secs <= MaxGrace
      /\ lic.machine_id = machine
      /\ lic.issued_at # 0 /\ lic.expires_at # 0 /\ lic.issued_at <= lic.expires_at

\* t is inside the intervals of the certs.
ChainInDate(e, t) ==
  /\ \A cert \in {e.submaster, e.project, e.daily} :
       ~Later(cert.iat, t) /\ ~Later(cert.nbf, t)
  /\ \A cert \in {e.submaster, e.project} : ~Earlier(cert.exp, t)

\* t is inside every interval the entry sets.
InWindow(e, t) ==
  LET lic == LicenseOf(e.token)
  IN  /\ ChainInDate(e, t)
      /\ t <= lic.expires_at
      /\ t <= lic.issued_at + lic.grace_period_secs

-----------------------------------------------------------------------------
(* Properties *)

\* check_license_at accepts an entry exactly while the reference says so: the
\* order of the checks, the two token formats and the daily cert's unchecked
\* exp neither let anything more through nor keep anything out.
AcceptedExactlyInWindow ==
  Accepted(entry, Machine, now)
    <=> Authentic(entry) /\ Usable(entry, Machine) /\ InWindow(entry, now)

\* The three freshness checks of validate.py agree: an entry that is given out is
\* fresh for is_valid too, and once its renewals fail the user is warned from an
\* hour after the issue until its last moment, with no gap, whichever of the two
\* token formats says when that is.
WarnedUntilTheEnd ==
  LET lic == LicenseOf(entry.token)
      age == now - lic.issued_at
  IN  Accepted(entry, Machine, now)
        => /\ IsValid(lic, now)
           /\ LicenseGivenOut(entry, now, TRUE).in_grace_period
                <=> RenewAfter < age /\ age # lic.grace_period_secs

\* entitlements.py: an application reads back what the seller set and nothing
\* else.  A boolean answers can alone, an integer limit alone, written with or
\* without a decimal point; anything else and anything missing is denied; and
\* has_entitlements tells an empty claim from none.
EntitlementsAsSet ==
  LET ent    == entry.token.ent
      given  == LicenseGivenOut(entry, now, FALSE)
      Set(k) == IF ent # Absent /\ k \in DOMAIN ent THEN ent[k] ELSE [kind |-> "other", n |-> 0]
  IN  /\ given.has_entitlements <=> ent # Absent
      /\ \A k \in Names :
           /\ can(given.entitlements, k) <=> Set(k).kind = "bool" /\ Set(k).n = 1
           /\ limit(given.entitlements, k)
                = IF Set(k).kind \in {"int", "whole"} THEN Set(k).n ELSE Absent

\* The 365-day ceiling of validate_at never fires behind verify_activation_at,
\* whose 90-day grace ceiling always fires first.
TooOldNeverRaised == CheckLicenseAt(entry, Machine, now) # "LicenseTooOld"

\* README.md:122: a token whose signatures do not hold, or that belongs to another
\* machine, never causes a network call, whatever else is wrong with it and
\* however long ago its chain lapsed.
OnlyOwnTokensRenewed ==
  StartsRenewal(entry, Machine, now)
    => Authentic(entry) /\ entry.token.mid = Machine

\* The end of a licence is told from its other ends.  check answers HardExpired, which
\* it passes on as LicenseExpiredError, exactly when the licence has ended and nothing
\* else is wrong with the entry: its end wins over the grace window, and an expired
\* cert wins over its end.  (README.md:324-326 and http.py:358 know nothing of the latter.)
HardExpiryReported ==
  CheckLicenseAt(entry, Machine, now) = "HardExpired"
    <=> /\ Authentic(entry) /\ Usable(entry, Machine)
        /\ ChainInDate(entry, now)
        /\ now > EndOf(entry.token)

\* Once check() finds that an entry has lapsed, no later check() of the same file
\* gives the licence out again, though its verdict may go on changing: only a
\* renewal or an activation can.
LapseIsFinal ==
  [](Lapsed(entry, Machine, now) => []~Accepted(entry, Machine, now))

\* _cache_holds answers the same for as long as the file does not change: a
\* background renewal still recognises the activation it renews however long
\* the cert chain has lapsed.
SignedStaysSigned ==
  [][ VerifyActivationAt(entry, now, TRUE) = "Ok"
        => VerifyActivationAt(entry, now, TRUE)' = "Ok" ]_vars

\* Until its submaster cert expires, or for ever when that cert is rooted in the
\* first root key, an entry this machine once accepted is at any later time
\* either accepted or in the hands of _renew_lapsed.
Recoverable(e, t) ==
  Accepted(e, Machine, t) \/ (Lapsed(e, Machine, t) /\ WorthRenewing(e, Machine, t))

RecoversUnlessSubmasterLapsed ==
  [][ /\ Recoverable(entry, now)
      /\ \/ entry.submaster.signedBy = MasterKeys[1]
         \/ ~Earlier(entry.submaster.exp, now')
      => Recoverable(entry, now)' ]_vars

\* This machine accepted the entry before, or does so now.
OnceAccepted == \E t \in 1..now : Accepted(entry, Machine, t)

\* README.md:116 and http.py:405: a token check() rejects only because time has
\* passed is renewed in the background, so every entry this machine once
\* accepted stays recoverable, whichever root key its chain goes back to.
RecoversByItself == OnceAccepted => Recoverable(entry, now)
=============================================================================
