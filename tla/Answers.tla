------------------------------- MODULE Answers -------------------------------
(***************************************************************************)
(* What http.py makes of one answer of the server: the error a call        *)
(* raises, by its class, or "Ok".  An answer has a status and, if its body *)
(* is JSON, a shape: an object or not, the token and the chain in it, and  *)
(* for the other calls whether the field they read is missing, of a wrong  *)
(* shape or good.  A chain is mistyped if it is no object, or if the cert  *)
(* that verification stops at is no string or has a header that is no      *)
(* object; a token that is a number stands for one that has no such header *)
(* either.                                                                 *)
(***************************************************************************)
EXTENDS Integers

Answer == [ status : Nat, json : BOOLEAN, object : BOOLEAN,
            token : {"none", "number", "text"},
            chain : {"none", "partial", "mistyped", "whole"},
            sound : BOOLEAN,                        \* the chain verifies and validates
            field : {"none", "mistyped", "good"} ]

\* errors.py: what the callers of Sdk are told to catch.
LatteErrors ==
  { "MachineIdError", "InvalidKeyError", "LicenseExpiredError", "NotActivatedError",
    "SeatLimitError", "LicenseNotFoundError", "InvalidProjectKeyError",
    "DeactivationBlockedError", "NetworkError", "ServerError" }

AppIdErrors ==
  { "InvalidAppIdFormatError", "UnknownEnvironmentError", "InvalidKeySegmentError",
    "InvalidChecksumError" }

\* Mutant: a full licence counts as one that is gone.
InvalidatingErrorsAndSeats ==
  {"LicenseNotFoundError", "LicenseExpiredError", "InvalidProjectKeyError", "SeatLimitError"}

InvalidatingErrors == {"LicenseNotFoundError", "LicenseExpiredError", "InvalidProjectKeyError"}

\* _decode
decode(a) ==
  IF a.status \in 200..299 THEN (IF a.json THEN "Ok" ELSE "ServerError")
  ELSE CASE a.status = 404 -> "LicenseNotFoundError"
         [] a.status = 403 -> "LicenseExpiredError"
         [] a.status = 409 -> "SeatLimitError"
         [] a.status = 401 -> "InvalidProjectKeyError"
         [] OTHER          -> "ServerError"

\* _post and _verify_and_validate.  Neither asks whether what it takes for an object
\* or for a string is one; the chain is verified before the token is looked into.
postOutcome(a) ==
  IF decode(a) # "Ok"                          THEN decode(a)
  ELSE IF ~a.object                            THEN "AttributeError"
  ELSE IF a.token = "none"                     THEN "ServerError"
  ELSE IF a.chain = "mistyped"                 THEN "AttributeError"
  ELSE IF a.chain \in {"none", "partial"}      THEN "ServerError"
  ELSE IF ~a.sound                             THEN "ServerError"
  ELSE IF a.token = "number"                   THEN "AttributeError"
  ELSE "Ok"

\* deactivate: 409 has a meaning of its own; the other errors are everyone's.
deactivateStatus(a) == IF a.status = 409 THEN "DeactivationBlockedError" ELSE decode(a)

\* What is wrong with the body is found when the cache has been cleared.  A missing
\* seat_free_at is none.
deactivateOutcome(a) ==
  IF deactivateStatus(a) # "Ok"             THEN deactivateStatus(a)
  ELSE IF ~a.object \/ a.field = "mistyped" THEN "ServerError"
  ELSE "Ok"

\* Mutant: machines catches no TypeError.
listOutcomeUncaught(a) ==
  IF decode(a) # "Ok"                         THEN decode(a)
  ELSE IF ~a.object \/ a.field = "mistyped"   THEN "TypeError"
  ELSE IF a.field = "none"                    THEN "ServerError"
  ELSE "Ok"

\* machines: the list is there, and every entry has its times.
listOutcome(a) ==
  IF decode(a) # "Ok"                     THEN decode(a)
  ELSE IF ~a.object \/ a.field # "good"   THEN "ServerError"
  ELSE "Ok"

\* rename_machine: any value of machine_name has a str.
renameOutcome(a) ==
  IF decode(a) # "Ok"                     THEN decode(a)
  ELSE IF ~a.object \/ a.field = "none"   THEN "ServerError"
  ELSE "Ok"
=============================================================================
