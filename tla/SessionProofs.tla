---------------------------- MODULE SessionProofs ----------------------------
(***************************************************************************)
(* Proofs about sessions, for every way of making an Sdk, every licence,   *)
(* every spelling of a key and every answer of the server.                 *)
(***************************************************************************)
EXTENDS Session, KeysProofs

-----------------------------------------------------------------------------
(* What the operators the calls are built from return. *)

StatusErrors == FromStatus \cup {"SeatLimitError"}

LEMMA DecodeRaises ==
  ASSUME NEW a
  PROVE  /\ decode(a) \in {"Ok", "ServerError", "LicenseNotFoundError", "LicenseExpiredError",
                           "SeatLimitError", "InvalidProjectKeyError"}
         /\ a.status = 409 => decode(a) = "SeatLimitError"
         /\ decode(a) = "SeatLimitError" => a.status = 409
         /\ decode(a) = "Ok" <=> a.status \in 200..299 /\ a.json
         /\ decode(a) \in InvalidatingErrors <=> a.status \in {401, 403, 404}
<1>1. /\ a.status = 404 => a.status \notin 200..299
      /\ a.status = 403 => a.status \notin 200..299
      /\ a.status = 409 => a.status \notin 200..299
      /\ a.status = 401 => a.status \notin 200..299
  OBVIOUS
<1>2. CASE a.status \in 200..299
  BY <1>1, <1>2 DEF decode, InvalidatingErrors
<1>3. CASE a.status \notin 200..299
  BY <1>3 DEF decode, InvalidatingErrors
<1>. QED BY <1>2, <1>3

\* activate and renew end as the status says, or have a 2xx whose body they fail on.
LEMMA PostRaises ==
  ASSUME NEW a
  PROVE  /\ postOutcome(a) \in {"Ok", "AttributeError"} \cup StatusErrors
         /\ postOutcome(a) = "AttributeError" => Misshapen(a)
         /\ postOutcome(a) \in InvalidatingErrors <=> a.status \in {401, 403, 404}
<1>1. CASE decode(a) # "Ok"
  BY <1>1, DecodeRaises DEF postOutcome, StatusErrors, FromStatus, InvalidatingErrors
<1>2. CASE decode(a) = "Ok"
  <2>1. a.status \in 200..299 /\ a.json /\ a.status \notin {401, 403, 404}
    BY <1>2, DecodeRaises DEF InvalidatingErrors
  <2>2. postOutcome(a) \in {"Ok", "AttributeError", "ServerError"}
    BY <1>2 DEF postOutcome
  <2>3. postOutcome(a) = "AttributeError" => ~a.object \/ a.chain = "mistyped" \/ a.token = "number"
    BY <1>2 DEF postOutcome
  <2>. QED BY <2>1, <2>2, <2>3 DEF Misshapen, StatusErrors, FromStatus, InvalidatingErrors
<1>. QED BY <1>1, <1>2

LEMMA DeactivateRaises ==
  ASSUME NEW a
  PROVE  /\ deactivateOutcome(a) \in {"Ok", "DeactivationBlockedError"} \cup FromStatus
         /\ deactivateStatus(a) = "Ok" <=> a.status \in 200..299 /\ a.json
<1>1. deactivateStatus(a) = "Ok" <=> decode(a) = "Ok"
  BY DecodeRaises DEF deactivateStatus
<1>2. deactivateStatus(a) \in {"Ok", "DeactivationBlockedError"} \cup FromStatus
  BY DecodeRaises DEF deactivateStatus, FromStatus
<1>3. deactivateOutcome(a) \in {"Ok", "DeactivationBlockedError"} \cup FromStatus
  BY <1>2 DEF deactivateOutcome, FromStatus
<1>. QED BY <1>1, <1>3, DecodeRaises

LEMMA ReportRaises ==
  ASSUME NEW a
  PROVE  listOutcome(a) \in {"Ok"} \cup StatusErrors /\ renameOutcome(a) \in {"Ok"} \cup StatusErrors
BY DecodeRaises DEF listOutcome, renameOutcome, StatusErrors, FromStatus

LEMMA ParseRaises ==
  ASSUME NEW appId
  PROVE  parseAppId(appId) \in {"Ok", "InvalidAppIdFormatError", "UnknownEnvironmentError",
                                "InvalidKeySegmentError", "InvalidChecksumError"}
BY DEF parseAppId

\* How a request for activate or a renewal ends: with an error that leaves or clears
\* the file, or with a token that was granted now.
LEMMA AnsweredCases ==
  ASSUME NEW op, NEW arg, NEW found, Answered(op, arg, found)
  PROVE  \E outcome \in {"Ok", "AttributeError"} \cup StatusErrors : \E answer, tok :
           /\ Settle(op, arg, answer, outcome, tok)
           /\ outcome = "Ok" => sdk.appId \in Registered /\ \E l \in found : tok = Grant(l)
           /\ answer = None => outcome = "NetworkError"
           /\ answer # None => outcome = postOutcome(answer)
<1>1. CASE Settle(op, arg, None, "NetworkError", None)
  <2>1. "NetworkError" \in {"Ok", "AttributeError"} \cup StatusErrors
    BY DEF StatusErrors, FromStatus
  <2>. QED BY <1>1, <2>1
<1>2. ASSUME NEW a \in Responses, postOutcome(a) # "Ok", Settle(op, arg, a, postOutcome(a), None)
      PROVE  \E outcome \in {"Ok", "AttributeError"} \cup StatusErrors : \E answer, tok :
               /\ Settle(op, arg, answer, outcome, tok)
               /\ outcome = "Ok" => sdk.appId \in Registered /\ \E l \in found : tok = Grant(l)
               /\ answer = None => outcome = "NetworkError"
               /\ answer # None => outcome = postOutcome(answer)
  <2>1. a # None
    BY SessionAssumption
  <2>. QED BY <1>2, <2>1, PostRaises
<1>3. ASSUME NEW a \in Responses, postOutcome(a) = "Ok", sdk.appId \in Registered,
             NEW l \in found, Settle(op, arg, a, "Ok", Grant(l))
      PROVE  \E outcome \in {"Ok", "AttributeError"} \cup StatusErrors : \E answer, tok :
               /\ Settle(op, arg, answer, outcome, tok)
               /\ outcome = "Ok" => sdk.appId \in Registered /\ \E k \in found : tok = Grant(k)
               /\ answer = None => outcome = "NetworkError"
               /\ answer # None => outcome = postOutcome(answer)
  <2>1. a # None
    BY SessionAssumption
  <2>. QED BY <1>3, <2>1
<1>. QED BY <1>1, <1>2, <1>3 DEF Answered

\* What a settled request leaves behind.
LEMMA SettleEffect ==
  ASSUME NEW op, NEW arg, NEW answer, NEW outcome, NEW tok, Settle(op, arg, answer, outcome, tok)
  PROVE  /\ sdk' = sdk
         /\ last' = [op |-> op, arg |-> arg, sent |-> TRUE, answer |-> answer,
                     result |-> Raised(op, outcome), token |-> tok]
         /\ outcome = "Ok" => Store(tok)
         /\ outcome \in InvalidatingErrors => Store(None)
         /\ outcome \notin {"Ok"} \cup InvalidatingErrors => disk' = disk
BY DEF Settle, Record, InvalidatingErrors

\* A success and a verdict are reported as they are.
LEMMA RaisedIs ==
  ASSUME NEW op, NEW outcome
  PROVE  /\ outcome \in {"Ok"} \cup InvalidatingErrors => Raised(op, outcome) = outcome
         /\ \/ Raised(op, outcome) = outcome
            \/ /\ Raised(op, outcome) = "AttributeError" /\ op = "renew" /\ Headless(Cached)
               /\ outcome \notin {"Ok"} \cup InvalidatingErrors
         /\ Raised(op, outcome) = "Ok" => outcome = "Ok"
BY DEF Raised

\* The steps that are no call: the files may age, the rest is forgotten.
LEMMA QuietSteps ==
  ASSUME Exit \/ Seen \/ \E path \in Paths : Age(path)
  PROVE  last' = NoCall
BY DEF Exit, Seen, Ready, Age

\* check by its outcomes.
LEMMA LocalCheck ==
  ASSUME Check
  PROVE  /\ sdk # None
         /\ \E result, tok :
              /\ Locally("check", None, result, tok)
              /\ result \in {"Ok", "LicenseExpiredError", "NotActivatedError"}
                   \/ (result = "AttributeError" /\ Headless(Cached))
              /\ result = "Ok" => Usable(Cached) /\ tok = Cached
              /\ result = "LicenseExpiredError" <=>
                   ~Headless(Cached) /\ ~Usable(Cached) /\ Renewable(Cached) /\ Cached.state = "ended"
<1>1. CASE Headless(Cached) /\ Locally("check", None, "AttributeError", None)
  BY <1>1 DEF Check, Ready
<1>2. CASE ~Headless(Cached) /\ Usable(Cached) /\ Locally("check", None, "Ok", Cached)
  BY <1>2 DEF Check, Ready
<1>3. CASE /\ ~Headless(Cached) /\ ~Usable(Cached) /\ Renewable(Cached) /\ Cached.state = "ended"
           /\ Locally("check", None, "LicenseExpiredError", None)
  BY <1>3 DEF Check, Ready
<1>4. CASE /\ ~Headless(Cached) /\ ~Usable(Cached) /\ ~(Renewable(Cached) /\ Cached.state = "ended")
           /\ Locally("check", None, "NotActivatedError", None)
  BY <1>4 DEF Check, Ready
<1>. QED BY <1>1, <1>2, <1>3, <1>4 DEF Check

\* The calls that end without a request, and those that change nothing.
LEMMA SilentCalls ==
  ASSUME Machines \/ RenameMachine \/ Check
  PROVE  /\ UNCHANGED <<sdk, disk>> /\ sdk # None
         /\ last'.op \in {"machines", "rename_machine", "check"}
BY DEF Machines, RenameMachine, Report, Check, Locally, Ready, Record

\* Which call a step belongs to.
LEMMA OtherCalls ==
  ASSUME [Next]_vars
  PROVE  /\ \/ \E launch \in Launches : Construct(launch)
            \/ last'.op # "construct"
            \/ UNCHANGED vars
         /\ Background \/ last'.op # "background" \/ UNCHANGED vars
         /\ \/ \E typed \in Typed : Activate(typed)
            \/ last'.op # "activate"
            \/ UNCHANGED vars
<1>1. CASE Exit \/ Seen \/ \E path \in Paths : Age(path)
  BY <1>1, QuietSteps DEF NoCall
<1>2. ASSUME NEW op, NEW arg, NEW found, Answered(op, arg, found) PROVE last'.op = op
  BY <1>2, AnsweredCases, SettleEffect
<1>3. ASSUME NEW typed, Activate(typed) PROVE last'.op = "activate"
  BY <1>2, <1>3 DEF Activate, Locally, Record
<1>4. ASSUME NEW l, Renew(l) \/ Deactivate(l) PROVE last'.op \in {"renew", "deactivate"}
  BY <1>2, <1>4 DEF Renew, Deactivate, Record
<1>5. CASE Background
  BY <1>2, <1>5 DEF Background
<1>6. ASSUME NEW launch, Construct(launch) PROVE last'.op = "construct"
  BY <1>6 DEF Construct
<1>. QED BY <1>1, <1>3, <1>4, <1>5, <1>6, SilentCalls DEF Next

-----------------------------------------------------------------------------
(* What the constructor reads *)

\* The sources are two readings.
LEMMA TwoSources ==
  ASSUME NEW sources \in Readings \X Readings
  PROVE  sources = <<sources[1], sources[2]>> /\ sources[1] \in Readings /\ sources[2] \in Readings
         /\ DOMAIN sources = 1..2
OBVIOUS

Silent(r) == r \in {"", Unreadable}

\* What readFirstFile makes of one file, and of two.
LEMMA OneFile ==
  ASSUME NEW r \in Readings
  PROVE  readFirstFile(<<r>>) = r
<1>. DEFINE s == <<r>>
            decisive == { i \in DOMAIN s : s[i] \notin {"", Unreadable} }
<1>1. DOMAIN s = {1} /\ s[1] = r
  OBVIOUS
<1>2. readFirstFile(s) = IF decisive # {} THEN s[FirstOf(decisive)]
                         ELSE IF \E i \in DOMAIN s : s[i] = Unreadable THEN Unreadable ELSE ""
  BY DEF readFirstFile
<1>3. CASE r \notin {"", Unreadable}
  <2>1. decisive = {1}
    BY <1>1, <1>3
  <2>2. FirstOf({1}) = 1
    BY DEF FirstOf
  <2>. QED BY <1>1, <1>2, <2>1, <2>2
<1>4. CASE r \in {"", Unreadable}
  <2>1. decisive = {}
    BY <1>1, <1>4
  <2>. QED BY <1>1, <1>2, <1>4, <2>1
<1>. QED BY <1>3, <1>4

LEMMA TwoFiles ==
  ASSUME NEW s \in Readings \X Readings
  PROVE  readFirstFile(s) = IF ~Silent(s[1]) THEN s[1]
                            ELSE IF ~Silent(s[2]) THEN s[2]
                            ELSE IF s[1] = Unreadable \/ s[2] = Unreadable THEN Unreadable ELSE ""
<1>. DEFINE decisive == { i \in DOMAIN s : s[i] \notin {"", Unreadable} }
<1>1. DOMAIN s = {1, 2}
  OBVIOUS
<1>2. readFirstFile(s) = IF decisive # {} THEN s[FirstOf(decisive)]
                         ELSE IF \E i \in DOMAIN s : s[i] = Unreadable THEN Unreadable ELSE ""
  BY DEF readFirstFile
<1>3. FirstOf({1}) = 1 /\ FirstOf({2}) = 2 /\ FirstOf({1, 2}) = 1
  <2>1. FirstOf({1}) = 1 /\ FirstOf({2}) = 2
    BY DEF FirstOf
  <2>2. \A i \in {1, 2} : (\A j \in {1, 2} : i <= j) => i = 1
    OBVIOUS
  <2>3. 1 \in {1, 2} /\ \A j \in {1, 2} : 1 <= j
    OBVIOUS
  <2>. QED BY <2>1, <2>2, <2>3 DEF FirstOf
<1>4. CASE ~Silent(s[1])
  <2>1. decisive = {1} \/ decisive = {1, 2}
    BY <1>1, <1>4 DEF Silent
  <2>. QED BY <1>2, <1>3, <1>4, <2>1
<1>5. CASE Silent(s[1]) /\ ~Silent(s[2])
  <2>1. decisive = {2}
    BY <1>1, <1>5 DEF Silent
  <2>. QED BY <1>2, <1>3, <1>5, <2>1
<1>6. CASE Silent(s[1]) /\ Silent(s[2])
  <2>1. decisive = {}
    BY <1>1, <1>6 DEF Silent
  <2>. QED BY <1>1, <1>2, <1>6, <2>1
<1>. QED BY <1>4, <1>5, <1>6

\* A reading that is not silent and no text is a raw ID.
LEMMA RawReading ==
  ASSUME NEW r \in Readings
  PROVE  /\ ~Silent(r) /\ r # Garbled => r \in RawIds
         /\ r \in RawIds => ~Silent(r) /\ r # Garbled
BY MachineIdAssumption DEF Readings, Silent

LEMMA ReadIsReading ==
  ASSUME NEW platform, NEW sources \in Readings \X Readings
  PROVE  readRaw(platform, sources) \in Readings
<1>1. sources[1] \in Readings /\ sources[2] \in Readings
  BY TwoSources
<1>2. readFirstFile(sources) \in Readings
  BY <1>1, TwoFiles DEF Readings
<1>3. Unreadable \in Readings
  BY DEF Readings
<1>. QED BY <1>1, <1>2, <1>3 DEF readRaw

LEMMA ReadGivesRawId ==
  ASSUME NEW platform, NEW sources \in Readings \X Readings,
         readPlatformId(platform, sources).error = "Ok"
  PROVE  readPlatformId(platform, sources).raw \in RawIds
<1>. DEFINE raw == readRaw(platform, sources)
<1>1. raw \in Readings
  BY ReadIsReading
<1>. HIDE DEF raw
<1>2. ~Silent(raw) /\ raw # Garbled /\ readPlatformId(platform, sources).raw = raw
  BY DEF readPlatformId, Silent, raw
<1>. QED BY <1>1, <1>2, RawReading

-----------------------------------------------------------------------------
(* Types and the cache file *)

\* An Sdk works on one of the files and sends the ID derived from its raw ID and its
\* App ID; a file holds nothing but tokens the server has granted to such IDs.
Granted ==
  /\ DOMAIN disk = Paths
  /\ sdk # None => Path \in Paths /\ sdk.mid = protectedId(sdk.raw, sdk.appId)
  /\ \A path \in Paths :
       disk[path] # None => disk[path].mid = protectedId(disk[path].forRaw, disk[path].forApp)
  /\ OwnLicenceOnly

\* The parts of SessionTypeOK.
ResultOK == last.result \in {"none", "Ok", "AttributeError", "UnicodeDecodeError"}
                              \cup LatteErrors \cup AppIdErrors
SdkOK   == sdk # None => sdk \in Objects /\ parseAppId(sdk.appId) = "Ok"
FilesOK == \A path \in Paths :
             disk[path] # None => disk[path] \in Tokens /\ disk[path].forApp.key = path

LEMMA IdIsInjective ==
  ASSUME NEW r, NEW a, NEW q, NEW b, protectedId(r, a) = protectedId(q, b)
  PROVE  r = q /\ a = b
<1>1. protectedId(r, a).raw = r /\ protectedId(r, a).appId = a
  BY DEF protectedId
<1>2. protectedId(q, b).raw = q /\ protectedId(q, b).appId = b
  BY DEF protectedId
<1>. QED BY <1>1, <1>2

\* The file after a Store.
LEMMA StoreEffect ==
  ASSUME Granted, sdk # None, NEW tok, Store(tok)
  PROVE  /\ DOMAIN disk' = Paths
         /\ sdk.cache => disk'[Path] = tok
         /\ ~sdk.cache => disk' = disk
         /\ \A path \in Paths \ {Path} : disk'[path] = disk[path]
BY DEF Granted, Store

\* A token that has aged is still the token that was granted.
LEMMA AgeEffect ==
  ASSUME Granted, FilesOK, NEW path \in Paths, Age(path)
  PROVE  /\ sdk' = sdk /\ last' = last /\ DOMAIN disk' = Paths
         /\ \A p \in Paths \ {path} : disk'[p] = disk[p]
         /\ disk[path] # None /\ disk'[path] \in Tokens
         /\ disk'[path].mid = disk[path].mid
         /\ disk'[path].forRaw = disk[path].forRaw /\ disk'[path].forApp = disk[path].forApp
<1>1. PICK state \in States : disk' = [disk EXCEPT ![path].state = state]
  BY DEF Age
<1>. DEFINE tok == disk[path]
<1>2. /\ DOMAIN disk = Paths /\ tok # None /\ sdk' = sdk /\ last' = last
  BY DEF Granted, Age
<1>3. disk'[path] = [tok EXCEPT !.state = state] /\ DOMAIN disk' = Paths
      /\ \A p \in Paths \ {path} : disk'[p] = disk[p]
  BY <1>1, <1>2
<1>4. tok \in Tokens
  BY <1>2 DEF FilesOK
<1>. HIDE DEF tok
<1>5. [tok EXCEPT !.state = state] \in Tokens
      /\ [tok EXCEPT !.state = state].mid = tok.mid
      /\ [tok EXCEPT !.state = state].forRaw = tok.forRaw
      /\ [tok EXCEPT !.state = state].forApp = tok.forApp
  BY <1>4 DEF Tokens
<1>. QED BY <1>2, <1>3, <1>5 DEF tok

\* What Construct makes of the machine ID.
IdOf(launch) == IF launch.id # "" THEN [error |-> "Ok", raw |-> launch.id]
                ELSE readPlatformId(launch.platform, launch.sources)

LEMMA ConstructEffect ==
  ASSUME NEW launch \in Launches, Construct(launch)
  PROVE  /\ sdk = None /\ UNCHANGED disk
         /\ last'.op = "construct" /\ last'.launch = launch
         /\ parseAppId(launch.appId) # "Ok" => sdk' = None /\ last'.result = parseAppId(launch.appId)
         /\ parseAppId(launch.appId) = "Ok" => last'.result = IdOf(launch).error
         /\ IdOf(launch).error # "Ok" => sdk' = None
         /\ parseAppId(launch.appId) = "Ok" /\ IdOf(launch).error = "Ok" =>
              /\ sdk' = [ appId |-> launch.appId, raw |-> IdOf(launch).raw, cache |-> launch.cache,
                          mid |-> protectedId(IdOf(launch).raw, launch.appId) ]
<1>. DEFINE app == parseAppId(launch.appId)
            id  == IdOf(launch)
            result == IF app # "Ok" THEN app ELSE id.error
<1>1. /\ sdk = None /\ UNCHANGED disk
      /\ sdk' = IF result # "Ok" THEN None
                ELSE [ appId |-> launch.appId, raw |-> id.raw, cache |-> launch.cache,
                       mid |-> protectedId(id.raw, launch.appId) ]
      /\ last' = [op |-> "construct", launch |-> launch, result |-> result]
  BY DEF Construct, IdOf
<1>. HIDE DEF app, id
<1>. QED BY <1>1 DEF app, id

LEMMA LaunchId ==
  ASSUME NEW launch \in Launches, IdOf(launch).error = "Ok"
  PROVE  IdOf(launch).raw \in RawIds
<1>1. launch.id \in RawIds \cup {""} /\ launch.sources \in Readings \X Readings
  BY SessionAssumption
<1>2. CASE launch.id # ""
  BY <1>1, <1>2 DEF IdOf
<1>3. CASE launch.id = ""
  <2>1. IdOf(launch) = readPlatformId(launch.platform, launch.sources)
    BY <1>3 DEF IdOf
  <2>. QED BY <1>1, <2>1, ReadGivesRawId
<1>. QED BY <1>2, <1>3

LEMMA ConstructGives ==
  ASSUME NEW launch \in Launches, Construct(launch),
         parseAppId(launch.appId) = "Ok", IdOf(launch).error = "Ok"
  PROVE  sdk' \in Objects /\ sdk' # None /\ sdk'.appId = launch.appId
<1>. DEFINE id == IdOf(launch)
<1>1. sdk' = [ appId |-> launch.appId, raw |-> id.raw, cache |-> launch.cache,
               mid |-> protectedId(id.raw, launch.appId) ]
  BY ConstructEffect
<1>2. id.raw \in RawIds /\ launch.cache \in BOOLEAN
  BY LaunchId, SessionAssumption
<1>. HIDE DEF id
<1>3. protectedId(id.raw, launch.appId) \in Ids
  BY <1>2 DEF Ids
<1>4. sdk' \in Objects
  BY <1>1, <1>2, <1>3 DEF Objects
<1>. QED BY <1>1, <1>4, SessionAssumption

LEMMA GrantIsToken ==
  ASSUME sdk \in Objects, sdk.appId \in Registered, NEW l \in Licences
  PROVE  Grant(l) \in Tokens /\ Grant(l) # None /\ Grant(l).forApp.key = Path
<1>1. sdk.mid \in Ids /\ sdk.raw \in RawIds
  BY DEF Objects
<1>2. Grant(l) \in Tokens
  BY <1>1 DEF Grant, Tokens, States
<1>3. Grant(l).forApp.key = Path
  BY DEF Grant, Path
<1>. QED BY <1>2, <1>3, SessionAssumption

\* The licence of a renewal that check has started.
LEMMA RenewableLicence ==
  ASSUME Granted, FilesOK, sdk # None, Renewable(Cached)
  PROVE  Cached.licence \in Licences
<1>1. Cached # None /\ Cached = disk[Path] /\ Path \in Paths
  BY DEF Renewable, Cached, Granted
<1>2. Cached \in Tokens
  BY <1>1 DEF FilesOK
<1>. QED BY <1>2 DEF Tokens

\* Nothing but a token for a registered App ID gets into the file of that App ID, and
\* it carries the ID the Sdk has sent.
LEMMA AnsweredFiles ==
  ASSUME Granted, SdkOK, FilesOK, sdk # None, NEW op, NEW arg, NEW found \in SUBSET Licences,
         Answered(op, arg, found)
  PROVE  FilesOK' /\ Granted' /\ sdk' = sdk /\ last'.op = op
<1>1. PICK outcome, answer, tok :
        /\ Settle(op, arg, answer, outcome, tok)
        /\ outcome = "Ok" => sdk.appId \in Registered /\ \E l \in found : tok = Grant(l)
  BY AnsweredCases
<1>2. /\ sdk' = sdk /\ last'.op = op /\ last'.result = Raised(op, outcome) /\ last'.token = tok
  BY <1>1, SettleEffect
<1>3. UNCHANGED disk \/ Store(None) \/ (outcome = "Ok" /\ Store(tok))
  BY <1>1, SettleEffect
<1>4. outcome = "Ok" =>
        /\ tok \in Tokens /\ tok.forApp.key = Path
        /\ tok.mid = protectedId(sdk.raw, sdk.appId) /\ tok.forRaw = sdk.raw /\ tok.forApp = sdk.appId
  <2>1. SUFFICES ASSUME outcome = "Ok"
                 PROVE  /\ tok \in Tokens /\ tok.forApp.key = Path
                        /\ tok.mid = protectedId(sdk.raw, sdk.appId)
                        /\ tok.forRaw = sdk.raw /\ tok.forApp = sdk.appId
    OBVIOUS
  <2>2. PICK l \in Licences : tok = Grant(l)
    BY <1>1, <2>1
  <2>3. tok \in Tokens /\ tok.forApp.key = Path
    BY <1>1, <2>1, <2>2, GrantIsToken DEF SdkOK
  <2>4. tok.mid = sdk.mid /\ tok.forRaw = sdk.raw /\ tok.forApp = sdk.appId
    BY <2>2 DEF Grant
  <2>. QED BY <2>3, <2>4 DEF Granted
<1>5. /\ DOMAIN disk' = Paths
      /\ \A path \in Paths :
           disk'[path] = disk[path] \/ disk'[path] = None \/ (outcome = "Ok" /\ path = Path /\ disk'[path] = tok)
  <2>1. CASE UNCHANGED disk
    BY <2>1 DEF Granted
  <2>2. CASE Store(None)
    BY <2>2, StoreEffect
  <2>3. CASE outcome = "Ok" /\ Store(tok)
    BY <2>3, StoreEffect
  <2>. QED BY <1>3, <2>1, <2>2, <2>3
<1>6. FilesOK'
  BY <1>4, <1>5 DEF FilesOK
<1>7. \A path \in Paths :
        disk'[path] # None => disk'[path].mid = protectedId(disk'[path].forRaw, disk'[path].forApp)
  BY <1>4, <1>5 DEF Granted
<1>8. OwnLicenceOnly'
  <2>1. last'.result = "Ok" => outcome = "Ok"
    BY <1>2, RaisedIs
  <2>. QED BY <1>2, <1>4, <2>1 DEF OwnLicenceOnly
<1>9. Path' = Path
  BY <1>2 DEF Path
<1>. QED BY <1>2, <1>5, <1>6, <1>7, <1>8, <1>9 DEF Granted

\* A token in the file was granted to this machine ID and this App ID exactly if it
\* carries the ID of this Sdk.
LEMMA OwnIs ==
  ASSUME Granted, sdk # None, disk[Path] # None
  PROVE  disk[Path].mid = sdk.mid <=> disk[Path].forRaw = sdk.raw /\ disk[Path].forApp = sdk.appId
<1>1. Path \in Paths /\ sdk.mid = protectedId(sdk.raw, sdk.appId)
  BY DEF Granted
<1>2. disk[Path].mid = protectedId(disk[Path].forRaw, disk[Path].forApp)
  BY <1>1 DEF Granted
<1>. QED BY <1>1, <1>2, IdIsInjective

LEMMA CachedIs ==
  ASSUME sdk # None
  PROVE  /\ Cached # None <=> sdk.cache /\ disk[Path] # None
         /\ Cached # None => Cached = disk[Path]
BY DEF Cached

\* A call that ends without a request returns nothing or what the file holds.
LEMMA LocalCall ==
  ASSUME Granted, sdk # None, NEW op, NEW arg, NEW result, NEW tok, Locally(op, arg, result, tok),
         result = "Ok" => Usable(Cached) /\ tok = Cached
  PROVE  Granted'
<1>1. sdk' = sdk /\ disk' = disk /\ last'.result = result /\ last'.token = tok
  BY DEF Locally, Record
<1>2. result = "Ok" => tok.forRaw = sdk.raw /\ tok.forApp = sdk.appId
  BY CachedIs, OwnIs DEF Usable
<1>3. Path' = Path
  BY <1>1 DEF Path
<1>. QED BY <1>1, <1>2, <1>3 DEF Granted, OwnLicenceOnly

NoCallYet == last.op = "none" => last.result = "none"

LEMMA NextTypes ==
  ASSUME Granted, SdkOK, FilesOK, NoCallYet, [Next]_vars
  PROVE  Granted' /\ SdkOK' /\ FilesOK' /\ NoCallYet'
<1>. DEFINE Good == Granted' /\ SdkOK' /\ FilesOK' /\ NoCallYet'
<1>1. ASSUME NEW launch \in Launches, Construct(launch) PROVE Good
  <2>1. UNCHANGED disk /\ last'.op = "construct"
    BY <1>1, ConstructEffect
  <2>2. FilesOK' /\ NoCallYet'
    BY <2>1 DEF FilesOK, NoCallYet
  <2>3. ASSUME sdk' # None
        PROVE  /\ sdk' \in Objects /\ parseAppId(sdk'.appId) = "Ok" /\ Path' \in Paths
               /\ sdk'.mid = protectedId(sdk'.raw, sdk'.appId)
    <3>1. parseAppId(launch.appId) = "Ok" /\ IdOf(launch).error = "Ok"
      BY <1>1, <2>3, ConstructEffect
    <3>2. sdk' \in Objects /\ sdk'.appId = launch.appId
      BY <1>1, <3>1, ConstructGives
    <3>3. Path' \in Paths
      BY <3>1, <3>2 DEF Path, Paths
    <3>4. sdk'.mid = protectedId(sdk'.raw, sdk'.appId)
      <4>. DEFINE id == IdOf(launch)
      <4>1. sdk' = [ appId |-> launch.appId, raw |-> id.raw, cache |-> launch.cache,
                     mid |-> protectedId(id.raw, launch.appId) ]
        BY <1>1, <3>1, ConstructEffect
      <4>. HIDE DEF id
      <4>. QED BY <4>1
    <3>. QED BY <3>1, <3>2, <3>3, <3>4
  <2>. QED BY <2>1, <2>2, <2>3 DEF Granted, OwnLicenceOnly, SdkOK
<1>2. CASE Exit
  BY <1>2 DEF Exit, Ready, NoCall, Granted, OwnLicenceOnly, SdkOK, FilesOK, NoCallYet
<1>3. CASE Seen
  <2>1. Path' = Path
    BY <1>3 DEF Seen, Path
  <2>. QED BY <1>3, <2>1 DEF Seen, NoCall, Granted, OwnLicenceOnly, SdkOK, FilesOK, NoCallYet
<1>4. ASSUME NEW path \in Paths, Age(path) PROVE Good
  <2>1. Path' = Path /\ last' = last /\ sdk' = sdk
    BY <1>4, AgeEffect DEF Path
  <2>2. FilesOK'
    BY <1>4, AgeEffect DEF FilesOK
  <2>3. Granted'
    BY <1>4, <2>1, AgeEffect DEF Granted, OwnLicenceOnly
  <2>. QED BY <2>1, <2>2, <2>3 DEF SdkOK, NoCallYet
<1>5. ASSUME NEW op \in {"activate", "renew", "background"}, NEW arg, NEW found \in SUBSET Licences,
             sdk # None, Answered(op, arg, found)
      PROVE  Good
  BY <1>5, AnsweredFiles DEF SdkOK, NoCallYet
<1>6. ASSUME NEW op \in {"activate", "check"}, NEW arg, NEW result, NEW tok, sdk # None,
             Locally(op, arg, result, tok), result = "Ok" => Usable(Cached) /\ tok = Cached
      PROVE  Good
  <2>1. sdk' = sdk /\ disk' = disk /\ last'.op = op
    BY <1>6 DEF Locally, Record
  <2>. QED BY <1>6, <2>1, LocalCall DEF SdkOK, FilesOK, NoCallYet
<1>. HIDE DEF Good
<1>7. ASSUME NEW typed, Activate(typed) PROVE Good
  <2>1. Found(typed) \in SUBSET Licences
    BY DEF Found
  <2>. QED BY <1>5, <1>6, <1>7, <2>1 DEF Activate, Ready
<1>8. ASSUME NEW l \in Licences, Renew(l) PROVE Good
  BY <1>5, <1>8 DEF Renew, Ready
<1>9. CASE Background
  <2>1. sdk # None /\ {Cached.licence} \in SUBSET Licences /\ Answered("background", None, {Cached.licence})
    BY <1>9, RenewableLicence DEF Background
  <2>2. "background" \in {"activate", "renew", "background"}
    OBVIOUS
  <2>. QED BY Zenon, <1>5, <2>1, <2>2 DEF Good
<1>10. CASE Check
  <2>1. PICK result, tok : /\ sdk # None /\ Locally("check", None, result, tok)
                           /\ result = "Ok" => Usable(Cached) /\ tok = Cached
    BY <1>10, LocalCheck
  <2>2. "check" \in {"activate", "check"}
    OBVIOUS
  <2>. QED BY Zenon, <1>6, <2>1, <2>2 DEF Good
<1>11. ASSUME NEW l, Deactivate(l) PROVE Good
  <2>1. sdk' = sdk /\ sdk # None /\ last'.op = "deactivate" /\ Path' = Path
    BY <1>11 DEF Deactivate, Ready, Record, Path
  <2>2. UNCHANGED disk \/ Store(None)
    BY <1>11 DEF Deactivate
  <2>3. DOMAIN disk' = Paths /\ \A path \in Paths : disk'[path] = disk[path] \/ disk'[path] = None
    <3>1. CASE UNCHANGED disk
      BY <3>1 DEF Granted
    <3>2. CASE Store(None)
      BY <2>1, <3>2, StoreEffect
    <3>. QED BY <2>2, <3>1, <3>2
  <2>. QED BY <2>1, <2>3 DEF Good, Granted, OwnLicenceOnly, SdkOK, FilesOK, NoCallYet
<1>12. CASE Machines \/ RenameMachine
  <2>1. sdk' = sdk /\ disk' = disk /\ Path' = Path /\ last'.op \in {"machines", "rename_machine"}
    BY <1>12 DEF Machines, RenameMachine, Report, Record, Path
  <2>. QED BY <2>1 DEF Good, Granted, OwnLicenceOnly, SdkOK, FilesOK, NoCallYet
<1>13. CASE UNCHANGED vars
  <2>1. Path' = Path
    BY <1>13 DEF vars, Path
  <2>. QED BY <1>13, <2>1 DEF Good, vars, Granted, OwnLicenceOnly, SdkOK, FilesOK, NoCallYet
<1>. QED BY <1>1, <1>2, <1>3, <1>4, <1>7, <1>8, <1>9, <1>10, <1>11, <1>12, <1>13 DEF Next, Good

LEMMA InitTypes == Init => Granted /\ SdkOK /\ FilesOK /\ NoCallYet
BY DEF Init, NoCall, Granted, OwnLicenceOnly, SdkOK, FilesOK, NoCallYet

\* http.py:225: a licence that check or activate returns was granted to this very raw
\* machine ID and this very App ID, also when two App IDs share a cache file and the
\* machine has changed its ID since.
THEOREM OwnLicenceHolds == Spec => []OwnLicenceOnly
<1>1. Granted => OwnLicenceOnly
  BY DEF Granted
<1>. QED BY <1>1, InitTypes, NextTypes, PTL DEF Spec

-----------------------------------------------------------------------------
(* Errors *)

\* The constructor lets UnicodeDecodeError out only if a source is no UTF-8.
LEMMA ReadRaises ==
  ASSUME NEW platform, NEW sources \in Readings \X Readings
  PROVE  /\ readPlatformId(platform, sources).error \in {"Ok", "MachineIdError", "UnicodeDecodeError"}
         /\ readPlatformId(platform, sources).error = "UnicodeDecodeError" =>
              \E i \in {1, 2} : sources[i] = Garbled
<1>. DEFINE raw == readRaw(platform, sources)
<1>1. raw \in {sources[1], sources[2], Unreadable, ""}
  <2>1. sources[1] \in Readings
    BY TwoSources
  <2>2. readFirstFile(sources) \in {sources[1], sources[2], Unreadable, ""}
    BY TwoFiles
  <2>. QED BY <2>1, <2>2, OneFile DEF readRaw
<1>2. Garbled \notin {Unreadable, ""}
  BY DEF Garbled, Unreadable
<1>. HIDE DEF raw
<1>3. /\ readPlatformId(platform, sources).error \in {"Ok", "MachineIdError", "UnicodeDecodeError"}
      /\ readPlatformId(platform, sources).error = "UnicodeDecodeError" => raw = Garbled
  BY DEF readPlatformId, raw
<1>. QED BY <1>1, <1>2, <1>3

\* What ErrorsDocumented says of the call that has just ended.
AsDocumented ==
  \/ last.result \in {"Ok"} \cup Documented(last.op)
  \/ /\ last.result = "UnicodeDecodeError" /\ last.op = "construct"
     /\ last.launch.id = "" /\ \E i \in {1, 2} : last.launch.sources[i] = Garbled
  \/ /\ last.result = "AttributeError" /\ last.op \in {"activate", "renew"}
     /\ last.answer # None /\ Misshapen(last.answer)
  \/ /\ last.result = "AttributeError" /\ last.op \in {"activate", "renew", "check"}
     /\ sdk.cache /\ disk[Path] # None /\ disk[Path].state = "headless"
EndTold ==
  last.op = "check" =>
    ( last.result = "LicenseExpiredError" <=>
        /\ sdk.cache /\ disk[Path] # None /\ disk[Path].state = "ended"
        /\ disk[Path].forRaw = sdk.raw /\ disk[Path].forApp = sdk.appId )

LEMMA ErrorsAre == ErrorsDocumented <=> (last.op \notin {"none", "background"} => AsDocumented /\ EndTold)
BY Zenon DEF ErrorsDocumented, AsDocumented, EndTold

LEMMA NextErrors ==
  ASSUME ErrorsDocumented, Granted, [Next]_vars
  PROVE  ErrorsDocumented'
<1>0. SUFFICES ASSUME last'.op \notin {"none", "background"} PROVE AsDocumented' /\ EndTold'
  BY Zenon DEF ErrorsDocumented, AsDocumented, EndTold
<1>1. ASSUME NEW launch \in Launches, Construct(launch) PROVE AsDocumented' /\ EndTold'
  <2>1. /\ last'.op = "construct" /\ last'.launch = launch
        /\ parseAppId(launch.appId) # "Ok" => last'.result = parseAppId(launch.appId)
        /\ parseAppId(launch.appId) = "Ok" => last'.result = IdOf(launch).error
    BY <1>1, ConstructEffect
  <2>2. \/ IdOf(launch).error \in {"Ok", "MachineIdError"}
        \/ /\ IdOf(launch).error = "UnicodeDecodeError" /\ launch.id = ""
           /\ \E i \in {1, 2} : launch.sources[i] = Garbled
    <3>1. launch.sources \in Readings \X Readings
      BY SessionAssumption
    <3>. QED BY <3>1, ReadRaises DEF IdOf
  <2>3. parseAppId(launch.appId) \in {"Ok"} \cup AppIdErrors
    BY ParseRaises DEF AppIdErrors
  <2>. QED BY <2>1, <2>2, <2>3 DEF AsDocumented, EndTold, Documented
<1>2. CASE Exit \/ Seen \/ \E path \in Paths : Age(path)
  BY <1>0, <1>2, QuietSteps DEF NoCall
<1>3. ASSUME NEW op \in {"activate", "renew"}, NEW arg, NEW found, sdk # None, Answered(op, arg, found)
      PROVE  AsDocumented' /\ EndTold'
  <2>1. PICK outcome \in {"Ok", "AttributeError"} \cup StatusErrors : \E answer, tok :
          /\ Settle(op, arg, answer, outcome, tok)
          /\ answer = None => outcome = "NetworkError"
          /\ answer # None => outcome = postOutcome(answer)
    BY <1>3, AnsweredCases
  <2>2. PICK answer, tok :
          /\ Settle(op, arg, answer, outcome, tok)
          /\ answer = None => outcome = "NetworkError"
          /\ answer # None => outcome = postOutcome(answer)
    BY <2>1
  <2>3. /\ last'.op = op /\ last'.answer = answer /\ last'.result = Raised(op, outcome) /\ sdk' = sdk
        /\ outcome \notin {"Ok"} \cup InvalidatingErrors => disk' = disk
    BY <2>2, SettleEffect
  <2>4. EndTold'
    BY <2>3 DEF EndTold
  <2>5. CASE Raised(op, outcome) = outcome /\ outcome # "AttributeError"
    <3>1. last'.result = outcome /\ last'.op = op
      BY <2>3, <2>5
    <3>2. outcome \in {"Ok"} \cup Documented(op)
      BY <2>5 DEF Documented, StatusErrors
    <3>. QED BY <2>4, <3>1, <3>2 DEF AsDocumented
  <2>6. CASE Raised(op, outcome) = outcome /\ outcome = "AttributeError"
    <3>1. answer # None /\ Misshapen(answer)
      BY <2>2, <2>6, PostRaises
    <3>2. last'.op = op /\ last'.answer = answer /\ last'.result = "AttributeError"
      BY <2>3, <2>6
    <3>. QED BY <2>4, <3>1, <3>2 DEF AsDocumented
  <2>7. CASE /\ Raised(op, outcome) = "AttributeError" /\ Headless(Cached)
             /\ outcome \notin {"Ok"} \cup InvalidatingErrors
    <3>1. sdk.cache /\ disk[Path] # None /\ disk[Path].state = "headless"
      BY <1>3, <2>7, CachedIs DEF Headless
    <3>2. Path' = Path /\ disk' = disk /\ sdk' = sdk
      BY <2>3, <2>7 DEF Path
    <3>3. last'.op = op /\ last'.result = "AttributeError"
      BY <2>3, <2>7
    <3>. QED BY <2>4, <3>1, <3>2, <3>3 DEF AsDocumented
  <2>. QED BY <2>4, <2>5, <2>6, <2>7, RaisedIs
<1>4. ASSUME NEW op \in {"activate", "check"}, NEW arg, NEW result, NEW tok, sdk # None,
             Locally(op, arg, result, tok),
             result \in {"Ok"} \cup Documented(op) \/ (result = "AttributeError" /\ Headless(Cached))
      PROVE  AsDocumented'
  <2>1. /\ last'.op = op /\ last'.result = result /\ sdk' = sdk /\ disk' = disk /\ Path' = Path
    BY <1>4 DEF Locally, Record, Path
  <2>2. Headless(Cached) => sdk.cache /\ disk[Path] # None /\ disk[Path].state = "headless"
    BY <1>4, CachedIs DEF Headless
  <2>. QED BY <1>4, <2>1, <2>2 DEF AsDocumented
<1>5. ASSUME NEW typed, Activate(typed) PROVE AsDocumented' /\ EndTold'
  <2>1. CASE Answered("activate", typed, Found(typed))
    BY <1>3, <1>5, <2>1 DEF Activate, Ready
  <2>2. CASE \/ Locally("activate", typed, "InvalidKeyError", None)
             \/ Locally("activate", typed, "AttributeError", None) /\ Headless(Cached)
             \/ Locally("activate", typed, "Ok", Cached)
    <3>1. "InvalidKeyError" \in Documented("activate")
      BY DEF Documented
    <3>2. AsDocumented'
      BY <1>4, <1>5, <2>2, <3>1 DEF Activate, Ready
    <3>3. last'.op = "activate"
      BY <2>2 DEF Locally, Record
    <3>. QED BY <3>2, <3>3 DEF EndTold
  <2>. QED BY <1>5, <2>1, <2>2 DEF Activate
<1>6. ASSUME NEW l, Renew(l) PROVE AsDocumented' /\ EndTold'
  BY <1>3, <1>6 DEF Renew, Ready
<1>7. ASSUME NEW l, Deactivate(l) PROVE AsDocumented' /\ EndTold'
  <2>1. PICK outcome \in {"Ok", "DeactivationBlockedError"} \cup FromStatus :
          \E answer : Record("deactivate", l, TRUE, answer, outcome, None)
    <3>1. ASSUME NEW a \in Responses, Record("deactivate", l, TRUE, a, deactivateOutcome(a), None)
          PROVE  \E outcome \in {"Ok", "DeactivationBlockedError"} \cup FromStatus :
                   \E answer : Record("deactivate", l, TRUE, answer, outcome, None)
      BY <3>1, DeactivateRaises
    <3>2. ASSUME Record("deactivate", l, TRUE, None, "NetworkError", None)
          PROVE  \E outcome \in {"Ok", "DeactivationBlockedError"} \cup FromStatus :
                   \E answer : Record("deactivate", l, TRUE, answer, outcome, None)
      <4>1. "NetworkError" \in {"Ok", "DeactivationBlockedError"} \cup FromStatus
        BY DEF FromStatus
      <4>. QED BY <3>2, <4>1
    <3>. QED BY <1>7, <3>1, <3>2 DEF Deactivate
  <2>2. last'.op = "deactivate" /\ last'.result = outcome
    BY <2>1 DEF Record
  <2>. QED BY <2>2 DEF AsDocumented, EndTold, Documented
<1>8. CASE Machines \/ RenameMachine
  <2>1. ASSUME NEW op \in {"machines", "rename_machine"}, NEW outcome, Report(op, outcome),
               \A a \in Responses : outcome[a] \in {"Ok"} \cup StatusErrors
        PROVE  AsDocumented' /\ EndTold'
    <3>1. "NetworkError" \in StatusErrors
      BY DEF StatusErrors, FromStatus
    <3>2. last'.op = op /\ last'.result \in {"Ok"} \cup StatusErrors
      BY <2>1, <3>1 DEF Report, Record
    <3>. QED BY <3>2 DEF AsDocumented, EndTold, Documented, StatusErrors
  <2>2. CASE Machines
    BY <2>1, <2>2, ReportRaises DEF Machines
  <2>3. CASE RenameMachine
    BY <2>1, <2>3, ReportRaises DEF RenameMachine
  <2>. QED BY <1>8, <2>2, <2>3
<1>9. CASE Check
  <2>0. PICK result, tok :
          /\ Locally("check", None, result, tok)
          /\ result \in {"Ok", "LicenseExpiredError", "NotActivatedError"}
               \/ (result = "AttributeError" /\ Headless(Cached))
          /\ result = "LicenseExpiredError" <=>
               ~Headless(Cached) /\ ~Usable(Cached) /\ Renewable(Cached) /\ Cached.state = "ended"
    BY <1>9, LocalCheck
  <2>1. sdk # None
    BY <1>9, LocalCheck
  <2>2. AsDocumented'
    <3>1. {"LicenseExpiredError", "NotActivatedError"} \subseteq Documented("check")
      BY DEF Documented
    <3>. QED BY <1>4, <2>0, <2>1, <3>1
  <2>3. last'.result = "LicenseExpiredError" <=>
          ~Headless(Cached) /\ ~Usable(Cached) /\ Renewable(Cached) /\ Cached.state = "ended"
    BY <2>0 DEF Locally, Record
  <2>4. last'.result = "LicenseExpiredError" <=> Cached # None /\ Cached.state = "ended" /\ Cached.mid = sdk.mid
    BY <2>3 DEF Headless, Usable, Renewable, Verifies
  <2>5. sdk' = sdk /\ disk' = disk /\ Path' = Path
    BY <1>9, SilentCalls DEF Path
  <2>. QED BY <2>1, <2>2, <2>4, <2>5, CachedIs, OwnIs DEF EndTold
<1>10. CASE Background
  BY <1>0, <1>10, AnsweredCases, SettleEffect DEF Background
<1>11. CASE UNCHANGED vars
  <2>1. AsDocumented /\ EndTold
    BY <1>0, <1>11, ErrorsAre DEF vars
  <2>2. Path' = Path
    BY <1>11 DEF vars, Path
  <2>. QED BY <1>11, <2>1, <2>2 DEF vars, AsDocumented, EndTold
<1>. QED BY <1>1, <1>2, <1>5, <1>6, <1>7, <1>8, <1>9, <1>10, <1>11 DEF Next

\* errors.py:103, http.py:358: whatever the server answers, whatever becomes of the
\* machine-id sources and of the cache file, each call ends in an error documented for it,
\* but for the three cases the property names; and check raises LicenseExpiredError exactly
\* when the file holds this machine's own licence, past its end.
THEOREM ErrorsHold == Spec => []ErrorsDocumented
<1>1. Init => ErrorsDocumented
  BY DEF Init, NoCall, ErrorsDocumented
<1>. QED BY <1>1, InitTypes, NextTypes, NextErrors, PTL DEF Spec

LEMMA ResultFollows ==
  ASSUME ErrorsDocumented, NoCallYet, last.op = "background" => ResultOK
  PROVE  ResultOK
<1>1. CASE last.op = "none"
  BY <1>1 DEF ResultOK, NoCallYet
<1>2. CASE last.op \notin {"none", "background"}
  <2>1. last.result \in {"Ok", "AttributeError", "UnicodeDecodeError"} \cup Documented(last.op)
    BY <1>2 DEF ErrorsDocumented
  <2>2. Documented(last.op) \subseteq LatteErrors \cup AppIdErrors
    BY DEF Documented, FromStatus, LatteErrors, AppIdErrors
  <2>. QED BY <2>1, <2>2 DEF ResultOK
<1>. QED BY <1>1, <1>2

\* A renewal nobody waits for ends as the others do.
BackgroundOK == last.op = "background" => ResultOK
LEMMA NextBackground ==
  ASSUME BackgroundOK, [Next]_vars
  PROVE  BackgroundOK'
<1>1. ASSUME NEW arg, NEW found, Answered("background", arg, found) PROVE ResultOK'
  <2>1. PICK outcome \in {"Ok", "AttributeError"} \cup StatusErrors :
          \E answer, tok : Settle("background", arg, answer, outcome, tok)
    BY <1>1, AnsweredCases
  <2>2. last'.result = outcome
    BY <2>1, SettleEffect DEF Raised
  <2>. QED BY <2>2 DEF ResultOK, StatusErrors, FromStatus, LatteErrors
<1>2. CASE Background
  BY <1>1, <1>2 DEF Background, BackgroundOK
<1>3. CASE UNCHANGED vars
  BY <1>3 DEF vars, BackgroundOK, ResultOK
<1>4. ASSUME last'.op # "background" PROVE BackgroundOK'
  BY <1>4 DEF BackgroundOK
<1>. QED BY <1>2, <1>3, <1>4, OtherCalls

\* http.py:157, 539: no Sdk works with an empty machine ID or a refused App ID, each
\* file holds a licence the server gave for the project the file is named after, and
\* every call ends in an error of the two hierarchies or one of the two foreign ones.
THEOREM SessionTypeHolds == Spec => []SessionTypeOK
<1>1. Init => ErrorsDocumented /\ BackgroundOK
  BY DEF Init, NoCall, ErrorsDocumented, BackgroundOK
<1>2. ErrorsDocumented /\ BackgroundOK /\ SdkOK /\ FilesOK /\ NoCallYet => SessionTypeOK
  BY ResultFollows DEF BackgroundOK, ResultOK, SdkOK, FilesOK, SessionTypeOK
<1>. QED BY <1>1, <1>2, InitTypes, NextTypes, NextErrors, NextBackground, PTL DEF Spec

-----------------------------------------------------------------------------
(* The file follows the answers. *)

Follows == last'.op # "none" => disk' = FileAfter(last')

LEMMA AnsweredFollows ==
  ASSUME NEW op \in {"activate", "renew", "background"}, NEW arg, NEW found, Answered(op, arg, found)
  PROVE  disk' = FileAfter(last')
<1>1. PICK outcome, answer, tok :
        /\ Settle(op, arg, answer, outcome, tok)
        /\ answer = None => outcome = "NetworkError"
        /\ answer # None => outcome = postOutcome(answer)
  BY AnsweredCases
<1>2. /\ last'.op = op /\ last'.answer = answer /\ last'.token = tok
      /\ last'.result = Raised(op, outcome)
      /\ outcome = "Ok" => Store(tok)
      /\ outcome \in InvalidatingErrors => Store(None)
      /\ outcome \notin {"Ok"} \cup InvalidatingErrors => disk' = disk
  BY <1>1, SettleEffect
<1>3. Raised(op, outcome) = "Ok" <=> outcome = "Ok"
  BY RaisedIs
<1>4. "Ok" \notin InvalidatingErrors /\ "NetworkError" \notin {"Ok"} \cup InvalidatingErrors
  BY DEF InvalidatingErrors
<1>5. CASE ~sdk.cache
  <2>1. disk' = disk
    BY <1>2, <1>5 DEF Store
  <2>. QED BY <1>5, <2>1 DEF FileAfter
<1>6. CASE answer = None
  BY <1>1, <1>2, <1>4, <1>6 DEF FileAfter
<1>7. CASE sdk.cache /\ answer # None
  <2>1. outcome \in InvalidatingErrors <=> answer.status \in {401, 403, 404}
    BY <1>1, <1>7, PostRaises
  <2>2. FileAfter(last') = IF outcome = "Ok" THEN [disk EXCEPT ![Path] = tok]
                           ELSE IF answer.status \in {401, 403, 404} THEN [disk EXCEPT ![Path] = None]
                           ELSE disk
    <3>1. outcome = "Ok" => answer.status \notin {401, 403, 404}
      BY <1>4, <2>1
    <3>. QED BY <1>2, <1>3, <1>7, <3>1 DEF FileAfter
  <2>. QED BY <1>2, <1>4, <1>7, <2>1, <2>2 DEF Store
<1>. QED BY <1>5, <1>6, <1>7

LEMMA NextFollows ==
  ASSUME Next
  PROVE  Follows
<1>1. ASSUME NEW launch \in Launches, Construct(launch) PROVE Follows
  BY <1>1 DEF Construct, Follows, FileAfter
<1>2. CASE Exit \/ Seen \/ \E path \in Paths : Age(path)
  BY <1>2, QuietSteps DEF NoCall, Follows
<1>3. ASSUME NEW typed, Activate(typed) PROVE Follows
  <2>1. CASE Answered("activate", typed, Found(typed))
    BY <2>1, AnsweredFollows DEF Follows
  <2>2. ASSUME NEW result, NEW tok, Locally("activate", typed, result, tok) PROVE Follows
    BY <2>2 DEF Locally, Record, Follows, FileAfter
  <2>. QED BY <1>3, <2>1, <2>2 DEF Activate
<1>4. ASSUME NEW l, Renew(l) PROVE Follows
  BY <1>4, AnsweredFollows DEF Renew, Follows
<1>5. CASE Background
  BY <1>5, AnsweredFollows DEF Background, Follows
<1>6. ASSUME NEW l, Deactivate(l) PROVE Follows
  <2>1. CASE Record("deactivate", l, TRUE, None, "NetworkError", None) /\ UNCHANGED disk
    BY <2>1 DEF Record, Follows, FileAfter
  <2>2. ASSUME NEW a \in Responses,
               Record("deactivate", l, TRUE, a, deactivateOutcome(a), None),
               IF deactivateStatus(a) = "Ok" THEN Store(None) ELSE UNCHANGED disk
        PROVE  Follows
    <3>1. a # None
      BY SessionAssumption
    <3>2. deactivateStatus(a) = "Ok" <=> a.status \in 200..299 /\ a.json
      BY DeactivateRaises
    <3>3. last'.op = "deactivate" /\ last'.answer = a
      BY <2>2 DEF Record
    <3>4. FileAfter(last') = IF sdk.cache /\ a.status \in 200..299 /\ a.json
                             THEN [disk EXCEPT ![Path] = None] ELSE disk
      BY <3>1, <3>3 DEF FileAfter
    <3>. QED BY <2>2, <3>2, <3>4 DEF Follows, Store
  <2>. QED BY <1>6, <2>1, <2>2 DEF Deactivate
<1>7. ASSUME NEW op \in {"machines", "rename_machine"}, NEW outcome, Report(op, outcome) PROVE Follows
  BY <1>7 DEF Report, Record, Follows, FileAfter
<1>8. CASE Check
  <2>1. PICK result, tok : Locally("check", None, result, tok)
    BY <1>8, LocalCheck
  <2>. QED BY <2>1 DEF Locally, Record, Follows, FileAfter
<1>. QED BY <1>1, <1>2, <1>3, <1>4, <1>5, <1>6, <1>7, <1>8 DEF Next, Machines, RenameMachine

\* http.py:572: after each call the files are what its answer says, for every answer: a
\* successful activate or renewal has stored its token, a verdict that the licence is gone
\* and a 2xx to deactivate have deleted the file, and nothing else has changed any.
THEOREM FileFollows == Spec => FileFollowsAnswers
<1>1. [Next]_vars => [Follows]_vars
  BY NextFollows
<1>2. Spec => [][Follows]_vars
  BY <1>1, PTL DEF Spec
<1>. QED BY <1>2 DEF FileFollowsAnswers, Follows

-----------------------------------------------------------------------------
(* Slips in an App ID *)

LEMMA ParsedKey ==
  ASSUME NEW appId, parseAppId(appId) = "Ok"
  PROVE  Len(appId.key) = SegmentLength /\ validateKey(appId.key, ChecksumLength)
BY DEF parseAppId

LEMMA RegisteredKey ==
  ASSUME NEW app \in Registered
  PROVE  /\ app.key \in Seq(STRING) /\ Len(app.key) = SegmentLength
         /\ validateKey(app.key, ChecksumLength)
         /\ \A i \in DOMAIN app.key : ~Foreign(app.key[i])
<1>1. PICK launch \in Launches : app = launch.appId
  BY SessionAssumption
<1>2. app.key \in Seq(STRING)
  BY <1>1, SessionAssumption
<1>3. parseAppId(app) = "Ok" /\ \A i \in DOMAIN app.key : alphabetIndex(app.key[i]) # -1
  BY SessionAssumption
<1>. QED BY <1>2, <1>3, ParsedKey DEF Foreign

\* The place of a character in the alphabet, from 1, or 32 for a foreign one.
Place(c) == IF Foreign(c) THEN 32 ELSE alphabetIndex(c) + 1

LEMMA PlaceIs ==
  ASSUME NEW c
  PROVE  (IF \E n \in 1..32 : Alphabet[n] = c THEN CHOOSE n \in 1..32 : Alphabet[n] = c ELSE 32) = Place(c)
<1>1. CASE Foreign(c)
  <2>1. \A n \in 1..32 : Alphabet[n] # c
    BY <1>1, IndexDef DEF Foreign
  <2>. QED BY <1>1, <2>1 DEF Place
<1>2. CASE ~Foreign(c)
  <2>1. alphabetIndex(c) \in 0..31 /\ Alphabet[alphabetIndex(c) + 1] = c
    BY <1>2, IndexDef DEF Foreign
  <2>. DEFINE k == alphabetIndex(c) + 1
              n0 == CHOOSE n \in 1..32 : Alphabet[n] = c
  <2>2. k \in 1..32 /\ Alphabet[k] = c
    BY <2>1
  <2>3. n0 \in 1..32 /\ Alphabet[n0] = c
    BY <2>2
  <2>4. n0 = k
    <3>. HIDE DEF n0, k
    <3>. QED BY <2>2, <2>3, AlphabetInjective
  <2>. QED BY <1>2, <2>2, <2>4 DEF Place
<1>. QED BY <1>1, <1>2

LEMMA BlindIs ==
  ASSUME NEW i \in Nat, NEW c, NEW d,
         ((alphabetIndex(c) - alphabetIndex(d)) * (1 + (i % 2))) % 32 = 0
  PROVE  Blind(i, c, d)
<1>. DEFINE a == alphabetIndex(c)
            b == alphabetIndex(d)
            value == [ x \in {c, d} |->
                         IF \E n \in 1..32 : Alphabet[n] = x
                         THEN CHOOSE n \in 1..32 : Alphabet[n] = x ELSE 32 ]
<1>1. value[c] = Place(c) /\ value[d] = Place(d)
  BY PlaceIs
<1>2. Blind(i, c, d) <=> IF i % 2 = 1 THEN value[c] % 16 = value[d] % 16 ELSE value[c] = value[d]
  BY DEF Blind
<1>. HIDE DEF value
<1>3. a \in -1..31 /\ b \in -1..31
  BY IndexRange
<1>4. Place(c) = (IF a = -1 THEN 32 ELSE a + 1) /\ Place(d) = (IF b = -1 THEN 32 ELSE b + 1)
  BY DEF Place, Foreign
<1>. HIDE DEF a, b
<1>5. CASE i % 2 = 1
  <2>1. (2 * (a - b)) % 32 = 0
    <3>1. ((a - b) * (1 + 1)) % 32 = 0
      BY <1>5 DEF a, b
    <3>. QED BY <1>3, <3>1
  <2>2. a - b \in -32..32
    BY <1>3
  <2>3. (a - b) % 16 = 0
    BY <2>1, <2>2, SmallMultiple
  <2>4. Place(c) % 16 = Place(d) % 16
    BY <1>3, <1>4, <2>3
  <2>. QED BY <1>1, <1>2, <1>5, <2>4
<1>6. CASE i % 2 = 0
  <2>1. (a - b) % 32 = 0
    <3>1. ((a - b) * (1 + 0)) % 32 = 0
      BY <1>6 DEF a, b
    <3>. QED BY <1>3, <3>1
  <2>2. Place(c) = Place(d)
    BY <1>3, <1>4, <2>1
  <2>. QED BY <1>1, <1>2, <1>6, <2>2
<1>7. i % 2 \in {0, 1}
  OBVIOUS
<1>. QED BY <1>5, <1>6, <1>7

\* What an accepted App ID is to a registered one.
LEMMA SlipSeen ==
  ASSUME NEW app \in Registered, NEW launch \in Launches, parseAppId(launch.appId) = "Ok"
  PROVE  /\ Swapped(app.key, launch.appId.key) = {}
         /\ \A i \in Substituted(app.key, launch.appId.key) :
              i <= SegmentLength - ChecksumLength /\ Blind(i, app.key[i], launch.appId.key[i])
<1>. DEFINE key  == app.key
            slip == launch.appId.key
<1>1. /\ key \in Seq(STRING) /\ Len(key) = SegmentLength /\ validateKey(key, ChecksumLength)
      /\ \A i \in DOMAIN key : ~Foreign(key[i])
  BY RegisteredKey
<1>2. slip \in Seq(STRING)
  BY SessionAssumption
<1>3. Len(slip) = SegmentLength /\ validateKey(slip, ChecksumLength)
  BY ParsedKey
<1>4. ChecksumLength \in Nat \ {0, 1} /\ ChecksumLength \in Nat \ {0} /\ DOMAIN key = 1..Len(key)
      /\ Len(key) \in Nat
  BY <1>1, KeysAssumption
<1>. HIDE DEF key, slip
<1>5. ASSUME NEW i \in Swapped(key, slip) PROVE FALSE
  <2>1. i \in 1..(Len(key) - 1) /\ slip # key /\ slip = [key EXCEPT ![i] = key[i + 1], ![i + 1] = key[i]]
    BY <1>5 DEF Swapped
  <2>2. i \in DOMAIN key /\ i + 1 \in DOMAIN key /\ i # i + 1
    BY <1>4, <2>1
  <2>3. slip[i] = key[i + 1] /\ slip[i + 1] = key[i] /\ \A j \in DOMAIN key \ {i, i + 1} : slip[j] = key[j]
    BY <2>1, <2>2
  <2>4. SwappedAt(key, slip, i)
    BY <1>1, <1>3, <1>4, <2>3 DEF SwappedAt, Agree
  <2>5. key[i] = key[i + 1]
    BY <1>1, <1>2, <1>3, <1>4, <2>1, <2>2, <2>4, SwapSeen
  <2>6. slip = key
    BY <1>1, <2>1, <2>2, <2>5
  <2>. QED BY <2>1, <2>6
<1>6. ASSUME NEW i \in Substituted(key, slip)
      PROVE  i <= SegmentLength - ChecksumLength /\ Blind(i, key[i], slip[i])
  <2>1. i \in DOMAIN key /\ slip[i] # key[i] /\ Agree(slip, key, DOMAIN key \ {i}) /\ Len(slip) = Len(key)
    BY <1>6 DEF Substituted, Agree
  <2>2. /\ i <= Len(key) - ChecksumLength
        /\ ((alphabetIndex(key[i]) - alphabetIndex(slip[i])) * (1 + (i % 2))) % 32 = 0
    BY <1>1, <1>2, <1>3, <1>4, <2>1, SubstitutionSeen
  <2>3. i \in Nat
    BY <1>4, <2>1
  <2>. QED BY <1>1, <2>2, <2>3, BlindIs
<1>. QED BY <1>5, <1>6 DEF key, slip

LEMMA NextSlips ==
  ASSUME SlipsCaught, [Next]_vars
  PROVE  SlipsCaught'
<1>1. ASSUME NEW launch \in Launches, Construct(launch) PROVE SlipsCaught'
  <2>1. last'.launch = launch /\ (parseAppId(launch.appId) # "Ok" => last'.result = parseAppId(launch.appId))
    BY <1>1, ConstructEffect
  <2>2. CASE parseAppId(launch.appId) = "Ok"
    BY <2>1, <2>2, SlipSeen DEF SlipsCaught
  <2>3. CASE parseAppId(launch.appId) # "Ok"
    BY <2>1, <2>3, ParseRaises DEF SlipsCaught, AppIdErrors
  <2>. QED BY <2>2, <2>3
<1>2. ASSUME last'.op # "construct" PROVE SlipsCaught'
  BY <1>2 DEF SlipsCaught
<1>3. CASE UNCHANGED vars
  BY <1>3 DEF vars, SlipsCaught
<1>. QED BY <1>1, <1>2, <1>3, OtherCalls

\* key.py:20: of all App IDs that are one slip away from a registered one, the
\* constructor takes none but those with a character of the data part replaced by one
\* the weighted sum cannot tell from it.
THEOREM SlipsAreCaught == Spec => []SlipsCaught
<1>1. Init => SlipsCaught
  BY DEF Init, NoCall, SlipsCaught
<1>. QED BY <1>1, NextSlips, PTL DEF Spec

-----------------------------------------------------------------------------
(* The source of the machine ID *)

LEMMA NextSource ==
  ASSUME IdFromFirstSource, [Next]_vars
  PROVE  IdFromFirstSource'
<1>1. ASSUME NEW launch \in Launches, Construct(launch) PROVE IdFromFirstSource'
  <2>1. SUFFICES ASSUME launch.id = "", last'.result \notin AppIdErrors PROVE IdFromFirstSource'
    BY <1>1, ConstructEffect DEF IdFromFirstSource
  <2>. DEFINE s  == launch.sources
              id == readPlatformId(launch.platform, s)
              r  == readRaw(launch.platform, s)
              asked == CASE launch.platform = "linux" -> {1, 2}
                         [] launch.platform = "bsd"   -> IF s[1] = Unreadable THEN {1, 2} ELSE {1}
                         [] launch.platform \in {"darwin", "win32"} -> {1}
                         [] OTHER -> {}
              Skipped(i) == s[i] \in {"", Unreadable}
              Decides(i) == ~Skipped(i) /\ \A j \in asked : j < i => Skipped(j)
  <2>2. s \in Readings \X Readings /\ s[1] \in Readings /\ s[2] \in Readings
    BY SessionAssumption, TwoSources
  <2>3. parseAppId(launch.appId) = "Ok"
    BY <1>1, <2>1, ConstructEffect, ParseRaises DEF AppIdErrors
  <2>4. /\ last'.launch = launch /\ last'.result = id.error
        /\ id.error # "Ok" => sdk' = None
        /\ id.error = "Ok" => sdk' # None /\ sdk'.raw = id.raw
    <3>1. IdOf(launch) = id
      BY <2>1 DEF IdOf
    <3>2. IdOf(launch).error = "Ok" =>
            sdk' = [ appId |-> launch.appId, raw |-> IdOf(launch).raw, cache |-> launch.cache,
                     mid |-> protectedId(IdOf(launch).raw, launch.appId) ]
      BY <1>1, <2>3, ConstructEffect
    <3>. QED BY <1>1, <2>3, <3>1, <3>2, ConstructEffect, ConstructGives
  <2>5. /\ r \in {"", Unreadable} => id.error = "MachineIdError"
        /\ r = Garbled => id.error = "UnicodeDecodeError"
        /\ r \notin {"", Unreadable, Garbled} => id.error = "Ok" /\ id.raw = r
    <3>1. Garbled \notin {"", Unreadable}
      BY DEF Garbled, Unreadable
    <3>. QED BY <3>1 DEF readPlatformId
  <2>6. \A i \in {1, 2} : Skipped(i) <=> Silent(s[i])
    BY DEF Silent
  <2>7. r = CASE launch.platform = "linux" -> (IF ~Silent(s[1]) THEN s[1] ELSE IF ~Silent(s[2]) THEN s[2]
                                   ELSE IF s[1] = Unreadable \/ s[2] = Unreadable THEN Unreadable ELSE "")
              [] launch.platform = "bsd" -> IF s[1] = Unreadable THEN s[2] ELSE s[1]
              [] launch.platform \in {"darwin", "win32"} -> s[1]
              [] OTHER -> Unreadable
    BY <2>2, OneFile, TwoFiles DEF readRaw
  <2>. HIDE DEF r, id
  <2>8. /\ \A i \in asked : Decides(i) => r = s[i]
        /\ (\A i \in asked : Skipped(i)) => r \in {"", Unreadable}
    <3>1. CASE launch.platform = "linux" \/ (launch.platform = "bsd" /\ s[1] = Unreadable)
      <4>1. asked = {1, 2}
        BY <3>1
      <4>2. /\ ~Silent(s[1]) => r = s[1]
            /\ Silent(s[1]) /\ ~Silent(s[2]) => r = s[2]
            /\ Silent(s[1]) /\ Silent(s[2]) => r \in {"", Unreadable}
        <5>1. CASE launch.platform = "linux"
          BY <2>7, <5>1
        <5>2. CASE launch.platform = "bsd" /\ s[1] = Unreadable
          BY <2>7, <5>2 DEF Silent
        <5>. QED BY <3>1, <5>1, <5>2
      <4>. HIDE DEF asked
      <4>3. ASSUME NEW i \in asked, Decides(i) PROVE r = s[i]
        <5>1. i = 1 \/ i = 2
          BY <4>1, <4>3
        <5>2. CASE i = 1
          BY <4>2, <4>3, <5>2 DEF Silent
        <5>3. CASE i = 2
          <6>1. 1 \in asked /\ 1 < 2
            BY <4>1
          <6>2. Silent(s[1]) /\ ~Silent(s[2])
            BY <4>3, <5>3, <6>1 DEF Silent
          <6>. QED BY <4>2, <5>3, <6>2
        <5>. QED BY <5>1, <5>2, <5>3
      <4>4. ASSUME \A i \in asked : Skipped(i) PROVE r \in {"", Unreadable}
        BY <4>1, <4>2, <4>4 DEF Silent
      <4>. QED BY <4>3, <4>4
    <3>2. CASE launch.platform \in {"darwin", "win32"} \/ (launch.platform = "bsd" /\ s[1] # Unreadable)
      <4>1. asked = {1} /\ r = s[1]
        BY <2>7, <3>2
      <4>. HIDE DEF asked
      <4>. QED BY <4>1
    <3>3. CASE launch.platform \notin {"linux", "bsd", "darwin", "win32"}
      <4>1. asked = {} /\ r = Unreadable
        BY <2>7, <3>3
      <4>. HIDE DEF asked
      <4>. QED BY <4>1
    <3>. QED BY <3>1, <3>2, <3>3
  <2>. HIDE DEF asked
  <2>9. /\ \A i \in asked : Decides(i) =>
             IF s[i] = Garbled THEN sdk' = None /\ last'.result = "UnicodeDecodeError"
                               ELSE sdk' # None /\ sdk'.raw = s[i]
        /\ (\A i \in asked : Skipped(i)) => sdk' = None /\ last'.result = "MachineIdError"
    <3>1. ASSUME NEW i \in asked, Decides(i)
          PROVE  IF s[i] = Garbled THEN sdk' = None /\ last'.result = "UnicodeDecodeError"
                                   ELSE sdk' # None /\ sdk'.raw = s[i]
      <4>1. r = s[i] /\ s[i] \notin {"", Unreadable}
        BY <2>8, <3>1
      <4>. QED BY <2>4, <2>5, <4>1
    <3>2. ASSUME \A i \in asked : Skipped(i) PROVE sdk' = None /\ last'.result = "MachineIdError"
      <4>1. r \in {"", Unreadable}
        BY <2>8, <3>2
      <4>. QED BY <2>4, <2>5, <4>1
    <3>. QED BY <3>1, <3>2
  <2>. QED BY <2>4, <2>9 DEF IdFromFirstSource, asked
<1>2. ASSUME last'.op # "construct" PROVE IdFromFirstSource'
  BY <1>2 DEF IdFromFirstSource
<1>3. CASE UNCHANGED vars
  BY <1>3 DEF vars, IdFromFirstSource
<1>. QED BY <1>1, <1>2, <1>3, OtherCalls

\* machineid.py:73: whatever each source gives, the first one that may be asked and is
\* neither empty nor unreadable decides, by its raw ID or, if it is no UTF-8, by
\* UnicodeDecodeError; the constructor raises MachineIdError exactly when none does.
THEOREM FirstSourceDecides == Spec => []IdFromFirstSource
<1>1. Init => IdFromFirstSource
  <2>1. Init => last.op # "construct"
    BY DEF Init, NoCall
  <2>. QED BY <2>1 DEF IdFromFirstSource
<1>. QED BY <1>1, NextSource, PTL DEF Spec

-----------------------------------------------------------------------------
(* The keys a user types *)

LEMMA PairIs ==
  ASSUME NEW c, NEW d, NEW x, NEW y
  PROVE  {c, d} = {x, y} <=> (c = x /\ d = y) \/ (c = y /\ d = x)
OBVIOUS

LEMMA SameLetterIs ==
  ASSUME NEW c, NEW d
  PROVE  SameLetter(c, d) <=>
           c = d \/ \E i \in 1..26 : \/ c = LowerCase[i] /\ d = UpperCase[i]
                                     \/ c = UpperCase[i] /\ d = LowerCase[i]
<1>1. \A i \in 1..26 : {c, d} = {LowerCase[i], UpperCase[i]} <=>
        (c = LowerCase[i] /\ d = UpperCase[i]) \/ (c = UpperCase[i] /\ d = LowerCase[i])
  BY PairIs
<1>. QED BY <1>1 DEF SameLetter

\* To a character that is no small letter, normalize_key takes itself and its small
\* letter, and no other.
LEMMA CapitalLetter ==
  ASSUME NEW c, NEW d, \A i \in 1..26 : d # LowerCase[i]
  PROVE  Upper(c) = d <=> SameLetter(c, d)
<1>1. ASSUME NEW i \in 1..26, c = LowerCase[i], Upper(c) = UpperCase[i]
      PROVE  Upper(c) = d <=> SameLetter(c, d)
  <2>1. SameLetter(c, d) <=> \E j \in 1..26 : c = LowerCase[j] /\ d = UpperCase[j]
    BY <1>1, SameLetterIs
  <2>2. \A j \in 1..26 : c = LowerCase[j] => j = i
    BY <1>1, LettersApart
  <2>. QED BY <1>1, <2>1, <2>2
<1>2. ASSUME \A i \in 1..26 : c # LowerCase[i], Upper(c) = c
      PROVE  Upper(c) = d <=> SameLetter(c, d)
  BY <1>2, SameLetterIs
<1>. QED BY <1>1, <1>2, UpperIs

\* The letters that are folded.
LEMMA FoldedLetters ==
  /\ Upper("o") = "O" /\ Upper("i") = "I" /\ Upper("l") = "L"
  /\ \A i \in 1..26 : /\ UpperCase[i] = "O" => LowerCase[i] = "o"
                      /\ UpperCase[i] = "I" => LowerCase[i] = "i"
                      /\ UpperCase[i] = "L" => LowerCase[i] = "l"
  /\ \A i \in 1..26 : LowerCase[i] \notin {"0", "1", "O", "I", "L"}
<1>1. /\ LowerCase[15] = "o" /\ LowerCase[9] = "i" /\ LowerCase[12] = "l"
      /\ UpperCase[15] = "O" /\ UpperCase[9] = "I" /\ UpperCase[12] = "L"
  BY DEF LowerCase, UpperCase
<1>2. Upper("o") = "O" /\ Upper("i") = "I" /\ Upper("l") = "L"
  <2>1. /\ Upper(LowerCase[15]) = UpperCase[15] /\ Upper(LowerCase[9]) = UpperCase[9]
        /\ Upper(LowerCase[12]) = UpperCase[12]
    BY UpperOf
  <2>. QED BY <1>1, <2>1
<1>3. ASSUME NEW i \in 1..26
      PROVE  /\ UpperCase[i] = "O" => LowerCase[i] = "o"
             /\ UpperCase[i] = "I" => LowerCase[i] = "i"
             /\ UpperCase[i] = "L" => LowerCase[i] = "l"
  <2>1. UpperCase[i] = "O" => LowerCase[i] = "o"
    BY DEF LowerCase, UpperCase
  <2>2. UpperCase[i] = "I" => LowerCase[i] = "i"
    BY DEF LowerCase, UpperCase
  <2>3. UpperCase[i] = "L" => LowerCase[i] = "l"
    BY DEF LowerCase, UpperCase
  <2>. QED BY <2>1, <2>2, <2>3
<1>4. \A i \in 1..26 : LowerCase[i] \notin {"0", "1", "O", "I", "L"}
  BY DEF LowerCase
<1>. QED BY <1>2, <1>3, <1>4

\* A character of a native key is what sanitize_key makes of itself, of its other case
\* and of those that look like it, and of no other.
LEMMA NativeLetter ==
  ASSUME NEW c, NEW d, alphabetIndex(d) # -1
  PROVE  Fold(Upper(c)) = d <=> SameLetter(c, d) \/ Alike(c, d)
<1>0. \E n \in 1..32 : Alphabet[n] = d
  BY IndexDef
<1>1. d \notin {"o", "i", "l", "O", "I", "L"}
  <2>1. \A n \in 1..32 : Alphabet[n] \notin {"o", "i", "l", "O", "I", "L"}
    BY DEF Alphabet
  <2>. QED BY <1>0, <2>1
<1>2. \A i \in 1..26 : d # LowerCase[i]
  <2>1. \A n \in 1..32, i \in 1..26 : Alphabet[n] # LowerCase[i]
    BY DEF Alphabet, LowerCase
  <2>. QED BY <1>0, <2>1
<1>3. Alike(c, d) <=> \/ c \in {"0", "O", "o"} /\ d = "0"
                      \/ c \in {"1", "I", "i", "L", "l"} /\ d = "1"
  <2>1. Alike(c, d) <=> \/ c \in {"0", "O", "o"} /\ d \in {"0", "O", "o"}
                        \/ c \in {"1", "I", "i", "L", "l"} /\ d \in {"1", "I", "i", "L", "l"}
    BY DEF Alike
  <2>. QED BY <1>1, <2>1
<1>4. Upper(c) = d <=> SameLetter(c, d)
  BY <1>2, CapitalLetter
<1>5. /\ Upper(c) = "O" <=> c \in {"O", "o"}
      /\ Upper(c) = "I" <=> c \in {"I", "i"}
      /\ Upper(c) = "L" <=> c \in {"L", "l"}
  <2>1. ASSUME NEW i \in 1..26, c = LowerCase[i], Upper(c) = UpperCase[i]
        PROVE  /\ Upper(c) = "O" <=> c \in {"O", "o"}
               /\ Upper(c) = "I" <=> c \in {"I", "i"}
               /\ Upper(c) = "L" <=> c \in {"L", "l"}
    BY <2>1, FoldedLetters
  <2>2. ASSUME \A i \in 1..26 : c # LowerCase[i], Upper(c) = c
        PROVE  c \notin {"o", "i", "l"}
    <3>1. LowerCase[15] = "o" /\ LowerCase[9] = "i" /\ LowerCase[12] = "l"
      BY DEF LowerCase
    <3>. QED BY <2>2, <3>1
  <2>. QED BY <2>1, <2>2, UpperIs
<1>6. Fold(Upper(c)) = CASE Upper(c) = "O" -> "0" [] Upper(c) \in {"I", "L"} -> "1" [] OTHER -> Upper(c)
  BY DEF Fold
<1>7. /\ c = "0" => Upper(c) = "0"
      /\ c = "1" => Upper(c) = "1"
  BY UpperIs, FoldedLetters
<1>. QED BY <1>1, <1>3, <1>4, <1>5, <1>6, <1>7

\* A character of a legacy key is what normalize_key makes of itself and its other case.
LEMMA LegacyLetter ==
  ASSUME NEW c, NEW d, Legacy(d)
  PROVE  Upper(c) = d <=> SameLetter(c, d)
<1>1. DOMAIN LowerCase = 1..26
  BY DEF LowerCase
<1>2. \A i \in 1..26 : d # LowerCase[i]
  BY <1>1 DEF Legacy
<1>. QED BY <1>2, CapitalLetter

LEMMA GlyphsAreMarks ==
  ASSUME NEW S, NEW raw \in Seq(S)
  PROVE  /\ Glyphs(raw) = Marks(raw, Len(raw))
         /\ \A i \in Glyphs(raw) : { j \in Glyphs(raw) : j <= i } = Marks(raw, i)
<1>1. DOMAIN raw = 1..Len(raw) /\ Len(raw) \in Nat
  OBVIOUS
<1>2. Glyphs(raw) = { i \in 1..Len(raw) : raw[i] \notin {"-", " "} }
  BY <1>1 DEF Glyphs
<1>3. Glyphs(raw) = Marks(raw, Len(raw))
  BY <1>2 DEF Marks, Separators
<1>4. ASSUME NEW i \in Glyphs(raw) PROVE { j \in Glyphs(raw) : j <= i } = Marks(raw, i)
  <2>1. i \in 1..Len(raw)
    BY <1>2
  <2>2. Glyphs(raw) = { j \in 1..Len(raw) : raw[j] \notin Separators }
    BY <1>2 DEF Separators
  <2>3. ASSUME NEW j PROVE j \in { k \in Glyphs(raw) : k <= i } <=> j \in Marks(raw, i)
    BY <1>1, <2>1, <2>2 DEF Marks
  <2>. QED BY <2>3
<1>. QED BY <1>3, <1>4

\* The characters of raw stand for those of a native key, or of an alias, one by one.
NativeStands(raw, key) ==
  /\ Rank(raw, Len(raw)) = Len(key)
  /\ \A i \in Marks(raw, Len(raw)) :
       SameLetter(raw[i], key[Rank(raw, i)]) \/ Alike(raw[i], key[Rank(raw, i)])
AliasStands(raw, alias) ==
  /\ Rank(raw, Len(raw)) = Len(alias)
  /\ \A i \in Marks(raw, Len(raw)) : SameLetter(raw[i], alias[Rank(raw, i)])

LEMMA StandsForIs ==
  ASSUME NEW raw \in Seq(Chars), NEW l
  PROVE  StandsFor(raw, l) <=>
           NativeStands(raw, l.key) \/ (l.alias # <<>> /\ AliasStands(raw, l.alias))
<1>. DEFINE place(i) == Cardinality({ j \in Glyphs(raw) : j <= i })
<1>1. /\ Glyphs(raw) = Marks(raw, Len(raw)) /\ Cardinality(Glyphs(raw)) = Rank(raw, Len(raw))
      /\ \A i \in Marks(raw, Len(raw)) : place(i) = Rank(raw, i)
  BY GlyphsAreMarks DEF Rank
<1>2. StandsFor(raw, l) <=>
        \/ /\ Cardinality(Glyphs(raw)) = Len(l.key)
           /\ \A i \in Glyphs(raw) : SameLetter(raw[i], l.key[place(i)]) \/ Alike(raw[i], l.key[place(i)])
        \/ /\ l.alias # <<>>
           /\ Cardinality(Glyphs(raw)) = Len(l.alias)
           /\ \A i \in Glyphs(raw) : SameLetter(raw[i], l.alias[place(i)])
  BY Zenon DEF StandsFor, LooksLike
<1>. HIDE DEF place
<1>. QED BY <1>1, <1>2 DEF NativeStands, AliasStands

LEMMA RankInKey ==
  ASSUME NEW S, NEW raw \in Seq(S)
  PROVE  \A i \in Marks(raw, Len(raw)) : Rank(raw, i) \in 1..Rank(raw, Len(raw))
<1>1. Spread(raw, Len(raw), strip(raw))
  BY StripSpreads
<1>. QED BY <1>1 DEF Spread

\* A licence is found under the key typed exactly when the user wrote one of its keys,
\* up to what people confuse.
LEMMA MatchesIsStandsFor ==
  ASSUME NEW typed \in Typed, NEW l \in Licences, NEW tok, tok.licence = l
  PROVE  Matches(tok, typed) <=> StandsFor(typed, l)
<1>1. /\ typed \in Seq(STRING) /\ typed \in Seq(Chars)
      /\ l.key \in Seq(STRING) /\ l.key \in Seq(Chars)
      /\ l.alias \in Seq(STRING) /\ l.alias \in Seq(Chars)
      /\ \A i \in DOMAIN l.key : alphabetIndex(l.key[i]) # -1
      /\ \A i \in DOMAIN l.alias : Legacy(l.alias[i])
  BY SessionAssumption, StringsAreChars
<1>. DEFINE key   == l.key
            alias == l.alias
<1>2. \A i \in Marks(typed, Len(typed)) : Rank(typed, i) \in 1..Rank(typed, Len(typed))
  BY <1>1, RankInKey
<1>3. sanitizeKey(typed) = key <=> NativeStands(typed, key)
  <2>1. sanitizeKey(typed) = key <=>
          /\ Rank(typed, Len(typed)) = Len(key)
          /\ \A i \in Marks(typed, Len(typed)) : Fold(Upper(typed[i])) = key[Rank(typed, i)]
    BY <1>1, SanitizedIs
  <2>3. ASSUME Rank(typed, Len(typed)) = Len(key), NEW i \in Marks(typed, Len(typed))
        PROVE  Fold(Upper(typed[i])) = key[Rank(typed, i)] <=>
                 SameLetter(typed[i], key[Rank(typed, i)]) \/ Alike(typed[i], key[Rank(typed, i)])
    <3>1. Rank(typed, i) \in DOMAIN key
      BY <1>1, <1>2, <2>3
    <3>2. alphabetIndex(key[Rank(typed, i)]) # -1
      BY <1>1, <3>1
    <3>. QED BY <3>2, NativeLetter
  <2>. HIDE DEF key
  <2>. QED BY <2>1, <2>3 DEF NativeStands
<1>4. normalizeKey(typed) = alias <=> AliasStands(typed, alias)
  <2>1. normalizeKey(typed) = alias <=>
          /\ Rank(typed, Len(typed)) = Len(alias)
          /\ \A i \in Marks(typed, Len(typed)) : Upper(typed[i]) = alias[Rank(typed, i)]
    BY <1>1, NormalizedIs
  <2>3. ASSUME Rank(typed, Len(typed)) = Len(alias), NEW i \in Marks(typed, Len(typed))
        PROVE  Upper(typed[i]) = alias[Rank(typed, i)] <=> SameLetter(typed[i], alias[Rank(typed, i)])
    <3>1. Rank(typed, i) \in DOMAIN alias
      BY <1>1, <1>2, <2>3
    <3>2. Legacy(alias[Rank(typed, i)])
      BY <1>1, <3>1
    <3>. QED BY <3>2, LegacyLetter
  <2>. HIDE DEF alias
  <2>. QED BY <2>1, <2>3 DEF AliasStands
<1>5. StandsFor(typed, l) <=> NativeStands(typed, key) \/ (alias # <<>> /\ AliasStands(typed, alias))
  BY <1>1, StandsForIs
<1>. QED BY <1>3, <1>4, <1>5 DEF Matches

-----------------------------------------------------------------------------
\* The step of ActivateHitsOwnKey.
OwnKeyHit ==
  last'.op = "activate" /\ last'.result # "InvalidKeyError" /\ ~Headless(Cached) =>
    ( ~last'.sent <=>
        /\ sdk.cache /\ disk[Path] # None /\ disk[Path].state = "good"
        /\ disk[Path].forRaw = sdk.raw /\ disk[Path].forApp = sdk.appId
        /\ StandsFor(last'.arg, disk[Path].licence) )

\* A good token that was granted to this machine ID and this App ID is usable, and no other.
LEMMA UsableIs ==
  ASSUME Granted, sdk # None
  PROVE  Usable(Cached) <=> /\ sdk.cache /\ disk[Path] # None /\ disk[Path].state = "good"
                            /\ disk[Path].forRaw = sdk.raw /\ disk[Path].forApp = sdk.appId
BY CachedIs, OwnIs DEF Usable

LEMMA ActivateHit ==
  ASSUME Granted, FilesOK, NEW typed \in Typed, Activate(typed)
  PROVE  OwnKeyHit
<1>1. sdk # None /\ Path \in Paths
  BY DEF Activate, Ready, Granted
<1>2. disk[Path] # None => (Matches(disk[Path], typed) <=> StandsFor(typed, disk[Path].licence))
  BY <1>1, MatchesIsStandsFor DEF FilesOK, Tokens
<1>3. Usable(Cached) /\ Matches(Cached, typed) <=>
        /\ sdk.cache /\ disk[Path] # None /\ disk[Path].state = "good"
        /\ disk[Path].forRaw = sdk.raw /\ disk[Path].forApp = sdk.appId
        /\ StandsFor(typed, disk[Path].licence)
  <2>1. sdk.cache => Cached = disk[Path]
    BY DEF Cached
  <2>. QED BY <1>1, <1>2, <2>1, UsableIs
<1>4. CASE Locally("activate", typed, "InvalidKeyError", None)
  BY <1>4 DEF Locally, Record, OwnKeyHit
<1>5. CASE Headless(Cached)
  BY <1>5 DEF OwnKeyHit
<1>6. CASE Usable(Cached) /\ Matches(Cached, typed) /\ Locally("activate", typed, "Ok", Cached)
  BY <1>3, <1>6 DEF Locally, Record, OwnKeyHit
<1>7. CASE ~(Usable(Cached) /\ Matches(Cached, typed)) /\ Answered("activate", typed, Found(typed))
  <2>1. last'.sent = TRUE /\ last'.arg = typed
    BY <1>7, AnsweredCases, SettleEffect
  <2>. QED BY <1>3, <1>7, <2>1 DEF OwnKeyHit
<1>. QED BY <1>4, <1>5, <1>6, <1>7 DEF Activate

LEMMA NextHits ==
  ASSUME Granted, FilesOK, [Next]_vars
  PROVE  [OwnKeyHit]_vars
<1>1. ASSUME last'.op # "activate" PROVE OwnKeyHit
  BY <1>1 DEF OwnKeyHit
<1>. QED BY <1>1, ActivateHit, OtherCalls

\* http.py:219: activate answers from the file exactly when the file holds a good licence
\* of this machine ID and this App ID that the key typed stands for, however long the key
\* and however it is spelled.
THEOREM ActivateHits == Spec => ActivateHitsOwnKey
<1>1. Granted /\ FilesOK /\ [Next]_vars => [OwnKeyHit]_vars
  BY NextHits
<1>2. Spec => [][OwnKeyHit]_vars
  BY <1>1, InitTypes, NextTypes, PTL DEF Spec
<1>. QED BY <1>2 DEF ActivateHitsOwnKey, OwnKeyHit
=============================================================================
