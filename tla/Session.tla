------------------------------- MODULE Session -------------------------------
(***************************************************************************)
(* Sessions of an application, one call after the other: an Sdk is made    *)
(* for an App ID and a machine ID, the application types license keys,     *)
(* renews, deactivates, lists and names machines and checks; the process   *)
(* ends and the next one finds the cache files the last one left.  Every   *)
(* answer the server can give is in the model, by its status and the       *)
(* shape of its body.                                                      *)
(*                                                                         *)
(* Between two calls time may pass and a cache file may be damaged.  What   *)
(* threads, a failing disk and a process that dies do is in Sdk.tla, and   *)
(* which time makes a token lapse is in LicenseLife.tla.                   *)
(***************************************************************************)
EXTENDS Keys, MachineId, Answers, FiniteSets

CONSTANTS
  Launches,    \* the ways the application makes an Sdk
  Registered,  \* the App IDs the server knows
  Licences,    \* a native key each, and an alias or <<>>
  Typed,       \* what a user may type for a license key
  Responses,   \* the answers of the server
  None         \* no Sdk, no file, no token

\* The cache file is named after the key segment of the App ID.
Paths == { launch.appId.key : launch \in { l \in Launches : parseAppId(l.appId) = "Ok" } }

\* An Sdk, and what the server signs for one.
Ids     == { protectedId(raw, launch.appId) : raw \in RawIds, launch \in Launches }
Objects == [ appId : { launch.appId : launch \in Launches }, raw : RawIds, cache : BOOLEAN, mid : Ids ]

\* What is left of a token: it is good, past its own end ("ended"), past another end
\* ("lapsed": the chain's, the grace window's, the age's), or does not verify any more.
\* Then it is "headless" if the header that is read first is JSON but no object.
States   == {"good", "lapsed", "ended", "damaged", "headless"}
Verifies == {"good", "lapsed", "ended"}
Tokens   == [ licence : Licences, mid : Ids, forRaw : RawIds, forApp : Registered, state : States ]

\* A native key is written in the alphabet, a legacy one is kept as normalize_key
\* writes it, and the server gives out no App ID the constructor refuses.
Legacy(c) == c \in STRING \ (Separators \cup { LowerCase[i] : i \in DOMAIN LowerCase })

ASSUME SessionAssumption ==
  /\ \A launch \in Launches :
       /\ DOMAIN launch = {"appId", "id", "platform", "sources", "cache"}
       /\ launch.appId.key \in Seq(STRING)
       /\ launch.id \in RawIds \cup {""} /\ launch.cache \in BOOLEAN
       /\ launch.sources \in Readings \X Readings
  /\ Registered \subseteq { launch.appId : launch \in Launches }
  /\ \A app \in Registered :
       parseAppId(app) = "Ok" /\ \A i \in DOMAIN app.key : alphabetIndex(app.key[i]) # -1
  /\ \A l \in Licences :
       /\ l.key \in Seq(STRING) /\ \A i \in DOMAIN l.key : alphabetIndex(l.key[i]) # -1
       /\ l.alias \in Seq(STRING) /\ \A i \in DOMAIN l.alias : Legacy(l.alias[i])
  /\ Typed \subseteq Seq(STRING)
  /\ Responses \subseteq Answer
  /\ None \notin Objects \cup Tokens \cup Responses

VARIABLES
  sdk,   \* the Sdk of the running process, or None
  disk,  \* the token in each cache file, or None
  last   \* the call that has just ended: its argument, whether it sent a request, the
         \* answer and the result; for the properties only

vars == <<sdk, disk, last>>

NoCall == [op |-> "none", result |-> "none"]

Init == sdk = None /\ disk = [path \in Paths |-> None] /\ last = NoCall

\* One call at a time: the next one begins when the result of the last has been seen.
Ready == sdk # None /\ last = NoCall
Seen  == last # NoCall /\ last' = NoCall /\ UNCHANGED <<sdk, disk>>

-----------------------------------------------------------------------------
(* The cache file *)

Path == sdk.appId.key

\* storage.load, when there is a cache.
Cached == IF sdk.cache THEN disk[Path] ELSE None

\* What the cache file becomes; with Config.cache = False there is none.
Store(tok) == disk' = IF sdk.cache THEN [disk EXCEPT ![Path] = tok] ELSE disk

\* A token that verifies and validates, one that verifies with expiry ignored, and one
\* on which verification itself fails, with an error nobody expects.
Usable(tok)    == tok # None /\ tok.state = "good" /\ tok.mid = sdk.mid
Renewable(tok) == tok # None /\ tok.state \in Verifies /\ tok.mid = sdk.mid
Headless(tok)  == tok # None /\ tok.state = "headless"

\* Time passes, or somebody damages the file.
Age(path) ==
  /\ last = NoCall
  /\ disk[path] # None /\ disk[path].state \in Verifies
  /\ \E state \in States \ {"good"} : disk' = [disk EXCEPT ![path].state = state]
  /\ UNCHANGED <<sdk, last>>

\* Mutant: the alias is compared with the sanitized spelling.
MatchesFolded(tok, typed) ==
  \/ tok.licence.key = sanitizeKey(typed)
  \/ tok.licence.alias # <<>> /\ tok.licence.alias = sanitizeKey(typed)

\* activate's comparison of the cached license with the key typed.
Matches(tok, typed) ==
  \/ tok.licence.key = sanitizeKey(typed)
  \/ tok.licence.alias # <<>> /\ tok.licence.alias = normalizeKey(typed)

-----------------------------------------------------------------------------
(* The server *)

\* A license that is found by its key as a native one, or by its alias.
Found(typed) ==
  { l \in Licences : l.key = sanitizeKey(typed) \/ (l.alias # <<>> /\ l.alias = normalizeKey(typed)) }

\* A token is signed for the machine ID in the request.  forRaw and forApp say what
\* that was derived from, which the server never sees.
Grant(l) ==
  [licence |-> l, mid |-> sdk.mid, forRaw |-> sdk.raw, forApp |-> sdk.appId, state |-> "good"]

-----------------------------------------------------------------------------
(* Sdk.__init__: the App ID, the machine ID, the path of the cache *)

Construct(launch) ==
  LET app == parseAppId(launch.appId)
      id  == IF launch.id # "" THEN [error |-> "Ok", raw |-> launch.id]
             ELSE readPlatformId(launch.platform, launch.sources)
      result == IF app # "Ok" THEN app ELSE id.error
  IN  /\ sdk = None /\ last = NoCall
      /\ sdk' = IF result # "Ok" THEN None
                ELSE [ appId |-> launch.appId, raw |-> id.raw, cache |-> launch.cache,
                       mid |-> protectedId(id.raw, launch.appId) ]
      /\ last' = [op |-> "construct", launch |-> launch, result |-> result]
      /\ UNCHANGED disk

\* The process ends; nothing but the files is left of it.
Exit == Ready /\ sdk' = None /\ UNCHANGED <<disk, last>>

-----------------------------------------------------------------------------
(* activate and renew *)

Record(op, arg, sent, answer, result, tok) ==
  last' = [op |-> op, arg |-> arg, sent |-> sent, answer |-> answer, result |-> result, token |-> tok]

\* renew looks at the file again to note how it failed: a header that is no object
\* raises there too, in place of the failure.
Raised(op, outcome) ==
  IF op = "renew" /\ outcome \notin {"Ok"} \cup InvalidatingErrors /\ Headless(Cached)
  THEN "AttributeError" ELSE outcome

\* _post_and_handle_invalidation, _verify_and_validate and the save: an error that
\* says the activation is gone clears the file, a good token replaces it, every
\* other answer leaves it alone.
Settle(op, arg, answer, outcome, tok) ==
  /\ Record(op, arg, TRUE, answer, Raised(op, outcome), tok)
  /\ CASE outcome = "Ok"                  -> Store(tok)
       [] outcome \in InvalidatingErrors  -> Store(None)
       [] OTHER                           -> UNCHANGED disk
  /\ UNCHANGED sdk

\* The answers to a request for one of the licences found.  A good token comes from
\* the server alone, and only for an App ID it knows.
Answered(op, arg, found) ==
  \/ Settle(op, arg, None, "NetworkError", None)
  \/ \E a \in Responses :
       \/ postOutcome(a) # "Ok" /\ Settle(op, arg, a, postOutcome(a), None)
       \/ /\ postOutcome(a) = "Ok" /\ sdk.appId \in Registered
          /\ \E l \in found : Settle(op, arg, a, "Ok", Grant(l))

\* A call that ends without a request.
Locally(op, arg, result, tok) ==
  Record(op, arg, FALSE, None, result, tok) /\ UNCHANGED <<sdk, disk>>

Activate(typed) ==
  /\ Ready
  /\ IF validateLicenseKey(normalizeKey(typed)) # "Ok"
     THEN Locally("activate", typed, "InvalidKeyError", None)
     ELSE IF Headless(Cached)
     THEN Locally("activate", typed, "AttributeError", None)
     ELSE IF Usable(Cached) /\ Matches(Cached, typed)
     THEN Locally("activate", typed, "Ok", Cached)
     ELSE Answered("activate", typed, Found(typed))

\* The application has the licence's activation ID and key from an earlier activate.
Renew(l) == Ready /\ Answered("renew", l, {l})

-----------------------------------------------------------------------------
(* deactivate and the other machine calls *)

\* Once the server has said yes the cache is cleared, whichever activation it holds
\* and whatever the rest of the answer is.
Deactivate(l) ==
  /\ Ready
  /\ UNCHANGED sdk
  /\ \/ Record("deactivate", l, TRUE, None, "NetworkError", None) /\ UNCHANGED disk
     \/ \E a \in Responses :
          /\ Record("deactivate", l, TRUE, a, deactivateOutcome(a), None)
          /\ IF deactivateStatus(a) = "Ok" THEN Store(None) ELSE UNCHANGED disk

\* A call that changes nothing ends as the answer says.
Report(op, outcome) ==
  /\ Ready
  /\ \/ Record(op, None, TRUE, None, "NetworkError", None)
     \/ \E a \in Responses : Record(op, None, TRUE, a, outcome[a], None)
  /\ UNCHANGED <<sdk, disk>>

Machines      == Report("machines", [a \in Responses |-> listOutcome(a)])
RenameMachine == Report("rename_machine", [a \in Responses |-> renameOutcome(a)])

-----------------------------------------------------------------------------
(* check and the renewal it may start *)

\* The token's own end is the one rejection with an error of its own, and the machine
\* ID is compared before it.
Check ==
  /\ Ready
  /\ IF Headless(Cached)
     THEN Locally("check", None, "AttributeError", None)
     ELSE IF Usable(Cached)
     THEN Locally("check", None, "Ok", Cached)
     ELSE IF Renewable(Cached) /\ Cached.state = "ended"
     THEN Locally("check", None, "LicenseExpiredError", None)
     ELSE Locally("check", None, "NotActivatedError", None)

\* If the token is old enough, check has started a renewal, whose errors nobody sees.
\* That it overlaps with other calls is in Sdk.tla.
Background ==
  /\ sdk # None /\ last.op = "check"
  /\ Renewable(Cached)
  /\ Answered("background", None, {Cached.licence})

Next ==
  \/ \E launch \in Launches : Construct(launch)
  \/ Exit
  \/ \E typed \in Typed : Activate(typed)
  \/ \E l \in Licences : Renew(l) \/ Deactivate(l)
  \/ Machines
  \/ RenameMachine
  \/ Check
  \/ Background
  \/ \E path \in Paths : Age(path)
  \/ Seen

Spec == Init /\ [][Next]_vars

-----------------------------------------------------------------------------
(* Properties *)

\* No Sdk works with an empty machine ID or with an App ID that was refused, every
\* file holds a token that was granted for the project it is named after, and every
\* call ends in an error class of errors.py or one of the two that are not there.
SessionTypeOK ==
  /\ last.result \in {"none", "Ok", "AttributeError", "UnicodeDecodeError"}
                       \cup LatteErrors \cup AppIdErrors
  /\ sdk # None => sdk \in Objects /\ parseAppId(sdk.appId) = "Ok"
  /\ \A path \in Paths :
       disk[path] # None => disk[path] \in Tokens /\ disk[path].forApp.key = path

\* A licence that check or activate returns was granted to this very raw machine ID
\* and this very App ID.  pk_test_... and pk_live_... of one key share a cache file,
\* and a machine may change its raw ID from one process to the next.
OwnLicenceOnly ==
  last.op \in {"check", "activate"} /\ last.result = "Ok" =>
    last.token.forRaw = sdk.raw /\ last.token.forApp = sdk.appId

\* What each call is documented to raise.
FromStatus == {"LicenseNotFoundError", "LicenseExpiredError", "InvalidProjectKeyError",
               "ServerError", "NetworkError"}
Documented(op) ==
  CASE op = "construct"  -> AppIdErrors \cup {"MachineIdError"}
    [] op = "activate"   -> FromStatus \cup {"InvalidKeyError", "SeatLimitError"}
    [] op = "renew"      -> FromStatus \cup {"SeatLimitError"}
    [] op = "deactivate" -> FromStatus \cup {"DeactivationBlockedError"}
    [] op = "check"      -> {"NotActivatedError", "LicenseExpiredError"}
    [] OTHER             -> FromStatus \cup {"SeatLimitError"}

\* A 2xx with a part of another type than activate and renew take it for.
Misshapen(a) ==
  a.status \in 200..299 /\ a.json /\ (~a.object \/ a.chain = "mistyped" \/ a.token = "number")

\* Every call ends in an error documented for it or, but for three cases, in none: the
\* constructor lets UnicodeDecodeError out when a machine-id source is no UTF-8, activate
\* and renew AttributeError when a 2xx is misshapen, and these two and check when the
\* header of a damaged file is no object.  And check tells the end of this machine's own
\* licence from every other reason to refuse the file.
ErrorsDocumented ==
  last.op \notin {"none", "background"} =>
    /\ \/ last.result \in {"Ok"} \cup Documented(last.op)
       \/ /\ last.result = "UnicodeDecodeError" /\ last.op = "construct"
          /\ last.launch.id = "" /\ \E i \in {1, 2} : last.launch.sources[i] = Garbled
       \/ /\ last.result = "AttributeError" /\ last.op \in {"activate", "renew"}
          /\ last.answer # None /\ Misshapen(last.answer)
       \/ /\ last.result = "AttributeError" /\ last.op \in {"activate", "renew", "check"}
          /\ sdk.cache /\ disk[Path] # None /\ disk[Path].state = "headless"
    /\ last.op = "check" =>
         ( last.result = "LicenseExpiredError" <=>
             /\ sdk.cache /\ disk[Path] # None /\ disk[Path].state = "ended"
             /\ disk[Path].forRaw = sdk.raw /\ disk[Path].forApp = sdk.appId )

\* errors.py:103 without the exceptions: whatever an Sdk's calls raise is a LatteError.
\* False, for the two reasons above.
OnlyLatteErrors ==
  last.op \notin {"none", "construct", "background"} => last.result \in {"Ok"} \cup LatteErrors

\* Two spellings a user may take for each other: the same but for case, hyphens and
\* blanks, and, in a native key, for the characters that look alike.
Glyphs(raw) == { i \in DOMAIN raw : raw[i] \notin {"-", " "} }
Alike(c, d) == \E class \in { {"0", "O", "o"}, {"1", "I", "i", "L", "l"} } : {c, d} \subseteq class
LooksLike(raw, key, Same(_, _)) ==
  /\ Cardinality(Glyphs(raw)) = Len(key)
  /\ \A i \in Glyphs(raw) : Same(raw[i], key[Cardinality({ j \in Glyphs(raw) : j <= i })])
SameLetter(c, d) == c = d \/ \E i \in 1..26 : {c, d} = {LowerCase[i], UpperCase[i]}
StandsFor(typed, l) ==
  \/ LooksLike(typed, l.key, LAMBDA c, d : SameLetter(c, d) \/ Alike(c, d))
  \/ l.alias # <<>> /\ LooksLike(typed, l.alias, SameLetter)

\* activate goes without the network exactly when the file holds a good licence of this
\* machine the typed key stands for: another key's licence is never handed out, and a
\* legacy key, whose native key is another string, is recognised too.  A file that makes
\* it raise is left out.
ActivateHitsOwnKey ==
  [][ last'.op = "activate" /\ last'.result # "InvalidKeyError" /\ ~Headless(Cached) =>
        ( ~last'.sent <=>
            /\ sdk.cache /\ disk[Path] # None /\ disk[Path].state = "good"
            /\ disk[Path].forRaw = sdk.raw /\ disk[Path].forApp = sdk.appId
            /\ StandsFor(last'.arg, disk[Path].licence) ) ]_vars

\* What the cache files are after a call, by the answer alone.
FileAfter(call) ==
  IF call.op = "construct" \/ ~sdk.cache \/ call.answer = None
  THEN disk
  ELSE CASE call.op \in {"activate", "renew", "background"} /\ call.result = "Ok" ->
              [disk EXCEPT ![Path] = call.token]
         [] call.op \in {"activate", "renew", "background"} /\ call.answer.status \in {401, 403, 404} ->
              [disk EXCEPT ![Path] = None]
         [] call.op = "deactivate" /\ call.answer.status \in 200..299 /\ call.answer.json ->
              [disk EXCEPT ![Path] = None]
         [] OTHER -> disk

\* A successful activate or renewal stores the token it returns, and 401, 403 or 404 to
\* one deletes the file, as does a 2xx to deactivate.  Nothing else changes it, no 500
\* and no lost answer, and no call changes another project's file.  A 2xx to deactivate
\* that is misshapen deletes it too, though deactivate then fails: http.py:290 says that
\* a failing call keeps the cache.
FileFollowsAnswers == [][last'.op # "none" => disk' = FileAfter(last')]_vars

\* A slip in the key segment of a registered App ID: one character for another, or
\* two neighbours swapped.
Substituted(key, slip) ==
  { i \in DOMAIN key : Len(slip) = Len(key) /\ slip[i] # key[i]
                       /\ \A j \in DOMAIN key \ {i} : slip[j] = key[j] }
Swapped(key, slip) ==
  { i \in 1..(Len(key) - 1) :
      slip # key /\ slip = [key EXCEPT ![i] = key[i + 1], ![i + 1] = key[i]] }

\* Which substitutions a sum modulo 32 with weights 2, 1, 2, ... cannot see, and which
\* the alphabet hides: a foreign character counts as the one before the first.
Blind(i, c, d) ==
  LET value == [ x \in {c, d} |->
                   IF \E n \in 1..32 : Alphabet[n] = x
                   THEN CHOOSE n \in 1..32 : Alphabet[n] = x ELSE 32 ]
  IN  IF i % 2 = 1 THEN value[c] % 16 = value[d] % 16
                   ELSE value[c] = value[d]

\* The constructor takes no App ID that is one slip away from the one registered,
\* but for the blind spots above, which are in the part before the checksum; two
\* neighbours swapped are always found.
SlipsCaught ==
  last.op = "construct" /\ last.result \notin AppIdErrors =>
    \A app \in Registered :
      /\ Swapped(app.key, last.launch.appId.key) = {}
      /\ \A i \in Substituted(app.key, last.launch.appId.key) :
           /\ i <= SegmentLength - ChecksumLength
           /\ Blind(i, app.key[i], last.launch.appId.key[i])

\* Without a configured ID, the first source that may be asked and is not empty or
\* unreadable decides: the raw ID is what it holds, and if it is no UTF-8 the constructor
\* raises UnicodeDecodeError, though a later source may hold an ID and README.md:169
\* promises MachineIdError.  When none decides it raises MachineIdError.  The second
\* source of the BSDs may be asked only if the first cannot be read.
IdFromFirstSource ==
  last.op = "construct" /\ last.launch.id = "" /\ last.result \notin AppIdErrors =>
    LET sources == last.launch.sources
        asked   == CASE last.launch.platform = "linux" -> {1, 2}
                     [] last.launch.platform = "bsd"   -> IF sources[1] = Unreadable THEN {1, 2} ELSE {1}
                     [] last.launch.platform \in {"darwin", "win32"} -> {1}
                     [] OTHER -> {}
        Skipped(i) == sources[i] \in {"", Unreadable}
        Decides(i) == ~Skipped(i) /\ \A j \in asked : j < i => Skipped(j)
    IN  /\ \A i \in asked : Decides(i) =>
             IF sources[i] = Garbled
             THEN sdk = None /\ last.result = "UnicodeDecodeError"
             ELSE sdk # None /\ sdk.raw = sources[i]
        /\ (\A i \in asked : Skipped(i)) => sdk = None /\ last.result = "MachineIdError"
=============================================================================
