# Verification of latte-py

TLA+ models of `latte-py`, the Python SDK of LicenseLatte, checked with TLC; every
property of the passing runs but the two of liveness is also proved with TLAPS. Line references are to `src/latte/` of the
repository unless they name another file.

1. [The system](#1-the-system): components, state, operations, what is hard
2. [The modules](#2-the-modules): what models what, and how
3. [The runs](#3-the-runs): what TLC checks, within which bounds
4. [Fairness](#4-fairness)
5. [What is proved](#5-what-is-proved)
6. [Where the code and its documents disagree](#6-where-the-code-and-its-documents-disagree)
7. [What is not modelled, and why](#7-what-is-not-modelled-and-why)
8. [Plan](#8-plan)

## 1. The system

An application embeds one `Sdk` object. The user activates a licence key once;
the server answers with a signed token and the certs that sign it, which the
SDK stores in a file. From then on `check` verifies that file offline, and
renews the token in the background once it is an hour old.

| Component | State | Operations | Interacts with | What makes it correct |
| --- | --- | --- | --- | --- |
| `http.Sdk` | `_cache_lock` (an `RLock`), `_renew_lock`, `_renew_in_flight`, `_last_renew_attempt`, `_renewal_failed`; the cache file | the constructor, `activate`, `renew`, `deactivate`, `check`, the thread `_background_renew`; `machines` and `rename_machine`, which change nothing | the server by POST, the file through `storage`, verification through `license` | every call takes effect at once or not at all; one renewal at a time, and no more of them than the schedule allows; the file is deleted only on a verdict; only verified tokens get in; a released activation stays out; the flag is about the cached activation; `check` waits for nobody; `activate` finds its own key in every spelling |
| `verify`, `jwt` | none | `verify_activation_at`, `parse_and_verify` | called by `license`, `http` | a token is accepted only under a whole chain of signatures, inside the certs' intervals, and consistent with them |
| `validate`, `license` | none | `validate_at`, `in_grace_period`, `is_valid`, `check_license_at` | called by `http` and by applications | the offline window ends exactly where the two token formats say, and the warning of a failed renewal lasts as long as the window |
| `storage` | the cache file and temporary files beside it | `save`, `load`, `clear` | called by `http`, from any thread and any process | every reader sees one complete record, or none |
| `domain` | none | the records `License`, `CertChain` | all | - |
| `entitlements` | none | `decode_entitlements`, `can`, `limit` | `verify`, applications | an application reads back what the seller set, of the two admitted types, without coercion |
| `key`, `appid` | none | normalization, the checksum, `parse_app_id` | `http` at construction and in `activate` | a slip in an App ID is found, as far as the checksum can; a key matches in every spelling and no other key does |
| `machineid` | none | `read_platform_id`, `protected_id` | `http` at construction | the first source that holds an ID decides; no `Sdk` without one; a licence is bound to raw ID and App ID |
| `errors`, `__init__` | none | exception classes, re-exports | - | each call raises its own classes, and what else gets out of it is known |

What is hard, and what the properties are for:

- **Concurrency.** Any number of application threads call one `Sdk`, and `check`
  adds a renewal thread. Two locks protect different things, one is held across
  file access, neither across a request. What a thread read before a request is
  old when the answer arrives.
- **Several processes** share one file, and no lock.
- **Failures.** The server is out of reach, acts and loses its answer, refuses,
  or sends a token that does not verify. The disk refuses a write and the code
  swallows the error. The process dies between any two steps and starts again
  with the file it left and with nothing of what was in memory.
- **Answers.** Any status, no JSON, JSON of the wrong shape, a token or chain that is
  missing, mistyped or unsound: each call has to make one of its own errors of it, and
  to keep the file or not, as the error says.
- **A file from the past.** What an earlier process left may have lapsed in one of several
  ways, belong to the machine's former ID or be damaged.
- **Time.** Three kinds of expiry (certs, licence, grace window), two token
  formats, and verdicts whose order decides whether `check` renews or sends the
  user to activate again.

`PROJECT.json` lists each of these hazards at its line, with the properties
about it.

## 2. The modules

| Module | Models | Lines of code it stands for |
| --- | --- | --- |
| `Entitlements` | `entitlements.py` as operators over typed JSON values | entitlements 74-142 |
| `LicenseCheck` | `jwt.py`, `verify.py`, `validate.py`, `license.py` as operators, and what `http.py` makes of a verdict | jwt 35-107, verify 59-217, validate 17-61, license 84-138, http 52-58 and 387-423 |
| `LicenseLife` | one entry watched while the clock goes on; the reference window; the properties of the pipeline | the same, over time |
| `Sdk` | `http.py`: every call that changes state, the renewal thread, the locks, the file, the network, restarts, the clock | http 157-298, 354-634 |
| `HeldLicense` | the abstract specification `Sdk` implements: one licence held, calls that take effect in one step | - |
| `SdkProps` | the properties of `Sdk`, its refinement mapping and its fairness | - |
| `SdkRate` | `Sdk` with a history of its attempts to renew | - |
| `AtomicCache` | the abstract specification of the file: one atomic register | - |
| `CacheFile` | `storage.py` over a directory and inodes; implements `AtomicCache` | storage 48-103 |
| `Keys` | `key.py`, `appid.py`: spelling, checksum, App ID | key 10-66, appid 13-45, http 505-515 |
| `MachineId` | `machineid.py`: the sources of a raw ID, the derived one | machineid 35-86 |
| `Answers` | what each call makes of an answer, by status and shape | http 60-64, 298-352, 580-634, errors 81-174 |
| `Session` | the constructor and the calls, one after the other, over processes, environments, keys and answers | http 157-460, 517-605, storage 36-45 |
| `MCLicenseLife`, `MCSdk`, `MCSdkRate`, `MCCacheFile`, `MCSession` | the instances TLC runs | - |
| `LicenseCheckProofs`, `LicenseLifeProofs`, `SdkProofs`, `SdkRenewalProofs`, `SdkRefinement`, `KeysProofs`, `SessionProofs`, `CacheFileProofs` | the proofs | - |

`Sdk` EXTENDS `LicenseCheck`: each verdict in it, on a cached token or on one the
server has just sent, is the verdict of the modelled pipeline on the signed entry
`EntryOf` builds, and not a Boolean chosen freely. Its `cache` is the register that
`CacheFile` implements, so that a save, a delete and a load are single steps in it, and
with one `Sdk` on the file it implements `HeldLicense` in turn. `Session` leaves out the
clock, threads and failing disks, which `Sdk` has, and has what `Sdk` takes for granted:
which key a typed string is, which machine and project an `Sdk` is made for, what each
answer is worth, and what each call raises.

### LicenseCheck and LicenseLife

A JWT is the record of the claims the code reads, with the key that signed it; a
missing claim is `Absent`. A signature verifies under the key that made it and
under no other. A JWT whose header is JSON but no object is `headless`: jwt.py:64 raises
`AttributeError` for it, which no caller expects. An operator returns the name of the error
the function raises, or `"Ok"`. Every check is there, in the code's order, because the order decides which
error a caller sees and `check` acts on the error. That a claim has the wrong JSON
type is the case `Absent` for the claims the code narrows with `isinstance`.

`LicenseLife` picks an entry and lets the clock run. Its reference, `Authentic`,
`Usable` and `InWindow`, is stated for the chain as a whole, without the order of
the checks and without the intermediate errors, and the properties compare the two.

`in_grace_period` and `is_valid` are checked there against the window, and the public
licence against the claim its entitlements come from.

### Session

A key is a sequence of characters, an App ID the record of the parts it splits into, a
machine ID source what one reading of it gives, and an answer its status and the shape
of its body. `Construct` is `Sdk.__init__`, from a `launch`: an App ID, `Config.machine_id`
or the platform's sources, and `Config.cache`. The server finds a licence by its native
key or by its alias and signs for the machine ID it is sent. The tokens in the files
carry, for the properties only, the raw machine ID and the App ID they were granted
to, which neither the server nor the SDK ever compares: `OwnLicenceOnly` says that the
derived ID stands in for both.

`last` is the call that has just ended: its argument, the answer and the result. `Seen`
forgets it, and the next call begins. Between two calls `Age` makes of a good token one
that is past the licence's own end, past another end, damaged or headless, which is all
that the later calls tell apart; which time does it is the matter of `LicenseLife`.
`Background` is the renewal `check` may have started, taken to its end before the next
call; that it overlaps with others is the matter of `Sdk`.

The answers to activate and renew are decoded in the code's order, including what it
does not ask: whether a 2xx is an object, and whether token and chain are strings.

### Sdk

| Code | Model |
| --- | --- |
| the cache file | `cache`: a token, which stands for the entry `EntryOf(token)`, or `None` |
| `time.time()` | `clock`, which `Tick` moves on and `StepBack` sets back |
| `_cache_lock` (per `Sdk`) | `lock`: its holder |
| `_renew_in_flight`, `_last_renew_attempt`, `_renewal_failed` | `inFlight`, `lastAttempt`, `renewalFailed` |
| where a thread is, its arguments and locals | `pc`, `job` |
| - | `released`, `blamed`: history, for the properties only |

A thread's way through its calls:

    check       idle -> loaded -> due -> starting -> idle        (+ a new worker at waiting)
    activate    idle -> waiting -> save -> reset -> idle
    renew       idle -> waiting -> save -> settle -> flag -> idle
    deactivate  idle -> waiting -> forget -> unlink -> idle
    background  waiting -> guard -> save -> settle -> flag -> finish -> idle
    a verdict that the activation is gone:  waiting -> (guard ->) forget -> unlink -> ...
    a renewal that fails otherwise:         waiting -> settle -> (flag ->) ...

Each access to the file, each critical section of `_renew_lock` and each answer
is a step of its own, so every interleaving of them is explored. These are the
places where several lines of code are one step, and why no behaviour is lost:

- Taking `_cache_lock` goes with the first access it protects and releasing it with
  the last: between the two a thread does nothing another one can see.
- `_renew_lock` is never held across another access to shared state, so each of its
  critical sections is one step. In `_set_renewal_failed` and `_clear_cache` the
  step is taken while `_cache_lock` is held.
- `activate` reads the file and the clock in one step, and writes nothing there. A
  clock that moves on in between makes no verdict possible that no later or earlier
  call of it could give.
- An answer is verified in the step in which it arrives. The clock's unit is the
  interval of five minutes or more; verification takes milliseconds.
- A call that fails before it has changed anything (no file, an implausible key, a
  cache hit in `activate`) is no step at all.

The server may answer any request with any status. What it grants is a token for
what it was asked for: for `activate` any activation of that key, for a renewal the
activation it names. The one thing it does not do is renew an activation after
`deactivate` has reported it released. Its tokens are dated by the clock of the
model. It may also send tokens for another machine and tokens that do not verify.
A lost answer is the step `Unreachable`, whether or not the server has acted: what
it did shows only in what it may grant later, which is not restricted by it.

`Restart` ends a process with all its threads, in any state, and builds a new `Sdk`
on the same file.

`HeldLicense` knows nothing of locks, files and clocks. A thread asks, is answered, and
its call takes effect on the licence held in one step, or is lost; a background renewal
only while the licence held is of the activation it renewed. `Pending` maps a thread to
the part of its call that has had no effect yet, so `Save` and `Unlink` map to
`TakeEffect`, `Guard` and `Forget` to nothing or to a call lost, `Restart` to calls lost.

### CacheFile and AtomicCache

`save` is create, write and rename of a uniquely named temporary file, each of which
may fail and leads to the clean-up; `load` is open and read; a process may die
between any two steps. `Register` maps the directory to the register's value, the
records being saved to its pending writes, and the file a reader has open to the
answer it is going to give: `Atomic` says that every step of the file system is a
step of the register or changes nothing in it.

## 3. The runs

| Run | Module | Checks | Instance | Distinct states |
| --- | --- | --- | --- | --- |
| `life` | `MCLicenseLife` | the verdicts against the reference; the warning; entitlements; the licence's own end; lapses are final; an accepted entry stays renewable | 10,864 entries, clock 1..12 | 130,368 |
| `sdk_core` | `MCSdk` | locks, check-then-write, the single renewal, deletions, saved tokens, the flag, the refinement of `HeldLicense`, with every fault but a failing `Thread.start` | 1 Sdk, 2 callers, 1 worker, 2 activations of 2 keys | 924,400 |
| `sdk_release` | `MCSdk` | without a manual renew a reported release stands | 2 callers, 2 activations of one key, crashes, failing starts, a clock set back | 248,976 |
| `sdk_live` | `MCSdk` | `check` returns by its own steps; all calls and renewals end, no lock or mark stays | 2 callers, 1 activation, all calls | 83,752 |
| `sdk_rate` | `MCSdkRate` | the schedule as the code keeps it; renew counts; no renewal thread stores an older token than the last one did | 2 callers, 2 workers, `renew` and `check`, interval 1, clock 2..4, crashes, failing starts | 898,522 |
| `cache_file` | `MCCacheFile` | the file is an atomic register; no litter | 2 clients, 2 records, OSErrors, crashes | 163,142 |
| `session` | `MCSession` | own licences only; errors; slips caught; ID sources; key spellings; the file follows the answers | 2 environments of 1 project, 2 raw IDs, 2 licences, 12 typed keys, 19 answers, 5 states of a token | 158,811 |
| `life_recovers`, `sdk_release_renew`, `sdk_stuck`, `sdk_rate_promised`, `session_errors` | | one statement of the documents each, which TLC refutes: section 6 | | |

What the properties say, beyond their names:

- `AcceptedExactlyInWindow`: nothing gets through, and nothing is kept out, because
  of the order of the checks, the format of the token or the daily cert's expiry
  that is never looked at.
- `WarnedUntilTheEnd`: the three freshness checks of `validate.py` differ in their bounds
  by exactly one moment: at the last one of the window the licence is given out without
  the warning. The property pins that moment down and excludes every other gap.
- `EntitlementsAsSet`: from the claim the seller signed to the answers of `can` and `limit`.
- `TooOldNeverRaised`: the 365-day ceiling never fires behind the 90-day one.
- `HardExpiryReported`: which of the ends `check` tells the user. The licence's own end wins
  over the grace window, and an expired cert wins over it (section 6).
- `LapseIsFinal`: once `check` has found that an entry has lapsed, no later `check` of the
  same file gives the licence out, though the verdict itself may go on changing, from one
  that starts a renewal to one that does not (`life_recovers`).
- `SignedStaysSigned`: `_cache_holds` recognises an activation for ever, which late
  renewals of machines that were off for months rely on.
- `RecoversUnlessSubmasterLapsed`: README.md:116 as far as it holds.
- `CacheLockExcludes` and `CheckedStaysTrue`: http.py:180, mutual exclusion and what
  it is for.
- `FlagConcernsCached`: the failure in `_renewal_failed` is that of the activation in
  the file. `blamed` records whose it was. The exception it names is real: after a
  save the flag is corrected under another lock, a moment later.
- `DroppedOnlyOnVerdict`: nothing but a deactivate that was answered and a status that
  says the activation is gone deletes the file.
- `ReleasedNotCached`: README.md and http.py:288. An `activate` ends the promise with
  the save of its token, also one that overlaps the release.
- `ActsAtOnce`: the same for every call, as a refinement: whatever is between a call's
  check and its write, what others see is one step.
- `NewestKept`: `_cache_holds` compares activations and not dates. Renewal threads do not
  overwrite a newer token by an older one all the same, because no two of them run at
  once. A manual renew beside them may; no document says otherwise.
- `OwnLicenceOnly`: `pk_test` and `pk_live` of a project share a cache file, and a machine
  may change its ID; neither gets at the other's licence.
- `ErrorsDocumented`: each call raises what its documentation lists, or one of two other
  errors under the exact condition on its arguments, its answer or its file under which the
  code lets it through; that no such condition may be met is `OnlyLatteErrors`, which
  `session_errors` refutes. And `LicenseExpiredError` out of `check` means the end of this
  machine's own licence, and nothing else does.
- `SlipsCaught`: the checksum finds every swap of neighbours and every wrong character,
  but for two kinds: at the first, third, ... position a character 16 places away in
  the alphabet, and a foreign character in place of the last one of the alphabet.
- `IdFromFirstSource`: no empty or unreadable source stops the search where the code is to
  go on, and none that holds an ID is passed over; but one that is not UTF-8 ends the search,
  with an error of its own (section 6).
- `ActivateHitsOwnKey`: an equivalence. What a typed key stands for is stated by glyphs
  that look alike, without normalization or folding.
- `FileFollowsAnswers`: the files after a call are a function of the files before it and of
  the answer. A store or a deletion that ought to happen and does not is excluded as well
  as one that ought not to.
- `RenewalRateBounded`: the documents promise one attempt per five minutes, which
  `sdk_rate_promised` refutes. What is kept is counted from each attempt on: the n-th
  decision after it is n intervals or more away from the time that attempt was stamped
  with, which is the one `check` had read. An Sdk that was idle for long gains nothing.
- `RenewCounts`: README.md:113. The check that decides may have read the clock before the
  renew was called, and yet stays within its interval.

**Bounds.** The clock of `Sdk` counts in units of the renewal interval or of half of
it. A token issued at 1 is due at once (`RenewAfter` = 1), and with `Grace` = 1 and
`ChainLife` = 2 it passes, between `Start` = 2 and `MaxClock` = 3, from valid to
lapsed; the licence of `a1` ends at 2, that of `a2` does not end. With
`MinInterval` = 1 a second renewal may follow a first within the run. Two callers
and a renewal thread are three threads that contend for a lock and a file: each
pairwise race, and one thread between another's two steps. One worker is enough
because `OneRenewalAtATime` holds: a second worker could never start, and
`StartThread` is never kept waiting for one; `sdk_rate` has two, since its properties
are about one renewal after another. Two activations are needed, and enough,
for what is stored under another's feet. `sdk_rate` has two intervals of one unit each:
three attempts, a check that was suspended over the first of them, and a renewal thread that
lasts over an interval. `sdk_rate_promised` has intervals of two units, so that an attempt can be
late by less than an interval. `life` uses 4, 5 and 1 for the ceilings and the renewal age, so that
every end, one before it and one after it, lies within the horizon of 12.
`cache_file` has two clients because each property is about a pair: two savers, or a
saver and a reader. `session` has App IDs with a key segment of six characters, two of
them before the checksum: each weight of the checksum occurs once, with each character
of the alphabet and two foreign ones in each place. Keys have two characters, among them each that
folding changes, and one licence has an alias that folding would change into another
string. Two raw IDs and two registered App IDs give four machines to one cache file.
Every status with a meaning, one without and a 2xx with each flaw are answers, and a token in
a file is in each state that `check` and `activate` tell apart.

**Symmetry** is used in safety runs only: over the callers in `sdk_core`, over callers
and workers in `sdk_rate`, and over clients, records, names and inodes in `cache_file`.

**Deadlock** is checked except where the clock stops (`life` and `life_recovers`) and in
`session` and `session_errors`, where nothing ever waits for anything.

**Mutants.** Each property of each passing run has a mutant of the modelled code that
TLC finds to break it: no lock, a plain `Lock`, a check not repeated, a `finally` left
out, a target called instead of passed, one half of the schedule's test, a failure
that clears the cache, a renew that does not count, a grace window looked at before the
licence's end, a token not validated, only the first root key, no grace
ceiling, an expiry always looked at, a bound that is not strict, booleans taken for
integers, an equal weight for each character, an empty ID let through, the first
readable source taken though empty, an App ID left out of the derived ID, an alias
compared after folding, an exception not caught, a full licence taken for a lost one,
a shared temporary name, no clean-up.

## 4. Fairness

The safety runs assume none. Strong fairness is assumed nowhere.

- `CallersRun`: a call that can go on with local work does so. Python schedules every
  runnable thread, and an `RLock` that is free is eventually given to a waiting thread.
  Weak fairness is enough because a holder always gets to its release. The specification
  of `sdk_live` is `LiveSpec == Spec /\ CallersRun`.
- `WorkersRun`: the same of renewal threads.
- `RequestsEnd`: every request ends. `requests` is called with a timeout (http.py:603),
  whose end is the step `Unreachable`.

`CheckReturns` needs `CallersRun` alone and so says that `check` waits neither for the
network nor for a renewal thread. `ComesToRest` has the other two as its premises,
beside the application's no longer calling. No fairness is assumed of the application,
the clock, the server's answers or crashes.

## 5. What is proved

TLAPS proves, for every value of the constants that the named ASSUMEs admit (any
number of Sdks, callers, workers, activations and keys, any clock, any faults):

| Theorem | States |
| --- | --- |
| `SdkProofs!TypesHold` | `Spec => []TypeOK` |
| `SdkProofs!MutualExclusion` | `Spec => []CacheLockExcludes` |
| `SdkProofs!SingleRenewal` | `Spec => []OneRenewalAtATime` |
| `SdkProofs!DropNeedsVerdict` | `Spec => DroppedOnlyOnVerdict` |
| `SdkProofs!OnlySoundSaved` | `Spec => []OnlySoundTokensSaved` |
| `SdkProofs!CheckThenWrite` | one Sdk: `Spec => []CheckedStaysTrue` |
| `SdkProofs!DeactivateStands` | one Sdk, no manual renew, no OSError: `Spec => []ReleasedNotCached` |
| `SdkRenewalProofs!InFlightHolds` | `Thread.start` never raises: `Spec => []InFlightMeansRunning` |
| `SdkRenewalProofs!RateBounded` | the clock is never set back: `RateSpec => []RenewalRateBounded` |
| `SdkRenewalProofs!RenewIsCounted` | the clock is never set back: `RateSpec => RenewCounts` |
| `SdkRenewalProofs!NewestStays` | one Sdk, the clock is never set back: `RateSpec => NewestKept` |
| `SdkRenewalProofs!FlagHolds` | one Sdk, the clock is never set back: `Spec => []FlagConcernsCached` |
| `LicenseLifeProofs!AcceptanceExact` | `Spec => []AcceptedExactlyInWindow` |
| `SdkRefinement!SdkImplementsHeldLicense` | one Sdk: `Spec => ActsAtOnce`: `Sdk` implements `HeldLicense` |
| `LicenseLifeProofs!WarnedToTheEnd` | `Spec => []WarnedUntilTheEnd` |
| `LicenseLifeProofs!EntitlementsExact` | `Spec => []EntitlementsAsSet` |
| `LicenseLifeProofs!AgeCeilingIdle` | `Spec => []TooOldNeverRaised` |
| `LicenseLifeProofs!OnlyOwnRenewed` | `Spec => []OnlyOwnTokensRenewed` |
| `LicenseLifeProofs!SignedStays` | `Spec => SignedStaysSigned` |
| `LicenseLifeProofs!HardExpiryExact` | `Spec => []HardExpiryReported` |
| `LicenseLifeProofs!LapseFinal` | `Spec => LapseIsFinal` |
| `LicenseLifeProofs!Recovers` | `Spec => RecoversUnlessSubmasterLapsed` |
| `SessionProofs!ErrorsHold` | `Spec => []ErrorsDocumented` |
| `SessionProofs!OwnLicenceHolds` | `Spec => []OwnLicenceOnly` |
| `SessionProofs!FileFollows` | `Spec => FileFollowsAnswers` |
| `SessionProofs!SessionTypeHolds` | `Spec => []SessionTypeOK` |
| `SessionProofs!SlipsAreCaught` | `Spec => []SlipsCaught` |
| `SessionProofs!FirstSourceDecides` | `Spec => []IdFromFirstSource` |
| `SessionProofs!ActivateHits` | `Spec => ActivateHitsOwnKey` |
| `KeysProofs!SubstitutionTold` | with one character replaced, a valid key stays valid exactly if the character stands before the checksum and the two weigh the same modulo 32 |
| `KeysProofs!SwapSeen` | with two different neighbours swapped, no valid key in the alphabet stays valid |
| `KeysProofs!NormalizedIs`, `KeysProofs!SanitizedIs` | what `normalize_key` and `sanitize_key` make of a string, character by character |
| `CacheFileProofs!TypeHolds` | `Spec => []CacheTypeOK` |
| `CacheFileProofs!NothingLeftHolds` | `Spec => []NothingLeftBehind` |
| `CacheFileProofs!Implements` | `Spec => Atomic`: `CacheFile` implements `AtomicCache` |

**The argument for `Sdk`.** `TypeOK` alone is not inductive: that `Save` writes a token
and not `None`, or that `Flag` blames an activation, depends on what the thread's job
holds at that point. `Control` (in `SdkProofs`) says it for every point of the code, and
`Typed == TypeOK /\ Control` is inductive (`TypeCorrect`). On top of it:

- `CacheLockExcludes` is inductive: taking, keeping and releasing the lock each map
  a thread from outside to inside its critical sections, inside to inside, or back
  (`LockTaken`, `LockUntouched`, `LockReleased`).
- `OneRenewalAtATime` is inductive, since only `Claim` adds a renewal, when none is
  marked, and only `Finish` and `Restart` reset the mark.
- `OnlySoundTokensSaved` and `DroppedOnlyOnVerdict` follow from `Control` and from the
  two steps that change the file (`CacheWriters`).
- `CheckedStaysTrue` needs `CacheLockExcludes`, and one fact more: a save or a delete by
  a thread that does not rely on the lock's protection happens while it is the
  holder, so no relying thread of the same Sdk is inside (`OneWriter`). With two Sdks
  it is false: each has a lock of its own (section 6).
- `ReleasedNotCached` is not inductive without `CheckedStaysTrue`: the renewal that saves
  must be known to save what the file holds. The theorem's three assumptions are the
  ones without which it is false: two processes, a manual renew, a failing delete.
- `InFlightMeansRunning` is inductive: the step that sets the mark makes its thread a
  renewal, a renewal thread ends only in `Finish` (`RenewalGoesOn`), and `StartThread` hands
  the renewal from the caller to the worker. The only other way out of "starting" is
  `StartThreadFails`, the assumption of the theorem and the finding of `sdk_stuck`.
- `RenewalRateBounded` and `RenewCounts` need `Schedule`: the last attempt and the last renew
  lie in the past, a check that is due carries a time that lies in the past too, and the
  last attempt is as many intervals after each attempt as there were attempts since. A
  decision stamps a time an interval or more after the last attempt and is made at that
  time or later; a renew only moves the last attempt on, so it counts. That the stamp may
  lie before the decision is why the bound starts from the stamp.
- `NewestKept` needs `InOrder`: what a background renewal has stored is not from the
  future, and a token another one is bringing is no older. A new answer comes from
  the present, and while one renewal saves, no other is bringing any (`NobodyElse`, from
  `OneRenewalAtATime`).
- `FlagConcernsCached` needs `FlagTold`: tokens on their way verified once and so, by
  `SignedForever`, are still signed; hence `_cache_holds` cannot deny a thread that has
  just stored its token, and it does come to correct the flag (`CorrectingGoesOn`). And
  between the two halves of `_clear_cache` the flag is down, because raising it takes
  the lock the deleting thread holds. With a clock that is set back the first part is
  false: the token is then not yet valid.
- `ActsAtOnce` rests on `CheckedStaysTrue`, which makes the effect of a background renewal
  one on its own activation, and on `Control`, which makes the token it writes the one it
  was granted. The proof takes the actions one by one: the steps before the effect map to
  `Ask` and `Answer`, `Save` and `Unlink` to `TakeEffect` or, with an OSError, to `Lose`,
  everything after them to no step.

**The argument for `LicenseLife`.** The lemma `VerifyOk` turns verification, a cascade of
eight checks, into one conjunction; `AcceptedIff` does so for the whole pipeline.
Entries are arbitrary records of the type `EntryType`, the root keys any non-empty
sequence. `SignedForever` (in `LicenseCheckProofs`) carries a verification from one time
to any later one; the action properties are instances of lemmas about two times.
`LapseIsFinal` is no such instance: `Lapsed` is not preserved by a tick. `HasLapsed`, that the
entry has lapsed at some time up to now, is, and excludes acceptance, because every lapse
is the end of an interval of the reference window (`LapsedOutside`). `HardExpiryReported`
reads the cascade up to the licence's end as one conjunction.

**The argument for `Session`.** `ErrorsDocumented` follows from what the operators of
`Answers` return for an arbitrary answer (`PostRaises`, `DeactivateRaises`, `ReportRaises`),
one call after the other: `SettleEffect` says what an answer to activate or renew leaves
behind, `LocalCheck` and `LocalCall` what a call without a request does, and `AsDocumented`
and `EndTold` are the two halves of the property. That `LicenseExpiredError` means this
machine's own licence needs the invariant of the ownership.

For the ownership and the file, `Granted` says that the Sdk sends the ID derived from its
raw ID and App ID and that the files hold only tokens granted to such IDs, whatever `Age`
has made of them (`AgeEffect`); the derived ID is injective, so a token that passes for
this machine was granted to it (`OwnIs`, `UsableIs`), through whichever App ID's session it
got into the file. `SdkOK` and `FilesOK` say what an Sdk and a token are made of and that a
file holds tokens of its own project only; with `Granted` they are inductive (`NextTypes`,
with `GrantIsToken` for what the server signs) and give `SessionTypeOK`. `FileFollowsAnswers`
compares, for each way an answer ends, what the call does by its outcome with what
`FileAfter` says by the answer (`AnsweredFollows`). The other three properties rest on one
call each:

- `SlipsCaught` on `Construct`, which accepts an App ID only if its checksum is right; the
  server's own App IDs are right by assumption, so `SlipSeen` applies the theorems of
  `KeysProofs` to the pair, and `BlindIs` shows that `Blind`, stated by the values of the
  characters alone, is the same as their equal weight modulo 32.
- `IdFromFirstSource` on `Construct` too, by cases over the platforms (`OneFile`, `TwoFiles`).
- `ActivateHitsOwnKey` on `Activate`: `UsableIs` makes the comparison of derived IDs one of
  raw ID and App ID, and `MatchesIsStandsFor` the comparison of spellings one of glyphs,
  by `NormalizedIs` and `SanitizedIs`. It needs to know that native keys are written in
  the alphabet and legacy keys as `normalize_key` leaves them: a licence that was stored
  in another spelling would never be recognised.

**The argument for `Keys`.** The sum of the checksum and the stripping of separators are
recursive functions, which the provers see as the CHOOSE of a solution of their
equation. `NatInd` is induction for sets of numbers, which needs no operator parameter;
`Recursion` builds a solution with it. `ChecksumIsSum` and `StripIsKept` then give the
equations, and inductions over the length of the string give the rest:

- Replacing one character changes the sum by its weight times the difference of the two
  (`SubstitutedBy`), swapping two neighbours by the difference of the two
  (`SwappedSum`), which is never a multiple of 32 for two different characters of the
  alphabet. One character of the checksum tells sums apart modulo 32 (`CheckCharTells`).
  `SubstitutionTold` is an equivalence: the blind spots named in section 3 are real, and
  there are no others.
- A swap across the border changes the data and the checksum at once. It is seen because the
  second character of the checksum stays as it was; hence `ChecksumLength` is at least two.
- A foreign character has the index -1, which is that of the last character modulo 32. The
  theorem on swaps therefore speaks of characters of the alphabet, and `Session` assumes
  that the server's App IDs are written in it.
- `StripSpreads` says where each character that is kept ends up: at its rank among the
  characters that are no separators. `NormalizedIs` and `SanitizedIs` are its two
  consequences, since no letter becomes a separator (`LettersKept`).

**The argument for `CacheFile`.** The register changes at the rename and is read at the
open, so the refinement rests on the bytes behind a name or an open file not
changing afterwards. `Inv` says why: two names never stand for one inode and two
calls never share a temporary name (`Distinct`), so between its creation and its rename
the temporary file is its saver's own, holds the whole record when it is renamed, and
is nothing a reader has open (`FilesOf`). From `Inv`, `WriteTmpOwn` says that a write
touches neither the cache file nor what a reader is reading. The steps then map one by
one: `Save` to `Begin`, `Replace` to `Commit`, `CleanUp` and `Die` to `Abandon`, `Clear` and
`Load` to themselves, and `CreateTmp`, `WriteTmp`, `Fail` and `Read` to no step at all.

**Assumptions.** `LicenseCheckAssumption` (the 90-day ceiling lies below the 365-day one),
`KeysAssumption` (a checksum of two characters or more, shorter than the key segment;
appid.py:11 has 4 of 32), `MachineIdAssumption` (no raw ID is the empty string or the name of a
failed reading), `LicenseLifeAssumption`, `SdkAssumption` and `CacheFileAssumption` say what
the constants are. `SessionAssumption` says it of the instance and of the server: its App IDs
pass `parse_app_id` and, like native keys, are written in the alphabet of key.py:10;
legacy keys are free of separators and small letters; `None` is neither an Sdk nor a token.
TLC evaluates each assumption on its runs.

**Only model-checked.** The two liveness properties, `CheckReturns` and `ComesToRest`: liveness
under fairness is out of the prover's reach. So is ENABLED, and with it the absence of
deadlock that TLC checks.

## 6. Where the code and its documents disagree

1. **Recovery depends on which root key signed** (`life_recovers`). When no root key
   verifies the submaster cert, the error raised is the first key's (verify.py:93-96).
   For an expired cert under another root that is `InvalidSignatureError`, not
   `ExpiredError`, and `check` starts no renewal, though README.md:116-121 promises
   recovery. The passing property `RecoversUnlessSubmasterLapsed` says how far it goes.
2. **A manual renew can undo a deactivate** (`sdk_release_renew`). `renew` stores its token
   without looking at the file (http.py:278), unlike the background renewal.
3. **A thread that does not start ends background renewal** (`sdk_stuck`). The in-flight mark
   is set before `Thread.start` and reset only by the thread.
4. **Two attempts to renew may be less than five minutes apart** (`sdk_rate_promised`).
   README.md:102 and 111, http.py:21 and 369 promise five minutes. `check` compares and
   stamps the time it read before it verified the file (http.py:388, 425-428); when its
   thread is suspended in between, its attempt counts as older than it is.
   `RenewalRateBounded` and `RenewCounts` say what is kept.
5. **AttributeError out of `activate`, `renew` and `check`** (`session_errors`). A 2xx whose JSON
   is not an object, whose chain is not one, or whose token or certs are not strings gets
   past `_post` (http.py:584-597); `machines`, `rename_machine` and `deactivate` catch it.
   A JWT whose header is JSON but no object does the same in the verification (jwt.py:64),
   and such a file makes `check`, `activate` and a failing `renew` raise it. errors.py:103-111
   makes `LatteError` the base of what these calls raise, a malformed response included,
   and http.py:361-365 lists a corrupt file under `NotActivatedError`. `ErrorsDocumented`
   states the exact conditions.

The models show more disagreements that have no run of their own:

- **Hard expiry does not always win.** README.md:324-326 and http.py:358 promise `HardExpiredError`,
  and `LicenseExpiredError` from `check`. If a cert of the chain has expired too, the chain's
  `ExpiredError` comes first (license.py:109-110) and `check` raises `NotActivatedError`.
  `HardExpiryReported` says exactly when the end of the licence is reported.
- **A background renewal of another process can undo a deactivate.** `_cache_lock` is a lock of one
  object (http.py:182); the file is shared by every process of the project, and the check
  and the write of one process's renewal (http.py:453-454) may lie on both sides of
  another's deactivate, although http.py:180 calls the two atomic against each other.
  `CheckedStaysTrue` and `ReleasedNotCached` are checked, and proved, for one Sdk.
- **A delete that fails is no failure of deactivate.** `_clear_cache` swallows the `OSError`
  (http.py:555), so `deactivate` reports a release and `check` goes on accepting the file,
  against http.py:286-289. `ReleasedNotCached` is stated for a disk that works.
- **UnicodeDecodeError out of the constructor.** A machine-id file that is not UTF-8 is
  neither an `OSError` nor a `SubprocessError` (machineid.py:47), and ends the search for an
  ID even if the next file holds one; README.md:169 says the constructor raises
  `MachineIdError` if no machine ID can be read. `IdFromFirstSource` says exactly when.
- **A deactivate that fails may have cleared the cache.** With a 2xx of a wrong shape
  `deactivate` raises `ServerError` after it has cleared the cache (http.py:312-320);
  http.py:289-290 says "When the call fails, the cache is kept". `FileFollowsAnswers` has this
  case, and no other failure of `deactivate` changes the file.
- **InvalidKeyError is not about format or checksum.** errors.py:120-122 says it is, and about
  the short_id; `activate` looks at the length alone (http.py:514), as its docstring says.

`deactivate` and a refused `renew` or `activate` delete the file whichever activation it
holds; no document forbids it.

## 7. What is not modelled, and why

- What is sent and never read back: `machine_name` and the hostname it defaults to, the `sdk`
  field, `base_url` and `timeout`. No state and no verdict depends on them.
- The values in the answers of the machine calls (`Machine`, `DeactivateResult`, the reason
  of a `DeactivationBlockedError`) and `_parse_time`: an answer's field is missing, of a wrong
  shape or good, and the call ends accordingly.
- Licence type and metadata: carried along, never looked at.
- `str.upper` beyond the letters of ASCII, where one character may become two.
- The extraction of a UUID from `ioreg`'s output, and `winreg`: one reading each.
- `__init__.py`: re-exports and a version string.
- A power failure between a rename and the flush of the data it names, and what
  `requests.Session` does when threads share it: outside this code.
- Which other calls a clock that is set back disturbs: the renewal interval is not kept, and
  `_renewal_failed` may outlive its activation, because a token from the future is not
  recognised by `_cache_holds`. No document promises either.
- Cryptography: a signature is the name of the key that made it.

## 8. Plan

Done, in order of importance.

1. `LicenseCheck`, `LicenseLife`: the pipeline and its reference, with proofs.
2. `Sdk`, `SdkProps`: the calls and the renewal thread; type correctness, mutual
   exclusion, check-then-write, the release, with proofs.
3. `SdkRate`: the schedule.
4. `CacheFile`, `AtomicCache`: storage, as a refinement.
5. `CacheFileProofs`: `CacheFile` implements `AtomicCache`.
6. `HeldLicense` and `SdkRefinement`: `Sdk` implements it, with a proof; `NewestKept`.
7. A clock that is set back.
8. `Entitlements`, `Keys`, `MachineId`, `Answers`, `Session`: the rest of the package.
9. `SdkRenewalProofs`, `SessionProofs`: the schedule, the flag, the sessions.
10. `KeysProofs`: the checksum and the spelling of keys, for every length; with it the
    rest of the properties of `Session`.
11. What time and damage make of a file between the calls of `Session`; the schedule counted
    from each attempt; a lapse as final for ever.

Left: what holds of `FlagConcernsCached` and `ActsAtOnce` when several Sdks share the
file (as stated they need the one lock).
