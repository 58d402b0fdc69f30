------------------------------ MODULE MachineId ------------------------------
(***************************************************************************)
(* machineid.py: where the raw machine ID comes from, and the ID derived   *)
(* from it.                                                                *)
(*                                                                         *)
(* A reading is what a file, a command or the registry gives: a raw ID,    *)
(* the empty string (also for white space), Unreadable for every failure   *)
(* the code meets with OSError, SubprocessError or MachineIdError, Garbled *)
(* for bytes that are not UTF-8.                                           *)
(***************************************************************************)
EXTENDS Integers, Sequences

CONSTANT RawIds   \* raw machine IDs

Unreadable == "unreadable"
Garbled    == "garbled"
Readings   == RawIds \cup {"", Unreadable, Garbled}

ASSUME MachineIdAssumption == RawIds \subseteq STRING \ {"", Unreadable, Garbled}

FirstOf(S) == CHOOSE i \in S : \A j \in S : i <= j

\* Mutant: the first file that can be read decides, also when it is empty.
readFirstFileAny(readings) ==
  LET readable == { i \in DOMAIN readings : readings[i] # Unreadable }
  IN  IF readable # {} THEN readings[FirstOf(readable)] ELSE Unreadable

\* The first file with something in it, or with bytes that are no text.  Without one,
\* the error of the last that cannot be read, and without one of those, nothing.
readFirstFile(readings) ==
  LET decisive == { i \in DOMAIN readings : readings[i] \notin {"", Unreadable} }
  IN  IF decisive # {} THEN readings[FirstOf(decisive)]
      ELSE IF \E i \in DOMAIN readings : readings[i] = Unreadable THEN Unreadable
      ELSE ""

\* The platform's sources in their order: two files on Linux, hostid and kenv on the
\* BSDs, where an empty hostid does not lead to kenv, and one elsewhere.
readRaw(platform, sources) ==
  CASE platform = "linux"  -> readFirstFile(sources)
    [] platform = "bsd"    -> IF readFirstFile(<<sources[1]>>) = Unreadable
                              THEN sources[2] ELSE sources[1]
    [] platform \in {"darwin", "win32"} -> sources[1]
    [] OTHER               -> Unreadable

\* Mutant: an empty ID is let through.
readPlatformIdUnchecked(platform, sources) ==
  LET raw == readRaw(platform, sources)
  IN  IF raw = Unreadable   THEN [error |-> "MachineIdError", raw |-> ""]
      ELSE IF raw = Garbled THEN [error |-> "UnicodeDecodeError", raw |-> ""]
      ELSE [error |-> "Ok", raw |-> raw]

\* read_platform_id.  UnicodeDecodeError is a ValueError, which nothing here catches.
readPlatformId(platform, sources) ==
  LET raw == readRaw(platform, sources)
  IN  IF raw \in {"", Unreadable} THEN [error |-> "MachineIdError", raw |-> ""]
      ELSE IF raw = Garbled       THEN [error |-> "UnicodeDecodeError", raw |-> ""]
      ELSE [error |-> "Ok", raw |-> raw]

\* Mutant: the App ID is left out of the message.
protectedIdBare(raw, appId) == [raw |-> raw, appId |-> ""]

\* HMAC-SHA256 over the App ID under the raw ID: as good as the pair of them.
protectedId(raw, appId) == [raw |-> raw, appId |-> appId]
=============================================================================
