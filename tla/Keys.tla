-------------------------------- MODULE Keys --------------------------------
(***************************************************************************)
(* key.py and appid.py: the spelling of license keys, the checksum and the *)
(* App ID.  A key is a sequence of characters, an App ID the record of     *)
(* what splitting it at the underscores gives.                             *)
(***************************************************************************)
EXTENDS Integers, Sequences

CONSTANTS
  SegmentLength,   \* of the key segment of an App ID, 32
  ChecksumLength,  \* of the checksum at its end, 4
  MaxKeyLength     \* of a license key, 256

ASSUME KeysAssumption ==
  /\ ChecksumLength \in Nat \ {0, 1} /\ SegmentLength \in Nat /\ MaxKeyLength \in Nat
  /\ ChecksumLength < SegmentLength

Alphabet == << "0", "1", "2", "3", "4", "5", "6", "7", "8", "9", "A", "B", "C", "D", "E",
               "F", "G", "H", "J", "K", "M", "N", "P", "Q", "R", "S", "T", "V", "W", "X",
               "Y", "Z" >>

alphabetIndex(c) ==
  IF \E i \in DOMAIN Alphabet : Alphabet[i] = c
  THEN (CHOOSE i \in DOMAIN Alphabet : Alphabet[i] = c) - 1
  ELSE -1

ChecksumOf(total, length) ==
  [ i \in 1..length |-> Alphabet[((total + (i - 1) * 31) % Len(Alphabet)) + 1] ]

\* Mutant: every position has the same weight.
calculateChecksumFlat(data, length) ==
  LET total[n \in 0..Len(data)] == IF n = 0 THEN 0 ELSE total[n - 1] + alphabetIndex(data[n])
  IN  ChecksumOf(total[Len(data)], length)

\* The first, the third, ... character counts twice.
calculateChecksum(data, length) ==
  LET total[n \in 0..Len(data)] ==
        IF n = 0 THEN 0 ELSE total[n - 1] + alphabetIndex(data[n]) * (1 + (n % 2))
  IN  ChecksumOf(total[Len(data)], length)

validateKey(key, checksumLength) ==
  LET n == Len(key) - checksumLength
  IN  n >= 0 /\ calculateChecksum(SubSeq(key, 1, n), checksumLength) = SubSeq(key, n + 1, Len(key))

-----------------------------------------------------------------------------
LowerCase == << "a", "b", "c", "d", "e", "f", "g", "h", "i", "j", "k", "l", "m", "n", "o",
                "p", "q", "r", "s", "t", "u", "v", "w", "x", "y", "z" >>
UpperCase == << "A", "B", "C", "D", "E", "F", "G", "H", "I", "J", "K", "L", "M", "N", "O",
                "P", "Q", "R", "S", "T", "U", "V", "W", "X", "Y", "Z" >>

\* str.upper, on the letters of ASCII.
Upper(c) ==
  IF \E i \in DOMAIN LowerCase : LowerCase[i] = c
  THEN UpperCase[CHOOSE i \in DOMAIN LowerCase : LowerCase[i] = c]
  ELSE c

Fold(c) == CASE c = "O" -> "0" [] c \in {"I", "L"} -> "1" [] OTHER -> c

Separators == {"-", " "}

\* raw without its hyphens and blanks.
strip(raw) ==
  LET kept[n \in 0..Len(raw)] ==
        IF n = 0 THEN <<>>
        ELSE IF raw[n] \in Separators THEN kept[n - 1] ELSE Append(kept[n - 1], raw[n])
  IN  kept[Len(raw)]

normalizeKey(raw) == strip([ i \in DOMAIN raw |-> Upper(raw[i]) ])

sanitizeKey(raw) ==
  LET s == normalizeKey(raw) IN [ i \in DOMAIN s |-> Fold(s[i]) ]

\* _validate_license_key: no look at alphabet or checksum.
validateLicenseKey(normalized) ==
  IF Len(normalized) = 0 \/ Len(normalized) > MaxKeyLength THEN "InvalidKeyError" ELSE "Ok"

Environments == {"live", "test", "local"}

parseAppId(appId) ==
  IF appId.parts # 3 \/ appId.prefix # "pk"             THEN "InvalidAppIdFormatError"
  ELSE IF appId.env \notin Environments                 THEN "UnknownEnvironmentError"
  ELSE IF Len(appId.key) # SegmentLength                THEN "InvalidKeySegmentError"
  ELSE IF ~validateKey(appId.key, ChecksumLength)       THEN "InvalidChecksumError"
  ELSE "Ok"
=============================================================================
