------------------------------ MODULE MCSession ------------------------------
(* Sessions with short keys: an App ID whose key segment has two characters   *)
(* before the checksum, a licence with a native key only and one that has     *)
(* come over with a legacy key.                                               *)
EXTENDS Session, TLC

CONSTANTS r1, r2

Data   == <<"G", "Z">>
Segment == Data \o calculateChecksum(Data, ChecksumLength)
AppId(env, key) == [parts |-> 3, prefix |-> "pk", env |-> env, key |-> key]
Live == AppId("live", Segment)
Test == AppId("test", Segment)
MCRegistered == {Live, Test}

\* Every slip of one character, a lower-case one and one outside the alphabet
\* included, every two neighbours swapped, and what is no App ID at all.
Characters == { Alphabet[n] : n \in DOMAIN Alphabet } \cup {"o", "-"}
Slips ==
  { [Segment EXCEPT ![i] = c] : i \in DOMAIN Segment, c \in Characters }
    \cup { [Segment EXCEPT ![i] = Segment[i + 1], ![i + 1] = Segment[i]] : i \in 1..(Len(Segment) - 1) }
AppIds ==
  { AppId("live", key) : key \in Slips \cup {<<>>, Data, Tail(Segment), Segment \o <<"0">>} }
    \cup { AppId("local", Segment), AppId("prod", Segment),
           [Live EXCEPT !.prefix = "sk"], [Live EXCEPT !.parts = 2] }

Launch(app, id, platform, sources, cache) ==
  [appId |-> app, id |-> id, platform |-> platform, sources |-> sources, cache |-> cache]

MCLaunches ==
  { Launch(app, "", "linux", <<r1, r2>>, TRUE) : app \in AppIds }
    \cup { Launch(Live, "", platform, sources, TRUE) :
             platform \in {"linux", "bsd", "darwin"}, sources \in Readings \X Readings }
    \cup { Launch(Live, "", "win32", <<reading, r2>>, TRUE) : reading \in Readings \ {Garbled} }
    \cup { Launch(Live, "", "plan9", <<r1, r1>>, TRUE) }
    \cup { Launch(app, id, "linux", <<"", "">>, cache) :
             app \in MCRegistered, id \in RawIds, cache \in BOOLEAN }

MCLicences ==
  { [key |-> <<"0", "1">>, alias |-> <<>>], [key |-> <<"A", "1">>, alias |-> <<"L", "O">>] }

\* Spellings of the native keys and of the legacy one, and keys of no length, of
\* nothing but hyphens, and too long.
MCTyped ==
  { <<>>, <<"-", " ">>, <<"0", "1", "1">>, <<"0", "-", "1">> }
    \cup { <<c, d>> : c \in {"o", "0", "L", "a"}, d \in {"1", "i", "o"} }

Good == [ status |-> 200, json |-> TRUE, object |-> TRUE, token |-> "text",
          chain |-> "whole", sound |-> TRUE, field |-> "good" ]

\* Each status with a body that is no JSON, each flaw a 2xx may have, a token and a
\* chain that are both flawed, and none.
MCResponses ==
  { [Good EXCEPT !.status = status, !.json = FALSE] : status \in {200, 301, 401, 403, 404, 409, 500} }
    \cup { Good, [Good EXCEPT !.status = 299], [Good EXCEPT !.object = FALSE],
           [Good EXCEPT !.sound = FALSE] }
    \cup { [Good EXCEPT !.token = token, !.chain = chain, !.sound = FALSE] :
             token \in {"none", "number"}, chain \in {"none", "mistyped"} }
    \cup { [Good EXCEPT !.token = "number"], [Good EXCEPT !.chain = "partial"] }
    \cup { [Good EXCEPT !.field = field] : field \in {"none", "mistyped"} }
=============================================================================
