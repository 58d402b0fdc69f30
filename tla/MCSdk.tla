-------------------------------- MODULE MCSdk --------------------------------
(* Small instances of the Sdk: one Sdk object, two application threads, one   *)
(* or two activations.                                                        *)
EXTENDS SdkProps, TLC

CONSTANTS a1, a2, k1, k2, s1

OneSdk == [t \in Threads |-> s1]

OwnKeys == (a1 :> k1) @@ (a2 :> k2)
OneKey  == [a \in Activations |-> k1]

\* a1's licence ends while the clock still runs, a2's does not.
Ends  == [a \in Activations |-> IF a = a1 THEN 4 ELSE 9]
Ends2 == [a \in Activations |-> IF a = a1 THEN 2 ELSE 9]

Roots == <<"rootA">>

\* A token that is due for renewal, one of another machine, and one whose signature
\* does not hold.  No file, and a file of a2, are reached from there.
Files == [aid : {a1}, iat : {1}, sort : {"sound", "foreign", "forged"}]

SoundFiles == {None} \cup [aid : Activations, iat : {1}, sort : {"sound"}]

FewFiles == [aid : {a1}, iat : {1}, sort : {"sound"}]

CallerSymmetry == Permutations(Callers)

\* For one Sdk with several renewal threads.
ThreadSymmetry == Permutations(Callers) \cup Permutations(Workers)
=============================================================================
