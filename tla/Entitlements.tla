---------------------------- MODULE Entitlements ----------------------------
(***************************************************************************)
(* entitlements.py: what a seller signed into a licence, as a typed map.   *)
(*                                                                         *)
(* A JSON value is a record of its kind as Python sees it and a number: 1  *)
(* and 0 for true and false.  A "whole" is a float without a fraction, a   *)
(* "fraction" any other float, infinities included, "other" a string, a    *)
(* list, an object or null.  A claim that is no object is Absent.          *)
(***************************************************************************)
EXTENDS Integers

CONSTANT Absent   \* no such claim, no such entitlement

Kinds == {"bool", "int", "whole", "fraction", "other"}

Json == [kind : Kinds, n : Int]

\* Mutant: isinstance(v, int) is asked first, and every bool is an int.
NarrowIntFirst(value) ==
  IF value.kind \in {"bool", "whole"} THEN [value EXCEPT !.kind = "int"] ELSE value

\* The two types the format admits; a float with a whole value is an integer.
Narrow(value) == IF value.kind = "whole" THEN [value EXCEPT !.kind = "int"] ELSE value

\* decode_entitlements: Absent when there is no claim, or else what is left of it
\* when every value of another type is dropped.
DecodeEntitlements(ent) ==
  IF ent = Absent THEN Absent
  ELSE [ key \in { k \in DOMAIN ent : ent[k].kind \in {"bool", "int", "whole"} }
           |-> Narrow(ent[key]) ]

can(entitlements, key) ==
  /\ key \in DOMAIN entitlements
  /\ entitlements[key] = [kind |-> "bool", n |-> 1]

limit(entitlements, key) ==
  IF key \in DOMAIN entitlements /\ entitlements[key].kind = "int"
  THEN entitlements[key].n
  ELSE Absent
=============================================================================
