---------------------------- MODULE MCLicenseLife ----------------------------
(* LicenseLife on a small set of entries: every combination of token claims *)
(* on a sound chain, and every single defect of the chain under a few       *)
(* tokens.                                                                  *)
EXTENDS LicenseLife

MCRoots == <<"rootA", "rootB">>

Link(signer, carried, exp) ==
  [ form |-> "good", signedBy |-> signer, iss |-> Issuer,
    iat |-> 1, nbf |-> Absent, exp |-> exp, carries |-> carried, pid |-> Absent ]

TokenOf(mid, iat, exp, grc, lex) ==
  [ form |-> "good", signedBy |-> "dailyKey", iss |-> Issuer,
    sub |-> "key", alias |-> "", aid |-> "a", pid |-> "p", mid |-> mid,
    iat |-> iat, exp |-> exp, grc |-> grc, lex |-> lex, ent |-> Absent ]

Entry(tok, sub, proj, day) ==
  [token |-> tok, submaster |-> sub, project |-> proj, daily |-> day]

\* The certs of a sound chain expire at 7 and 9, or never; the day ends at 3.
Submasters == { Link(r, "subKey", exp) : r \in {"rootA", "rootB"}, exp \in {Absent, 7} }
Projects   == { Link("subKey", "projKey", exp) : exp \in {Absent, 6, 9} }
Daily      == [Link("projKey", "dailyKey", 3) EXCEPT !.iat = 2]

\* Tokens of both formats: no grc or one of -1, 0, 2, 4 and MaxGrace + 1.
Tokens ==
  { TokenOf(mid, iat, exp, grc, lex) :
      mid \in {"m1", "m2"}, iat \in {Absent, 1, 2, 3, 4}, exp \in {Absent, 1, 5, 8},
      grc \in {Absent, -1, 0, 2, 4, 5}, lex \in {Absent, 0, 6} }

FewTokens == { TokenOf("m1", 2, exp, grc, Absent) : exp \in {5, 8}, grc \in {Absent, 3} }

\* One thing wrong with one cert, or a claim it may or may not carry.
Variants(cert) ==
  { cert,
    [cert EXCEPT !.form = "malformed"],
    [cert EXCEPT !.form = "headless"],
    [cert EXCEPT !.signedBy = "rogue"],
    [cert EXCEPT !.iss = "other"],
    [cert EXCEPT !.iat = 5],
    [cert EXCEPT !.iat = Absent],
    [cert EXCEPT !.nbf = 4],
    [cert EXCEPT !.exp = Absent],
    [cert EXCEPT !.carries = Absent],
    [cert EXCEPT !.carries = "bad"],
    [cert EXCEPT !.pid = ""],
    [cert EXCEPT !.pid = "p"],
    [cert EXCEPT !.pid = "q"] }

TokenVariants(tok) ==
  { [tok EXCEPT !.form = "malformed"],
    [tok EXCEPT !.form = "headless"],
    [tok EXCEPT !.signedBy = "rogue"],
    [tok EXCEPT !.iss = "other"] }

\* Every value of every kind under one name, two names, an empty claim.
MCNames == {"export", "seats"}
SomeValues ==
  { [kind |-> "bool", n |-> 0], [kind |-> "bool", n |-> 1], [kind |-> "int", n |-> -1],
    [kind |-> "int", n |-> 1], [kind |-> "whole", n |-> 1], [kind |-> "fraction", n |-> 1],
    [kind |-> "other", n |-> 0] }
MCEnts == UNION { [names -> SomeValues] : names \in SUBSET MCNames }

MCEntries ==
  { Entry(tok, sub, proj, Daily) : tok \in Tokens, sub \in Submasters, proj \in Projects }
  \cup
  UNION { { Entry(tok, s, proj, Daily) : s \in Variants(sub) }
          \cup { Entry(tok, sub, p, Daily) : p \in Variants(proj) }
          \cup { Entry(tok, sub, proj, d) : d \in Variants(Daily) }
          \cup { Entry(t, sub, proj, Daily) : t \in TokenVariants(tok) } :
          tok \in FewTokens, sub \in Submasters, proj \in Projects }
  \cup
  { Entry([tok EXCEPT !.ent = ent], Link("rootA", "subKey", 7), Link("subKey", "projKey", 9), Daily) :
      tok \in FewTokens, ent \in MCEnts }
=============================================================================
