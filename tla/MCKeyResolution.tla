-------------------------- MODULE MCKeyResolution --------------------------
(***************************************************************************)
(* Model checking of KeyResolution: every configuration of up to three of  *)
(* the keys "a", "ab", "a/b", "a/", "a/b/" and the default key "d", and    *)
(* every request key of up to five characters over "a", "b", "/" and the   *)
(* key "d" with what is below it.                                          *)
(***************************************************************************)
EXTENDS KeyResolution, FiniteSets

MCChar == {"a", "b", "d", "/"}
MCDefault == <<"d">>

Names == {<<"a">>, <<"a", "b">>, <<"a", "/", "b">>, <<"a", "/">>,
          <<"a", "/", "b", "/">>, MCDefault}
MCConfigured == {ks \in SUBSET Names : Cardinality(ks) <= 3}
MCRequested ==
  UNION {[1..n -> {"a", "b", "/"}] : n \in 1..5} \cup {<<"d">>, <<"d", "/", "a">>}
=============================================================================
