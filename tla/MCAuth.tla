------------------------------- MODULE MCAuth -------------------------------
(***************************************************************************)
(* Model checking of Auth.  Chains: every order of a local provider and up *)
(* to two programs with and without a timeout, two entries of one user, a  *)
(* provider that does not load, an empty chain.  Inline secrets with zero, *)
(* one and two expressions, with marks that do not belong to one, and with *)
(* one that forms at a seam.  Requests with right and wrong credentials,   *)
(* some of which hold a placeholder or half of one; every argument of up   *)
(* to three symbols.                                                       *)
(***************************************************************************)
EXTENDS Auth, TLC

MCKey == <<"key">>
MCArgs == UNION {[1..n -> {Percent, "u", "p", "k"}] : n \in 1..3}

\* Values that are plain, that hold a closing mark, that are the rest of a mark,
\* and that name themselves.
MCEnv == (<<"A">> :> <<"a">>) @@ (<<"B">> :> <<"b", Shut>>) @@ (<<"X">> :> <<"{env.", "A">>)
MCLoopEnv == MCEnv @@ (<<"L">> :> Open \o <<"L", Shut>>)

Cred(u, s) == [user |-> u, secret |-> s]
Entries(type, creds) == [type |-> type, creds |-> creds, timeout |-> 0, loads |-> TRUE]
Program(t) == [type |-> "external", creds |-> <<>>, timeout |-> t, loads |-> TRUE]
Broken == [type |-> "file", creds |-> <<>>, timeout |-> 0, loads |-> FALSE]

\* Raw secrets, each of the user <<"u">>.
Env(name) == Open \o <<name, Shut>>
Raws == {<<"a">>, Env("A"), <<Shut>> \o Env("A") \o Env("B"),
         Open \o Env("A") \o <<Shut>>, <<"a">> \o Open \o <<"A">>, Env("L"),
         Env("X") \o <<"{env.">> \o Env("A"), <<Dollar>> \o Env("X") \o <<Shut>>}

Twice == <<Cred(<<"v">>, <<"b">>), Cred(<<"u">>, <<"a">>), Cred(<<"u">>, <<"b">>)>>
Local == {Entries(t, Twice) : t \in {"inline", "file", "htpasswd"}}

Chains ==
  {<<>>, <<Broken>>, <<Program(2), Broken>>}
  \cup {<<Entries("inline", <<Cred(Env("A"), <<"a">>), Cred(<<"u">>, raw)>>)>> : raw \in Raws}
  \cup {<<l>> : l \in Local}
  \cup {<<l, m>> : l \in Local, m \in Local}
  \cup {<<Program(t), l>> : t \in {2, 0}, l \in Local}
  \cup {<<l, Program(1)>> : l \in Local}
  \cup {<<Program(1), l, Program(2)>> : l \in Local}

Requests ==
  [protocol : {"http", "s3"}, user : {<<"u">>, <<"a">>}, password : {<<"a">>, <<"b">>}]
  \cup [protocol : {"http"}, user : {<<Percent>>, PasswordMark, <<>>},
         password : {<<"k">>, UserMark, KeyMark}]

MCCases ==
  {[providers |-> c, env |-> e, request |-> r] :
     c \in Chains, e \in {MCEnv, MCLoopEnv}, r \in Requests}
=============================================================================
