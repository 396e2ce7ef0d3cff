----------------------------- MODULE Templates -----------------------------
(***************************************************************************)
(* The two string substitutions of authentication: ${env.NAME} in inline   *)
(* credentials (resolveExpression of internal/auth/inline.go) and %u, %p,  *)
(* %k in the arguments of an external program (buildArgs of                *)
(* internal/auth/external.go).                                             *)
(*                                                                         *)
(* A text is a sequence of symbols.  Opening marks and placeholders are    *)
(* two symbols each, their first character and the rest, so that one can   *)
(* form at the seam between an inserted value and the text around it.      *)
(***************************************************************************)
EXTENDS Naturals, SequencesExt

Dollar == "$"
Open == <<Dollar, "{env.">>
Shut == "}"

\* The mark m, of two symbols, stands at position i.
IsAt(t, i, m) == i < Len(t) /\ t[i] = m[1] /\ t[i + 1] = m[2]

-----------------------------------------------------------------------------
(* ${env.NAME}                                                              *)

\* os.Getenv: empty for a variable that is not set.
Getenv(env, name) == IF name \in DOMAIN env THEN env[name] ELSE <<>>

Opens(t) == {i \in DOMAIN t : IsAt(t, i, Open)}
Start(t) == Min(Opens(t))

Shuts(t) == {j \in DOMAIN t : t[j] = Shut /\ j > Start(t)}

\* The loop of resolveExpression goes on.
Expandable(t) == Opens(t) # {} /\ Shuts(t) # {}

\* Variant: the closing mark stays.
ExpandOnceUpTo(env, t) ==
  LET end == Min(Shuts(t))
  IN  SubSeq(t, 1, Start(t) - 1)
        \o Getenv(env, SubSeq(t, Start(t) + 2, end - 1))
        \o SubSeq(t, end, Len(t))

\* What one turn of it does: the value and the text around it are one text for
\* the next turn.
ExpandOnce(env, t) ==
  LET end == Min(Shuts(t))
  IN  SubSeq(t, 1, Start(t) - 1)
        \o Getenv(env, SubSeq(t, Start(t) + 2, end - 1))
        \o SubSeq(t, end + 1, Len(t))

\* What a reader of the configuration expects: every expression of the text is
\* replaced by the value of its variable, and values are taken as they are.
Expanded(env, t) ==
  LET rest[i \in 1..(Len(t) + 1)] ==
        LET ends == {j \in DOMAIN t : j > i /\ t[j] = Shut}
        IN  IF i > Len(t) THEN <<>>
            ELSE IF IsAt(t, i, Open) /\ ends # {}
                 THEN Getenv(env, SubSeq(t, i + 2, Min(ends) - 1)) \o rest[Min(ends) + 1]
                 ELSE <<t[i]>> \o rest[i + 1]
  IN  rest[1]

\* A text whose dollar signs all begin an expression.
OnlyMarks(t) == \A i \in DOMAIN t : t[i] = Dollar => IsAt(t, i, Open)

-----------------------------------------------------------------------------
(* %u, %p and %k                                                            *)

Percent == "%"
UserMark == <<Percent, "u">>
PasswordMark == <<Percent, "p">>
KeyMark == <<Percent, "k">>

\* Every mark of a text, from the left, replaced by what it stands for; what is
\* put in is not searched.
PutAll(t, values) ==
  LET rest[i \in 1..(Len(t) + 1)] ==
        IF i > Len(t) THEN <<>>
        ELSE IF \E m \in DOMAIN values : IsAt(t, i, m)
             THEN values[CHOOSE m \in DOMAIN values : IsAt(t, i, m)] \o rest[i + 2]
             ELSE <<t[i]>> \o rest[i + 1]
  IN  rest[1]

\* replaceAll.
PutIn(t, old, new) == PutAll(t, [m \in {old} |-> new])

\* Variant: the password first.
BuildArgsPasswordFirst(t, user, password, key) ==
  PutIn(PutIn(PutIn(t, PasswordMark, password), UserMark, user), KeyMark, key)

\* buildArgs: one placeholder after the other, each in what the one before left.
BuildArgs(t, user, password, key) ==
  PutIn(PutIn(PutIn(t, UserMark, user), PasswordMark, password), KeyMark, key)

\* All placeholders at once.
Substituted(t, user, password, key) ==
  PutAll(t, [m \in {UserMark, PasswordMark, KeyMark} |->
               CASE m = UserMark -> user [] m = PasswordMark -> password [] m = KeyMark -> key])

Holds(t, m) == \E i \in DOMAIN t : IsAt(t, i, m)
EndsIn(t, s) == t # <<>> /\ Last(t) = s

\* What is put in holds a placeholder that is replaced later, or may form one
\* with the text around it.
Ambiguous(t, user, password) ==
  \/ Holds(user, PasswordMark) \/ Holds(user, KeyMark) \/ Holds(password, KeyMark)
  \/ EndsIn(user, Percent) \/ EndsIn(password, Percent)
  \/ \E i \in DOMAIN t : /\ t[i] = Percent
                         /\ \E m \in {UserMark, PasswordMark} : IsAt(t, i + 1, m)
=============================================================================
