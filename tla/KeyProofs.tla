----------------------------- MODULE KeyProofs -----------------------------
(***************************************************************************)
(* Proofs about KeyResolution: for every configuration and every request,  *)
(* authChain and ResolveKeyConfig find the same key, and it is the one the *)
(* rules promise.                                                          *)
(*                                                                         *)
(* The invariant says of each loop what it has established for the keys it *)
(* has seen: best is the longest candidate among them, and no prefix is    *)
(* among the sorted keys that were passed over.  Both loops so end at the  *)
(* longest candidate, and a key has one prefix of each length.             *)
(***************************************************************************)
EXTENDS KeyResolution, TLAPS

\* What the two functions have to find: the exact key, or the longest
\* candidate other than the default key, or the default.
Candidates == {c \in keys \ {Default} : IsCandidate(c)}
IsChoice(k) ==
  IF key \in keys THEN k = key
  ELSE IF Candidates = {} THEN k = OrDefault
  ELSE k \in Candidates /\ \A c \in Candidates : Len(c) <= Len(k)

\* best is the longest of the candidates that were seen.
BestSoFar ==
  /\ best # <<>> => best \in Candidates
  /\ \A c \in Candidates \ unseen : Len(c) <= Len(best)

\* No candidate was passed over.
NoneSoFar == Candidates \subseteq unseen

Inv ==
  /\ TypeOK
  /\ pc = "auth" => best = <<>>
  /\ pc = "authLoop" => key \notin keys /\ BestSoFar
  /\ pc \in {"resolve", "resolveLoop", "done"} => IsChoice(chain)
  /\ pc = "resolveLoop" => key \notin keys /\ NoneSoFar /\ unseen \subseteq keys \ {Default}
  /\ pc = "done" => IsChoice(config)

-----------------------------------------------------------------------------
\* The tests of the two functions select the same keys.
LEMMA SameTest ==
  ASSUME NEW c \in Key, key \in Key
  PROVE  IsCandidate(c) <=> IsPathPrefix(c, key)
<1> DEFINE d == Append(c, Slash)
<1>1. /\ Len(d) = Len(c) + 1 /\ d[Len(c) + 1] = Slash
      /\ \A i \in 1..Len(c) : d[i] = c[i]
  BY KeyAssumption DEF Key
<1>2. Len(c) \in Nat /\ Len(key) \in Nat
  BY DEF Key
<1>3. ASSUME key = c PROVE IsPathPrefix(c, key)
  BY <1>2, <1>3 DEF IsPathPrefix, HasPrefix
<1>4. ASSUME HasPrefix(key, d) PROVE IsPathPrefix(c, key)
  BY <1>1, <1>2, <1>4 DEF IsPathPrefix, HasPrefix
<1>5. ASSUME IsPathPrefix(c, key), Len(key) = Len(c) PROVE key = c
  BY <1>2, <1>5 DEF IsPathPrefix, HasPrefix, Key
<1>6. ASSUME IsPathPrefix(c, key), Len(key) # Len(c) PROVE HasPrefix(key, d)
  BY <1>1, <1>2, <1>6 DEF IsPathPrefix, HasPrefix
<1> QED BY <1>3, <1>4, <1>5, <1>6 DEF IsCandidate

\* A key has one path prefix of each length.
LEMMA OnePrefix ==
  ASSUME NEW c \in Key, NEW d \in Key, Len(c) = Len(d),
         HasPrefix(key, c), HasPrefix(key, d)
  PROVE  c = d
BY DEF HasPrefix, Key

\* What lies under a configured key in the words of the matching rules is what
\* the two functions test for.
LEMMA SameRule ==
  ASSUME NEW c \in Key, key \in Key, c # key
  PROVE  Under(c) <=> IsCandidate(c)
<1> DEFINE d == Append(c, Slash)
<1>1. /\ Len(d) = Len(c) + 1 /\ d[Len(c) + 1] = Slash
      /\ \A i \in 1..Len(c) : d[i] = c[i]
  BY KeyAssumption DEF Key
<1>2. Len(c) \in Nat /\ Len(key) \in Nat
  BY DEF Key
<1>3. ASSUME NEW i \in 1..Len(key), key[i] = Slash, c = SubSeq(key, 1, i - 1)
      PROVE  HasPrefix(key, d)
  <2>1. Len(c) = i - 1 /\ \A j \in 1..(i - 1) : c[j] = key[j]
    BY <1>2, <1>3 DEF Key
  <2> QED BY <1>1, <1>2, <1>3, <2>1 DEF HasPrefix
<1>4. ASSUME HasPrefix(key, d)
      PROVE  Under(c)
  <2>1. Len(c) + 1 \in 1..Len(key) /\ key[Len(c) + 1] = Slash
    BY <1>1, <1>2, <1>4 DEF HasPrefix
  <2>2. \A j \in 1..Len(c) : c[j] = key[j]
    BY <1>1, <1>2, <1>4 DEF HasPrefix
  <2> DEFINE p == SubSeq(key, 1, Len(c))
  <2>3. p \in Key /\ Len(p) = Len(c) /\ \A j \in 1..Len(c) : p[j] = key[j]
    BY <1>2, <2>1 DEF Key
  <2>4. c = p
    BY <2>2, <2>3 DEF Key
  <2> QED BY <1>2, <2>1, <2>4 DEF Under
<1> QED BY <1>3, <1>4 DEF Under, IsCandidate

\* The keys of a configuration are keys and not empty.
LEMMA KeysAreKeys ==
  ASSUME TypeOK
  PROVE  key \in Key /\ keys \subseteq Key \ {<<>>} /\ NoKey \notin Key
BY KeyAssumption DEF TypeOK

\* A configuration leaves one choice for a request.
LEMMA OneChoice ==
  ASSUME TypeOK, NEW a, NEW b, IsChoice(a), IsChoice(b)
  PROVE  a = b
<1>1. CASE key \in keys \/ Candidates = {}
  BY <1>1 DEF IsChoice
<1>2. CASE key \notin keys /\ Candidates # {}
  <2>1. a \in Candidates /\ b \in Candidates
    BY <1>2 DEF IsChoice
  <2>2. a \in Key /\ b \in Key /\ key \in Key
    BY <2>1, KeysAreKeys DEF Candidates
  <2>3. Len(a) = Len(b)
    BY <1>2, <2>1, <2>2 DEF IsChoice, Key
  <2>4. HasPrefix(key, a) /\ HasPrefix(key, b)
    BY <2>1, <2>2, SameTest DEF Candidates, IsPathPrefix
  <2> QED BY <2>2, <2>3, <2>4, OnePrefix
<1> QED BY <1>1, <1>2

-----------------------------------------------------------------------------
\* The definitions that speak only of the key and the configuration.
LEMMA SameRequest ==
  ASSUME keys' = keys, key' = key
  PROVE  /\ Candidates' = Candidates /\ OrDefault' = OrDefault
         /\ \A k : IsChoice(k)' <=> IsChoice(k)
BY DEF Candidates, IsCandidate, HasPrefix, OrDefault, IsChoice

\* The exact match of authChain.
LEMMA AuthExactInv == Inv /\ AuthExact => Inv'
<1> SUFFICES ASSUME Inv, AuthExact PROVE Inv'
  OBVIOUS
<1>1. Candidates' = Candidates
  BY SameRequest DEF AuthExact
<1>2. TypeOK'
  BY DEF Inv, TypeOK, AuthExact
<1>3. CASE key \in keys
  BY <1>2, <1>3 DEF Inv, AuthExact, IsChoice
<1>4. CASE key \notin keys
  <2>1. Candidates \subseteq keys /\ best' = <<>>
    BY DEF Inv, AuthExact, Candidates
  <2>2. BestSoFar'
    BY <1>1, <1>4, <2>1 DEF AuthExact, BestSoFar
  <2> QED BY <1>2, <1>4, <2>2 DEF Inv, AuthExact
<1> QED BY <1>3, <1>4

\* One candidate of the loop of authChain: best stays the longest so far.
LEMMA AuthLoopInv == Inv /\ AuthLoop => Inv'
<1> SUFFICES ASSUME Inv, AuthLoop PROVE Inv'
  OBVIOUS
<1>1. Candidates' = Candidates
  BY SameRequest DEF AuthLoop
<1>2. PICK c \in unseen :
        /\ unseen' = unseen \ {c}
        /\ best' = IF ~IsDefault(c) /\ IsCandidate(c) /\ Longer(c) THEN c ELSE best
  BY DEF AuthLoop
<1>3. c \in keys /\ keys \subseteq Key /\ best \in Key
  <2>1. <<>> \in Key
    BY DEF Key
  <2>2. TypeOK /\ keys \subseteq Key
    BY KeysAreKeys DEF Inv
  <2> QED BY <2>1, <2>2 DEF TypeOK
<1>4. (c \in Candidates) <=> ~IsDefault(c) /\ IsCandidate(c)
  BY <1>3 DEF Candidates, IsDefault
<1>5. TypeOK'
  BY <1>2, <1>3 DEF Inv, TypeOK, AuthLoop, IsDefault
<1>6. best' # <<>> => best' \in Candidates
  BY <1>2, <1>4 DEF Inv, AuthLoop, BestSoFar
<1>7. ASSUME NEW d \in Candidates \ unseen' PROVE Len(d) <= Len(best')
  <2>1. d \in Key /\ Len(d) \in Nat /\ Len(c) \in Nat /\ Len(best) \in Nat
    BY <1>3 DEF Candidates, Key
  <2>2. CASE d = c
    BY <1>2, <1>4, <2>1, <2>2 DEF Longer
  <2>3. CASE d # c
    <3>1. d \in Candidates \ unseen
      BY <1>2, <1>7, <2>3
    <3>2. Len(d) <= Len(best)
      BY <3>1 DEF Inv, AuthLoop, BestSoFar
    <3> QED BY <1>2, <2>1, <3>2 DEF Longer
  <2> QED BY <2>2, <2>3
<1>8. BestSoFar'
  BY <1>1, <1>6, <1>7 DEF BestSoFar
<1> QED BY <1>5, <1>8 DEF Inv, AuthLoop

\* What authChain returns behind its loop is the choice.
LEMMA AuthEndInv == Inv /\ AuthEnd => Inv'
<1> SUFFICES ASSUME Inv, AuthEnd PROVE Inv'
  OBVIOUS
<1>1. /\ Candidates' = Candidates /\ OrDefault' = OrDefault
      /\ IsChoice(chain') => IsChoice(chain)'
  BY SameRequest DEF AuthEnd, IsChoice
<1>2. best # <<>> => best \in Candidates
  BY DEF Inv, AuthEnd, BestSoFar
<1>3. \A c \in Candidates : Len(c) <= Len(best)
  BY DEF Inv, AuthEnd, BestSoFar
<1>4. TypeOK'
  BY <1>2 DEF Inv, TypeOK, AuthEnd, OrDefault, Candidates
<1>5. best = <<>> => Candidates = {}
  <2> SUFFICES ASSUME best = <<>>, NEW c \in Candidates PROVE FALSE
    OBVIOUS
  <2>1. c \in Key /\ c # <<>>
    BY KeysAreKeys DEF Inv, Candidates
  <2>2. Len(c) <= 0
    BY <1>3
  <2> QED BY <2>1, <2>2 DEF Key
<1>6. IsChoice(chain')
  BY <1>2, <1>3, <1>5 DEF Inv, AuthEnd, IsChoice
<1> QED BY <1>1, <1>4, <1>6 DEF Inv, AuthEnd

\* The exact match of ResolveKeyConfig.
LEMMA ResolveExactInv == Inv /\ ResolveExact => Inv'
<1> SUFFICES ASSUME Inv, ResolveExact PROVE Inv'
  OBVIOUS
<1>1. /\ Candidates' = Candidates
      /\ IsChoice(chain) => IsChoice(chain)'
  BY SameRequest DEF ResolveExact, IsChoice
<1>2. TypeOK'
  BY DEF Inv, TypeOK, ResolveExact
<1>3. IsChoice(chain)'
  BY <1>1 DEF Inv, ResolveExact
<1>4. CASE key \in keys
  BY <1>2, <1>3, <1>4 DEF Inv, ResolveExact, IsChoice
<1>5. CASE key \notin keys
  BY <1>1, <1>2, <1>3, <1>5 DEF Inv, ResolveExact, NoneSoFar, Candidates
<1> QED BY <1>4, <1>5

\* The first path prefix in the sorted list is the longest one.
LEMMA ResolveLoopInv == Inv /\ ResolveLoop => Inv'
<1> SUFFICES ASSUME Inv, ResolveLoop PROVE Inv'
  OBVIOUS
<1>1. /\ Candidates' = Candidates
      /\ IsChoice(chain) => IsChoice(chain)'
      /\ IsChoice(config') => IsChoice(config)'
  BY SameRequest DEF ResolveLoop, IsChoice
<1>2. PICK c \in unseen :
        /\ \A d \in unseen : Len(d) <= Len(c)
        /\ unseen' = unseen \ {c}
        /\ IF IsPathPrefix(c, key) THEN pc' = "done" /\ config' = c
                                   ELSE UNCHANGED <<pc, config>>
  BY DEF ResolveLoop
<1>3. c \in keys \ {Default} /\ c \in Key /\ key \in Key
  BY KeysAreKeys DEF Inv, ResolveLoop
<1>4. TypeOK'
  BY <1>2, <1>3 DEF Inv, TypeOK, ResolveLoop
<1>5. IsChoice(chain)'
  BY <1>1 DEF Inv, ResolveLoop
<1>6. CASE IsPathPrefix(c, key)
  <2>1. c \in Candidates
    BY <1>3, <1>6, SameTest DEF Candidates
  <2>2. IsChoice(c)
    BY <1>2, <2>1 DEF Inv, ResolveLoop, NoneSoFar, IsChoice
  <2> QED BY <1>1, <1>2, <1>4, <1>5, <1>6, <2>2 DEF Inv, ResolveLoop
<1>7. CASE ~IsPathPrefix(c, key)
  <2>1. c \notin Candidates
    BY <1>3, <1>7, SameTest DEF Candidates
  <2>2. NoneSoFar'
    BY <1>1, <1>2, <2>1 DEF Inv, ResolveLoop, NoneSoFar
  <2> QED BY <1>2, <1>4, <1>5, <1>7, <2>2 DEF Inv, ResolveLoop
<1> QED BY <1>6, <1>7

\* No candidate was a path prefix: the default key is the choice.
LEMMA ResolveEndInv == Inv /\ ResolveEnd => Inv'
<1> SUFFICES ASSUME Inv, ResolveEnd PROVE Inv'
  OBVIOUS
<1>1. /\ IsChoice(chain) => IsChoice(chain)'
      /\ IsChoice(config') => IsChoice(config)'
  BY SameRequest DEF ResolveEnd, IsChoice
<1>2. TypeOK'
  BY DEF Inv, TypeOK, ResolveEnd, OrDefault
<1>3. IsChoice(config')
  BY DEF Inv, ResolveEnd, NoneSoFar, IsChoice
<1> QED BY <1>1, <1>2, <1>3 DEF Inv, ResolveEnd

-----------------------------------------------------------------------------
\* The invariant of the two loops of authChain and ResolveKeyConfig.
THEOREM Invariance == Spec => []Inv
<1>1. Init => Inv
  BY KeyAssumption DEF Init, Inv, TypeOK
<1>2. Inv /\ [Next]_vars => Inv'
  <2> SUFFICES ASSUME Inv, [Next]_vars PROVE Inv'
    OBVIOUS
  <2>1. CASE UNCHANGED vars
    BY <2>1 DEF vars, Inv, TypeOK, BestSoFar, NoneSoFar, Candidates, IsCandidate,
                HasPrefix, IsChoice, OrDefault
  <2>2. CASE Done
    BY <2>2 DEF Done, vars, Inv, TypeOK, BestSoFar, NoneSoFar, Candidates,
                IsCandidate, HasPrefix, IsChoice, OrDefault
  <2> QED BY <2>1, <2>2, AuthExactInv, AuthLoopInv, AuthEndInv, ResolveExactInv,
             ResolveLoopInv, ResolveEndInv DEF Next
<1> QED BY <1>1, <1>2, PTL DEF Spec

\* The type invariant, from it.
THEOREM TypeCorrect == Spec => []TypeOK
<1>1. Inv => TypeOK
  BY DEF Inv
<1> QED BY <1>1, Invariance, PTL

\* authChain and ResolveKeyConfig agree for every configuration without an
\* empty key, every request and every order of the map.
THEOREM PoliciesAgree == Spec => []SamePolicy
<1>1. Inv => SamePolicy
  BY OneChoice DEF Inv, SamePolicy
<1> QED BY <1>1, Invariance, PTL

\* The key that is found is the one the comment of ResolveKeyConfig promises:
\* the exact key, else the longest one above it, else the default.
THEOREM RulesFollowed == Spec => []FollowsRules
<1>1. Inv => FollowsRules
  <2> SUFFICES ASSUME Inv, pc = "done", config # key PROVE
        /\ key \notin keys
        /\ \/ config \in keys \ {Default} /\ Under(config)
           \/ config = OrDefault
        /\ \A c \in keys \ {Default} :
             Under(c) => config \in keys \ {Default} /\ Len(c) <= Len(config)
    BY DEF FollowsRules
  <2>1. key \notin keys /\ IsChoice(config)
    BY DEF Inv, IsChoice
  <2>2. \A c \in keys \ {Default} : Under(c) <=> c \in Candidates
    BY <2>1, SameRule, KeysAreKeys DEF Inv, Candidates
  <2>3. Candidates \subseteq keys \ {Default}
    BY DEF Candidates
  <2> QED BY <2>1, <2>2, <2>3 DEF IsChoice
<1> QED BY <1>1, Invariance, PTL
=============================================================================
