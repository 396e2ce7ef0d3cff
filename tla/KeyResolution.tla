--------------------------- MODULE KeyResolution ---------------------------
(***************************************************************************)
(* Which configured key a request belongs to.  The program decides it      *)
(* twice: Handler.authChain (internal/api/handler.go) finds the            *)
(* authentication chain by a loop over a map, in any order, and            *)
(* Config.ResolveKeyConfig (internal/config/config.go) finds the buffering,*)
(* verification and rotation policy by a loop over the keys sorted by      *)
(* length.  A key is a sequence of characters.                             *)
(***************************************************************************)
EXTENDS Naturals, Sequences

CONSTANTS
  Char, Slash,
  Default,     \* the key "default"
  Configured,  \* the sets of keys a configuration may name
  Requested,   \* the keys of the requests
  NoKey        \* nothing was found

Key == Seq(Char)

\* A configuration with an empty key, which authChain never selects by prefix,
\* is left out.
ASSUME KeyAssumption ==
  /\ Slash \in Char
  /\ Default \in Key
  /\ Configured \subseteq SUBSET (Key \ {<<>>})
  /\ Requested \subseteq Key
  /\ NoKey \notin Key

VARIABLES
  keys,     \* the configured keys
  key,      \* the key of the request
  pc,
  unseen,   \* the keys the running loop has not looked at
  best,     \* best of authChain
  chain,    \* the key whose authentication chain is used
  config    \* the key whose policy is used

vars == <<keys, key, pc, unseen, best, chain, config>>

TypeOK ==
  /\ keys \in Configured
  /\ key \in Requested
  /\ pc \in {"auth", "authLoop", "resolve", "resolveLoop", "done"}
  /\ unseen \subseteq keys
  /\ best \in {<<>>} \cup (keys \ {Default})
  /\ chain \in keys \cup {NoKey}
  /\ config \in keys \cup {NoKey}

HasPrefix(s, p) == Len(p) <= Len(s) /\ \A i \in 1..Len(p) : s[i] = p[i]

\* Variant: the "/" behind the prefix is not looked for.
IsAnyPrefix(prefix, k) == HasPrefix(k, prefix)

\* isPathPrefix of config.go.
IsPathPrefix(prefix, k) ==
  /\ HasPrefix(k, prefix)
  /\ Len(k) = Len(prefix) \/ k[Len(prefix) + 1] = Slash

\* The test of authChain.
IsCandidate(c) == key = c \/ HasPrefix(key, Append(c, Slash))

OrDefault == IF Default \in keys THEN Default ELSE NoKey

Init ==
  /\ keys \in Configured
  /\ key \in Requested
  /\ pc = "auth"
  /\ unseen = {}
  /\ best = <<>>
  /\ chain = NoKey
  /\ config = NoKey

AuthExact ==
  /\ pc = "auth"
  /\ IF key \in keys
     THEN pc' = "resolve" /\ chain' = key /\ UNCHANGED unseen
     ELSE pc' = "authLoop" /\ unseen' = keys /\ UNCHANGED chain
  /\ UNCHANGED <<keys, key, best, config>>

\* Variant: the last candidate wins.
LastWins(c) == TRUE

Longer(c) == Len(c) > Len(best)
IsDefault(c) == c = Default

AuthLoop ==
  /\ pc = "authLoop"
  /\ \E c \in unseen :
       /\ unseen' = unseen \ {c}
       /\ best' = IF ~IsDefault(c) /\ IsCandidate(c) /\ Longer(c) THEN c ELSE best
  /\ UNCHANGED <<keys, key, pc, chain, config>>

AuthEnd ==
  /\ pc = "authLoop" /\ unseen = {}
  /\ chain' = IF best # <<>> THEN best ELSE OrDefault
  /\ pc' = "resolve"
  /\ UNCHANGED <<keys, key, unseen, best, config>>

ResolveExact ==
  /\ pc = "resolve"
  /\ IF key \in keys
     THEN pc' = "done" /\ config' = key /\ UNCHANGED unseen
     ELSE pc' = "resolveLoop" /\ unseen' = keys \ {Default} /\ UNCHANGED config
  /\ UNCHANGED <<keys, key, best, chain>>

\* sort.Slice by length: the longest candidates come first, those of one
\* length in any order.
ResolveLoop ==
  /\ pc = "resolveLoop"
  /\ \E c \in unseen :
       /\ \A d \in unseen : Len(d) <= Len(c)
       /\ unseen' = unseen \ {c}
       /\ IF IsPathPrefix(c, key)
          THEN pc' = "done" /\ config' = c
          ELSE UNCHANGED <<pc, config>>
  /\ UNCHANGED <<keys, key, best, chain>>

ResolveEnd ==
  /\ pc = "resolveLoop" /\ unseen = {}
  /\ pc' = "done" /\ config' = OrDefault
  /\ UNCHANGED <<keys, key, unseen, best, chain>>

Done == pc = "done" /\ UNCHANGED vars

Next ==
  \/ AuthExact \/ AuthLoop \/ AuthEnd
  \/ ResolveExact \/ ResolveLoop \/ ResolveEnd \/ Done

Spec == Init /\ [][Next]_vars

-----------------------------------------------------------------------------
(* Properties.                                                              *)

\* A request is authenticated by the chain of the very key whose policy it is
\* stored under, whatever order the map is walked in (authChain and
\* ResolveKeyConfig agree).
SamePolicy == pc = "done" => chain = config

\* The matching rules in the comment of ResolveKeyConfig: the exact key, else
\* the longest configured key that ends at a "/" of the request's key, else
\* "default".
Under(c) == \E i \in 1..Len(key) : key[i] = Slash /\ c = SubSeq(key, 1, i - 1)
FollowsRules ==
  pc = "done" =>
    \/ config = key
    \/ /\ key \notin keys
       /\ \/ config \in keys \ {Default} /\ Under(config)
          \/ config = OrDefault
       /\ \A c \in keys \ {Default} :
            Under(c) => config \in keys \ {Default} /\ Len(c) <= Len(config)
=============================================================================
