-------------------------------- MODULE Auth --------------------------------
(***************************************************************************)
(* Authentication (internal/auth): the chain of providers that main builds *)
(* for a key at startup (cmd/backupgate/main.go), and one request that is  *)
(* authenticated by it, with a password (HTTP) or with a signature (S3).   *)
(* An external provider runs a program under a timeout: the program may    *)
(* hang, a process it started may keep its output open, its answer may     *)
(* come late, and the client may go away meanwhile.                        *)
(*                                                                         *)
(* Requests share nothing here but the chain, which no one changes after   *)
(* startup, so one request stands for all.  A right signature is the       *)
(* knowledge of the secret.                                                *)
(***************************************************************************)
EXTENDS Integers, Templates

CONSTANTS
  Key,        \* the key of the request, as a text
  Args,       \* the arguments of the external programs, templates
  Cases       \* the configurations, environments and requests to begin with

Text == Seq(STRING)
Credential == [user : Text, secret : Text]

\* An entry of KeyConfig.Auth.  It loads if its file can be read and parsed and
\* its timeout is a duration; a timeout of 0 or less is none.
Provider == [type : {"inline", "file", "htpasswd", "external"},
             creds : Seq(Credential), timeout : Int, loads : BOOLEAN]

\* A case has the entries of a key, an environment and a request.
ASSUME AuthAssumption ==
  /\ Key \in Text /\ Args \subseteq Text
  /\ \A c \in Cases :
       /\ c.providers \in Seq(Provider)
       /\ \A n \in DOMAIN c.env : n \in Text /\ c.env[n] \in Text
       /\ c.request \in [protocol : {"http", "s3"}, user : Text, password : Text]

VARIABLES
  given,     \* the case
  main,      \* buildProviders: "building", then "serving" or "exited"
  entries,   \* the credentials of the provider that is being built
  chain,     \* Chain.providers
  pc,        \* where the request stands
  turn,      \* the provider Chain.Authenticate tries
  gone,      \* the client went away: the context of the request ended
  program,   \* the external program
  output,    \* some process holds the output of the program open
  elapsed,   \* time since the program was started
  args       \* what each argument of it was made to

startup == <<given, main, entries, chain>>
command == <<program, output, elapsed, args>>
vars == <<given, main, entries, chain, pc, turn, gone, program, output, elapsed, args>>

Providers == given.providers
User == given.request.user
Password == given.request.password
NextEntries(n) == IF n \in DOMAIN Providers THEN Providers[n].creds ELSE <<>>

TypeOK ==
  /\ given \in Cases
  /\ main \in {"building", "serving", "exited"}
  /\ chain \in Seq(Provider) /\ Len(chain) <= Len(Providers)
  /\ pc \in {"new", "try", "command", "granted", "refused"}
  /\ turn \in 1..(Len(Providers) + 1)
  /\ gone \in BOOLEAN
  /\ program \in {"none", "running", "succeeded", "failed", "killed"}
  /\ output \in BOOLEAN
  /\ elapsed \in Nat

Init ==
  /\ given \in Cases
  /\ main = "building"
  /\ entries = NextEntries(1)
  /\ chain = <<>>
  /\ pc = "new"
  /\ turn = 1
  /\ gone = FALSE
  /\ program = "none" /\ output = FALSE /\ elapsed = 0 /\ args = <<>>

-----------------------------------------------------------------------------
(* Startup: buildProviders                                                  *)

Building == main = "building" /\ Len(chain) < Len(Providers)
Entry == Providers[Len(chain) + 1]

\* The credentials of an inline provider that still hold an expression.
Raw == {j \in DOMAIN entries :
          Expandable(entries[j].user) \/ Expandable(entries[j].secret)}

\* NewInlineProvider: one turn of the loop of resolveExpression, on the first
\* field that is not resolved yet.
ResolveExpression ==
  /\ Building /\ Entry.type = "inline" /\ Raw # {}
  /\ LET j == Min(Raw)
     IN  entries' =
           IF Expandable(entries[j].user)
           THEN [entries EXCEPT ![j].user = ExpandOnce(given.env, @)]
           ELSE [entries EXCEPT ![j].secret = ExpandOnce(given.env, @)]
  /\ UNCHANGED <<given, main, chain, pc, turn, gone, command>>

AddProvider ==
  /\ Building /\ Entry.loads
  /\ Entry.type = "inline" => Raw = {}
  /\ chain' = Append(chain, [Entry EXCEPT !.creds = entries])
  /\ entries' = NextEntries(Len(chain) + 2)
  /\ UNCHANGED <<given, main, pc, turn, gone, command>>

\* An unreadable file or an unparsable timeout ends the process.
ProviderFails ==
  /\ Building /\ ~Entry.loads
  /\ main' = "exited"
  /\ UNCHANGED <<given, entries, chain, pc, turn, gone, command>>

Serve ==
  /\ main = "building" /\ Len(chain) = Len(Providers)
  /\ main' = "serving"
  /\ UNCHANGED <<given, entries, chain, pc, turn, gone, command>>

-----------------------------------------------------------------------------
(* The providers                                                            *)

EntriesOf(p, user) == {j \in DOMAIN p.creds : p.creds[j].user = user}

\* Inline and file providers compare every entry.
Listed(p, user, password) ==
  \E j \in EntriesOf(p, user) : p.creds[j].secret = password

\* A later line of an htpasswd file replaces an earlier one of the same user.
\* That a password matches a hash is an equality here.
Verified(p, user, password) ==
  LET own == EntriesOf(p, user)
  IN  own # {} /\ p.creds[Max(own)].secret = password

Accepts(p, user, password) ==
  \/ p.type \in {"inline", "file"} /\ Listed(p, user, password)
  \/ p.type = "htpasswd" /\ Verified(p, user, password)

\* Variant: htpasswd files expose what stands in them, too.
ExposesAnyFile(p, user) == p.type # "external" /\ EntriesOf(p, user) # {}

\* SecretProvider: htpasswd files and programs expose no secret.
Exposes(p, user) == p.type \in {"inline", "file"} /\ EntriesOf(p, user) # {}

Exposing == {i \in DOMAIN chain : Exposes(chain[i], User)}

\* Chain.LookupSecret: the first entry of the first provider that has one.
SecretOf(p) == p.creds[Min(EntriesOf(p, User))].secret
LookupSecret == SecretOf(chain[Min(Exposing)])

-----------------------------------------------------------------------------
(* The request                                                              *)

Verdict(v) == pc' = v /\ UNCHANGED turn

\* Variant: an error of a provider is returned at once.
NextProviderNone == Verdict("refused")

NextProvider == turn' = turn + 1 /\ pc' = "try"

\* AwsRequest.Authenticate: the client signed with the secret of the user.
CheckSignature ==
  /\ main = "serving" /\ pc = "new" /\ given.request.protocol = "s3"
  /\ Verdict(IF Exposing # {} /\ LookupSecret = Password THEN "granted" ELSE "refused")
  /\ UNCHANGED <<startup, gone, command>>

Authenticate ==
  /\ main = "serving" /\ pc = "new" /\ given.request.protocol = "http"
  /\ pc' = "try" /\ UNCHANGED turn
  /\ UNCHANGED <<startup, gone, command>>

Current == chain[turn]

TryLocal ==
  /\ pc = "try" /\ turn \in DOMAIN chain /\ Current.type # "external"
  /\ IF Accepts(Current, User, Password) THEN Verdict("granted") ELSE NextProvider
  /\ UNCHANGED <<startup, gone, command>>

Exhausted ==
  /\ pc = "try" /\ turn > Len(chain)
  /\ Verdict("refused")
  /\ UNCHANGED <<startup, gone, command>>

StartProgram ==
  /\ pc = "try" /\ turn \in DOMAIN chain /\ Current.type = "external"
  /\ \/ /\ ~gone
        /\ pc' = "command" /\ UNCHANGED turn
        /\ program' = "running" /\ output' = TRUE /\ elapsed' = 0
        /\ args' = [t \in Args |-> BuildArgs(t, User, Password, Key)]
     \/ NextProvider /\ UNCHANGED command   \* it cannot be started
  /\ UNCHANGED <<startup, gone>>

\* The context of the command: the one of the request, and the timeout.
TimedOut == Current.timeout > 0 /\ elapsed >= Current.timeout
ContextEnded == gone \/ TimedOut

\* Variant: the program is left to itself.
NeverKilled == FALSE

Killed == ContextEnded

KillProgram ==
  /\ pc = "command" /\ program = "running" /\ Killed
  /\ program' = "killed" /\ output' \in BOOLEAN
  /\ UNCHANGED <<startup, pc, turn, gone, elapsed, args>>

Succeeded == program = "succeeded" /\ ~ContextEnded

\* CombinedOutput returns when the program has ended and its output is closed.
ProgramReturns ==
  /\ pc = "command" /\ program # "running" /\ ~output
  /\ IF Succeeded THEN Verdict("granted") ELSE NextProvider
  /\ program' = "none"
  /\ UNCHANGED <<startup, gone, output, elapsed, args>>

-----------------------------------------------------------------------------
(* The program, the clock and the client                                    *)

\* The program ends; a process it started may keep the output open.
ProgramExits ==
  /\ pc = "command" /\ program = "running"
  /\ program' \in {"succeeded", "failed"} /\ output' \in BOOLEAN
  /\ UNCHANGED <<startup, pc, turn, gone, elapsed, args>>

OutputCloses ==
  /\ pc = "command" /\ program # "running" /\ output
  /\ output' = FALSE
  /\ UNCHANGED <<startup, pc, turn, gone, program, elapsed, args>>

Tick ==
  /\ pc = "command" /\ elapsed < Current.timeout
  /\ elapsed' = elapsed + 1
  /\ UNCHANGED <<startup, pc, turn, gone, program, output, args>>

Disconnect ==
  /\ ~gone /\ main = "serving" /\ pc \notin {"granted", "refused"}
  /\ gone' = TRUE
  /\ UNCHANGED <<startup, pc, turn, command>>

Finished ==
  (main = "exited" \/ pc \in {"granted", "refused"}) /\ UNCHANGED vars

Startup == ResolveExpression \/ AddProvider \/ ProviderFails \/ Serve
Request == CheckSignature \/ Authenticate \/ TryLocal \/ Exhausted \/ StartProgram
           \/ KillProgram \/ ProgramReturns

Next == Startup \/ Request \/ ProgramExits \/ OutputCloses \/ Tick \/ Disconnect \/ Finished

Spec == Init /\ [][Next]_vars

\* The code goes on and time passes.  A program need not end by itself, and a
\* process it started may keep its output open for ever.
FairSpec == Spec /\ WF_vars(Startup) /\ WF_vars(Request) /\ WF_vars(Tick)

-----------------------------------------------------------------------------
(* Properties.                                                              *)

\* A right password of an inline, file or htpasswd provider is enough, whatever
\* the providers before it did: a program that fails, hangs until its timeout or
\* cannot be started does not end the chain, nor does a client that leaves.
LocalCredentialSuffices ==
  given.request.protocol = "http" /\ pc = "refused" =>
    \A i \in DOMAIN chain : ~Accepts(chain[i], User, Password)

\* A secret that verifies a signature is a password the same chain accepts: the
\* two protocols of a key let the same credentials in.
SignatureMeansPassword ==
  given.request.protocol = "s3" /\ pc = "granted" =>
    \E i \in DOMAIN chain : Accepts(chain[i], User, Password)

\* The program is given the user, the password and the key where its arguments
\* name them, though one placeholder is replaced after the other: unless a
\* credential itself holds a placeholder, or forms one with what is beside it.
ArgsNameRequest ==
  pc = "command" =>
    \A t \in Args : ~Ambiguous(t, User, Password) =>
      args[t] = Substituted(t, User, Password, Key)

\* No value of the environment can begin an expression.
PlainEnv == \A n \in DOMAIN given.env : Dollar \notin ToSet(given.env[n])

\* With such values the loop over a credential ends with every expression of it
\* replaced once, however many there are and whatever closing marks and halves
\* of marks stand around them; dollar signs that begin none could form one.
ResolvedOnce ==
  PlainEnv =>
    \A i \in DOMAIN chain : Providers[i].type = "inline" =>
      \A j \in DOMAIN Providers[i].creds :
        LET raw == Providers[i].creds[j]
        IN  /\ OnlyMarks(raw.user) => chain[i].creds[j].user = Expanded(given.env, raw.user)
            /\ OnlyMarks(raw.secret) =>
                 chain[i].creds[j].secret = Expanded(given.env, raw.secret)

\* With such values startup comes to an end, also where expressions form at
\* seams, and with positive timeouts every request gets a verdict, even if its
\* program never ends - or waits for the output of a program that has ended,
\* held by a process it left behind: the timeout does not help against that.
Bounded == \A i \in DOMAIN Providers :
  Providers[i].type = "external" => Providers[i].timeout > 0
WaitsForOutput == pc = "command" /\ program # "running" /\ output
VerdictComes ==
  PlainEnv /\ Bounded =>
    <>[](main = "exited" \/ pc \in {"granted", "refused"} \/ WaitsForOutput)
=============================================================================
