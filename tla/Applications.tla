---------------------------- MODULE Applications ----------------------------
(***************************************************************************)
(* Applications, their environments and their client tokens:               *)
(* internal/service/applications.go over the tables applications and       *)
(* environments (internal/repository/sqlite_entities.go), and the check of *)
(* a client's token before it is given a configuration.                    *)
(*                                                                         *)
(* As in Releases a request is a small program of queries, each atomic, and *)
(* the queries of concurrent requests interleave.  Rows are never deleted  *)
(* and no code sets a status other than active, so a row of applications   *)
(* is its token's hash and the guards on the status never refuse.          *)
(***************************************************************************)
EXTENDS Naturals, Sequences

CONSTANTS
  Slug,      \* application identifiers
  Code,      \* environment codes
  Req,       \* goroutines serving requests, each one request at a time
  MaxTokens  \* bound on the tokens ever generated

ASSUME ConstantsAssumption == Slug # {} /\ Code # {} /\ MaxTokens \in Nat

VARIABLES
  apps,      \* apps[s]: access_token_hash of the row with slug s, if there is one
  envs,      \* the pairs <<application, code>> in the table environments
  audits,    \* audits[s]: audit rows "token.reset" of s
  generated, \* number of tokens GenerateAccessToken has returned so far
  pc,        \* the next query of a request
  call,      \* its parameters
  seen,      \* its local variables
  issued,    \* history: issued[s] are the tokens stored for s, oldest first
  told,      \* history: told[s] are the tokens a caller was given for s
  lost       \* history: stored tokens whose request ended without that answer

db == <<apps, envs, audits>>
history == <<issued, told, lost>>
vars == <<db, generated, pc, call, seen, history>>

Token == 1 .. MaxTokens

\* SHA-256 of 32 random bytes: nobody can use the stored hash as a token.
HashToken(t) == [sha256 |-> t]

\* The code is not used by every operation; token 0 is a missing header.
Call == [op: {"none", "create", "reset", "environment", "app", "config"},
         slug: Slug, code: Code, token: Token \cup {0}]

\* token: the one generated; codes: the environments read.  since and known are
\* history: how many tokens the application had been given, and which
\* environments it had, when the request arrived.
Seen == [token: Token \cup {0}, codes: SUBSET Code, since: Nat, known: SUBSET Code]

PC == {"idle", "get", "write", "list", "environments", "environment", "release",
       "answer"}

TypeOK ==
  /\ DOMAIN apps \subseteq Slug
  /\ \A s \in DOMAIN apps : apps[s] \in {HashToken(t) : t \in Token}
  /\ envs \subseteq (DOMAIN apps) \X Code
  /\ audits \in [Slug -> Nat]
  /\ generated \in 0 .. MaxTokens
  /\ pc \in [Req -> PC]
  /\ call \in [Req -> Call]
  /\ seen \in [Req -> Seen]
  /\ issued \in [Slug -> Seq(Token)]
  /\ told \in [Slug -> SUBSET Token]
  /\ lost \subseteq Token

-----------------------------------------------------------------------------
NoCall == [op |-> "none", slug |-> CHOOSE s \in Slug : TRUE,
           code |-> CHOOSE c \in Code : TRUE, token |-> 0]

NothingSeen == [token |-> 0, codes |-> {}, since |-> 0, known |-> {}]

Init ==
  /\ apps = <<>> /\ envs = {} /\ audits = [s \in Slug |-> 0]
  /\ generated = 0
  /\ pc = [p \in Req |-> "idle"]
  /\ call = [p \in Req |-> NoCall]
  /\ seen = [p \in Req |-> NothingSeen]
  /\ issued = [s \in Slug |-> <<>>]
  /\ told = [s \in Slug |-> {}]
  /\ lost = {}

-----------------------------------------------------------------------------
(* Requests.                                                               *)

Codes(s) == {c \in Code : <<s, c>> \in envs}

\* Mutation: every environment is listed.
AllCodes(s) == {c \in Code : \E r \in Slug : <<r, c>> \in envs}

\* repository.ListEnvironments: WHERE application_id = ?
ListEnvironments(s) == {c \in Code : <<s, c>> \in envs}

Calls ==
  LET C(op, codes, tokens) == [op: {op}, slug: Slug, code: codes, token: tokens] IN
  C("create", {NoCall.code}, {0}) \cup C("reset", {NoCall.code}, {0})
    \cup C("environment", Code, {0}) \cup C("app", {NoCall.code}, {0})
    \cup C("config", Code, 0 .. generated)

Arrive(p) ==
  /\ pc[p] = "idle"
  /\ \E c \in Calls :
       /\ call' = [call EXCEPT ![p] = c]
       /\ seen' = [seen EXCEPT ![p].since = Len(issued[c.slug]),
                               ![p].known = Codes(c.slug)]
       /\ pc' = [pc EXCEPT ![p] = IF c.op = "create" THEN "write" ELSE "get"]
  /\ UNCHANGED <<db, generated, history>>

At(p, label, op) == pc[p] = label /\ call[p].op = op

Goto(p, label) == pc' = [pc EXCEPT ![p] = label] /\ UNCHANGED call

\* The request is answered, with what seen[p] holds or with an error, and its
\* goroutine is free for another one.
Answer(p) ==
  /\ pc' = [pc EXCEPT ![p] = "idle"]
  /\ call' = [call EXCEPT ![p] = NoCall]
  /\ seen' = [seen EXCEPT ![p] = NothingSeen]

\* CONFLICT, NOT_FOUND or UNAUTHORIZED: nothing has been changed.
Refuse(p) == Answer(p)

Exists(s) == s \in DOMAIN apps

\* repository.GetApplication, the first query of every operation but Create.
Get(p, op, label) ==
  /\ At(p, "get", op)
  /\ \/ ~Exists(call[p].slug) /\ Refuse(p)
     \/ Exists(call[p].slug) /\ Goto(p, label) /\ UNCHANGED seen
  /\ UNCHANGED <<db, generated, history>>

-----------------------------------------------------------------------------
(* Tokens.                                                                 *)

\* GenerateAccessToken never returns a token twice; its hash is stored for s.
Store(p, s, hashes) ==
  LET t == generated + 1 IN
  /\ apps' = hashes
  /\ issued' = [issued EXCEPT ![s] = Append(@, t)]
  /\ seen' = [seen EXCEPT ![p].token = t]
  /\ Goto(p, "answer")
  /\ UNCHANGED <<told, lost>>

Generate == generated < MaxTokens /\ generated' = generated + 1

With(s, hash) == [r \in DOMAIN apps \cup {s} |-> IF r = s THEN hash ELSE apps[r]]

\* Mutation: an upsert, the second creator takes the application over.
NeverTaken(s) == FALSE

\* slug TEXT NOT NULL UNIQUE
Taken(s) == Exists(s)

Create(p) ==
  LET s == call[p].slug IN
  /\ At(p, "write", "create")
  /\ Generate
  /\ \/ Taken(s) /\ Refuse(p) /\ UNCHANGED <<apps, history>>
     \/ ~Taken(s) /\ Store(p, s, With(s, HashToken(generated')))
  /\ UNCHANGED <<envs, audits>>

ResetGet(p) == Get(p, "reset", "write")

\* Mutation: the request that lost the race keeps the other's hash, and its
\* caller is told a token all the same.
FirstResetWins(p, s, hash) ==
  IF Len(issued[s]) > seen[p].since THEN apps ELSE With(s, hash)

\* Mutation: the hash of an empty token is stored.
StoredEmpty(p, s, hash) == With(s, HashToken(0))

\* UPDATE applications SET access_token_hash = ? WHERE id = ?
Update(p, s, hash) == With(s, hash)

\* The transaction of ResetApplicationToken: the row, then the audit row.
Reset(p) ==
  LET s == call[p].slug IN
  /\ At(p, "write", "reset")
  /\ Generate
  /\ Store(p, s, Update(p, s, HashToken(generated')))
  /\ audits' = [audits EXCEPT ![s] = @ + 1]
  /\ UNCHANGED envs

\* Create reads its row back before it answers; the caller gets the plain token,
\* which is stored nowhere.
TellToken(p) ==
  /\ pc[p] = "answer" /\ call[p].op \in {"create", "reset"}
  /\ told' = [told EXCEPT ![call[p].slug] = @ \cup {seen[p].token}]
  /\ Answer(p)
  /\ UNCHANGED <<db, generated, issued, lost>>

-----------------------------------------------------------------------------
(* Environments.                                                           *)

EnvironmentGet(p) == Get(p, "environment", "write")

\* UNIQUE (application_id, code)
CreateEnvironment(p) ==
  LET env == <<call[p].slug, call[p].code>> IN
  /\ At(p, "write", "environment")
  /\ \/ env \in envs /\ Refuse(p) /\ UNCHANGED envs
     \/ env \notin envs /\ envs' = envs \cup {env} /\ Goto(p, "answer") /\ UNCHANGED seen
  /\ UNCHANGED <<apps, audits, generated, history>>

\* getEnvironmentByID, then the answer.
TellEnvironment(p) ==
  /\ At(p, "answer", "environment")
  /\ Answer(p)
  /\ UNCHANGED <<db, generated, history>>

\* The handler getApplication reads the application; ListEnvironments reads it
\* again, then its environments.
AppGet(p) == Get(p, "app", "list")

ListGet(p) ==
  /\ At(p, "list", "app")
  /\ Exists(call[p].slug)
  /\ Goto(p, "environments")
  /\ UNCHANGED <<db, generated, seen, history>>

List(p) ==
  /\ At(p, "environments", "app")
  /\ seen' = [seen EXCEPT ![p].codes = ListEnvironments(call[p].slug)]
  /\ Goto(p, "answer")
  /\ UNCHANGED <<db, generated, history>>

TellApp(p) ==
  /\ At(p, "answer", "app")
  /\ Answer(p)
  /\ UNCHANGED <<db, generated, history>>

-----------------------------------------------------------------------------
(* A client asks for its configuration: Configurations.Current.            *)

\* Mutation: the row is taken from a cache that resets do not reach.
CachedHash(s) == HashToken(issued[s][1])

\* application.AccessTokenHash
StoredHash(s) == apps[s]

Authentic(s, t) == Exists(s) /\ t # 0 /\ StoredHash(s) = HashToken(t)

\* Authenticate: an unknown application is answered like a wrong token.
Authenticate(p) ==
  LET authentic == Authentic(call[p].slug, call[p].token) IN
  /\ At(p, "get", "config")
  /\ \/ ~authentic /\ Refuse(p)
     \/ authentic /\ Goto(p, "environment") /\ UNCHANGED seen
  /\ UNCHANGED <<db, generated, history>>

GetEnvironment(p) ==
  LET found == <<call[p].slug, call[p].code>> \in envs IN
  /\ At(p, "environment", "config")
  /\ \/ ~found /\ Refuse(p)
     \/ found /\ Goto(p, "release") /\ UNCHANGED seen
  /\ UNCHANGED <<db, generated, history>>

\* What GetCurrentRelease finds is the matter of Releases and Notification.
GetRelease(p) ==
  /\ At(p, "release", "config")
  /\ Answer(p)
  /\ UNCHANGED <<db, generated, history>>

-----------------------------------------------------------------------------
\* A query fails, its context is cancelled, the input is refused, or the answer
\* does not reach the caller.  What was committed stays.
Fail(p) ==
  /\ pc[p] # "idle"
  /\ lost' = lost \cup ({seen[p].token} \ {0})
  /\ Refuse(p)
  /\ UNCHANGED <<db, generated, issued, told>>

\* The process dies and is started again on the same file.
Crash ==
  /\ \E p \in Req : pc[p] # "idle"
  /\ lost' = lost \cup ({seen[p].token : p \in Req} \ {0})
  /\ pc' = [p \in Req |-> "idle"]
  /\ call' = [p \in Req |-> NoCall]
  /\ seen' = [p \in Req |-> NothingSeen]
  /\ UNCHANGED <<db, generated, issued, told>>

Step(p) ==
  \/ Create(p) \/ ResetGet(p) \/ Reset(p) \/ TellToken(p)
  \/ EnvironmentGet(p) \/ CreateEnvironment(p) \/ TellEnvironment(p)
  \/ AppGet(p) \/ ListGet(p) \/ List(p) \/ TellApp(p)
  \/ Authenticate(p) \/ GetEnvironment(p) \/ GetRelease(p)

Next == Crash \/ \E p \in Req : Arrive(p) \/ Step(p) \/ Fail(p)

Spec == Init /\ [][Next]_vars

-----------------------------------------------------------------------------
(* Properties.                                                             *)

Holds(p, s) == pc[p] = "answer" /\ call[p].slug = s

\* However creations and resets race and fail: an application is known by the
\* token stored last, and each token ever stored was told to the caller of its
\* request, is about to be, or was lost with that request.  Nobody is told a
\* token that was not stored, so of two operators who reset the token at once
\* the one whose transaction came second has the one that works.
TokensAccounted ==
  \A s \in Slug :
    LET tokens == {issued[s][n] : n \in DOMAIN issued[s]} IN
    /\ Exists(s) <=> issued[s] # <<>>
    /\ Exists(s) => /\ apps[s] = HashToken(issued[s][Len(issued[s])])
                    /\ audits[s] = Len(issued[s]) - 1
    /\ told[s] \subseteq tokens
    /\ tokens \subseteq
         told[s] \cup lost \cup {seen[p].token : p \in {q \in Req : Holds(q, s)}}

\* A client that has passed did so with a token that was the application's at
\* some moment since its request arrived: once a reset is answered, no request
\* that comes later passes with the token it replaced.
NoDeadTokenPasses ==
  \A p \in Req : pc[p] \in {"environment", "release"} =>
    LET s == call[p].slug IN
    \E n \in DOMAIN issued[s] : n >= seen[p].since /\ issued[s][n] = call[p].token

\* A list of environments, read after two reads of the application, contains
\* all that existed when the request arrived, and only those of its application.
ListsAreCurrent ==
  \A p \in Req : At(p, "answer", "app") =>
    seen[p].known \subseteq seen[p].codes /\ seen[p].codes \subseteq Codes(call[p].slug)
=============================================================================
